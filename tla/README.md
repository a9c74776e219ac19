# Verification of the rust_foc motor-control firmware

The firmware runs a brushless motor from an STM32G431: field-oriented current
control in the ADC interrupt, a cooperative executor with sensor, supervision and
shell tasks, a hardware break that turns the gate outputs off on its own, and a
flash page that keeps the calibration. This directory holds TLA+ models of its
concurrent and stateful parts, the TLC runs that check them on small instances,
and TLAPS proofs of the most important results for every value of the constants.

Paths are relative to the repository: `src/` is the firmware crate, `foc/src/` the
hardware-independent library.

## 1. Inventory

### 1.1 Components

| Component | State it keeps | Operations |
|---|---|---|
| Controller ownership, `src/app/controller.rs` | the slot: state, initialized, revision, mailbox (reset, gains) | `init`, `reset`, `set_gains`, `compute` |
| Mode machine, `src/app/control.rs` | `MODE`, `LAST_FAULT`, `OUTPUT_EPOCH`, `CALIBRATION_VALID`, targets and ramped references, `ALIGNMENT`, `CURRENT_WATCH`, clocks | start of five modes, `stop`, `fault`, target changes, `tick`, `commit_output`, calibration edits, `save_nvm`/`load_nvm` |
| Current interrupt, `src/app/foc_isr.rs`, `src/bin/main/irqs.rs` | the captured token on the stack | sample, interlocks, angle, compute, plan, commit; break interrupt |
| PWM driver, `src/driver/pwm.rs` | TIM1 registers: MOE, BIF, compares, preload | `prepare_start`, `apply_plan`, `disable` |
| Sampling planner, `foc/src/sampling.rs` | none | `plan_sampling` |
| Analog, `src/driver/analog.rs` | ADC interrupt enables, offsets, shunt pair, bus sequencer | injected read, `read_bus`, `recalibrate` |
| Tasks, `src/bin/main/tasks.rs` | locals of each task | encoder, analog supervisor, button, shell, LED, debug log |
| Sensor freshness, `foc/src/safety.rs`, `src/app/telemetry.rs` | last sample and its time, progress counters | publish, expire, `ProgressWatch` |
| Alignment supervision, `foc/src/alignment.rs` | start, hold, anchor, last poll | `observe` |
| Calibration journal, `foc/src/nvm.rs`, `src/driver/nvm.rs` | one flash page of 128 slots | `load`, `save` |
| Speed loop, `src/app/speed.rs`, `foc/src/speed.rs` | a controller, the time since the last step | `tick` |
| Reference ramps, `foc/src/slew.rs` | fixed-point position | `step` |
| Speed window, `foc/src/feedback.rs` | previous count and time, sums | `push`, `reset` |
| Watchdog, `foc/src/watchdog.rs`, `src/driver/watchdog.rs` | last seen sequences, last feed | `should_feed`, `supervise` |
| Encoder driver, `src/driver/as5600.rs` | last sample | I2C read |
| Shell, `src/app/shell.rs`, `src/app/shell/helpers.rs` | line buffer, history | commands, line editor |
| Motor mathematics, `foc/src/{pid,current,svm,transforms,angle}.rs` | integrators | floating-point arithmetic |
| Cycle statistics, board setup, host scripts | - | diagnostics, one-time configuration, tooling |

### 1.2 Interaction

Three levels of execution share the state. The **thread** runs the cooperative
tasks: a task keeps the processor until its next `await`. The **ADC interrupt**
preempts the thread, the **break interrupt** preempts both, and the **break
hardware** clears MOE without running any code. Everything shared is touched inside
`cortex_m::interrupt::free`; between two such sections anything may happen. Three
mechanisms hold the parts together:

* the *token* (mode and epoch) taken before a computation and compared when its
  result is committed (`output_token`, `commit_output`);
* the *controller slot* with its mailbox and revision, so that PI arithmetic runs
  with interrupts enabled while a reset can come from any of them;
* *progress counters and time stamps*, by which the supervisor and the watchdog
  notice a part that no longer runs.

### 1.3 What is hard

1. A handler reads mode, sensors and token and acts on them microseconds later.
2. Trips come from four places in any order; the first cause must stay readable.
3. The hardware break may strike inside the start transaction or inside the commit,
   where its interrupt is masked.
4. A start that fails halfway has already changed references and calibration state.
5. A reset of the PI state arrives while that state is on another stack.
6. Power fails, or a flash operation fails or lies, at any point of a save.
7. Millisecond clocks, epochs, revisions and sequences wrap.
8. The supervisor polls late, so evidence for an alignment has gaps.
9. Unsigned differences at both ends of the timer's range in the sampling planner.
10. The commit writes four preloaded compares and the conversion routing one register
    at a time while the timer counts, converts and may turn.
11. An encoder transaction is slow, fails, or latches its angle later than its stamp says.
12. Keys, escape sequences and completion meet a full line and a full history ring.

`PROJECT.json` lists each with its source line under `hazards`, together with the
properties that would catch it going wrong.

### 1.4 What makes each component correct

* Controller: one owner, no lost request, no stale result - i.e. it is atomic.
* Mode machine: outputs are driven only by a live mode; closed loop only with a
  calibration; nothing leaks from one run to the next; what is latched tells whether a
  break came first; nobody acts on a look that was overtaken.
* Current interrupt, break, supervisor: each can take the outputs down without the
  other two.
* Alignment: completes only on a gapless hold near one anchor, ends in time.
* Journal: success means it loads; an interrupted append keeps the old record.
* Sampling planner: both currents measurable, line voltages kept, shift minimal.
* Commit: all four compares of a plan or none; a current is decoded as the pair it was
  converted through; a late commit is noticed.
* Freshness, watchdog: nothing expired revives; no feed without every worker.
* Supervisor: silence and a dead interrupt end the drive in bounded time, and not early.
* Ramps, speed window: no overshoot, no stall, no displacement across a gap.
* Calibration: offset and pole count are authorized as a pair; what was saved comes back.
* Line editor: the screen shows the line that Enter runs; the history is what was run.

## 2. Modules

| Module | Models | Uses |
|---|---|---|
| `ControllerSpec` | the atomic controller a caller sees | |
| `Controller` | the two critical sections of `compute`, mailbox, revision | refines `ControllerSpec` |
| `ControllerProofs` | proofs about `Controller` | |
| `Control` | mode machine, tasks, both interrupts, hardware break | |
| `ControlProofs` | proofs about `Control` | |
| `NvmSpec` | a record and a budget of slots | |
| `Nvm` | scan, append, reclaim on a page that fails | refines `NvmSpec` |
| `Calibration` | offset, poles, their qualification, `save_nvm`, `load_nvm`, power cycles | extends `Nvm` |
| `Alignment` | request, ramp, poll, `observe`, on the wrapping clock | |
| `AlignmentProofs` | proofs about `Alignment` | |
| `Sampling` | `plan_sampling` on integers | |
| `PwmCommit` | `apply_plan` and `prepare_start` register by register against TIM1 and the ADC | extends `Sampling` |
| `PwmCommitProofs` | proofs about `Sampling` and `PwmCommit` | |
| `BusSampler` | the VBUS and temperature sequence, its publication, the freshness latch | |
| `Encoder` | the I2C read, the angle track, the speed window, their publication and freshness | |
| `SensorProofs` | proofs about `BusSampler` and `Encoder` | |
| `Slew` | the fixed-point ramp | |
| `Supervision` | the supervisor's clock, command timeout, stall watch and ramps | extends `Slew` |
| `SupervisionProofs` | proofs about `Supervision` and the ramp of `Slew` | |
| `Watchdog` | feed policy, its three parts, the hardware counter | |
| `WatchdogProofs` | proofs about `Watchdog` | |
| `ShellLine` | line buffer, escape sequences, history ring, completion, and a terminal | |
| `CommandProofs` | proofs about `Nvm`, `Calibration` and `ShellLine` | |
| `MC*` | small instances for TLC | |

Definitions named as faulty variants (`AnyRevision`, `RefusedOnce`, ...) belong to
no specification. Each stands beside the definition it distorts and records a bug
the adjacent properties are able to see.

### 2.1 Controller

One action per critical section: `Request` (with `Reset`, `SetGains`), `CheckOut` and
`Reentrant` (the first section of `compute`), and `CheckIn` (the second), in three
forms: the commit accepts, the commit refuses or the revision moved, the commit
trips and the trip resets this same controller from inside. The controlled state T is abstracted to
its gains and one saturating accumulator, enough to tell "reset", "stepped" and
"retuned" states apart. `RevMod` stands for 2^32; the guard of `Request` bounds the
requests that overtake one computation below `RevMod`, because a burst of exactly
2^32 of them is the one case the revision cannot see.

The refinement mapping shows the controller *as requested*: a gain change counts
when it is made, even while it waits in the mailbox, and a copy on a stack counts
for nothing until it is back.

### 2.2 Control

An action is a critical section, or code between two of them that touches nothing
shared. Program counters: `isr.at` follows `on_injected` (sample, interlock, angle,
commit or trip), `task.at` the task that has the thread. Guards encode priority: a
task steps only while no interrupt runs (`TaskMayRun`), the ADC interrupt only while
no break interrupt is due (`IsrMayRun`).

The break appears in two ways. Outside critical sections it is `HwBreak`, followed
by `BrkIsr` before anything else. Inside the start transaction and inside the commit
its interrupt is masked, so it is a parameter of those actions: `strike` says whether
it came before the first look at BIF, between that look and MOE, or after MOE.

Currents and speeds are zero or nonzero. Time is a choice: `BusExpires` and
`EncExpires` may happen whenever, the command timeout is the parameter `silent`.
The stall watch counts polls (`StallPolls`).

Three variables are history, which no code sees. `applied` flips with every committed
plan. `breakFirst` remembers that the break was the first cause since the last stop.
`overtaken` names the computations that have looked and will act later (`Acting`: the
interrupt on its token, the speed loop on its token, the button task on the mode it read)
and were overtaken meanwhile: by another start, stop or trip, by outputs gone off, or by
a sensor of the mode gone bad (`Overtakes`). `Step` is the code, `Next` lets the history
follow it, and `ResultsAreCurrent` forbids an overtaken computation to commit a plan, to
set a current or to start.

`calibrate_offsets` asks for the mode (`CmdRecalibrate`) and `recalibrate` asks again for
outputs before it takes the analog driver (`RecalBegin`); an interrupt's trip fits between.

Simplifications that matter when reading the results: the break input is a pulse
(after a stop it may come again, it is not held); the supervisor's check and the
fault it raises are one step; the panic handler's shutdown is left out; the
interrupt's arithmetic is left out except for its outcomes. `AdcSample` stands for
the whole path up to the first interlock.

### 2.3 Nvm

The page is a function from slots to a record, `Blank` or `Junk`. `save` is cut at
every flash operation: erase, blank check, first doubleword, second doubleword,
readback. Each operation may fail, may report success without its effect, and may be
cut by a power loss; an interrupted erase leaves any mixture of old, junk and blank
slots. `Latest` and `NextFree` are closed forms of the two results of `scan`; the
loop itself is the recursive function `ScanTo`, and `ScanAgrees` says they agree.
`NvmSpec` says what remains after abstraction: a save costs at most slots, and only
a reclaim can lose the record.

### 2.4 Alignment

`NOW_MS` advances only in `tick`, which then ramps and polls in one critical section,
so whatever a poll reads is a parameter of `Tick`: elapsed time, measured currents,
encoder count, and whether the loop serviced a sample with a valid encoder. The
clock wraps at `ClockMod`. History variables hold what a completed alignment should
rest on: `age`, the qualified polls without a gap in `streak` (the recent ones, with
their ages and counts), and whether current flowed in all of them.

### 2.5 Sampling

`PlanSampling` is `plan_sampling` with its two early results, the shift and its
`checked_sub` exits as guards. Phases are 1 to 3 and a pair is a set of phases. The
state machine only chooses inputs and makes one call. The properties do not use the
planner's own bounds: `Valid` is the geometry of the header comment (a low side is on
between `c` and `2 ARR - c`), and `ShiftIsMinimal` quantifies over every shift,
trigger and pair.

### 2.6 BusSampler

`poll_bus` is one critical section and `publish_bus` the next, so `Poll` leaves its
result in `sample` and interrupts may ask (`Snapshot`) before `Publish`. `recalibrate`
keeps the thread from `take` to `replace`, hence one action that is disabled between the
two; its blocking reads of the shunts leave a shunt result in the same data register. If
the ADC does not stop, nothing is reconfigured, and a stop that takes effect later ends
the conversion without a result: that is the state only the timeout can leave.

A conversion result is its channel and its true age, which no code sees. Ages saturate
where no property tells them apart. The conversion hardware is external: a conversion
ends within `ConvMs` or never, with or without overrun. `Snapshot` has the side effect
of `is_fresh`: an expired stamp is dropped by the question.

### 2.7 Watchdog

`Complete` is one completed sample or encoder iteration, `Supervise` the whole of
`should_feed` with its feed. The policy only asks *whether* a sequence moved, so a
sequence moves at most once per millisecond of the model. `Stop` hangs a part for good.
The counter of the hardware and its reset are external. A part that has not stopped meets
its deadline (`WorkMs`, `PollMs`): `Tick` waits for it. Those deadlines stand for the
longest blocking maintenance operation; the module states what must hold between them
and the timeout, `WatchdogAssumption`, and not that the board meets it.

### 2.8 Calibration

`Calibration` extends `Nvm`: the flash steps of a save are those of `Nvm`, and while they
last (`at # "idle"`) the thread does nothing else, because `save` blocks. Interrupts may
still trip, and power may fail between any two flash operations, after which `Boot` is
`load_nvm` on statics with their initial values. The offset command sets the offset, then
awaits the UART, then saves; `owed` is what it still has to do, and the button or the
supervisor may come in between. An offset is one of `Turn` angles: `wrap_2pi` is the
remainder, so negative and large entries are covered. `Bench` and `Openloop`, which ask
for no calibration, are one mode `Open`; `Run` and `Speed` are `Closed`. `qualified` is
history: the pairs that an alignment ended with or the operator entered.

### 2.9 PwmCommit

One tick of TIM1 is one step, so the commit's accesses to `UDIS`, `CNT`, `DIR`, the four
compares, `JSQR` and `JEOS` fall between ticks in every way. The interrupt may start any
number of periods late; only the critical section is bounded (`Stall`, at most half a
period: it is a few dozen instructions with interrupts masked). A conversion carries its
pair, whether it was sound (both low sides settled and on for its whole duration under the
compares that were *active*, routing unchanged under it) and how many valleys ago it was
triggered; no code sees these. The planner is that of `Sampling`, called by `Compute` and
by `Start`. `MotorPwm` programs no repetition counter, and whether the update event comes
at the valley only or at the peak too is left open: the commit holds either way.

`Control` treats the same commit as one atomic step and asks about modes and trips;
`PwmCommit` leaves modes out (`Lose` is any stop or trip) and asks about registers.

### 2.10 Encoder

The rotor moves by itself; the sensor latches its angle somewhere in the ANGLE transaction,
up to `Late` after the stamp that the driver took before it. Time is kept twice, in the
32-bit microseconds of the speed window and the 32-bit milliseconds of the freshness stamp,
each with its own wrap. `track` is the driver's multi-turn angle, `window` the speed window;
true motion and true ages run beside them as history. A failed STATUS or ANGLE transaction
and a missing magnet are `Hold`. `EncoderAssumption` asks for what `config.rs` computes and
no more: half a turn at full speed takes no less than the gap limit. The latch delay is not
part of it, so a rotor at full speed can turn half a turn within a gap that is accepted in
the last `Late` of the limit. `Outrun` marks that one case; a track or a window it happened
to claims nothing about motion until it starts over.

### 2.11 Slew and Supervision

`Slew` is the fixed-point step; `Supervision` runs it. The supervisor runs at most once per
millisecond and at least every `MaxDelay` of them. `NOW_MS` stands still between its runs,
so a command is stamped with the time of the last run, while the stall watch uses the wall
clock: these two clocks and the true ages of the last command and the last completion are
what `TimeoutInTime` and `StallInTime` compare. `smooth` is the ramp as it would be if it
were advanced in every millisecond. Sensor interlocks and start conditions are in `Control`.

### 2.12 ShellLine

One action per kind of key. The bytes `A` and `B` are letters and also the final bytes of
the arrow keys, so a sequence that is broken off shows up as typed text exactly as it does
in the code. The terminal is external: it writes what is echoed and ignores `ESC [ K`, so
only the blanks that `redraw_line` paints erase anything, which is the harsher case. The
terminal's row is wide enough for the line. Commands are not run here. The word lists are
constants. Of them `WordsAssumption` asks what the source's lists satisfy: where more
words match than the array holds (`FOC_SUB` without a prefix), the ones it does hold have
no common beginning, so nothing is completed from an incomplete view.

## 3. Runs

| Run | Question | Distinct states |
|---|---|---|
| `controller` | three agents, all interleavings: ownership, stale commits, refinement of the atomic controller; requests made during a computation are applied | 559,381 |
| `control` | all five modes against supervisor, encoder, both interrupts and the break; nobody acts on an overtaken look; a bad bus sample or a dead interrupt takes the outputs down | 438,704 |
| `control_first_trip` | is a break always reported as `brk`? (no) | counterexample |
| `calibration` | commands, alignments, starts, trips, saves and power cycles over a page that fails, lies and is cut; the journal implements `NvmSpec` | 586,184 |
| `alignment` | when an alignment ends and what a completed one rests on | 94,617 |
| `alignment_zero` | can zero current qualify? (yes) | counterexample |
| `pwm_commit` | commit and start against the running timer: whole plans, sound samples, late commits noticed, plans measurable with the smallest shift | 513,645 |
| `bus_sampler` | hanging, overrunning and stopped conversions, late polls: right channel, recent values, samples come again | 355,884 |
| `encoder` | slow, late and failing transactions, resets, wraps of both clocks: true motion (full speed up to half a turn in the gap limit), true age, speed becomes ready again | 1,053,912 |
| `supervision` | late runs of the supervisor: timeout and stall neither late nor early, ramps as if advanced every millisecond | 1,084,608 |
| `watchdog` | who is needed for a feed, feeds after a stop, no reset of working parts, a stopped part is restarted | 172,100 |
| `shell_line` | every sequence of keys: the screen shows the line, the history what was submitted, completion adds what is common | 300,311 |

`PROJECT.json` names, for every property of a passing run, one faulty variant of a
modelled definition under which TLC finds that property violated.

### 3.1 Bounds, and why they are enough

* **Controller.** Three agents are the three priority levels that can be inside
  `compute`; `Reentrant` needs two. `RevMod = 4` lets the revision wrap within one
  behaviour while three requests overtake one computation. `MaxAcc = 2` tells reset,
  one step and several steps apart. No symmetry: the run checks liveness too.
* **Control.** `EpochMod = 2` is the harshest wrap: with two epochs any token that is
  one start *and* one stop old looks like a current one again. Every property holds even
  so, since under the priorities of this firmware nothing but a trip can come between a
  look and its act, and no start can follow it before the act: the mode has changed then,
  and stays changed. For the same reason no property would notice if
  `commit_output` compared modes only; the epoch guards against schedules that this
  firmware does not have. Comparing neither, not asking for the sensors again, or starting
  from `Fault` is noticed by `ResultsAreCurrent`. `StallPolls = 1` trips on the first silent poll;
  what lies between the first and the last is `Supervision`'s question. `BusFaults` is
  one of three kinds, which are treated alike everywhere; the proofs hold for all of them.
* **Calibration.** Two slots are the fewest in which an append, a torn slot in front of
  a free one, a full page and a reclaim all happen; the proofs cover every number of
  slots. Two offsets and two pole counts make four records: "old", "new" and
  pairs that mix the two. Entries below, in and above the range go through `wrap_2pi`.
* **Alignment.** A hold of 3 ms, a timeout of 6 and a clock of 9: every alignment can
  meet the wrap at every phase. Stalls of 1 to 3 ms straddle the poll gap of 2. Four
  counts per turn with motion limit 1 allow drift, and the way through zero. Commands
  are 0, 1 and a value above the limit; measured currents hit and miss the tolerance on
  either axis.
* **PwmCommit.** A timer of four ticks each way, so that every register access can meet
  every counter value, settling and conversion budgets of one and two ticks, and compares
  that need a shift, another pair, or admit no plan. The commit may take a whole half
  period (`Stall = 4`): one tick more and the board's own deadline, which leaves a budget
  before the peak, would no longer be what is tested. The proofs hold for every timer,
  budget and stall of up to half a period.
* **BusSampler.** A clock of 12 is the smallest the assumption allows for an age limit of
  5, so every sample meets the wrap, and answers fall below, at and above the limit. The
  limit exceeds two conversions with their late polls, as `BUS_FAULT_MS` does; a shorter
  one could restart the sequence forever. `MaxSilence = 5` says that a stamp is asked
  about or replaced before the clock comes round, which is the caller's duty in the
  comment on `is_fresh`. `MaxDelay` is the bound the watchdog puts on the supervisor.
* **Encoder.** Four counts a turn at one count per microsecond and a gap limit of two:
  half a turn takes exactly the limit, as with the shipped motor, so a late latch in an
  accepted gap of one does reach the ambiguous case, next to all those that are
  unambiguous. `Travel = 1` lets the angle cross zero either way, and `MaxUnwrap = 5`
  is the least bound on the multi-turn position that true motion cannot saturate. Both
  clocks wrap, the one of microseconds inside the other. The proofs hold for every
  resolution, speed up to the limit, delay and clock.
* **Supervision.** Ramps of a quarter and three quarters of a unit per millisecond round
  in both directions; timeouts of 2 ms with runs up to 2 ms late put every event on either
  side of every run; the clock of 7 is the smallest that tells the ages apart. The slower
  ramp serves the axis that `Run` and `Speed` both drive.
* **Watchdog.** Clock and sequences wrap within one timeout; every distance between
  interval, deadline and timeout is at its least legal value or one above. The proofs
  remove the bound.
* **ShellLine.** Three characters and a ring of two overflow at once. The words make a
  completion that fits exactly, one that does not fit, an ambiguous one, one whose list
  is longer than the array of matches, and one that takes a space.

Deadlock is checked in every run.

### 3.2 Fairness

* `RequestsApplied` assumes `WF` of `CheckIn`: `compute` is straight-line code, and an
  agent that took the state returns it.
* `BadBusTrips` and `DeadIsrTrips` assume that a pending interrupt is taken (`WF` of
  `BrkIsr`), that the interrupt's handler returns (`WF` of its steps after the sample),
  that a task which has the thread reaches its next await, and that the executor comes
  back to the supervisor (`SF`, since interrupts disable the thread again and again;
  Embassy polls woken tasks in turn, and the supervisor wakes every millisecond).
  Nothing is assumed of the operator, of the encoder, of the sample reaching the ADC
  interrupt, or of the break. If the executor itself stops, these properties are the
  watchdog's, not the supervisor's.
* `Recovers` assumes that time passes, that the supervisor polls and publishes, and that
  a conversion which can end does. Its premise is that the disturbances end at some point:
  recalibrations (an operator who repeats them may starve the sequence, and nothing in
  the code prevents that), overruns, and conversions that hang.
* `SpeedReturns` assumes that time passes and that the encoder task goes on, step by step.
  Its premise is that transactions succeed from some point on, that samples come without
  gaps, and that nobody resets the filter any more.
* `StoppedIsReset` assumes that time passes, the hardware resets when its counter runs
  out, and that parts which have *not* stopped go on: fairness of theirs helps
  nobody, since their work is what could keep the watchdog fed.

## 4. Proofs

All with TLAPS, for every value of the constants that satisfies the named assumption
of the module: `ControllerAssumption`, `ControlAssumption`, `NvmAssumption`,
`CalibrationAssumption`, `AlignmentAssumption`, `SamplingAssumption`,
`PwmCommitAssumption`, `BusAssumption`, `EncoderAssumption`, `SlewAssumption`,
`SupervisionAssumption`, `WatchdogAssumption`, `ShellAssumption`, `WordsAssumption`.

**Controller** (`ControllerProofs`). The inductive invariant is `TypeOK`,
`SingleOwner`, `MailboxIsForOwner` and `OwnersInStep`. The last one is the strengthening:
the revision an owner read lags behind the current one by exactly `since`, modulo
`RevMod`; since `since < RevMod`, equal revisions mean no request. From it follow
`RevisionTellsOvertaken` and the action property `NoStaleCommit`. Theorem `Refinement`
maps each critical section to a step of `ControllerSpec` or a stutter.

**Control** (`ControlProofs`). `IInv` is the types of the code's own variables
(`CodeTypes`), the safety invariants with `BreakPending` (`Safe`), and `Carried`, which
says what a token on the way is worth. The safety invariants need each other: `BreakHolds` survives a
start only because a start requires `Idle`, and `BreakReported` is not inductive by
itself, since between the break and its interrupt `mode` still says all is well.
`BreakPending` says that the interrupt is then due, and while it is due no other
action that could leave the mode is enabled. Lemmas on the transitions (`Fault`,
`Stop`, `Arm`, `FinishAlign`) carry the invariant; each action cites the ones it uses.
`ResultsStayCurrent` needs a second invariant above it, `OvertakenShows`: a computation
that was overtaken finds something to see where it looks again: the mode is `Fault`, or a
break has turned the outputs off and its interrupt is due, or a sensor is bad. `ArmedOnlyByStart` goes
through a summary of what each step does to mode and MOE (`StepIs`): it trips, it ends a
mode, it starts one, or it leaves them.

**Sampling** (`PwmCommitProofs`). There is nothing to induct over: `Answered` says the
plan is the planner's answer. The work is in the lemmas. `WindowIsValid`: a nonzero
window satisfies the geometry. `WindowExists` and `ValidBounds` together say that the
three upper bounds of `latest_m` are *precisely* the condition for a window, which is
what the code's comment claims. `LowestIsLowest`: no pair turns on earlier. Hence
`PlanIsSound` and `PlanIsMinimal`, for all timers and budgets.

**PwmCommit** (`PwmCommitProofs`). `CommitInv` adds to the types seven parts. `Places` says
at which steps the outputs are on or off and update events masked; `Written`, which of the four compares have
been written and which still hold the plan before; `Driven`, what the active compares are,
by the step and by whether the valley has passed. From these follows `WholePlans`: preloads
are mixed only while `UDIS` is set or the outputs are off. `Discarded` counts the results
converted before a start that are still to come, `Held` says that the sample in use is of
this period unless the next trigger has struck, in which case `JEOS` is set or a conversion
is under way, `InTime` bounds what the counter can have reached since the first look, and
`Converting` says that a conversion which is sound ends no later than its period. With `PlansAreMeasurable` of the planner they
give `SampleIsSound`, and, as an action property, `CommitIsTimely`. The assumption
that the critical section takes at most half a period (`Stall`) is what keeps the counter
from a second peak after the look: once it has turned twice, `NotTurned` shows nothing.

**BusSampler** (`SensorProofs`). A wrapped age is the true age as long as that is below
`ClockMod`. `BusInv` therefore bounds the age of every stamp the code may still use:
`Sequenced` for the conversions in progress, `Waiting` for the sample that
`publish_bus` has not yet seen, `Stamped` for what is published; a stamp that is not asked
about ages by `silence`. `Converts` says which channel the data register will hold.
Two margins of `BusAssumption` are what these bounds need of the clock: 2^32 ms against
two deadlines and a late poll, and against a deadline, a late poll and the longest silence.

**Encoder** (`SensorProofs`). `EncInv` says two things of each earlier sample. `Followed`
and `Accumulated`: how far the rotor, and the angle a read in progress has already
latched, can be from it, namely speed times age, plus the latch delay; so a sample
that passes the gap check is less than half a turn away, and `raw_delta` is the true
displacement, unless the gap ends within the latch delay of the limit and the rotor used
it (`AcceptedGap`). `MotionsAreTrue` therefore excepts what `Outrun` marks, and
`ClearGapsSuffice` says when there is no exception: if the longest accepted gap and the
latch delay together are less than half a turn at full speed. The multi-turn position of
a track that was not outrun lies within the range that does not saturate. `Accumulated` and `Announced`: the stamp it carries is the microsecond or
millisecond of one instant of the whole clock, from which the clock has not gone round.
Ages that are saturated claim nothing, which is why a missed gap does no harm. The proof
found one assumption too weak: millisecond stamps are floors, so the clock must exceed
deadline and silence by one whole millisecond more than first stated
(`MaxQuiet + EncFaultMs * MsUs <= (MsMod - 1) * MsUs + 1`).

**Watchdog** (`WatchdogProofs`). `IInv` adds three parts to `TypeOK`. `InStep`: a sequence
differs from what the policy remembers by exactly the completions since the last feed,
modulo `SeqMod`, and these are fewer than `SeqMod` because the counter bounds them; and
the policy's elapsed time is the hardware's counter, because both start again at the same
feed and `TimeoutMs < ClockMod`. `InTime`: while all parts work, the counter is at most
the longer of interval and work time plus the time since the last poll. `Consumed`: after
a late feed one stopped worker has nothing left to show. The first gives `FeedNeedsAll`
across every wrap, the second `NoFalseReset`, the third `OneFeedAfterStop`.

**Nvm** (`CommandProofs`). `IInv` is `TypeOK`, `SavedIsLoaded`, `AppendKeepsRecord` and two
strengthenings. `Recorded`: every record on the page was given to a save at some time.
`Underway`: at each flash operation of a save, where its slot stands against the last
record and the first free slot, and what the slots behind it hold. `ProgrammedOnce` and the refinement
of `NvmSpec` follow from it step by step. That a nonempty set of slots has a last one
(`LastExists`) comes from the well-foundedness of strict inclusion on finite sets. The
same lemma replaces induction in `ScansAgree`: the loop of `scan` equals the closed forms
in which everything else is stated, because there is no first slot at which it would not.

**Calibration** (`CommandProofs`). `CalInv` is the `IInv` of the journal with
`CalTypeOK`, `QualifiedTogether` and `Vouched`, which says that what is being saved was
qualified. `JournalStep` shows that every step is a step of the journal or leaves it
alone; hence `CalibrationUsesJournal`, and the theorems about `Nvm` hold while
commands, trips and power cycles come at any time. `SavedIsRestored` is `SavedIsLoaded`
carried through `load_nvm`.

**ShellLine** (`CommandProofs`). `ShellInv` has three parts. `Edited`: the row is the line
and `painted` its length, which is what makes the blanks of `redraw_line` just enough on a
terminal that erases nothing. `Kept`: the ring, read backwards from the next slot, holds
the submitted lines; `SlotMoves` says how reading moves when a line is pushed, over the
wrap. `Walked`: a walk shows the line it has come to. `CompletedForm` is what `Tab` needs:
the completed line is the line, with an addition that fits, and perhaps a space.
`TabAddsCommon` rests on `CommonExtends`, that a longest common prefix of all matches
begins with the prefix they were matched by. That one exists (`LongestExists`) is again a
minimal counterexample instead of an induction. `WordsAssumption` is needed in one place,
`AllMatched`: without it a completion could be common to the first twelve words only.

**Alignment** (`AlignmentProofs`). `IInv` is `TypeOK`, the two properties, and `InStep`:
while an alignment runs, the wrapped time since its request is its true age and less than
the timeout, and a hold is `Anchored`: one of the recorded polls has the anchor's count, is
exactly as old as the hold's stamp says, and no later poll moved away from it. Times on the wrapping
clock add up as long as they are shorter than its turn (`SinceAdds`), which is what
`AlignmentAssumption` asks of timeout and longest stall together.

**Supervision** (`SupervisionProofs`). Four parts. `RampIsContinuous` rests on two lemmas
about `SlewI32`: two steps are one step of their sum (`StepsCompose`), so a ramp does not
depend on how the way is cut into ticks (`FineIsOneStep`, again by a minimal
counterexample); and the published value is the nearest unit (`NearestIsNear`).
`CommandSeen` relates `NOW_MS`, which lags behind by up to one delay, to the true age of
the last command. `WatchSeen` does the same for the stall watch: completions since the
last run are fewer than a turn of the sequence, and without any the time on the watch is
the age of the last completion up to one delay.

Some invariants are proved and in no run, because a checked property shows or implies
them: `MailboxIsForOwner`, `RevisionTellsOvertaken`, `AlignSupervised`,
`AppendKeepsRecord`, `ScanAgrees` and the type invariants.

**Only model-checked.** Liveness and everything about `ENABLED`: `RequestsApplied`,
`BadBusTrips`, `DeadIsrTrips`, `Recovers`, `SpeedReturns`, `StoppedIsReset`. They rest
on fairness, and so on `ENABLED`, which the installed backends cannot treat. Every safety
invariant, action property and refinement that a passing run checks is proved.

## 5. Findings

1. *Zero current qualifies an alignment* (`alignment_zero`). `request_align` clamps its
   current to at least 1 mA, but `foc id 0` during the alignment sets the target to 0
   (`src/src/app/control.rs:554`). Target and tolerance are then both zero, a measured
   current of exactly zero is in tolerance, and the offset is latched as qualified.
   The comment at `src/src/app/control.rs:498` rules this out.
2. *A break can be reported as `adc`* (`control_first_trip`). If the break strikes inside
   the commit's critical section, the interrupt finds MOE off and latches `Adc` before
   the masked break interrupt can latch `Brake`. The outputs are off either way
   (`BreakHolds`), but the cause shown is a consequence of the first trip, against the
   comment at `src/src/app/control.rs:404`. `BreakReported` states what does hold.

Observations that violate nothing stated:

* *An expired bus sample could revive.* `is_fresh` latches expiry only when asked, and
  nobody asks about the bus sample outside the live modes and the starts
  (`src/src/bin/main/tasks.rs:76`). If the regular sequence delivers nothing for nearly
  one wrap of the millisecond clock, 49.7 days, with the motor idle, the old stamp is
  answered fresh for `BUS_FAULT_MS`. The comment at `src/foc/src/safety.rs:21` asks
  callers for regular calls; `MaxSilence` in `BusSampler` states that duty. Encoder stamps
  are not affected: the watchdog restarts an encoder task that stands still, and every
  iteration publishes or invalidates.
* *The speed window's gap limit leaves no room for a late latch.* For the shipped motor
  (`MOTOR_MAX_RPM` = 3000) `ENC_SPEED_MAX_GAP_US` is 10000 us, exactly half a turn at that
  speed (`src/src/bsp/config.rs:92`); so it is for every faster motor. The comment at
  `src/foc/src/feedback.rs:42` asks for a limit *below* the half-turn interval, and even
  that does not count the latch: the time stamp is taken before the ANGLE transaction and
  the angle is latched in it, so two samples whose stamps are just under the limit may lie
  half a turn apart or slightly more at top speed, and the sign of the motion is then
  lost. It takes full speed, a gap in the last latch delay (some 100 us at 400 kHz) of the
  limit, and a first sample latched early and a second latched late. `encoder` reaches such
  states; `MotionIsTrue` excepts exactly them, and `ClearGapsSuffice` is the limit that
  would be enough: half a turn longer than gap and latch delay together.
* *Completion lists twelve words at most* (`src/src/app/shell.rs:287`), and `FOC_SUB` has
  nineteen, so `foc` followed by a space and Tab never lists the last seven.
* A recalibration that cannot stop the ADCs leaves the injected interrupt disabled; after
  the fault is acknowledged a start succeeds, and the stall watch alone ends it
  (`DeadIsrTrips` shows that it does), unless the watchdog resets the processor first: the
  interrupt is one of the two workers it asks for (`StoppedIsReset`).
* `button_task` reads the mode and then acts. A trip between the two cannot be answered by
  the start that was decided before it (`ResultsAreCurrent`: `enter_mode` asks for `Idle`
  again), but it may be acknowledged by a press that meant "stop": any stop of the operator
  counts as acknowledgement.

## 6. Not modelled

* Floating-point arithmetic (PI, modulation, transforms, the division at the end of the
  speed window): beyond TLC and the provers, and integers in its place would not show
  what the rounding does. What decides *when* its results are used is modelled.
* The registers of the I2C driver: its transactions succeed, fail, are slow or latch late.
* Register setup at bring-up, LED, debug log and cycle statistics: straight-line code or
  diagnostics that nothing reads to decide.
* Loop gains and the bench duty of the mode machine: values without rules of their own
  (gain changes as such are `SetGains` of `Controller`).
* The text of the shell's commands and answers and the parsing of numbers; the commands'
  effects are actions of `Control`, `Supervision`, `Alignment` and `Calibration`.
* The averaging of shunt offsets in a recalibration, and the count of overruns.
* Host scripts: no part of the running program.

## 7. What is left

The models cover the parts planned for them. What would add most from
here: a model of the speed loop's anti-windup across `SpeedController` and the current limit,
should the arithmetic move to fixed point.
