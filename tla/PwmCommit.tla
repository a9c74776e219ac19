-------------------------------- MODULE PwmCommit --------------------------------
(***************************************************************************)
(* One PWM period after the other: the interrupt that reads a current      *)
(* sample, plans the next period (Sampling) and commits the plan in        *)
(* MotorPwm::apply_plan, against TIM1, which goes on counting, and the     *)
(* injected conversions it triggers.                                       *)
(*                                                                         *)
(* TIM1 counts up and down; phase is the tick within its period: the       *)
(* counter is phase on the way up and 2 arr - phase on the way down. The   *)
(* four compares are preloaded: an update event transfers them, at the     *)
(* valley always and at the peak perhaps (the code programs no repetition  *)
(* counter, and holds either way). Compare 4 triggers the injected         *)
(* conversion on the way up; it converts what JSQR and OPAINTOEN route     *)
(* when it starts and is spoilt when they change under it. The interrupt   *)
(* may be delayed for any time; the critical section of the commit takes   *)
(* at most Stall ticks, spread over its register accesses in any way.      *)
(* The two ADCs are one here; their pairing is in Control.                 *)
(***************************************************************************)
EXTENDS Sampling

CONSTANTS
  Asked,   \* compares that the control law asks for
  Stall    \* longest commit, in ticks

ASSUME PwmCommitAssumption ==
  /\ Stall \in Nat /\ \A n \in Arrs : 0 < n /\ Stall <= n
  /\ \A n \in Arrs : Asked \subseteq Compares(n)

VARIABLES
  phase,    \* TIM1: counter and direction
  udis,     \* CR1.UDIS
  active,   \* the compares that drive the bridge
  preload,  \* the compares last written
  moe,      \* BDTR.MOE
  routed,   \* JSQR and OPAINTOEN: the pair the next trigger converts
  conv,     \* the conversion in progress: its result and the ticks it has taken
  jdr,      \* the last result: its pair, whether it is sound, and how many
            \* valleys ago it was triggered (history)
  jeos,     \* ISR.JEOS
  pc,       \* where the interrupt or the start transaction stands
  sample,   \* the result being processed
  lastPair, discard,   \* Analog: last_pair, discard_samples
  seen,     \* the counter as apply_plan read it
  timely,   \* the counter has not turned since
  spent,    \* ticks in the critical section
  committed \* history: the last two plans whose commit or start succeeded

timer == <<phase, udis, active, preload, moe>>
adc == <<routed, conv, jdr, jeos>>
isr == <<pc, sample, lastPair, discard, seen, timely, spent, committed>>
inputs == <<arr, after, before>>
planner == <<ccr, plan, planned>>
commitVars == <<timer, adc, isr, inputs, planner>>

Registers == 1 .. 4
NoConv == [none |-> TRUE]
Regs(p) == [r \in Registers |-> IF r = 4 THEN p.ccr4 ELSE p.ccr[r]]
Cnt == IF phase <= arr THEN phase ELSE 2 * arr - phase
Down == phase >= arr

NoSample == [pair |-> Uv, sound |-> FALSE, valleys |-> 0]
Results == [pair : Pairs, sound : BOOLEAN, valleys : 0 .. 2]
Critical == {"look", "pending", "write1", "write2", "write3", "write4", "route",
             "restore", "recheck", "repending"}
Starting == {"prepare", "transfer", "enable"}
Steps == {"idle", "read", "compute", "guard"} \cup Critical \cup Starting

CommitTypeOK ==
  /\ TypeOK
  /\ phase \in 0 .. 2 * arr - 1 /\ udis \in BOOLEAN /\ moe \in BOOLEAN
  /\ active \in [Registers -> 0 .. arr + 1] /\ preload \in [Registers -> 0 .. arr + 1]
  /\ routed \in Pairs /\ lastPair \in Pairs /\ jeos \in BOOLEAN
  /\ conv \in {NoConv} \cup [result : Results, ticks : 0 .. before]
  /\ jdr \in Results /\ sample \in Results
  /\ pc \in Steps /\ discard \in 0 .. 2 /\ seen \in 0 .. arr /\ timely \in BOOLEAN
  /\ spent \in 0 .. Stall
  /\ \A p \in {committed.last, committed.previous} : p \in [Registers -> 0 .. arr + 1]

-------------------------------------------------------------------------------
\* The planner at work: compute asks, and the answer is used at once.
PlanFor(c) ==
  /\ ccr' = c /\ planned' = TRUE
  /\ plan' = PlanSampling(c, arr, after, before)

\* schedule_pair and program_pair: a conversion in progress is spoilt by a change.
Rerouted(pair) ==
  IF conv # NoConv /\ routed # pair THEN [conv EXCEPT !.result.sound = FALSE] ELSE conv
SchedulePair(pair) ==
  /\ routed' = pair /\ lastPair' = pair
  /\ conv' = Rerouted(pair)

-------------------------------------------------------------------------------
\* A valley passes over a result. Counted up to two.
Aged(result, next) ==
  IF next = 0 THEN [result EXCEPT !.valleys = IF @ < 2 THEN @ + 1 ELSE 2] ELSE result

\* The conversion that the trigger starts, under the compares and the routing of
\* that moment. A busy ADC ignores a trigger.
Triggered(next) == conv = NoConv /\ 0 < next /\ next < arr /\ next = active[4]
Started(next) ==
  [result |-> [pair |-> routed, valleys |-> 0,
               sound |-> Valid([p \in Phases |-> active[p]], arr, after, before, next, routed)],
   ticks |-> 0]

\* Update events: with UDIS they do nothing. Faulty variant: UDIS is not set.
Unmasked == TRUE
Updates == ~udis

\* A tick of TIM1.
Tick ==
  LET next == (phase + 1) % (2 * arr) IN
  /\ pc \in Critical => spent < Stall
  /\ conv # NoConv => conv.ticks < before
  /\ spent' = IF pc \in Critical THEN spent + 1 ELSE 0
  /\ phase' = next
  /\ \/ next = 0 /\ Updates /\ active' = preload
     \/ next = arr /\ Updates /\ active' = preload
     \/ (next = 0 => ~Updates) /\ active' = active
  /\ conv' = IF conv # NoConv THEN [result |-> Aged(conv.result, next), ticks |-> conv.ticks + 1]
             ELSE IF Triggered(next) THEN Started(next) ELSE NoConv
  /\ jdr' = Aged(jdr, next) /\ sample' = Aged(sample, next)
  /\ UNCHANGED <<udis, preload, moe, routed, jeos, pc, lastPair, discard, seen, timely,
                 committed, inputs, planner>>

\* The conversion ends, at any time within its budget.
Convert ==
  /\ conv # NoConv
  /\ jdr' = conv.result /\ jeos' = TRUE /\ conv' = NoConv
  /\ UNCHANGED <<timer, routed, isr, inputs, planner>>

-------------------------------------------------------------------------------
\* The handler returns; its locals are gone.
Return == pc' = "idle" /\ sample' = NoSample /\ seen' = 0 /\ timely' = FALSE /\ spent' = 0

\* AdcJeos: the flag is read and cleared.
Enter ==
  /\ pc = "idle" /\ jeos
  /\ jeos' = FALSE /\ pc' = "read"
  /\ UNCHANGED <<timer, routed, conv, jdr, sample, lastPair, discard, seen, timely, spent,
                 committed, inputs, planner>>

\* read_currents. Without outputs there is no token, and the handler ends there.
Read ==
  /\ pc = "read"
  /\ IF discard # 0 THEN discard' = discard - 1 /\ pc' = "idle" /\ UNCHANGED sample
     ELSE /\ UNCHANGED discard
          /\ sample' = IF moe THEN jdr ELSE sample
          /\ pc' = IF moe THEN "compute" ELSE "idle"
  /\ UNCHANGED <<timer, adc, lastPair, seen, timely, spent, committed, inputs, planner>>

\* The control law, plan_duties and the token. Without a plan the commit trips.
Compute ==
  /\ pc = "compute" /\ moe
  /\ \E c \in Asked : PlanFor(c)
  /\ IF plan' = NoPlan THEN moe' = FALSE /\ Return
     ELSE pc' = "guard" /\ UNCHANGED <<moe, sample, seen, timely, spent>>
  /\ UNCHANGED <<phase, udis, active, preload, adc, lastPair, discard, committed, inputs>>

\* The outputs are lost before the commit, or a stop or trip took them.
Lose ==
  /\ pc \in {"idle", "read", "compute"} /\ moe
  /\ moe' = FALSE
  /\ IF pc = "compute" THEN Return ELSE UNCHANGED <<pc, sample, seen, timely, spent>>
  /\ UNCHANGED <<phase, udis, active, preload, adc, lastPair, discard, committed, inputs, planner>>

\* apply_plan, one access to a register of TIM1 or the ADC at a time. First UDIS
\* and the counter, then the direction and the deadline, then JEOS.
Guard ==
  /\ pc = "guard"
  /\ udis' = TRUE /\ seen' = Cnt /\ pc' = "look"
  /\ UNCHANGED <<phase, active, preload, moe, adc, sample, lastPair, discard, timely, spent,
                 committed, inputs, planner>>

\* Disabled, and UDIS restored.
Missed ==
  /\ moe' = FALSE /\ udis' = FALSE
  /\ Return
  /\ UNCHANGED <<phase, active, preload, adc, lastPair, discard, committed, inputs, planner>>

\* The deadline: the gap behind the peak is excluded.
BeforePeak == seen <= (IF arr > before THEN arr - before ELSE 0)

Look ==
  /\ pc = "look"
  /\ IF Down /\ BeforePeak
     THEN pc' = "pending" /\ UNCHANGED <<timer, adc, sample, lastPair, discard, seen, timely, spent,
                                         committed, inputs, planner>>
     ELSE Missed

\* Another sample is there already.
Pending == jeos

LookPending ==
  /\ pc = "pending"
  /\ IF Pending THEN Missed
     ELSE pc' = "write1" /\ UNCHANGED <<timer, adc, sample, lastPair, discard, seen, timely, spent,
                                        committed, inputs, planner>>

\* write_plan_registers: four compares, then the routing.
After(step) ==
  CASE step = "write1" -> "write2" [] step = "write2" -> "write3" [] step = "write3" -> "write4"
    [] step = "write4" -> "route"
Index(step) == CHOOSE r \in Registers : step = <<"write1", "write2", "write3", "write4">>[r]

Write ==
  /\ pc \in {"write1", "write2", "write3", "write4"}
  /\ preload' = [preload EXCEPT ![Index(pc)] = Regs(plan)[Index(pc)]]
  /\ pc' = After(pc)
  /\ UNCHANGED <<phase, udis, active, moe, adc, sample, lastPair, discard, seen, timely, spent,
                 committed, inputs, planner>>

Route ==
  /\ pc = "route"
  /\ SchedulePair(plan.pair)
  /\ pc' = "restore"
  /\ UNCHANGED <<timer, jdr, jeos, sample, discard, seen, timely, spent, committed, inputs, planner>>

\* UDIS restored and the counter read again. Faulty variant: it may have turned.
AnyCount == TRUE
NotTurned == Cnt <= seen

Restore ==
  /\ pc = "restore"
  /\ udis' = FALSE /\ timely' = NotTurned /\ pc' = "recheck"
  /\ UNCHANGED <<phase, active, preload, moe, adc, sample, lastPair, discard, seen, spent,
                 committed, inputs, planner>>

Recheck ==
  /\ pc = "recheck"
  /\ IF Down /\ timely
     THEN pc' = "repending" /\ UNCHANGED <<timer, adc, sample, lastPair, discard, seen, timely,
                                           spent, committed, inputs, planner>>
     ELSE Missed

\* The last look: the plan is committed, or the outputs go off.
Finish ==
  /\ pc = "repending"
  /\ IF Pending THEN Missed
     ELSE /\ committed' = [last |-> Regs(plan), previous |-> committed.last]
          /\ Return
          /\ UNCHANGED <<timer, adc, lastPair, discard, inputs, planner>>

-------------------------------------------------------------------------------
\* prepare_start, in a critical section of the thread: no interrupt until it ends.
\* Two results are discarded. Faulty variant: one.
DiscardOne == 1
StartupSamples == 2

Start ==
  /\ pc = "idle" /\ ~moe
  /\ \E c \in Asked : PlanFor(c)
  /\ plan' # NoPlan
  /\ discard' = StartupSamples /\ pc' = "prepare"
  /\ UNCHANGED <<timer, adc, sample, lastPair, seen, timely, spent, committed, inputs>>

\* write_plan: nothing drives the bridge, so the four writes are one step.
WritePlan ==
  /\ pc = "prepare"
  /\ preload' = Regs(plan)
  /\ SchedulePair(plan.pair)
  /\ pc' = "transfer"
  /\ UNCHANGED <<phase, udis, active, moe, jdr, jeos, sample, discard, seen, timely, spent,
                 committed, inputs, planner>>

\* EGR.UG: the preloads are transferred and the counter starts over.
Transfer ==
  /\ pc = "transfer"
  /\ active' = preload /\ phase' = 0 /\ pc' = "enable"
  /\ UNCHANGED <<udis, preload, moe, adc, sample, lastPair, discard, seen, timely, spent,
                 committed, inputs, planner>>

Enable ==
  /\ pc = "enable"
  /\ moe' = TRUE /\ committed' = [last |-> active, previous |-> active] /\ pc' = "idle"
  /\ UNCHANGED <<phase, udis, active, preload, adc, sample, lastPair, discard, seen, timely, spent,
                 inputs, planner>>

-------------------------------------------------------------------------------
\* init and MotorPwm::new: half duty, the trigger one tick before the peak.
CommitInit ==
  /\ Init /\ ccr \in Asked
  /\ phase = 0 /\ udis = FALSE /\ moe = FALSE
  /\ active = [r \in Registers |-> IF r = 4 THEN arr - 1 ELSE arr \div 2] /\ preload = active
  /\ routed = Uv /\ lastPair = Uv /\ conv = NoConv /\ jeos = FALSE
  /\ jdr = NoSample /\ sample = NoSample
  /\ pc = "idle" /\ discard = 0 /\ seen = 0 /\ timely = FALSE /\ spent = 0
  /\ committed = [last |-> active, previous |-> active]

CommitNext ==
  \/ Tick \/ Convert
  \/ Enter \/ Read \/ Compute \/ Lose
  \/ Guard \/ Look \/ LookPending \/ Write \/ Route \/ Restore \/ Recheck \/ Finish
  \/ Start \/ WritePlan \/ Transfer \/ Enable

CommitSpec == CommitInit /\ [][CommitNext]_commitVars

-------------------------------------------------------------------------------
\* A prefix of a plan never drives the bridge: all four compares that are active
\* while the outputs are on belong to one plan, committed or about to be, wherever
\* update events fall between the writes; and a period that has begun runs on the
\* last plan whose commit was reported as a success.
WholePlans ==
  moe => /\ active \in {committed.last, committed.previous, Regs(plan)}
         /\ ~Down /\ pc \notin Critical => active = committed.last

\* A current that the control law uses was converted through the pair it is decoded
\* as, and both shunts conducted and were settled for the whole conversion: planner,
\* commit, timer and start transaction together.
SampleIsSound ==
  pc \in {"compute", "guard"} => sample.sound /\ sample.pair = lastPair

\* The period after the sample's runs on the plan computed from it: a commit that
\* succeeds has met the valley that ends the sample's own period, and the interrupt
\* that is too late, by however much, takes the outputs down.
CommitIsTimely ==
  [][pc = "repending" /\ committed' # committed =>
       \/ sample.valleys = 0
       \/ sample.valleys = 1 /\ ~Down /\ active = Regs(plan)]_commitVars
===============================================================================
