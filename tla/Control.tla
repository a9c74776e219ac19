-------------------------------- MODULE Control --------------------------------
(***************************************************************************)
(* The mode machine of src/app/control.rs with everything that runs        *)
(* against it: the cooperative tasks of src/bin/main/tasks.rs and the      *)
(* shell (one thread), the ADC interrupt (foc_isr::on_injected), the TIM1  *)
(* break interrupt, and the hardware break itself, which turns the gate    *)
(* outputs off without asking anyone.                                      *)
(*                                                                         *)
(* An action is a critical section, or code between two of them that       *)
(* touches no shared state. Priorities decide who may run: the break       *)
(* interrupt preempts all, the ADC interrupt preempts the thread, a task   *)
(* keeps the thread until its next await. A hardware break inside a        *)
(* critical section is a parameter of the action (its interrupt then waits *)
(* for the end of the section); a break elsewhere is the action HwBreak.   *)
(*                                                                         *)
(* Currents and speeds are 0 or 1, for zero and nonzero.                   *)
(***************************************************************************)
EXTENDS Naturals

CONSTANTS
  Targets,     \* the modes an operator starts, a subset of LiveModes
  BusFaults,   \* the ways VBUS/NTC samples can be bad: subset of {Adc, Vbus, Overtemp}
  EpochMod,    \* number of values of the wrapping OUTPUT_EPOCH (2^32 in the code)
  StallPolls   \* polls without a completion that CURRENT_STALL_MS amounts to

LiveModes == {"Bench", "Align", "Run", "Openloop", "Speed"}
Modes == LiveModes \cup {"Idle", "Fault"}
Kinds == {"None", "Overcurrent", "Vbus", "Overtemp", "Encoder", "CmdTimeout",
          "Brake", "Adc", "ControlStall", "Alignment"}

ASSUME ControlAssumption ==
  /\ Targets \subseteq LiveModes
  /\ BusFaults \subseteq {"Adc", "Vbus", "Overtemp"} /\ "Adc" \in BusFaults
  /\ EpochMod \in Nat \ {0, 1}
  /\ StallPolls \in Nat \ {0}

VARIABLES
  mode,       \* MODE
  lastFault,  \* LAST_FAULT
  epoch,      \* OUTPUT_EPOCH
  calib,      \* CALIBRATION_VALID
  refs,       \* ID/IQ targets and ramped values, speed and open-loop references
  aligning,   \* ALIGNMENT is Some
  watch,      \* CURRENT_WATCH: polls since the last completion seen, or NoWatch
  progress,   \* CONTROL_SEQUENCE moved since the watch last looked
  moe,        \* TIM1 BDTR.MOE: the six gate outputs are driven
  bif,        \* TIM1 SR.BIF: a break happened and its interrupt is due
  bus,        \* what sensor_fault would say of the bus sample ("None" is good)
  enc,        \* telemetry::enc_valid()
  adcOn,      \* ADC1 IER.JEOSIE: the injected interrupt is armed
  isr,        \* the ADC interrupt: where it stands and the token it captured
  task,       \* the running task: where it stands and the token it captured
  applied,    \* history: flips with every plan committed to the timer
  breakFirst, \* history: the hardware break is the first cause since the last stop
  overtaken   \* history: the computations that were overtaken since they looked

control == <<mode, lastFault, epoch, calib, refs, aligning, watch>>
hardware == <<moe, bif, bus, enc, adcOn>>
history == <<applied, breakFirst>>
code == <<control, progress, hardware, isr, task, history>>
vars == <<code, overtaken>>

Epochs == 0 .. EpochMod - 1
NoWatch == StallPolls + 1

NoToken == [mode |-> "Idle", epoch |-> 0]
Tokens == [mode : Modes, epoch : Epochs]

ZeroRefs == [idTgt |-> 0, iqTgt |-> 0, id |-> 0, iq |-> 0, rpm |-> 0, ol |-> 0]
RefRecords == [idTgt : {0, 1}, iqTgt : {0, 1}, id : {0, 1}, iq : {0, 1},
               rpm : {0, 1}, ol : {0, 1}]

IsrSteps == {"idle", "interlock", "angle", "commit", "trip"}
TaskSteps == {"idle", "stop", "start", "encoder", "speed", "supervise", "watch",
              "tick", "calibrate", "recalibrate"}

AtRest == [at |-> "idle", token |-> NoToken, kind |-> "None"]
Activities(steps) == [at : steps, token : Tokens, kind : Kinds]

CodeTypes ==
  /\ mode \in Modes
  /\ lastFault \in Kinds
  /\ epoch \in Epochs
  /\ calib \in BOOLEAN
  /\ refs \in RefRecords
  /\ aligning \in BOOLEAN
  /\ watch \in 0 .. NoWatch
  /\ progress \in BOOLEAN
  /\ moe \in BOOLEAN
  /\ bif \in BOOLEAN
  /\ bus \in BusFaults \cup {"None"}
  /\ enc \in BOOLEAN
  /\ adcOn \in BOOLEAN
  /\ isr \in Activities(IsrSteps)
  /\ task \in Activities(TaskSteps)
  /\ applied \in {0, 1}
  /\ breakFirst \in BOOLEAN

TypeOK == CodeTypes /\ overtaken \subseteq {"isr", "task"}

-------------------------------------------------------------------------------
(* Who may run, and what the code asks before it acts. *)
IsrMayRun == ~bif
TaskMayRun == ~bif /\ isr.at = "idle"
TaskAt(step) == TaskMayRun /\ task.at = step

EncoderModes == {"Align", "Run", "Speed"}
LoopModes == {"Align", "Run", "Openloop", "Speed"}
CalibratedModes == {"Run", "Speed"}

OutputsLive == mode \in LiveModes

\* OUTPUT_EPOCH.wrapping_add(1).
NextEpoch(e) == IF e + 1 = EpochMod THEN 0 ELSE e + 1

\* output_token()
Token == IF mode \in LoopModes THEN [mode |-> mode, epoch |-> epoch] ELSE NoToken

\* commit_output's comparison. Faulty variant: any token will do.
AnyToken(t) == t # NoToken
TokenHolds(t) == t.mode = mode /\ t.epoch = epoch

\* sensor_fault(target): the bus first, then the encoder where it matters.
SensorFault(target) ==
  IF bus # "None" THEN bus
  ELSE IF target \in EncoderModes /\ ~enc THEN "Encoder" ELSE "None"

\* enter_mode's conditions.
Startable(target) ==
  /\ mode = "Idle"
  /\ SensorFault(target) = "None"
  /\ target \in CalibratedModes => calib

\* prepare_start looks at BIF before and after it sets MOE, and at MOE itself.
\* A break strikes early (before the first look), while arming (between the
\* first look and MOE) or late (MOE is set, the timer clears it again).
\* Faulty variant: BIF is not looked at again once MOE is set.
Strikes == {"none", "early", "arming", "late"}
RefusedOnce(strike) == strike \in {"early", "late"}
ArmingRefused(strike) == strike # "none"

-------------------------------------------------------------------------------
(* The transitions control.rs makes inside its critical sections. *)

\* clear_references().
\* Faulty variant: the ramped references survive.
TargetsCleared == [refs EXCEPT !.idTgt = 0, !.iqTgt = 0, !.rpm = 0, !.ol = 0]
RefsCleared == ZeroRefs
AlignmentCleared == FALSE

ClearReferences ==
  /\ refs' = RefsCleared
  /\ aligning' = AlignmentCleared
  /\ watch' = NoWatch

\* fault(kind): outputs off in any mode, and the cause of the first trip stays.
\* Faulty variants: the last cause wins; a second trip leaves MOE alone.
LatestCause(kind) == kind
CauseLatched(kind) == IF mode = "Fault" THEN lastFault ELSE kind
MoeKept == moe
MoeOff == FALSE

Fault(kind) ==
  /\ epoch' = NextEpoch(epoch)
  /\ moe' = MoeOff
  /\ lastFault' = CauseLatched(kind)
  /\ mode' = "Fault"
  /\ IF mode = "Fault" THEN UNCHANGED <<refs, aligning, watch>> ELSE ClearReferences

\* stop(): back to Idle from anywhere; the cause of the last trip stays readable.
Stop ==
  /\ epoch' = NextEpoch(epoch)
  /\ moe' = FALSE
  /\ ClearReferences
  /\ mode' = "Idle"
  /\ breakFirst' = FALSE
  /\ UNCHANGED <<lastFault, calib, bif>>

\* enter_mode(target, prepare): what prepare() leaves in the references, then
\* the start transaction with the timer. planOk: the duty can be sampled.
Prepared(target) ==
  [refs EXCEPT !.idTgt = CASE target = "Align" -> 1 [] target = "Speed" -> 0
                           [] OTHER -> refs.idTgt,
               !.iqTgt = IF target \in {"Align", "Speed"} THEN 0 ELSE @,
               !.rpm = IF target = "Speed" THEN 1 ELSE @,
               !.ol = IF target = "Openloop" THEN 1 ELSE @,
               !.id = 0, !.iq = 0]

Arm(target) ==
  /\ moe' = TRUE
  /\ refs' = Prepared(target)
  /\ aligning' = (target = "Align")
  /\ watch' = NoWatch
  /\ lastFault' = "None"
  /\ epoch' = NextEpoch(epoch)
  /\ mode' = target

Enter(target, strike, planOk) ==
  IF Startable(target)
  THEN /\ calib' = (calib /\ target # "Align")
       /\ bif' = (planOk /\ strike # "none")
       /\ breakFirst' = (planOk /\ strike # "none")
       /\ IF ~planOk THEN Fault("Adc")
          ELSE IF ArmingRefused(strike) THEN Fault("Brake")
          ELSE Arm(target)
  ELSE UNCHANGED <<control, moe, bif, breakFirst>>

\* finish_align()
FinishAlign ==
  IF SensorFault("Align") # "None"
  THEN Fault(SensorFault("Align")) /\ UNCHANGED calib
  ELSE /\ calib' = TRUE
       /\ moe' = FALSE
       /\ ClearReferences
       /\ epoch' = NextEpoch(epoch)
       /\ mode' = "Idle"
       /\ UNCHANGED lastFault

\* One ramp step: a zero reference with a zero target stays zero.
Slewed(ref, target) == IF ref = 0 /\ target = 0 THEN {0} ELSE {0, 1}

\* poll_refs(dt): each mode ramps the references it uses.
RampStep ==
  \E i \in IF mode \in {"Align", "Run"} THEN Slewed(refs.id, refs.idTgt) ELSE {refs.id},
     q \in IF mode \in {"Run", "Speed"} THEN Slewed(refs.iq, refs.iqTgt) ELSE {refs.iq},
     r \in IF mode = "Speed" THEN {0, refs.rpm} ELSE {refs.rpm} :
    refs' = [refs EXCEPT !.id = i, !.iq = q, !.rpm = r]

-------------------------------------------------------------------------------
(* The break: the hardware acts first, its interrupt follows at once unless a *)
(* critical section masks it.                                                 *)
BreakSeen == breakFirst \/ mode # "Fault"

HwBreak ==
  /\ ~bif
  /\ bif' = TRUE
  /\ moe' = FALSE
  /\ breakFirst' = BreakSeen
  /\ UNCHANGED <<control, progress, bus, enc, adcOn, isr, task, applied>>

BrkIsr ==
  /\ bif
  /\ bif' = FALSE
  /\ Fault("Brake")
  /\ UNCHANGED <<calib, progress, bus, enc, adcOn, isr, task, history>>

-------------------------------------------------------------------------------
(* The ADC interrupt: on_injected, from the sample to the committed plan.     *)
(* An interrupt that yields no sample (a startup discard) changes nothing.    *)
IsrAt(step) == IsrMayRun /\ isr.at = step
IsrGoes(step, kind) == isr' = [isr EXCEPT !.at = step, !.kind = kind]
IsrReturns == isr' = AtRest /\ progress' = TRUE

\* A missing partner conversion, a queue overflow or a nonfinite current.
AdcBadSample(serviced) ==
  /\ IsrAt("idle") /\ adcOn
  /\ Fault("Adc")
  /\ progress' = (progress \/ serviced)
  /\ UNCHANGED <<calib, bif, bus, enc, adcOn, isr, task, history>>

AdcSample ==
  /\ IsrAt("idle") /\ adcOn
  /\ isr' = [at |-> "interlock", token |-> Token, kind |-> "None"]
  /\ UNCHANGED <<control, progress, hardware, task, history>>

\* outputs_live() and sensor_fault(mode()): a bad sensor stops any live mode.
\* Faulty variant: live modes are not looked at.
InterlockSkipped == FALSE
InterlockOpen == OutputsLive /\ SensorFault(mode) # "None"

\* The interlock, the software overcurrent, the missing token.
AdcInterlock(over) ==
  /\ IsrAt("interlock")
  /\ \/ /\ InterlockOpen
        /\ IsrGoes("trip", SensorFault(mode)) /\ UNCHANGED progress
     \/ /\ ~InterlockOpen
        /\ IF over THEN IsrGoes("trip", "Overcurrent") /\ UNCHANGED progress
           ELSE IF isr.token = NoToken THEN IsrReturns
           ELSE IsrGoes("angle", "None") /\ UNCHANGED progress
  /\ UNCHANGED <<control, hardware, task, history>>

\* electrical_angle() is None once the encoder sample has expired.
AdcAngle ==
  /\ IsrAt("angle")
  /\ IF isr.token.mode \in CalibratedModes /\ ~enc
     THEN IsrGoes("trip", "Encoder") ELSE IsrGoes("commit", "None")
  /\ UNCHANGED <<control, progress, hardware, task, history>>

AdcTrip ==
  /\ IsrAt("trip")
  /\ Fault(isr.kind)
  /\ IsrReturns
  /\ UNCHANGED <<calib, bif, bus, enc, adcOn, task, history>>

\* What apply_plan finds of MOE.
OutputsLost(strike) == ~moe \/ strike

\* commit_output() around apply_plan(). strike: a break inside this critical
\* section, before MOE is read. ready: the duties could be planned and reach
\* the preload registers in time. A bad sensor or a failed plan found in the
\* same section counts as the earlier cause.
AdcCommit(strike, ready) ==
  /\ IsrAt("commit")
  /\ bif' = strike
  /\ breakFirst' = IF strike /\ (TokenHolds(isr.token) =>
                                  ready /\ SensorFault(isr.token.mode) = "None")
                    THEN BreakSeen ELSE breakFirst
  /\ \/ /\ ~TokenHolds(isr.token)
        /\ moe' = (moe /\ ~strike)
        /\ UNCHANGED <<control, applied>>
     \/ /\ TokenHolds(isr.token)
        /\ IF SensorFault(isr.token.mode) # "None"
           THEN Fault(SensorFault(isr.token.mode)) /\ UNCHANGED <<calib, applied>>
           ELSE IF ~ready \/ OutputsLost(strike)
           THEN Fault("Adc") /\ UNCHANGED <<calib, applied>>
           ELSE applied' = 1 - applied /\ moe' = (moe /\ ~strike) /\ UNCHANGED control
  /\ IsrReturns
  /\ UNCHANGED <<bus, enc, adcOn, task>>

AdcIsr ==
  \/ AdcSample \/ AdcAngle \/ AdcTrip
  \/ \E b \in BOOLEAN : AdcBadSample(b) \/ AdcInterlock(b)
  \/ \E strike, ready \in BOOLEAN : AdcCommit(strike, ready)

-------------------------------------------------------------------------------
(* Time: a sample nobody renews goes stale. *)
BusExpires ==
  /\ bus' = "Adc"
  /\ UNCHANGED <<control, progress, moe, bif, enc, adcOn, isr, task, history>>

EncExpires ==
  /\ enc' = FALSE
  /\ UNCHANGED <<control, progress, moe, bif, bus, adcOn, isr, task, history>>

-------------------------------------------------------------------------------
(* Commands of the shell. Each runs to completion on the thread. *)
PlanChoices(target) == IF target = "Bench" THEN BOOLEAN ELSE {TRUE}

CmdEnter(target) ==
  /\ TaskAt("idle")
  /\ \E strike \in Strikes, planOk \in PlanChoices(target) :
       Enter(target, strike, planOk)
  /\ UNCHANGED <<progress, bus, enc, adcOn, isr, task, applied>>

CmdStop ==
  /\ TaskAt("idle")
  /\ Stop
  /\ UNCHANGED <<progress, bus, enc, adcOn, isr, task, applied>>

\* set_id_ma, set_iq_ma, and start_speed while already in Speed: the targets
\* move in any mode.
CmdTargets ==
  /\ TaskAt("idle")
  /\ \/ \E v \in {0, 1} : refs' = [refs EXCEPT !.idTgt = v]
     \/ \E v \in {0, 1} : refs' = [refs EXCEPT !.iqTgt = v]
     \/ mode = "Speed" /\ refs' = [refs EXCEPT !.rpm = 1]
  /\ UNCHANGED <<mode, lastFault, epoch, calib, aligning, watch, progress,
                 hardware, isr, task, history>>

\* set_poles to another value, capture_electrical_offset, set_theta_e_off_mrad.
Editable(m) == m = "Idle"

CmdCalibration ==
  /\ TaskAt("idle")
  /\ Editable(mode)
  /\ calib' \in BOOLEAN
  /\ UNCHANGED <<mode, lastFault, epoch, refs, aligning, watch, progress,
                 hardware, isr, task, history>>

\* calibrate_offsets looks at the mode.
CmdRecalibrate ==
  /\ TaskAt("idle")
  /\ ~OutputsLive /\ mode # "Fault"
  /\ task' = [task EXCEPT !.at = "calibrate"]
  /\ UNCHANGED <<control, progress, hardware, isr, history>>

\* recalibrate looks again, but not at Fault, which may have come meanwhile.
\* Analog leaves its slot with JEOS off, conversions run unmasked, then it is
\* put back, and armed only if the ADCs had stopped.
RecalBegin ==
  /\ TaskAt("calibrate")
  /\ IF OutputsLive \/ moe
     THEN task' = AtRest /\ UNCHANGED <<adcOn, bus>>
     ELSE /\ task' = [task EXCEPT !.at = "recalibrate"]
          /\ adcOn' = FALSE
          /\ bus' = "Adc"
  /\ UNCHANGED <<control, progress, moe, bif, enc, isr, history>>

RecalEnd(stopped) ==
  /\ TaskAt("recalibrate")
  /\ adcOn' = stopped
  /\ IF stopped THEN UNCHANGED <<control, moe>> ELSE Fault("Adc") /\ UNCHANGED calib
  /\ task' = AtRest
  /\ UNCHANGED <<progress, bif, bus, enc, isr, history>>

\* button_task decides on the mode it read, then acts.
ButtonPress ==
  /\ TaskAt("idle")
  /\ task' = [task EXCEPT !.at = IF mode = "Fault" \/ OutputsLive THEN "stop" ELSE "start"]
  /\ UNCHANGED <<control, progress, hardware, isr, history>>

ButtonStop ==
  /\ TaskAt("stop")
  /\ Stop
  /\ task' = AtRest
  /\ UNCHANGED <<progress, bus, enc, adcOn, isr, applied>>

ButtonStart ==
  /\ TaskAt("start")
  /\ \E strike \in Strikes : Enter("Run", strike, TRUE)
  /\ task' = AtRest
  /\ UNCHANGED <<progress, bus, enc, adcOn, isr, applied>>

-------------------------------------------------------------------------------
(* encoder_task: publish the sample, trip on an explicit error, then the      *)
(* speed loop, whose commit may be overtaken by a trip.                       *)
EncPublish(valid, accepted) ==
  /\ TaskAt("idle")
  /\ enc' = (valid /\ accepted)
  /\ task' = [task EXCEPT !.at = "encoder", !.kind = IF valid THEN "None" ELSE "Encoder"]
  /\ UNCHANGED <<control, progress, moe, bif, bus, adcOn, isr, history>>

EncCheck ==
  /\ TaskAt("encoder")
  /\ IF task.kind = "Encoder" /\ mode \in EncoderModes
     THEN Fault("Encoder") /\ UNCHANGED calib
     ELSE UNCHANGED <<control, moe>>
  /\ task' = IF task.kind = "None" /\ mode = "Speed"
             THEN [at |-> "speed", token |-> Token, kind |-> "None"] ELSE AtRest
  /\ UNCHANGED <<progress, bif, bus, enc, adcOn, isr, history>>

\* The commit of speed::tick: nothing while the period has not elapsed.
SpeedCommit(due) ==
  /\ TaskAt("speed")
  /\ IF due /\ TokenHolds(task.token)
     THEN IF SensorFault(task.token.mode) # "None"
          THEN Fault(SensorFault(task.token.mode)) /\ UNCHANGED calib
          ELSE /\ \E v \in {0, 1} : refs' = [refs EXCEPT !.iqTgt = v]
               /\ UNCHANGED <<mode, lastFault, epoch, calib, aligning, watch, moe>>
     ELSE UNCHANGED <<control, moe>>
  /\ task' = AtRest
  /\ UNCHANGED <<progress, bif, bus, enc, adcOn, isr, history>>

-------------------------------------------------------------------------------
(* analog_task, the 1 ms supervisor: bus sample, interlocks, stall watch,     *)
(* ramps and alignment, in this order.                                        *)
PublishBus(b) ==
  /\ TaskAt("idle")
  /\ bus' = b
  /\ task' = [task EXCEPT !.at = "supervise"]
  /\ UNCHANGED <<control, progress, moe, bif, enc, adcOn, isr, history>>

Supervise(silent) ==
  /\ TaskAt("supervise")
  /\ IF InterlockOpen
     THEN Fault(SensorFault(mode)) /\ UNCHANGED calib
     ELSE IF silent /\ mode = "Run" /\ (refs.idTgt # 0 \/ refs.iqTgt # 0)
     THEN Fault("CmdTimeout") /\ UNCHANGED calib
     ELSE UNCHANGED <<control, moe>>
  /\ task' = [task EXCEPT !.at = "watch"]
  /\ UNCHANGED <<progress, bif, bus, enc, adcOn, isr, history>>

\* supervise_current(). Faulty variant: every poll pets the watch.
PetAlways == 0
Polled == IF progress \/ watch = NoWatch THEN 0 ELSE watch + 1

SuperviseCurrent ==
  /\ TaskAt("watch")
  /\ IF ~OutputsLive
     THEN watch' = NoWatch /\ UNCHANGED <<mode, lastFault, epoch, calib, refs, aligning, moe>>
     ELSE IF Polled >= StallPolls
     THEN Fault("ControlStall") /\ UNCHANGED calib
     ELSE watch' = Polled /\ UNCHANGED <<mode, lastFault, epoch, calib, refs, aligning, moe>>
  /\ progress' = FALSE
  /\ task' = [task EXCEPT !.at = "tick"]
  /\ UNCHANGED <<bif, bus, enc, adcOn, isr, history>>

\* tick(): poll_refs, then poll_align, whose verdict comes from Alignment.
PollAlign(verdict) ==
  CASE verdict = "Pending"  -> RampStep
                               /\ UNCHANGED <<mode, lastFault, epoch, calib, aligning, watch, moe>>
    [] verdict = "Complete" -> FinishAlign
    [] verdict = "TimedOut" -> Fault("Alignment") /\ UNCHANGED calib

Tick(verdict) ==
  /\ TaskAt("tick")
  /\ verdict # "Pending" => mode = "Align" /\ aligning
  /\ verdict = "Complete" => enc
  /\ PollAlign(verdict)
  /\ task' = AtRest
  /\ UNCHANGED <<progress, bif, bus, enc, adcOn, isr, history>>

-------------------------------------------------------------------------------
\* Reset state; load_nvm may or may not find a calibration.
Init ==
  /\ mode = "Idle"
  /\ lastFault = "None"
  /\ epoch = 0
  /\ calib \in BOOLEAN
  /\ refs = ZeroRefs
  /\ aligning = FALSE
  /\ watch = NoWatch
  /\ progress = FALSE
  /\ moe = FALSE
  /\ bif = FALSE
  /\ bus = "Adc"
  /\ enc = FALSE
  /\ adcOn = TRUE
  /\ isr = AtRest
  /\ task = AtRest
  /\ applied = 0
  /\ breakFirst = FALSE
  /\ overtaken = {}

Verdicts == {"Pending", "Complete", "TimedOut"}

Supervisor ==
  \/ \E b \in BusFaults \cup {"None", bus} : PublishBus(b)
  \/ \E silent \in BOOLEAN : Supervise(silent)
  \/ SuperviseCurrent
  \/ \E verdict \in Verdicts : Tick(verdict)

Encoder ==
  \/ \E valid, accepted \in BOOLEAN : EncPublish(valid, accepted)
  \/ EncCheck
  \/ \E due \in BOOLEAN : SpeedCommit(due)

Operator ==
  \/ \E target \in Targets : CmdEnter(target)
  \/ CmdStop \/ CmdTargets \/ CmdCalibration
  \/ CmdRecalibrate \/ RecalBegin \/ \E stopped \in BOOLEAN : RecalEnd(stopped)
  \/ ButtonPress \/ ButtonStop \/ ButtonStart

Step == HwBreak \/ BrkIsr \/ AdcIsr \/ BusExpires \/ EncExpires
          \/ Supervisor \/ Encoder \/ Operator

\* Who has looked and will act on it later: the interrupt on its token, the
\* speed loop on its token, the button task on the mode it read.
Acting ==
  {c \in {"isr", "task"} :
     IF c = "isr" THEN isr.token # NoToken /\ isr.at \in {"interlock", "angle", "commit"}
     ELSE task.at \in {"speed", "start"}}

\* What must not be acted over: another start, stop or trip, outputs gone off,
\* a sensor of the mode gone bad.
Overtakes ==
  \/ epoch' # epoch
  \/ moe /\ ~moe'
  \/ SensorFault(mode) = "None" /\ SensorFault(mode)' # "None"

Overtake == overtaken' = {c \in Acting \cap Acting' : c \in overtaken \/ Overtakes}

Next == Step /\ Overtake

Spec == Init /\ [][Next]_vars

\* Pending interrupts are taken and handlers return; a task that was started
\* reaches its next await; and the executor polls its ready tasks in turn, so
\* the 1 ms supervisor is not passed over forever (strong fairness: the
\* thread is repeatedly, not continuously, free for it).
Fairness ==
  /\ WF_code(BrkIsr)
  /\ WF_code(isr.at # "idle" /\ AdcIsr)
  /\ SF_code(task.at # "idle" /\ (Supervisor \/ Encoder \/ Operator))
  /\ SF_code(task.at = "idle" /\ Supervisor)

FairSpec == Spec /\ Fairness

-------------------------------------------------------------------------------
\* Between two critical sections the gate outputs are driven only while a live
\* mode owns them: every way out of a live mode turns MOE off with it.
OutputsOwned == moe => OutputsLive

\* The closed loop never runs on an offset that lost its qualification, and
\* recalibration commands cannot pull it away from a running loop.
ClosedLoopCalibrated == mode \in CalibratedModes => calib

\* A ramped current or speed reference is nonzero only in a mode that uses it,
\* so no start can inherit one from an earlier run.
RefsBelong ==
  /\ refs.id # 0 => mode \in {"Align", "Run"}
  /\ refs.iq # 0 => mode \in {"Run", "Speed"}
  /\ refs.rpm # 0 => mode = "Speed"
  /\ refs.ol # 0 => mode = "Openloop"

\* Align always has the supervision that ends it, and only Align has it.
AlignSupervised == mode = "Align" <=> aligning

\* Once the hardware break is the first cause, the outputs stay off until an
\* operator's stop has acknowledged it, whichever start it collided with.
BreakHolds == breakFirst => ~moe

\* What Fault reports tells whether the hardware break came first: such a break is
\* reported as brk, or as the adc fault the current interrupt raises when it finds
\* MOE already off, whatever trips with it; and brk is reported of no other trip.
BreakReported ==
  mode = "Fault" => /\ breakFirst => lastFault \in {"Brake", "Adc"}
                    /\ lastFault = "Brake" => breakFirst

\* The outputs come on only in a start transaction: from Idle, with good sensors
\* for the new mode, no break outstanding and zero current references.
ArmedByStartOnly ==
  [][~moe /\ moe' => /\ mode = "Idle" /\ mode' \in LiveModes
                     /\ SensorFault(mode') = "None" /\ ~bif'
                     /\ refs'.id = 0 /\ refs'.iq = 0]_vars

\* Nobody acts on what is no longer so. Between the look and the act come breaks,
\* trips of other priorities and expiring samples; once one did, the interrupt
\* commits no plan, the speed loop sets no current, and the button's press does not
\* become a start.
ResultsAreCurrent ==
  [][/\ applied' # applied => "isr" \notin overtaken
     /\ task.at = "speed" /\ refs'.iqTgt > refs.iqTgt => "task" \notin overtaken
     /\ task.at = "start" /\ mode' = "Run" => "task" \notin overtaken]_vars

\* A bus sample that stays bad, or a current interrupt that stays dead, takes
\* the outputs down: the supervisor needs neither a command nor the interrupt.
BadBusTrips == OutputsLive /\ bus # "None" ~> ~OutputsLive \/ bus = "None"
DeadIsrTrips == OutputsLive /\ ~adcOn ~> ~OutputsLive

\* What control.rs says of the latch: "Preserve the first trip cause, not a later
\* consequence of it." With the hardware break as first trip, the cause is brk.
FirstTripPreserved == breakFirst /\ mode = "Fault" => lastFault = "Brake"
===============================================================================
