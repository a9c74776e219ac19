----------------------------- MODULE ControlProofs -----------------------------
(***************************************************************************)
(* Theorems about Control, for every choice of modes, bus faults, epoch    *)
(* width and stall limit.                                                  *)
(*                                                                         *)
(* What a break leaves behind is not inductive as it stands: until its     *)
(* interrupt has run, mode still says that all is well. BreakPending adds  *)
(* that the interrupt is then due, and it runs before anything else does.  *)
(* Nor is what a computation in progress may rely on: OvertakenShows adds  *)
(* that whatever overtook it is still to be seen when it acts.             *)
(***************************************************************************)
EXTENDS Control, TLAPS

\* A break that is the first cause has been latched, or its interrupt is due, and
\* no other break waits for its interrupt before the first trip.
BreakPending ==
  /\ breakFirst /\ mode # "Fault" => bif
  /\ bif => breakFirst \/ mode = "Fault"

Safe ==
  /\ OutputsOwned
  /\ ClosedLoopCalibrated
  /\ RefsBelong
  /\ AlignSupervised
  /\ BreakHolds
  /\ BreakPending
  /\ BreakReported

\* What the interrupt and the running task carry from one step to the next: the
\* cause of a trip that is no break, a token of a mode that has one.
Carried ==
  /\ isr.kind # "Brake"
  /\ isr.token = NoToken \/ isr.token.mode \in LoopModes
  /\ isr.at \in {"angle", "commit"} => isr.token # NoToken
  /\ task.at = "speed" => task.token.mode = "Speed"
  /\ task.at = "start" => mode \notin LiveModes

\* What overtook a computation in progress is still to be seen: a trip, a break
\* whose interrupt is due, or a bad sensor.
Interrupted == mode = "Fault" \/ bif \/ SensorFault(mode) # "None"
OvertakenShows == overtaken \subseteq Acting /\ (overtaken # {} => Interrupted)

IInv == CodeTypes /\ Safe /\ Carried

\* What the safety properties look at.
watched == <<mode, lastFault, calib, refs, aligning, moe, bif, breakFirst>>

\* What the transitions of control.rs write.
ControlTypes ==
  /\ mode \in Modes
  /\ lastFault \in Kinds
  /\ epoch \in Epochs
  /\ refs \in RefRecords
  /\ aligning \in BOOLEAN
  /\ watch \in 0 .. NoWatch
  /\ moe \in BOOLEAN

-------------------------------------------------------------------------------
(* Types. *)
LEMMA NextEpochType ==
  ASSUME NEW e \in Epochs
  PROVE  NextEpoch(e) \in Epochs
BY ControlAssumption DEF Epochs, NextEpoch

LEMMA ZeroRefsType == ZeroRefs \in RefRecords
BY DEF ZeroRefs, RefRecords

\* sensor_fault answers with one of the fault kinds, and never with brk.
LEMMA SensorFaultKind ==
  ASSUME CodeTypes, NEW target
  PROVE  SensorFault(target) \in Kinds \ {"Brake"}
BY ControlAssumption DEF CodeTypes, SensorFault, Kinds

LEMMA ClearTypes ==
  ASSUME ClearReferences
  PROVE  refs' \in RefRecords /\ aligning' \in BOOLEAN /\ watch' \in 0 .. NoWatch
<1>1. NoWatch \in 0 .. NoWatch
  BY ControlAssumption DEF NoWatch
<1>2. refs' \in RefRecords
  BY ZeroRefsType DEF ClearReferences, RefsCleared
<1>3. aligning' \in BOOLEAN /\ watch' = NoWatch
  BY DEF ClearReferences, AlignmentCleared
<1>4. QED
  BY <1>1, <1>2, <1>3

LEMMA FaultTypes ==
  ASSUME CodeTypes, NEW kind \in Kinds, Fault(kind)
  PROVE  ControlTypes'
<1>1. epoch' \in Epochs /\ moe' \in BOOLEAN /\ mode' \in Modes /\ lastFault' \in Kinds
  BY NextEpochType DEF CodeTypes, Fault, MoeOff, CauseLatched, Modes
<1>2. CASE mode = "Fault"
  <2>1. UNCHANGED <<refs, aligning, watch>>
    BY <1>2 DEF Fault
  <2>2. QED
    BY <1>1, <2>1 DEF CodeTypes, ControlTypes
<1>3. CASE mode # "Fault"
  <2>1. ClearReferences
    BY <1>3 DEF Fault
  <2>2. refs' \in RefRecords /\ aligning' \in BOOLEAN /\ watch' \in 0 .. NoWatch
    BY <2>1, ClearTypes
  <2>3. QED
    BY <1>1, <2>2 DEF ControlTypes
<1>4. QED
  BY <1>2, <1>3

LEMMA StopTypes ==
  ASSUME CodeTypes, Stop
  PROVE  ControlTypes' /\ calib' \in BOOLEAN /\ bif' \in BOOLEAN /\ breakFirst' \in BOOLEAN
<1>1. /\ epoch' \in Epochs /\ moe' \in BOOLEAN /\ mode' \in Modes
      /\ lastFault' \in Kinds /\ calib' \in BOOLEAN /\ bif' \in BOOLEAN
      /\ breakFirst' \in BOOLEAN
  BY NextEpochType DEF CodeTypes, Stop, Modes
<1>2. refs' \in RefRecords /\ aligning' \in BOOLEAN /\ watch' \in 0 .. NoWatch
  BY ClearTypes DEF Stop
<1>3. QED
  BY <1>1, <1>2 DEF ControlTypes

LEMMA ArmTypes ==
  ASSUME CodeTypes, NEW target \in LiveModes, Arm(target)
  PROVE  ControlTypes'
<1>1. /\ epoch' \in Epochs /\ moe' \in BOOLEAN /\ mode' \in Modes
      /\ lastFault' \in Kinds /\ aligning' \in BOOLEAN
  BY NextEpochType DEF CodeTypes, Arm, Modes, Kinds
<1>2. watch' \in 0 .. NoWatch
  BY ControlAssumption DEF Arm, NoWatch
<1>3. refs' \in RefRecords
  BY DEF CodeTypes, Arm, Prepared, RefRecords
<1>4. QED
  BY <1>1, <1>2, <1>3 DEF ControlTypes

LEMMA EnterTypes ==
  ASSUME CodeTypes, NEW target \in LiveModes, NEW strike \in Strikes, NEW planOk \in BOOLEAN,
         Enter(target, strike, planOk)
  PROVE  ControlTypes' /\ calib' \in BOOLEAN /\ bif' \in BOOLEAN /\ breakFirst' \in BOOLEAN
<1>1. CASE Startable(target)
  <2>1. calib' \in BOOLEAN /\ bif' \in BOOLEAN /\ breakFirst' \in BOOLEAN
    BY <1>1 DEF CodeTypes, Enter
  <2>2. \/ Arm(target)
        \/ \E kind \in Kinds : Fault(kind)
    BY <1>1 DEF Enter, Kinds
  <2>3. QED
    BY <2>1, <2>2, ArmTypes, FaultTypes
<1>2. CASE ~Startable(target)
  <2>1. UNCHANGED <<control, moe, bif, breakFirst>>
    BY <1>2 DEF Enter
  <2>2. UNCHANGED <<mode, lastFault, epoch, calib, refs, aligning, watch, moe, bif, breakFirst>>
    BY <2>1 DEF control
  <2>3. QED
    BY <2>2 DEF CodeTypes, ControlTypes
<1>3. QED
  BY <1>1, <1>2

LEMMA FinishAlignTypes ==
  ASSUME CodeTypes, FinishAlign
  PROVE  ControlTypes' /\ calib' \in BOOLEAN
<1>1. CASE SensorFault("Align") # "None"
  <2>1. Fault(SensorFault("Align")) /\ calib' = calib
    BY <1>1 DEF FinishAlign
  <2>2. QED
    BY <2>1, FaultTypes, SensorFaultKind DEF CodeTypes
<1>2. CASE SensorFault("Align") = "None"
  <2>1. /\ epoch' \in Epochs /\ moe' \in BOOLEAN /\ mode' \in Modes
        /\ lastFault' \in Kinds /\ calib' \in BOOLEAN
    BY <1>2, NextEpochType DEF CodeTypes, FinishAlign, Modes
  <2>2. refs' \in RefRecords /\ aligning' \in BOOLEAN /\ watch' \in 0 .. NoWatch
    BY <1>2, ClearTypes DEF FinishAlign
  <2>3. QED
    BY <2>1, <2>2 DEF ControlTypes
<1>3. QED
  BY <1>1, <1>2

\* The interrupt and the running task stay records of their kind.
LEMMA AtRestType ==
  /\ AtRest \in Activities(IsrSteps)
  /\ AtRest \in Activities(TaskSteps)
  /\ NoToken \in Tokens
BY ControlAssumption
   DEF AtRest, Activities, NoToken, Tokens, Modes, Epochs, Kinds, IsrSteps, TaskSteps

LEMMA TokenType ==
  ASSUME CodeTypes
  PROVE  Token \in Tokens
BY AtRestType DEF CodeTypes, Token, Tokens

LEMMA Goes ==
  ASSUME NEW steps, NEW a \in Activities(steps), NEW step \in steps, NEW kind \in Kinds
  PROVE  /\ [a EXCEPT !.at = step, !.kind = kind] \in Activities(steps)
         /\ [a EXCEPT !.at = step] \in Activities(steps)
BY DEF Activities

LEMMA IsrGoesType ==
  ASSUME CodeTypes, NEW step \in IsrSteps, NEW kind \in Kinds, IsrGoes(step, kind)
  PROVE  isr' \in Activities(IsrSteps)
<1>1. isr \in Activities(IsrSteps)
  BY DEF CodeTypes
<1>2. isr' = [isr EXCEPT !.at = step, !.kind = kind]
  BY DEF IsrGoes
<1>3. QED
  BY <1>1, <1>2, Goes

LEMMA Starts ==
  ASSUME NEW steps, NEW step \in steps, NEW token \in Tokens
  PROVE  [at |-> step, token |-> token, kind |-> "None"] \in Activities(steps)
BY DEF Activities, Kinds

-------------------------------------------------------------------------------
(* Every action keeps the types: what it writes is typed by the lemmas above, *)
(* the rest it leaves alone.                                                  *)
LEMMA BreakTypes == CodeTypes /\ (HwBreak \/ BrkIsr) => CodeTypes'
<1> SUFFICES ASSUME CodeTypes PROVE HwBreak \/ BrkIsr => CodeTypes'
  OBVIOUS
<1>1. ASSUME HwBreak PROVE CodeTypes'
  <2>1. bif' = TRUE /\ moe' = FALSE /\ breakFirst' = BreakSeen
    BY <1>1 DEF HwBreak
  <2>2. BreakSeen \in BOOLEAN
    BY DEF CodeTypes, BreakSeen
  <2>3. UNCHANGED <<control, progress, bus, enc, adcOn, isr, task, applied>>
    BY <1>1 DEF HwBreak
  <2>4. QED
    BY <2>1, <2>2, <2>3 DEF CodeTypes, control
<1>2. ASSUME BrkIsr PROVE CodeTypes'
  <2>1. Fault("Brake") /\ bif' = FALSE
    BY <1>2 DEF BrkIsr
  <2>2. ControlTypes'
    BY <2>1, FaultTypes DEF Kinds
  <2>3. UNCHANGED <<calib, progress, bus, enc, adcOn, isr, task, history>>
    BY <1>2 DEF BrkIsr
  <2>4. QED
    BY <2>1, <2>2, <2>3 DEF CodeTypes, ControlTypes, history
<1>3. QED
  BY <1>1, <1>2

LEMMA AdcTypes == CodeTypes /\ AdcIsr => CodeTypes'
<1> SUFFICES ASSUME CodeTypes PROVE AdcIsr => CodeTypes'
  OBVIOUS
<1>1. ASSUME AdcSample PROVE CodeTypes'
  <2>1. isr' = [at |-> "interlock", token |-> Token, kind |-> "None"]
    BY <1>1 DEF AdcSample
  <2>2. isr' \in Activities(IsrSteps)
    BY <2>1, TokenType, Starts DEF IsrSteps
  <2>3. UNCHANGED <<control, progress, hardware, task, history>>
    BY <1>1 DEF AdcSample
  <2>4. QED
    BY <2>2, <2>3 DEF CodeTypes, control, hardware, history
<1>2. ASSUME AdcAngle PROVE CodeTypes'
  <2>1. IsrGoes("trip", "Encoder") \/ IsrGoes("commit", "None")
    BY <1>2 DEF AdcAngle
  <2>2. isr' \in Activities(IsrSteps)
    BY <2>1, IsrGoesType DEF IsrSteps, Kinds
  <2>3. UNCHANGED <<control, progress, hardware, task, history>>
    BY <1>2 DEF AdcAngle
  <2>4. QED
    BY <2>2, <2>3 DEF CodeTypes, control, hardware, history
<1>3. ASSUME AdcTrip PROVE CodeTypes'
  <2>1. Fault(isr.kind) /\ IsrReturns
    BY <1>3 DEF AdcTrip
  <2>2. ControlTypes'
    BY <2>1, FaultTypes DEF CodeTypes, Activities
  <2>3. isr' \in Activities(IsrSteps) /\ progress' \in BOOLEAN
    BY <2>1, AtRestType DEF IsrReturns
  <2>4. UNCHANGED <<calib, bif, bus, enc, adcOn, task, history>>
    BY <1>3 DEF AdcTrip
  <2>5. QED
    BY <2>2, <2>3, <2>4 DEF CodeTypes, ControlTypes, history
<1>4. ASSUME NEW serviced \in BOOLEAN, AdcBadSample(serviced) PROVE CodeTypes'
  <2>1. Fault("Adc") /\ progress' = (progress \/ serviced)
    BY <1>4 DEF AdcBadSample
  <2>2. ControlTypes'
    BY <2>1, FaultTypes DEF Kinds
  <2>3. progress' \in BOOLEAN
    BY <2>1 DEF CodeTypes
  <2>4. UNCHANGED <<calib, bif, bus, enc, adcOn, isr, task, history>>
    BY <1>4 DEF AdcBadSample
  <2>5. QED
    BY <2>2, <2>3, <2>4 DEF CodeTypes, ControlTypes, history
<1>5. ASSUME NEW over \in BOOLEAN, AdcInterlock(over) PROVE CodeTypes'
  <2>1. \/ IsrReturns
        \/ IsrGoes("trip", SensorFault(mode)) /\ UNCHANGED progress
        \/ IsrGoes("trip", "Overcurrent") /\ UNCHANGED progress
        \/ IsrGoes("angle", "None") /\ UNCHANGED progress
    BY <1>5 DEF AdcInterlock
  <2>2. SensorFault(mode) \in Kinds
    BY SensorFaultKind
  <2>3. isr' \in Activities(IsrSteps)
    BY <2>1, <2>2, IsrGoesType, AtRestType DEF IsrReturns, IsrSteps, Kinds
  <2>4. progress' \in BOOLEAN
    BY <2>1 DEF CodeTypes, IsrReturns
  <2>5. UNCHANGED <<control, hardware, task, history>>
    BY <1>5 DEF AdcInterlock
  <2>6. QED
    BY <2>3, <2>4, <2>5 DEF CodeTypes, control, hardware, history
<1>6. ASSUME NEW strike \in BOOLEAN, NEW ready \in BOOLEAN, AdcCommit(strike, ready)
      PROVE  CodeTypes'
  <2>1. bif' \in BOOLEAN /\ breakFirst' \in BOOLEAN
    <3>1. BreakSeen \in BOOLEAN
      BY DEF CodeTypes, BreakSeen
    <3>2. QED
      BY <1>6, <3>1 DEF CodeTypes, AdcCommit
  <2>2. isr' \in Activities(IsrSteps) /\ progress' \in BOOLEAN
    BY <1>6, AtRestType DEF AdcCommit, IsrReturns
  <2>3. UNCHANGED <<bus, enc, adcOn, task>>
    BY <1>6 DEF AdcCommit
  <2>4. \/ (\E kind \in Kinds : Fault(kind)) /\ UNCHANGED <<calib, applied>>
        \/ moe' = (moe /\ ~strike) /\ UNCHANGED control /\ applied' \in {applied, 1 - applied}
    BY <1>6, SensorFaultKind DEF AdcCommit, Kinds
  <2>5. ControlTypes' /\ calib' \in BOOLEAN /\ applied' \in {0, 1}
    <3>1. CASE (\E kind \in Kinds : Fault(kind)) /\ UNCHANGED <<calib, applied>>
      BY <3>1, FaultTypes DEF CodeTypes
    <3>2. CASE moe' = (moe /\ ~strike) /\ UNCHANGED control /\ applied' \in {applied, 1 - applied}
      <4>1. moe' \in BOOLEAN
        BY <3>2 DEF CodeTypes
      <4>2. applied' \in {0, 1}
        BY <3>2 DEF CodeTypes
      <4>3. UNCHANGED control
        BY <3>2
      <4>4. QED
        BY <4>1, <4>2, <4>3 DEF CodeTypes, ControlTypes, control
    <3>3. QED
      BY <2>4, <3>1, <3>2
  <2>6. QED
    BY <2>1, <2>2, <2>3, <2>5 DEF CodeTypes, ControlTypes
<1>7. QED
  BY <1>1, <1>2, <1>3, <1>4, <1>5, <1>6 DEF AdcIsr

LEMMA TimeTypes == CodeTypes /\ (BusExpires \/ EncExpires) => CodeTypes'
<1> SUFFICES ASSUME CodeTypes PROVE BusExpires \/ EncExpires => CodeTypes'
  OBVIOUS
<1>1. ASSUME BusExpires PROVE CodeTypes'
  <2>1. bus' \in BusFaults
    BY <1>1, ControlAssumption DEF BusExpires
  <2>2. UNCHANGED <<control, progress, moe, bif, enc, adcOn, isr, task, history>>
    BY <1>1 DEF BusExpires
  <2>3. QED
    BY <2>1, <2>2 DEF CodeTypes, control, history
<1>2. ASSUME EncExpires PROVE CodeTypes'
  <2>1. enc' = FALSE
    BY <1>2 DEF EncExpires
  <2>2. UNCHANGED <<control, progress, moe, bif, bus, adcOn, isr, task, history>>
    BY <1>2 DEF EncExpires
  <2>3. QED
    BY <2>1, <2>2 DEF CodeTypes, control, history
<1>3. QED
  BY <1>1, <1>2

\* The button and the shell's starts and stops write what Enter and Stop write.
LEMMA CommandTypes ==
  ASSUME CodeTypes,
         ControlTypes', calib' \in BOOLEAN, bif' \in BOOLEAN, breakFirst' \in BOOLEAN,
         task' \in Activities(TaskSteps),
         UNCHANGED <<progress, bus, enc, adcOn, isr, applied>>
  PROVE  CodeTypes'
BY DEF CodeTypes, ControlTypes

LEMMA OperatorTypes == CodeTypes /\ Operator => CodeTypes'
<1> SUFFICES ASSUME CodeTypes PROVE Operator => CodeTypes'
  OBVIOUS
<1>0. task \in Activities(TaskSteps)
  BY DEF CodeTypes
<1>1. ASSUME NEW target \in Targets, CmdEnter(target) PROVE CodeTypes'
  <2>1. PICK strike \in Strikes, planOk \in PlanChoices(target) :
          Enter(target, strike, planOk)
    BY <1>1 DEF CmdEnter
  <2>2. target \in LiveModes /\ planOk \in BOOLEAN
    BY ControlAssumption DEF PlanChoices
  <2>3. UNCHANGED <<progress, bus, enc, adcOn, isr, task, applied>>
    BY <1>1 DEF CmdEnter
  <2>4. QED
    BY <1>0, <2>1, <2>2, <2>3, EnterTypes, CommandTypes
<1>2. ASSUME CmdStop PROVE CodeTypes'
  <2>1. Stop /\ UNCHANGED <<progress, bus, enc, adcOn, isr, task, applied>>
    BY <1>2 DEF CmdStop
  <2>2. QED
    BY <1>0, <2>1, StopTypes, CommandTypes
<1>3. ASSUME CmdTargets PROVE CodeTypes'
  <2>1. refs' \in RefRecords
    BY <1>3 DEF CodeTypes, CmdTargets, RefRecords
  <2>2. UNCHANGED <<mode, lastFault, epoch, calib, aligning, watch, progress,
                    hardware, isr, task, history>>
    BY <1>3 DEF CmdTargets
  <2>3. QED
    BY <2>1, <2>2 DEF CodeTypes, hardware, history
<1>4. ASSUME CmdCalibration PROVE CodeTypes'
  <2>1. calib' \in BOOLEAN
    BY <1>4 DEF CmdCalibration
  <2>2. UNCHANGED <<mode, lastFault, epoch, refs, aligning, watch, progress,
                    hardware, isr, task, history>>
    BY <1>4 DEF CmdCalibration
  <2>3. QED
    BY <2>1, <2>2 DEF CodeTypes, hardware, history
<1>5. ASSUME RecalBegin PROVE CodeTypes'
  <2>1. bus' \in BusFaults \cup {"None"} /\ adcOn' \in BOOLEAN
    BY <1>5, ControlAssumption DEF CodeTypes, RecalBegin
  <2>2. task' \in Activities(TaskSteps)
    <3>1. CASE task' = AtRest
      BY <3>1, AtRestType
    <3>2. CASE task' = [task EXCEPT !.at = "recalibrate"]
      BY <1>0, <3>2 DEF Activities, TaskSteps
    <3>3. QED
      BY <1>5, <3>1, <3>2 DEF RecalBegin
  <2>3. UNCHANGED <<control, progress, moe, bif, enc, isr, history>>
    BY <1>5 DEF RecalBegin
  <2>4. QED
    BY <2>1, <2>2, <2>3 DEF CodeTypes, control, history
<1>6. ASSUME NEW stopped \in BOOLEAN, RecalEnd(stopped) PROVE CodeTypes'
  <2>1. adcOn' \in BOOLEAN /\ task' \in Activities(TaskSteps)
    BY <1>6, AtRestType DEF RecalEnd
  <2>2. \/ UNCHANGED <<control, moe>>
        \/ Fault("Adc") /\ UNCHANGED calib
    BY <1>6 DEF RecalEnd
  <2>3. ControlTypes' /\ calib' \in BOOLEAN
    <3>1. CASE UNCHANGED <<control, moe>>
      BY <3>1 DEF CodeTypes, ControlTypes, control
    <3>2. CASE Fault("Adc") /\ UNCHANGED calib
      BY <3>2, FaultTypes DEF CodeTypes, Kinds
    <3>3. QED
      BY <2>2, <3>1, <3>2
  <2>4. UNCHANGED <<progress, bif, bus, enc, isr, history>>
    BY <1>6 DEF RecalEnd
  <2>5. QED
    BY <2>1, <2>3, <2>4 DEF CodeTypes, ControlTypes, history
<1>7. ASSUME ButtonPress \/ CmdRecalibrate PROVE CodeTypes'
  <2>1. \/ task' = [task EXCEPT !.at = "stop"]
        \/ task' = [task EXCEPT !.at = "start"]
        \/ task' = [task EXCEPT !.at = "calibrate"]
    BY <1>7 DEF ButtonPress, CmdRecalibrate
  <2>2. task' \in Activities(TaskSteps)
    BY <1>0, <2>1 DEF Activities, TaskSteps
  <2>3. UNCHANGED <<control, progress, hardware, isr, history>>
    BY <1>7 DEF ButtonPress, CmdRecalibrate
  <2>4. QED
    BY <2>2, <2>3 DEF CodeTypes, control, hardware, history
<1>8. ASSUME ButtonStop PROVE CodeTypes'
  <2>1. Stop /\ task' = AtRest /\ UNCHANGED <<progress, bus, enc, adcOn, isr, applied>>
    BY <1>8 DEF ButtonStop
  <2>2. QED
    BY <2>1, AtRestType, StopTypes, CommandTypes
<1>9. ASSUME ButtonStart PROVE CodeTypes'
  <2>1. PICK strike \in Strikes : Enter("Run", strike, TRUE)
    BY <1>9 DEF ButtonStart
  <2>2. task' = AtRest /\ UNCHANGED <<progress, bus, enc, adcOn, isr, applied>>
    BY <1>9 DEF ButtonStart
  <2>3. "Run" \in LiveModes
    BY DEF LiveModes
  <2>4. QED
    BY <2>1, <2>2, <2>3, AtRestType, EnterTypes, CommandTypes
<1>10. QED
  BY <1>1, <1>2, <1>3, <1>4, <1>5, <1>6, <1>7, <1>8, <1>9 DEF Operator

\* The encoder task and the supervisor: a trip, or a step of references or watch.
LEMMA TaskTypes ==
  ASSUME CodeTypes,
         \/ UNCHANGED <<control, moe>>
         \/ (\E kind \in Kinds : Fault(kind)) /\ UNCHANGED calib
         \/ /\ refs' \in RefRecords
            /\ UNCHANGED <<mode, lastFault, epoch, calib, aligning, watch, moe>>
         \/ /\ watch' \in 0 .. NoWatch
            /\ UNCHANGED <<mode, lastFault, epoch, calib, refs, aligning, moe>>
  PROVE  ControlTypes' /\ calib' \in BOOLEAN
<1>1. CASE UNCHANGED <<control, moe>>
  BY <1>1 DEF CodeTypes, ControlTypes, control
<1>2. CASE (\E kind \in Kinds : Fault(kind)) /\ UNCHANGED calib
  BY <1>2, FaultTypes DEF CodeTypes
<1>3. CASE /\ refs' \in RefRecords
           /\ UNCHANGED <<mode, lastFault, epoch, calib, aligning, watch, moe>>
  BY <1>3 DEF CodeTypes, ControlTypes
<1>4. CASE /\ watch' \in 0 .. NoWatch
           /\ UNCHANGED <<mode, lastFault, epoch, calib, refs, aligning, moe>>
  BY <1>4 DEF CodeTypes, ControlTypes
<1>5. QED
  BY <1>1, <1>2, <1>3, <1>4

LEMMA EncoderTypes == CodeTypes /\ Encoder => CodeTypes'
<1> SUFFICES ASSUME CodeTypes PROVE Encoder => CodeTypes'
  OBVIOUS
<1>0. task \in Activities(TaskSteps)
  BY DEF CodeTypes
<1>1. ASSUME NEW valid \in BOOLEAN, NEW accepted \in BOOLEAN, EncPublish(valid, accepted)
      PROVE  CodeTypes'
  <2>1. enc' \in BOOLEAN
    BY <1>1 DEF EncPublish
  <2>2. task' \in Activities(TaskSteps)
    <3>1. PICK kind \in Kinds : task' = [task EXCEPT !.at = "encoder", !.kind = kind]
      BY <1>1 DEF EncPublish, Kinds
    <3>2. QED
      BY <1>0, <3>1, Goes DEF TaskSteps
  <2>3. UNCHANGED <<control, progress, moe, bif, bus, adcOn, isr, history>>
    BY <1>1 DEF EncPublish
  <2>4. QED
    BY <2>1, <2>2, <2>3 DEF CodeTypes, control, history
<1>2. ASSUME EncCheck PROVE CodeTypes'
  <2>1. \/ Fault("Encoder") /\ UNCHANGED calib
        \/ UNCHANGED <<control, moe>>
    BY <1>2 DEF EncCheck
  <2>2. ControlTypes' /\ calib' \in BOOLEAN
    BY <2>1, TaskTypes DEF Kinds
  <2>3. task' \in Activities(TaskSteps)
    BY <1>2, AtRestType, TokenType, Starts DEF EncCheck, TaskSteps
  <2>4. UNCHANGED <<progress, bif, bus, enc, adcOn, isr, history>>
    BY <1>2 DEF EncCheck
  <2>5. QED
    BY <2>2, <2>3, <2>4 DEF CodeTypes, ControlTypes, history
<1>3. ASSUME NEW due \in BOOLEAN, SpeedCommit(due) PROVE CodeTypes'
  <2>1. \/ Fault(SensorFault(task.token.mode)) /\ UNCHANGED calib
        \/ /\ refs' \in RefRecords
           /\ UNCHANGED <<mode, lastFault, epoch, calib, aligning, watch, moe>>
        \/ UNCHANGED <<control, moe>>
    BY <1>3 DEF CodeTypes, SpeedCommit, RefRecords
  <2>2. ControlTypes' /\ calib' \in BOOLEAN
    BY <2>1, SensorFaultKind, TaskTypes
  <2>3. task' \in Activities(TaskSteps)
    BY <1>3, AtRestType DEF SpeedCommit
  <2>4. UNCHANGED <<progress, bif, bus, enc, adcOn, isr, history>>
    BY <1>3 DEF SpeedCommit
  <2>5. QED
    BY <2>2, <2>3, <2>4 DEF CodeTypes, ControlTypes, history
<1>4. QED
  BY <1>1, <1>2, <1>3 DEF Encoder

\* One ramp step stays within the references.
LEMMA RampStepType ==
  ASSUME CodeTypes
  PROVE  RampStep => refs' \in RefRecords
<1>0. refs \in RefRecords
  BY DEF CodeTypes
<1>1. refs.id \in {0, 1} /\ refs.iq \in {0, 1} /\ refs.rpm \in {0, 1}
  BY <1>0 DEF RefRecords
<1>2. \A ref, target : Slewed(ref, target) \subseteq {0, 1}
  BY DEF Slewed
<1>3. ASSUME RampStep PROVE refs' \in RefRecords
  <2>1. PICK i \in IF mode \in {"Align", "Run"} THEN Slewed(refs.id, refs.idTgt) ELSE {refs.id},
             q \in IF mode \in {"Run", "Speed"} THEN Slewed(refs.iq, refs.iqTgt) ELSE {refs.iq},
             v \in IF mode = "Speed" THEN {0, refs.rpm} ELSE {refs.rpm} :
          refs' = [refs EXCEPT !.id = i, !.iq = q, !.rpm = v]
    BY <1>3 DEF RampStep
  <2>2. i \in {0, 1} /\ q \in {0, 1} /\ v \in {0, 1}
    BY <1>1, <1>2
  <2>3. QED
    BY <1>0, <2>1, <2>2 DEF RefRecords
<1>4. QED
  BY <1>3

LEMMA SupervisorTypes == CodeTypes /\ Supervisor => CodeTypes'
<1> SUFFICES ASSUME CodeTypes PROVE Supervisor => CodeTypes'
  OBVIOUS
<1>0. task \in Activities(TaskSteps)
  BY DEF CodeTypes
<1>1. ASSUME NEW b \in BusFaults \cup {"None", bus}, PublishBus(b) PROVE CodeTypes'
  <2>1. bus' \in BusFaults \cup {"None"}
    BY <1>1 DEF CodeTypes, PublishBus
  <2>2. task' \in Activities(TaskSteps)
    BY <1>0, <1>1 DEF PublishBus, Activities, TaskSteps
  <2>3. UNCHANGED <<control, progress, moe, bif, enc, adcOn, isr, history>>
    BY <1>1 DEF PublishBus
  <2>4. QED
    BY <2>1, <2>2, <2>3 DEF CodeTypes, control, history
<1>2. ASSUME NEW silent \in BOOLEAN, Supervise(silent) PROVE CodeTypes'
  <2>1. \/ Fault(SensorFault(mode)) /\ UNCHANGED calib
        \/ Fault("CmdTimeout") /\ UNCHANGED calib
        \/ UNCHANGED <<control, moe>>
    BY <1>2 DEF Supervise
  <2>2. "CmdTimeout" \in Kinds
    BY DEF Kinds
  <2>3. ControlTypes' /\ calib' \in BOOLEAN
    BY <2>1, <2>2, SensorFaultKind, TaskTypes
  <2>4. task' \in Activities(TaskSteps)
    BY <1>0, <1>2 DEF Supervise, Activities, TaskSteps
  <2>5. UNCHANGED <<progress, bif, bus, enc, adcOn, isr, history>>
    BY <1>2 DEF Supervise
  <2>6. QED
    BY <2>3, <2>4, <2>5 DEF CodeTypes, ControlTypes, history
<1>3. ASSUME SuperviseCurrent PROVE CodeTypes'
  <2>1. Polled < StallPolls => Polled \in 0 .. NoWatch
    BY ControlAssumption DEF CodeTypes, Polled, NoWatch
  <2>2. NoWatch \in 0 .. NoWatch
    BY ControlAssumption DEF NoWatch
  <2>3. Polled \in Nat
    BY ControlAssumption DEF CodeTypes, Polled, NoWatch
  <2>4. \/ Fault("ControlStall") /\ UNCHANGED calib
        \/ /\ watch' \in 0 .. NoWatch
           /\ UNCHANGED <<mode, lastFault, epoch, calib, refs, aligning, moe>>
    BY <1>3, <2>1, <2>2, <2>3, ControlAssumption DEF SuperviseCurrent
  <2>5. "ControlStall" \in Kinds
    BY DEF Kinds
  <2>6. ControlTypes' /\ calib' \in BOOLEAN
    BY <2>4, <2>5, TaskTypes
  <2>7. task' \in Activities(TaskSteps) /\ progress' = FALSE
    BY <1>0, <1>3 DEF SuperviseCurrent, Activities, TaskSteps
  <2>8. UNCHANGED <<bif, bus, enc, adcOn, isr, history>>
    BY <1>3 DEF SuperviseCurrent
  <2>9. QED
    BY <2>6, <2>7, <2>8 DEF CodeTypes, ControlTypes, history
<1>4. ASSUME NEW verdict \in Verdicts, Tick(verdict) PROVE CodeTypes'
  <2>1. PollAlign(verdict)
    BY <1>4 DEF Tick
  <2>2. \/ FinishAlign
        \/ Fault("Alignment") /\ UNCHANGED calib
        \/ /\ refs' \in RefRecords
           /\ UNCHANGED <<mode, lastFault, epoch, calib, aligning, watch, moe>>
    BY <2>1, RampStepType DEF PollAlign, Verdicts
  <2>3. "Alignment" \in Kinds
    BY DEF Kinds
  <2>4. ControlTypes' /\ calib' \in BOOLEAN
    BY <2>2, <2>3, TaskTypes, FinishAlignTypes
  <2>5. task' \in Activities(TaskSteps)
    BY <1>4, AtRestType DEF Tick
  <2>6. UNCHANGED <<progress, bif, bus, enc, adcOn, isr, history>>
    BY <1>4 DEF Tick
  <2>7. QED
    BY <2>4, <2>5, <2>6 DEF CodeTypes, ControlTypes, history
<1>5. QED
  BY <1>1, <1>2, <1>3, <1>4 DEF Supervisor

LEMMA InitTypes == Init => CodeTypes
<1> SUFFICES ASSUME Init PROVE CodeTypes
  OBVIOUS
<1>1. isr \in Activities(IsrSteps) /\ task \in Activities(TaskSteps)
  BY AtRestType DEF Init
<1>2. refs \in RefRecords
  BY ZeroRefsType DEF Init
<1>3. epoch \in Epochs /\ watch \in 0 .. NoWatch
  BY ControlAssumption DEF Init, Epochs, NoWatch
<1>4. bus \in BusFaults
  BY ControlAssumption DEF Init
<1>5. mode \in Modes /\ lastFault \in Kinds
  BY DEF Init, Modes, Kinds
<1>6. QED
  BY <1>1, <1>2, <1>3, <1>4, <1>5 DEF Init, CodeTypes

LEMMA StepTypes == CodeTypes /\ [Next]_vars => CodeTypes'
<1> SUFFICES ASSUME CodeTypes, [Next]_vars PROVE CodeTypes'
  OBVIOUS
<1>1. CASE Next
  BY <1>1, BreakTypes, AdcTypes, TimeTypes, SupervisorTypes, EncoderTypes, OperatorTypes
     DEF Next, Step
<1>2. CASE UNCHANGED vars
  BY <1>2 DEF CodeTypes, vars, code, control, hardware, history
<1>3. QED
  BY <1>1, <1>2

\* Every variable of the code keeps its type.
LEMMA CodeTypeCorrect == Spec => []CodeTypes
<1>1. Init => CodeTypes
  BY InitTypes
<1>2. CodeTypes /\ [Next]_vars => CodeTypes'
  BY StepTypes
<1>3. QED
  BY <1>1, <1>2, PTL DEF Spec

-------------------------------------------------------------------------------
(* Safety: what each transition of control.rs leaves behind. *)
LEMMA QuietKeeps ==
  ASSUME Safe, UNCHANGED watched
  PROVE  Safe'
BY DEF Safe, watched, OutputsOwned, OutputsLive, ClosedLoopCalibrated, RefsBelong,
       AlignSupervised, BreakHolds, BreakPending, BreakReported

\* After clear_references() in a mode that is not live, nothing is left to guard.
LEMMA ClearedKeeps ==
  ASSUME ClearReferences, mode' \in {"Idle", "Fault"}, moe' = FALSE
  PROVE  /\ OutputsOwned' /\ ClosedLoopCalibrated' /\ RefsBelong'
         /\ AlignSupervised' /\ BreakHolds'
<1>1. OutputsOwned' /\ BreakHolds'
  BY DEF OutputsOwned, BreakHolds
<1>2. ClosedLoopCalibrated'
  BY DEF ClosedLoopCalibrated, CalibratedModes
<1>3. refs' = ZeroRefs /\ aligning' = FALSE
  BY DEF ClearReferences, RefsCleared, AlignmentCleared
<1>4. RefsBelong'
  BY <1>3 DEF RefsBelong, ZeroRefs
<1>5. AlignSupervised'
  BY <1>3 DEF AlignSupervised
<1>6. QED
  BY <1>1, <1>2, <1>4, <1>5

\* A trip: the break's own if a break is waiting to be reported, or else another.
LEMMA FaultKeeps ==
  ASSUME Safe, bif \in BOOLEAN, NEW kind, Fault(kind), bif <=> kind = "Brake",
         UNCHANGED <<calib, breakFirst>>
  PROVE  Safe'
<1>1. moe' = FALSE /\ mode' = "Fault" /\ lastFault' = CauseLatched(kind)
  BY DEF Fault, MoeOff
<1>2. BreakHolds' /\ BreakPending'
  BY <1>1 DEF BreakHolds, BreakPending
<1>3. BreakReported'
  BY <1>1 DEF Safe, BreakReported, BreakPending, CauseLatched
<1>4. OutputsOwned' /\ ClosedLoopCalibrated' /\ RefsBelong' /\ AlignSupervised'
  <2>1. CASE mode = "Fault"
    <3>1. UNCHANGED <<refs, aligning>>
      BY <2>1 DEF Fault
    <3>2. OutputsOwned' /\ ClosedLoopCalibrated'
      BY <1>1 DEF OutputsOwned, ClosedLoopCalibrated, CalibratedModes
    <3>3. RefsBelong' /\ AlignSupervised'
      BY <1>1, <2>1, <3>1 DEF Safe, RefsBelong, AlignSupervised
    <3>4. QED
      BY <3>2, <3>3
  <2>2. CASE mode # "Fault"
    <3>1. ClearReferences
      BY <2>2 DEF Fault
    <3>2. QED
      BY <1>1, <3>1, ClearedKeeps
  <2>3. QED
    BY <2>1, <2>2
<1>5. QED
  BY <1>2, <1>3, <1>4 DEF Safe

LEMMA StopKeeps ==
  ASSUME ~bif, Stop
  PROVE  Safe'
<1>1. ClearReferences /\ mode' = "Idle" /\ moe' = FALSE /\ breakFirst' = FALSE /\ ~bif'
  BY DEF Stop
<1>2. BreakPending' /\ BreakReported'
  BY <1>1 DEF BreakPending, BreakReported
<1>3. QED
  BY <1>1, <1>2, ClearedKeeps DEF Safe

\* A start that reaches the timer's MOE without meeting a break.
LEMMA ArmKeeps ==
  ASSUME Safe, CodeTypes, NEW target \in LiveModes, Startable(target), Arm(target),
         calib' = (calib /\ target # "Align"), breakFirst' = FALSE, bif' = FALSE
  PROVE  Safe'
<1>1. moe' = TRUE /\ mode' = target /\ refs' = Prepared(target)
      /\ aligning' = (target = "Align")
  BY DEF Arm
<1>2. OutputsOwned'
  BY <1>1 DEF OutputsOwned, OutputsLive
<1>3. ClosedLoopCalibrated'
  BY <1>1 DEF ClosedLoopCalibrated, Startable, CalibratedModes
<1>4. RefsBelong'
  <2>1. refs.rpm = 0 /\ refs.ol = 0
    BY DEF Safe, RefsBelong, Startable, CodeTypes, RefRecords
  <2>2. /\ refs'.id = 0 /\ refs'.iq = 0
        /\ refs'.rpm = IF target = "Speed" THEN 1 ELSE refs.rpm
        /\ refs'.ol = IF target = "Openloop" THEN 1 ELSE refs.ol
    BY <1>1 DEF Prepared, CodeTypes, RefRecords
  <2>3. QED
    BY <1>1, <2>1, <2>2 DEF RefsBelong
<1>5. AlignSupervised'
  BY <1>1 DEF AlignSupervised
<1>6. BreakHolds' /\ BreakPending' /\ BreakReported'
  BY <1>1 DEF BreakHolds, BreakPending, BreakReported, LiveModes
<1>7. QED
  BY <1>2, <1>3, <1>4, <1>5, <1>6 DEF Safe

LEMMA EnterKeeps ==
  ASSUME Safe, CodeTypes, ~bif, NEW target \in LiveModes, NEW strike \in Strikes,
         NEW planOk \in BOOLEAN, Enter(target, strike, planOk)
  PROVE  Safe'
<1>1. CASE Startable(target)
  <2>1. /\ calib' = (calib /\ target # "Align")
        /\ bif' = (planOk /\ strike # "none")
        /\ breakFirst' = (planOk /\ strike # "none")
    BY <1>1 DEF Enter
  <2>2. CASE planOk /\ strike = "none"
    <3>1. Arm(target) /\ breakFirst' = FALSE /\ bif' = FALSE
      BY <1>1, <2>1, <2>2 DEF Enter, ArmingRefused
    <3>2. QED
      BY <1>1, <2>1, <3>1, ArmKeeps
  <2>3. CASE ~(planOk /\ strike = "none")
    <3>1. /\ ClearReferences
          /\ mode' = "Fault" /\ moe' = FALSE
          /\ lastFault' = IF planOk THEN "Brake" ELSE "Adc"
      BY <1>1, <2>3 DEF Enter, ArmingRefused, Startable, Fault, MoeOff, CauseLatched
    <3>2. BreakPending' /\ BreakReported'
      BY <2>1, <2>3, <3>1 DEF BreakPending, BreakReported
    <3>3. QED
      BY <3>1, <3>2, ClearedKeeps DEF Safe
  <2>4. QED
    BY <2>2, <2>3
<1>2. CASE ~Startable(target)
  <2>1. UNCHANGED <<control, moe, bif, breakFirst>>
    BY <1>2 DEF Enter
  <2>2. UNCHANGED watched
    BY <2>1 DEF watched, control
  <2>3. QED
    BY <2>2, QuietKeeps
<1>3. QED
  BY <1>1, <1>2

LEMMA FinishAlignKeeps ==
  ASSUME Safe, CodeTypes, ~bif, mode = "Align", FinishAlign, UNCHANGED <<bif, breakFirst>>
  PROVE  Safe'
<1>1. CASE SensorFault("Align") # "None"
  <2>1. Fault(SensorFault("Align")) /\ UNCHANGED calib
    BY <1>1 DEF FinishAlign
  <2>2. QED
    BY <2>1, FaultKeeps, SensorFaultKind DEF CodeTypes
<1>2. CASE SensorFault("Align") = "None"
  <2>1. ClearReferences /\ mode' = "Idle" /\ moe' = FALSE
    BY <1>2 DEF FinishAlign
  <2>2. breakFirst' = FALSE
    BY DEF Safe, BreakPending, CodeTypes
  <2>3. BreakPending' /\ BreakReported'
    BY <2>1, <2>2 DEF BreakPending, BreakReported
  <2>4. QED
    BY <2>1, <2>3, ClearedKeeps DEF Safe
<1>3. QED
  BY <1>1, <1>2

\* References may move as long as each stays within the modes that use it.
LEMMA RefsKeep ==
  ASSUME Safe, RefsBelong',
         UNCHANGED <<mode, lastFault, calib, aligning, moe, bif, breakFirst>>
  PROVE  Safe'
BY DEF Safe, OutputsOwned, OutputsLive, ClosedLoopCalibrated, AlignSupervised,
       BreakHolds, BreakPending, BreakReported

-------------------------------------------------------------------------------
\* Every action is one of the transitions above, or touches nothing they guard.
LEMMA BreakSafe == IInv /\ (HwBreak \/ BrkIsr) => Safe'
<1> SUFFICES ASSUME IInv PROVE HwBreak \/ BrkIsr => Safe'
  OBVIOUS
<1>0. CodeTypes /\ Safe
  BY DEF IInv
<1>1. ASSUME HwBreak PROVE Safe'
  <2>1. bif' = TRUE /\ moe' = FALSE /\ breakFirst' = BreakSeen
    BY <1>1 DEF HwBreak
  <2>2. UNCHANGED <<mode, lastFault, calib, refs, aligning>>
    BY <1>1 DEF HwBreak, control
  <2>3. OutputsOwned' /\ BreakHolds' /\ BreakPending'
    BY <1>0, <2>1, <2>2 DEF CodeTypes, OutputsOwned, BreakHolds, BreakPending, BreakSeen
  <2>4. BreakReported'
    BY <1>0, <2>1, <2>2 DEF Safe, BreakReported, BreakSeen
  <2>5. ClosedLoopCalibrated' /\ RefsBelong' /\ AlignSupervised'
    BY <1>0, <2>2 DEF Safe, ClosedLoopCalibrated, RefsBelong, AlignSupervised
  <2>6. QED
    BY <2>3, <2>4, <2>5 DEF Safe
<1>2. ASSUME BrkIsr PROVE Safe'
  <2>1. bif /\ Fault("Brake") /\ UNCHANGED <<calib, breakFirst>>
    BY <1>2 DEF BrkIsr, history
  <2>2. QED
    BY <1>0, <2>1, FaultKeeps DEF CodeTypes
<1>3. QED
  BY <1>1, <1>2

LEMMA CommitSafe ==
  ASSUME IInv, NEW strike \in BOOLEAN, NEW ready \in BOOLEAN, AdcCommit(strike, ready)
  PROVE  Safe'
<1>0. CodeTypes /\ Safe /\ ~bif
  BY DEF IInv, AdcCommit, IsrAt, IsrMayRun
<1>1. bif' = strike
  BY DEF AdcCommit
<1>2. breakFirst' = breakFirst \/ (strike /\ breakFirst' = BreakSeen)
  BY <1>0 DEF AdcCommit, CodeTypes, BreakSeen
<1>3. CASE moe' = (moe /\ ~strike) /\ UNCHANGED control /\ (strike => breakFirst' = BreakSeen)
  <2>1. UNCHANGED <<mode, lastFault, calib, refs, aligning>>
    BY <1>3 DEF control
  <2>2. OutputsOwned'
    BY <1>0, <1>3, <2>1 DEF Safe, OutputsOwned, OutputsLive
  <2>3. BreakHolds' /\ BreakPending' /\ BreakReported'
    BY <1>0, <1>1, <1>2, <1>3, <2>1
       DEF Safe, CodeTypes, BreakHolds, BreakPending, BreakReported, BreakSeen
  <2>4. ClosedLoopCalibrated' /\ RefsBelong' /\ AlignSupervised'
    BY <1>0, <2>1 DEF Safe, ClosedLoopCalibrated, RefsBelong, AlignSupervised
  <2>5. QED
    BY <2>2, <2>3, <2>4 DEF Safe
<1>4. CASE Fault(SensorFault(isr.token.mode)) /\ UNCHANGED calib
           /\ SensorFault(isr.token.mode) # "None" /\ TokenHolds(isr.token)
  <2>1. UNCHANGED breakFirst
    BY <1>4 DEF AdcCommit
  <2>2. QED
    BY <1>0, <1>4, <2>1, FaultKeeps, SensorFaultKind DEF CodeTypes
<1>5. CASE Fault("Adc") /\ UNCHANGED calib /\ TokenHolds(isr.token)
  <2>1. CASE UNCHANGED breakFirst
    BY <1>0, <1>5, <2>1, FaultKeeps DEF CodeTypes
  <2>2. CASE breakFirst' = BreakSeen
    <3>1. mode' = "Fault" /\ moe' = FALSE
      BY <1>5 DEF Fault, MoeOff
    <3>2. lastFault' = IF mode = "Fault" THEN lastFault ELSE "Adc"
      BY <1>5 DEF Fault, CauseLatched
    <3>3. BreakReported'
      BY <1>0, <2>2, <3>1, <3>2 DEF Safe, BreakReported, BreakSeen
    <3>4. BreakHolds' /\ BreakPending'
      BY <3>1 DEF BreakHolds, BreakPending
    <3>5. OutputsOwned' /\ ClosedLoopCalibrated' /\ RefsBelong' /\ AlignSupervised'
      <4>1. CASE mode = "Fault"
        <5>1. UNCHANGED <<refs, aligning>>
          BY <1>5, <4>1 DEF Fault
        <5>2. OutputsOwned' /\ ClosedLoopCalibrated'
          BY <3>1 DEF OutputsOwned, ClosedLoopCalibrated, CalibratedModes
        <5>3. RefsBelong' /\ AlignSupervised'
          BY <1>0, <3>1, <4>1, <5>1 DEF Safe, RefsBelong, AlignSupervised
        <5>4. QED
          BY <5>2, <5>3
      <4>2. CASE mode # "Fault"
        BY <1>5, <3>1, <4>2, ClearedKeeps DEF Fault
      <4>3. QED
        BY <4>1, <4>2
    <3>6. QED
      BY <3>3, <3>4, <3>5 DEF Safe
  <2>3. QED
    BY <2>1, <2>2 DEF AdcCommit
<1>6. QED
  BY <1>3, <1>4, <1>5 DEF AdcCommit

LEMMA AdcSafe == IInv /\ AdcIsr => Safe'
<1> SUFFICES ASSUME IInv PROVE AdcIsr => Safe'
  OBVIOUS
<1>0. CodeTypes /\ Safe
  BY DEF IInv
<1>1. ASSUME AdcSample PROVE Safe'
  BY <1>0, <1>1, QuietKeeps DEF AdcSample, watched, control, hardware, history
<1>2. ASSUME AdcAngle PROVE Safe'
  BY <1>0, <1>2, QuietKeeps DEF AdcAngle, watched, control, hardware, history
<1>3. ASSUME AdcTrip PROVE Safe'
  <2>1. ~bif /\ isr.kind # "Brake" /\ Fault(isr.kind) /\ UNCHANGED <<calib, breakFirst>>
    BY <1>3 DEF AdcTrip, IsrAt, IsrMayRun, history, IInv, Carried
  <2>2. QED
    BY <1>0, <2>1, FaultKeeps DEF CodeTypes
<1>4. ASSUME NEW serviced \in BOOLEAN, AdcBadSample(serviced) PROVE Safe'
  <2>1. ~bif /\ Fault("Adc") /\ UNCHANGED <<calib, breakFirst>>
    BY <1>4 DEF AdcBadSample, IsrAt, IsrMayRun, history
  <2>2. QED
    BY <1>0, <2>1, FaultKeeps DEF CodeTypes
<1>5. ASSUME NEW over \in BOOLEAN, AdcInterlock(over) PROVE Safe'
  <2>1. UNCHANGED <<control, hardware, task, history>>
    BY <1>5 DEF AdcInterlock
  <2>2. QED
    BY <1>0, <2>1, QuietKeeps DEF watched, control, hardware, history
<1>6. QED
  BY <1>1, <1>2, <1>3, <1>4, <1>5, CommitSafe DEF AdcIsr

LEMMA OperatorSafe == IInv /\ Operator => Safe'
<1> SUFFICES ASSUME IInv PROVE Operator => Safe'
  OBVIOUS
<1>0. CodeTypes /\ Safe
  BY DEF IInv
<1>1. ASSUME NEW target \in Targets, CmdEnter(target) PROVE Safe'
  <2>1. PICK strike \in Strikes, planOk \in PlanChoices(target) :
          Enter(target, strike, planOk)
    BY <1>1 DEF CmdEnter
  <2>2. target \in LiveModes /\ planOk \in BOOLEAN /\ ~bif
    BY <1>1, ControlAssumption DEF PlanChoices, CmdEnter, TaskAt, TaskMayRun
  <2>3. QED
    BY <1>0, <2>1, <2>2, EnterKeeps
<1>2. ASSUME CmdStop \/ ButtonStop PROVE Safe'
  BY <1>2, StopKeeps DEF CmdStop, ButtonStop, TaskAt, TaskMayRun
<1>3. ASSUME CmdTargets PROVE Safe'
  <2>1. UNCHANGED <<mode, lastFault, calib, aligning, moe, bif, breakFirst>>
    BY <1>3 DEF CmdTargets, hardware, history
  <2>2. RefsBelong'
    BY <1>0, <1>3, <2>1 DEF CmdTargets, Safe, CodeTypes, RefsBelong, RefRecords
  <2>3. QED
    BY <1>0, <2>1, <2>2, RefsKeep
<1>4. ASSUME CmdCalibration PROVE Safe'
  <2>1. mode = "Idle" /\ UNCHANGED <<mode, lastFault, refs, aligning, moe, bif, breakFirst>>
    BY <1>4 DEF CmdCalibration, Editable, hardware, history
  <2>2. QED
    BY <1>0, <2>1 DEF Safe, OutputsOwned, OutputsLive, ClosedLoopCalibrated,
       CalibratedModes, RefsBelong, AlignSupervised, BreakHolds, BreakPending, BreakReported
<1>5. ASSUME RecalBegin PROVE Safe'
  BY <1>0, <1>5, QuietKeeps DEF RecalBegin, watched, control, history
<1>6. ASSUME NEW stopped \in BOOLEAN, RecalEnd(stopped) PROVE Safe'
  <2>1. ~bif /\ UNCHANGED <<bif, breakFirst>>
    BY <1>6 DEF RecalEnd, TaskAt, TaskMayRun, history
  <2>2. \/ UNCHANGED <<control, moe>>
        \/ Fault("Adc") /\ UNCHANGED calib
    BY <1>6 DEF RecalEnd
  <2>3. CASE UNCHANGED <<control, moe>>
    BY <1>0, <2>1, <2>3, QuietKeeps DEF watched, control
  <2>4. CASE Fault("Adc") /\ UNCHANGED calib
    BY <1>0, <2>1, <2>4, FaultKeeps, SensorFaultKind DEF CodeTypes
  <2>5. QED
    BY <2>2, <2>3, <2>4
<1>7. ASSUME ButtonPress \/ CmdRecalibrate PROVE Safe'
  BY <1>0, <1>7, QuietKeeps DEF ButtonPress, CmdRecalibrate, watched, control, hardware, history
<1>8. ASSUME ButtonStart PROVE Safe'
  <2>1. PICK strike \in Strikes : Enter("Run", strike, TRUE)
    BY <1>8 DEF ButtonStart
  <2>2. ~bif /\ "Run" \in LiveModes
    BY <1>8 DEF ButtonStart, TaskAt, TaskMayRun, LiveModes
  <2>3. QED
    BY <1>0, <2>1, <2>2, EnterKeeps
<1>9. QED
  BY <1>1, <1>2, <1>3, <1>4, <1>5, <1>6, <1>7, <1>8 DEF Operator

LEMMA EncoderSafe == IInv /\ Encoder => Safe'
<1> SUFFICES ASSUME IInv PROVE Encoder => Safe'
  OBVIOUS
<1>0. CodeTypes /\ Safe
  BY DEF IInv
<1>1. ASSUME NEW valid \in BOOLEAN, NEW accepted \in BOOLEAN, EncPublish(valid, accepted)
      PROVE  Safe'
  BY <1>0, <1>1, QuietKeeps DEF EncPublish, watched, control, history
<1>2. ASSUME EncCheck PROVE Safe'
  <2>1. ~bif /\ UNCHANGED <<bif, breakFirst>>
    BY <1>2 DEF EncCheck, TaskAt, TaskMayRun, history
  <2>2. \/ UNCHANGED <<control, moe>>
        \/ Fault("Encoder") /\ UNCHANGED calib
    BY <1>2 DEF EncCheck
  <2>3. CASE UNCHANGED <<control, moe>>
    BY <1>0, <2>1, <2>3, QuietKeeps DEF watched, control
  <2>4. CASE Fault("Encoder") /\ UNCHANGED calib
    BY <1>0, <2>1, <2>4, FaultKeeps, SensorFaultKind DEF CodeTypes
  <2>5. QED
    BY <2>2, <2>3, <2>4
<1>3. ASSUME NEW due \in BOOLEAN, SpeedCommit(due) PROVE Safe'
  <2>1. ~bif /\ UNCHANGED <<bif, breakFirst>>
    BY <1>3 DEF SpeedCommit, TaskAt, TaskMayRun, history
  <2>2. \/ UNCHANGED <<control, moe>>
        \/ Fault(SensorFault(task.token.mode)) /\ UNCHANGED calib
        \/ /\ \E v \in {0, 1} : refs' = [refs EXCEPT !.iqTgt = v]
           /\ UNCHANGED <<mode, lastFault, epoch, calib, aligning, watch, moe>>
    BY <1>3 DEF SpeedCommit
  <2>3. CASE UNCHANGED <<control, moe>>
    BY <1>0, <2>1, <2>3, QuietKeeps DEF watched, control
  <2>4. CASE Fault(SensorFault(task.token.mode)) /\ UNCHANGED calib
    BY <1>0, <2>1, <2>4, FaultKeeps, SensorFaultKind DEF CodeTypes
  <2>5. CASE /\ \E v \in {0, 1} : refs' = [refs EXCEPT !.iqTgt = v]
             /\ UNCHANGED <<mode, lastFault, epoch, calib, aligning, watch, moe>>
    <3>1. RefsBelong'
      BY <1>0, <2>5 DEF Safe, CodeTypes, RefsBelong, RefRecords
    <3>2. QED
      BY <1>0, <2>1, <2>5, <3>1, RefsKeep
  <2>6. QED
    BY <2>2, <2>3, <2>4, <2>5
<1>4. QED
  BY <1>1, <1>2, <1>3 DEF Encoder

\* The ramps only move references their mode uses.
LEMMA RampKeeps ==
  ASSUME CodeTypes, RefsBelong, RampStep, UNCHANGED mode
  PROVE  RefsBelong'
<1>0. refs \in RefRecords
  BY DEF CodeTypes
<1>1. PICK i \in IF mode \in {"Align", "Run"} THEN Slewed(refs.id, refs.idTgt) ELSE {refs.id},
           q \in IF mode \in {"Run", "Speed"} THEN Slewed(refs.iq, refs.iqTgt) ELSE {refs.iq},
           v \in IF mode = "Speed" THEN {0, refs.rpm} ELSE {refs.rpm} :
        refs' = [refs EXCEPT !.id = i, !.iq = q, !.rpm = v]
  BY DEF RampStep
<1>2. refs'.id = i /\ refs'.iq = q /\ refs'.rpm = v /\ refs'.ol = refs.ol
  BY <1>0, <1>1 DEF RefRecords
<1>3. /\ mode \notin {"Align", "Run"} => i = refs.id
      /\ mode \notin {"Run", "Speed"} => q = refs.iq
      /\ mode # "Speed" => v = refs.rpm
  BY <1>1
<1>4. QED
  BY <1>2, <1>3 DEF RefsBelong

LEMMA SupervisorSafe == IInv /\ Supervisor => Safe'
<1> SUFFICES ASSUME IInv PROVE Supervisor => Safe'
  OBVIOUS
<1>0. CodeTypes /\ Safe
  BY DEF IInv
<1>1. ASSUME NEW b \in BusFaults \cup {"None", bus}, PublishBus(b) PROVE Safe'
  BY <1>0, <1>1, QuietKeeps DEF PublishBus, watched, control, history
<1>2. ASSUME NEW silent \in BOOLEAN, Supervise(silent) PROVE Safe'
  <2>1. ~bif /\ UNCHANGED <<bif, breakFirst>>
    BY <1>2 DEF Supervise, TaskAt, TaskMayRun, history
  <2>2. \/ UNCHANGED <<control, moe>>
        \/ (\E kind \in Kinds \ {"Brake"} : Fault(kind)) /\ UNCHANGED calib
    BY <1>0, <1>2, SensorFaultKind DEF Supervise, Kinds
  <2>3. CASE UNCHANGED <<control, moe>>
    BY <1>0, <2>1, <2>3, QuietKeeps DEF watched, control
  <2>4. CASE (\E kind \in Kinds \ {"Brake"} : Fault(kind)) /\ UNCHANGED calib
    BY <1>0, <2>1, <2>4, FaultKeeps, SensorFaultKind DEF CodeTypes
  <2>5. QED
    BY <2>2, <2>3, <2>4
<1>3. ASSUME SuperviseCurrent PROVE Safe'
  <2>1. ~bif /\ UNCHANGED <<bif, breakFirst>>
    BY <1>3 DEF SuperviseCurrent, TaskAt, TaskMayRun, history
  <2>2. \/ UNCHANGED <<mode, lastFault, epoch, calib, refs, aligning, moe>>
        \/ Fault("ControlStall") /\ UNCHANGED calib
    BY <1>3 DEF SuperviseCurrent
  <2>3. CASE UNCHANGED <<mode, lastFault, epoch, calib, refs, aligning, moe>>
    BY <1>0, <2>1, <2>3, QuietKeeps DEF watched
  <2>4. CASE Fault("ControlStall") /\ UNCHANGED calib
    BY <1>0, <2>1, <2>4, FaultKeeps, SensorFaultKind DEF CodeTypes
  <2>5. QED
    BY <2>2, <2>3, <2>4
<1>4. ASSUME NEW verdict \in Verdicts, Tick(verdict) PROVE Safe'
  <2>1. /\ ~bif /\ UNCHANGED <<bif, breakFirst>>
        /\ PollAlign(verdict)
        /\ verdict # "Pending" => mode = "Align"
    BY <1>4 DEF Tick, TaskAt, TaskMayRun, history
  <2>2. CASE verdict = "Complete"
    BY <1>0, <2>1, <2>2, FinishAlignKeeps DEF PollAlign
  <2>3. CASE verdict = "TimedOut"
    BY <1>0, <2>1, <2>3, FaultKeeps DEF PollAlign, CodeTypes
  <2>4. CASE verdict = "Pending"
    <3>1. RampStep /\ UNCHANGED <<mode, lastFault, epoch, calib, aligning, watch, moe>>
      BY <2>1, <2>4 DEF PollAlign
    <3>2. RefsBelong'
      BY <1>0, <3>1, RampKeeps DEF Safe
    <3>3. QED
      BY <1>0, <2>1, <3>1, <3>2, RefsKeep
  <2>5. QED
    BY <2>2, <2>3, <2>4 DEF Verdicts
<1>5. QED
  BY <1>1, <1>2, <1>3, <1>4 DEF Supervisor

LEMMA InitSafe == Init => Safe
BY DEF Init, Safe, OutputsOwned, ClosedLoopCalibrated, CalibratedModes, RefsBelong, ZeroRefs,
       AlignSupervised, BreakHolds, BreakPending, BreakReported

LEMMA StepSafe == IInv /\ [Next]_vars => Safe'
<1> SUFFICES ASSUME IInv, [Next]_vars PROVE Safe'
  OBVIOUS
<1>0. Safe
  BY DEF IInv
<1>1. CASE UNCHANGED vars
  BY <1>0, <1>1, QuietKeeps DEF vars, code, watched, control, hardware, history
<1>2. CASE BusExpires \/ EncExpires
  BY <1>0, <1>2, QuietKeeps DEF BusExpires, EncExpires, watched, control, history
<1>3. CASE Next
  BY <1>2, <1>3, BreakSafe, AdcSafe, SupervisorSafe, EncoderSafe, OperatorSafe DEF Next, Step
<1>4. QED
  BY <1>1, <1>3

-------------------------------------------------------------------------------
(* What a computation carries, and what shows that it was overtaken. *)

\* What may come between two steps of a task only trips or leaves the mode alone.
Passing == HwBreak \/ BrkIsr \/ BusExpires \/ EncExpires

LEMMA PassingIs == Passing => UNCHANGED <<isr, task>> /\ mode' \in {mode, "Fault"}
BY DEF Passing, HwBreak, BrkIsr, BusExpires, EncExpires, Fault, control

LEMMA AdcCarries == IInv /\ AdcIsr => Carried'
<1> SUFFICES ASSUME IInv, AdcIsr PROVE Carried'
  OBVIOUS
<1>0. CodeTypes /\ Carried /\ isr \in Activities(IsrSteps)
  BY DEF IInv, CodeTypes
<1>1. UNCHANGED task /\ mode' \in {mode, "Fault"}
  BY DEF AdcIsr, AdcSample, AdcAngle, AdcTrip, AdcBadSample, AdcInterlock, AdcCommit, Fault,
         control
<1>2. ASSUME isr' = isr \/ isr' = AtRest
             \/ isr' = [at |-> "interlock", token |-> Token, kind |-> "None"]
      PROVE  Carried'
  BY <1>0, <1>1, <1>2 DEF Carried, AtRest, NoToken, Token, LiveModes
<1>3. ASSUME NEW kind \in Kinds \ {"Brake"}, IsrGoes("trip", kind) PROVE Carried'
  BY <1>0, <1>1, <1>3 DEF Carried, IsrGoes, Activities, LiveModes
<1>4. ASSUME NEW step \in {"angle", "commit"}, isr.token # NoToken, IsrGoes(step, "None")
      PROVE  Carried'
  BY <1>0, <1>1, <1>4 DEF Carried, IsrGoes, Activities, LiveModes
<1>5. CASE AdcSample
  BY <1>2, <1>5 DEF AdcSample
<1>6. CASE AdcTrip \/ (\E strike, ready \in BOOLEAN : AdcCommit(strike, ready))
  BY <1>2, <1>6 DEF AdcTrip, AdcCommit, IsrReturns
<1>7. CASE \E b \in BOOLEAN : AdcBadSample(b)
  BY <1>2, <1>7 DEF AdcBadSample
<1>8. CASE \E b \in BOOLEAN : AdcInterlock(b)
  BY <1>0, <1>2, <1>3, <1>4, <1>8, SensorFaultKind DEF AdcInterlock, IsrReturns, Kinds
<1>9. CASE AdcAngle
  <2>1. isr.token # NoToken
    BY <1>0, <1>9 DEF AdcAngle, IsrAt, Carried
  <2>2. IsrGoes("trip", "Encoder") \/ IsrGoes("commit", "None")
    BY <1>9 DEF AdcAngle
  <2>3. QED
    BY <1>3, <1>4, <2>1, <2>2 DEF Kinds
<1>10. QED
  BY <1>5, <1>6, <1>7, <1>8, <1>9 DEF AdcIsr

\* A step of the thread leaves the interrupt at rest. Unless it goes on to the
\* speed loop or to the button's start, the task carries nothing.
LEMMA ThreadCarries == IInv /\ (Supervisor \/ Encoder \/ Operator) => Carried'
<1> SUFFICES ASSUME IInv, Supervisor \/ Encoder \/ Operator PROVE Carried'
  OBVIOUS
<1>0. Carried /\ task \in Activities(TaskSteps)
  BY DEF IInv, CodeTypes
<1>1. UNCHANGED isr
  BY DEF Supervisor, PublishBus, Supervise, SuperviseCurrent, Tick,
         Encoder, EncPublish, EncCheck, SpeedCommit,
         Operator, CmdEnter, CmdStop, CmdTargets, CmdCalibration, CmdRecalibrate, RecalBegin,
         RecalEnd, ButtonPress, ButtonStop, ButtonStart, hardware
<1>2. ASSUME task'.at \notin {"speed", "start"} PROVE Carried'
  BY <1>0, <1>1, <1>2 DEF Carried
<1>3. CASE Supervisor
  <2>1. task'.at \in {"supervise", "watch", "tick", "idle"}
    BY <1>0, <1>3 DEF Supervisor, PublishBus, Supervise, SuperviseCurrent, Tick, Activities,
           AtRest
  <2>2. QED
    BY <1>2, <2>1
<1>4. CASE Encoder
  <2>1. CASE EncCheck
    <3>1. \/ task' = AtRest
          \/ mode = "Speed" /\ task' = [at |-> "speed", token |-> Token, kind |-> "None"]
      BY <2>1 DEF EncCheck
    <3>2. QED
      BY <1>0, <1>1, <3>1 DEF Carried, AtRest, Token, LoopModes
  <2>2. CASE \E valid, accepted \in BOOLEAN : EncPublish(valid, accepted)
    BY <1>0, <1>2, <2>2 DEF EncPublish, Activities
  <2>3. CASE \E due \in BOOLEAN : SpeedCommit(due)
    BY <1>2, <2>3 DEF SpeedCommit, AtRest
  <2>4. QED
    BY <1>4, <2>1, <2>2, <2>3 DEF Encoder
<1>5. CASE Operator
  <2>1. CASE ButtonPress
    <3>1. task'.at = (IF mode = "Fault" \/ OutputsLive THEN "stop" ELSE "start")
          /\ UNCHANGED mode
      BY <1>0, <2>1 DEF ButtonPress, Activities, control
    <3>2. QED
      BY <1>0, <1>1, <3>1 DEF Carried, OutputsLive
  <2>2. CASE (\E target \in Targets : CmdEnter(target)) \/ CmdStop \/ CmdTargets
             \/ CmdCalibration
    <3>1. task.at = "idle" /\ UNCHANGED task
      BY <2>2 DEF CmdEnter, CmdStop, CmdTargets, CmdCalibration, TaskAt
    <3>2. QED
      BY <1>2, <3>1
  <2>3. CASE \/ CmdRecalibrate \/ RecalBegin \/ (\E stopped \in BOOLEAN : RecalEnd(stopped))
             \/ ButtonStop \/ ButtonStart
    <3>1. \/ task' = AtRest
          \/ task' = [task EXCEPT !.at = "calibrate"]
          \/ task' = [task EXCEPT !.at = "recalibrate"]
      BY <2>3 DEF CmdRecalibrate, RecalBegin, RecalEnd, ButtonStop, ButtonStart
    <3>2. QED
      BY <1>0, <1>2, <3>1 DEF Activities, AtRest
  <2>4. QED
    BY <1>5, <2>1, <2>2, <2>3 DEF Operator
<1>6. QED
  BY <1>3, <1>4, <1>5

LEMMA StepCarries == IInv /\ [Next]_vars => Carried'
<1> SUFFICES ASSUME IInv, [Next]_vars PROVE Carried'
  OBVIOUS
<1>1. CASE Passing \/ UNCHANGED vars
  <2>1. UNCHANGED <<isr, task>> /\ mode' \in {mode, "Fault"}
    BY <1>1, PassingIs DEF vars, code, control
  <2>2. QED
    BY <2>1 DEF IInv, Carried, LiveModes
<1>2. QED
  BY <1>1, AdcCarries, ThreadCarries DEF Next, Step, Passing

LEMMA InitCarries == Init => Carried
BY DEF Init, Carried, AtRest

LEMMA Invariance == Spec => []IInv
<1>1. Init => IInv
  BY InitTypes, InitSafe, InitCarries DEF IInv
<1>2. IInv /\ [Next]_vars => IInv'
  BY StepTypes, StepSafe, StepCarries DEF IInv
<1>3. QED
  BY <1>1, <1>2, PTL DEF Spec

\* While the thread runs nobody else is in the middle of anything.
LEMMA ThreadRests ==
  ASSUME IInv, Supervisor \/ Encoder \/ Operator
  PROVE  Acting \cap Acting' = {}
<1>0. task \in Activities(TaskSteps)
  BY DEF IInv, CodeTypes
<1>1. isr.at = "idle"
  BY DEF Supervisor, PublishBus, Supervise, SuperviseCurrent, Tick,
         Encoder, EncPublish, EncCheck, SpeedCommit,
         Operator, CmdEnter, CmdStop, CmdTargets, CmdCalibration, CmdRecalibrate, RecalBegin,
         RecalEnd, ButtonPress, ButtonStop, ButtonStart, TaskAt, TaskMayRun
<1>2. task.at \notin {"speed", "start"} \/ task' = AtRest
  <2>1. Supervisor => task.at \notin {"speed", "start"}
    BY DEF Supervisor, PublishBus, Supervise, SuperviseCurrent, Tick, TaskAt
  <2>2. Encoder => task.at \notin {"speed", "start"} \/ task' = AtRest
    BY DEF Encoder, EncPublish, EncCheck, SpeedCommit, TaskAt
  <2>3. Operator => task.at \notin {"speed", "start"} \/ task' = AtRest
    BY DEF Operator, CmdEnter, CmdStop, CmdTargets, CmdCalibration, CmdRecalibrate,
           RecalBegin, RecalEnd, ButtonPress, ButtonStop, ButtonStart, TaskAt
  <2>4. QED
    BY <2>1, <2>2, <2>3
<1>3. QED
  BY <1>1, <1>2 DEF Acting, AtRest

\* Whatever else happens to a computation in progress shows when it happens, and
\* does not pass before the computation has ended.
LEMMA PassingShows ==
  ASSUME Passing, Interrupted \/ Overtakes
  PROVE  Interrupted'
<1>1. CASE HwBreak
  BY <1>1 DEF HwBreak, Interrupted
<1>2. CASE BrkIsr
  BY <1>2 DEF BrkIsr, Fault, Interrupted
<1>3. CASE BusExpires
  BY <1>3 DEF BusExpires, Interrupted, SensorFault
<1>4. CASE EncExpires
  <2>1. UNCHANGED <<mode, epoch, moe, bif, bus>> /\ ~enc'
    BY <1>4 DEF EncExpires, control
  <2>2. SensorFault(mode) # "None" => SensorFault(mode)' # "None"
    BY <2>1 DEF SensorFault
  <2>3. QED
    BY <2>1, <2>2 DEF Interrupted, Overtakes
<1>5. QED
  BY <1>1, <1>2, <1>3, <1>4 DEF Passing

LEMMA AdcShows ==
  ASSUME IInv, AdcIsr, Interrupted \/ Overtakes
  PROVE  Interrupted'
<1>1. CASE \E kind : Fault(kind)
  BY <1>1 DEF Fault, Interrupted
<1>2. CASE UNCHANGED <<control, moe, bif, bus, enc>>
  <2>1. UNCHANGED <<mode, epoch, moe, bif, bus, enc>>
    BY <1>2 DEF control
  <2>2. SensorFault(mode)' = SensorFault(mode)
    BY <2>1 DEF SensorFault
  <2>3. QED
    BY <2>1, <2>2 DEF Interrupted, Overtakes
<1>3. CASE bif'
  BY <1>3 DEF Interrupted
<1>4. ASSUME NEW strike \in BOOLEAN, NEW ready \in BOOLEAN, AdcCommit(strike, ready), ~bif'
      PROVE  (\E kind : Fault(kind)) \/ UNCHANGED <<control, moe, bif, bus, enc>>
  <2>1. strike = FALSE /\ UNCHANGED <<bif, bus, enc>>
    BY <1>4 DEF AdcCommit, IsrAt, IsrMayRun, IInv, CodeTypes
  <2>2. moe' = (moe /\ ~strike) => UNCHANGED moe
    BY <2>1 DEF IInv, CodeTypes
  <2>3. QED
    BY <1>4, <2>1, <2>2 DEF AdcCommit
<1>5. AdcSample \/ AdcAngle => UNCHANGED <<control, moe, bif, bus, enc>>
  BY DEF AdcSample, AdcAngle, hardware
<1>6. \A b \in BOOLEAN : AdcInterlock(b) => UNCHANGED <<control, moe, bif, bus, enc>>
  BY DEF AdcInterlock, hardware
<1>7. AdcTrip \/ (\E b \in BOOLEAN : AdcBadSample(b)) => \E kind : Fault(kind)
  BY DEF AdcTrip, AdcBadSample
<1>8. QED
  BY <1>1, <1>2, <1>3, <1>4, <1>5, <1>6, <1>7 DEF AdcIsr

LEMMA StepShows == IInv /\ OvertakenShows /\ [Next]_vars => OvertakenShows'
<1> SUFFICES ASSUME IInv, OvertakenShows, [Next]_vars PROVE OvertakenShows'
  OBVIOUS
<1>1. CASE UNCHANGED vars
  <2>1. UNCHANGED <<overtaken, mode, bif, bus, enc, isr, task>>
    BY <1>1 DEF vars, code, control, hardware
  <2>2. QED
    BY <2>1 DEF OvertakenShows, Acting, Interrupted, SensorFault
<1>2. CASE Next
  <2>1. overtaken' = {c \in Acting \cap Acting' : c \in overtaken \/ Overtakes}
    BY <1>2 DEF Next, Overtake
  <2>2. ASSUME overtaken' # {} PROVE Interrupted'
    <3>1. Interrupted \/ Overtakes
      BY <2>1, <2>2 DEF OvertakenShows
    <3>2. Acting \cap Acting' # {}
      BY <2>1, <2>2
    <3>3. ~(Supervisor \/ Encoder \/ Operator)
      BY <3>2, ThreadRests
    <3>4. Passing \/ AdcIsr
      BY <1>2, <3>3 DEF Next, Step, Passing
    <3>5. QED
      BY <3>1, <3>4, PassingShows, AdcShows
  <2>3. QED
    BY <2>1, <2>2 DEF OvertakenShows
<1>3. QED
  BY <1>1, <1>2

LEMMA ShownInvariance == Spec => []OvertakenShows
<1>1. Init => OvertakenShows
  BY DEF Init, OvertakenShows
<1>2. QED
  BY <1>1, StepShows, Invariance, PTL DEF Spec

\* Every variable keeps its type, whatever the epoch width and the stall limit.
THEOREM ControlTypeCorrect == Spec => []TypeOK
<1>1. CodeTypes /\ OvertakenShows => TypeOK
  BY DEF TypeOK, OvertakenShows, Acting
<1>2. QED
  BY <1>1, CodeTypeCorrect, ShownInvariance, PTL

-------------------------------------------------------------------------------
\* The gate outputs are driven only while a live mode owns them: every path of
\* stop(), fault() and finish_align() takes MOE and the mode down together.
THEOREM OutputsAreOwned == Spec => []OutputsOwned
<1>1. IInv => OutputsOwned
  BY DEF IInv, Safe
<1>2. QED
  BY <1>1, Invariance, PTL

\* Run and Speed always have a valid calibration (enter_mode, set_poles and the
\* other commands that touch CALIBRATION_VALID).
THEOREM LoopIsCalibrated == Spec => []ClosedLoopCalibrated
<1>1. IInv => ClosedLoopCalibrated
  BY DEF IInv, Safe
<1>2. QED
  BY <1>1, Invariance, PTL

\* No reference outlives the mode that uses it (clear_references, poll_refs).
THEOREM ReferencesBelong == Spec => []RefsBelong
<1>1. IInv => RefsBelong
  BY DEF IInv, Safe
<1>2. QED
  BY <1>1, Invariance, PTL

\* Align and its supervision start and end together (ALIGNMENT).
THEOREM AlignIsSupervised == Spec => []AlignSupervised
<1>1. IInv => AlignSupervised
  BY DEF IInv, Safe
<1>2. QED
  BY <1>1, Invariance, PTL

\* After a break the outputs stay off until a stop, also when the break collides
\* with prepare_start or with a commit.
THEOREM BreakIsFinal == Spec => []BreakHolds
<1>1. IInv => BreakHolds
  BY DEF IInv, Safe
<1>2. QED
  BY <1>1, Invariance, PTL

\* A break that came first is reported as brk or as the adc fault of a commit, and
\* no other trip is reported as brk (fault(), the break interrupt, commit_output).
THEOREM BreakIsReported == Spec => []BreakReported
<1>1. IInv => BreakReported
  BY DEF IInv, Safe
<1>2. QED
  BY <1>1, Invariance, PTL

-------------------------------------------------------------------------------
(* Action properties. A step trips, ends a run, starts one, or leaves the mode *)
(* alone and turns no output on.                                               *)
Trips == \E kind : Fault(kind)
Ends == mode' = "Idle" /\ moe' = FALSE
StartsRun ==
  \E target \in LiveModes :
    /\ Startable(target) /\ Arm(target)
    /\ bif' = FALSE
    /\ UNCHANGED <<bus, enc>>
Stays == UNCHANGED <<mode, lastFault>> /\ (moe' => moe)

LEMMA EnterIs ==
  ASSUME CodeTypes, ~bif, UNCHANGED <<bus, enc>>, NEW target \in LiveModes,
         NEW strike \in Strikes, NEW planOk \in BOOLEAN, Enter(target, strike, planOk)
  PROVE  Trips \/ StartsRun \/ Stays
<1>1. CASE Startable(target)
  <2>1. Fault("Adc") \/ Fault("Brake") \/ (Arm(target) /\ bif' = FALSE)
    BY <1>1 DEF Enter, ArmingRefused
  <2>2. QED
    BY <1>1, <2>1 DEF Trips, StartsRun
<1>2. CASE ~Startable(target)
  BY <1>2 DEF Enter, Stays, control
<1>3. QED
  BY <1>1, <1>2

LEMMA OperatorIs == CodeTypes /\ Operator => Trips \/ Ends \/ StartsRun \/ Stays
<1> SUFFICES ASSUME CodeTypes PROVE Operator => Trips \/ Ends \/ StartsRun \/ Stays
  OBVIOUS
<1>1. ASSUME NEW target \in Targets, CmdEnter(target) PROVE Trips \/ StartsRun \/ Stays
  <2>1. PICK strike \in Strikes, planOk \in PlanChoices(target) :
          Enter(target, strike, planOk)
    BY <1>1 DEF CmdEnter
  <2>2. target \in LiveModes /\ planOk \in BOOLEAN /\ ~bif
    BY <1>1, ControlAssumption DEF PlanChoices, CmdEnter, TaskAt, TaskMayRun
  <2>3. UNCHANGED <<bus, enc>>
    BY <1>1 DEF CmdEnter
  <2>4. QED
    BY <2>1, <2>2, <2>3, EnterIs
<1>2. ASSUME ButtonStart PROVE Trips \/ StartsRun \/ Stays
  <2>1. PICK strike \in Strikes : Enter("Run", strike, TRUE)
    BY <1>2 DEF ButtonStart
  <2>2. ~bif /\ "Run" \in LiveModes /\ UNCHANGED <<bus, enc>>
    BY <1>2 DEF ButtonStart, TaskAt, TaskMayRun, LiveModes
  <2>3. QED
    BY <2>1, <2>2, EnterIs
<1>3. ASSUME CmdStop \/ ButtonStop PROVE Ends
  BY <1>3 DEF CmdStop, ButtonStop, Stop, Ends
<1>4. ASSUME CmdTargets \/ CmdCalibration PROVE Stays
  BY <1>4 DEF CmdTargets, CmdCalibration, Stays, hardware
<1>5. ASSUME RecalBegin \/ ButtonPress \/ CmdRecalibrate PROVE Stays
  BY <1>5 DEF RecalBegin, ButtonPress, CmdRecalibrate, Stays, control, hardware
<1>6. ASSUME NEW stopped \in BOOLEAN, RecalEnd(stopped) PROVE Trips \/ Stays
  BY <1>6 DEF RecalEnd, Trips, Stays, control
<1>7. QED
  BY <1>1, <1>2, <1>3, <1>4, <1>5, <1>6 DEF Operator

LEMMA AdcIs == CodeTypes /\ AdcIsr => Trips \/ Stays
<1> SUFFICES ASSUME CodeTypes PROVE AdcIsr => Trips \/ Stays
  OBVIOUS
<1>1. ASSUME AdcSample \/ AdcAngle PROVE Stays
  BY <1>1 DEF AdcSample, AdcAngle, Stays, control, hardware
<1>2. ASSUME AdcTrip PROVE Trips
  BY <1>2 DEF AdcTrip, Trips
<1>3. ASSUME NEW b \in BOOLEAN, AdcBadSample(b) \/ AdcInterlock(b) PROVE Trips \/ Stays
  BY <1>3 DEF AdcBadSample, AdcInterlock, Trips, Stays, control, hardware
<1>4. ASSUME NEW strike \in BOOLEAN, NEW ready \in BOOLEAN, AdcCommit(strike, ready)
      PROVE  Trips \/ Stays
  BY <1>4 DEF AdcCommit, Trips, Stays, control
<1>5. QED
  BY <1>1, <1>2, <1>3, <1>4 DEF AdcIsr

LEMMA EncoderIs == Encoder => Trips \/ Stays
<1>1. ASSUME NEW valid \in BOOLEAN, NEW accepted \in BOOLEAN, EncPublish(valid, accepted)
      PROVE  Stays
  BY <1>1 DEF EncPublish, Stays, control
<1>2. ASSUME EncCheck PROVE Trips \/ Stays
  BY <1>2 DEF EncCheck, Trips, Stays, control
<1>3. ASSUME NEW due \in BOOLEAN, SpeedCommit(due) PROVE Trips \/ Stays
  BY <1>3 DEF SpeedCommit, Trips, Stays, control
<1>4. QED
  BY <1>1, <1>2, <1>3 DEF Encoder

LEMMA SupervisorIs == Supervisor => Trips \/ Ends \/ Stays
<1>1. ASSUME NEW b \in BusFaults \cup {"None", bus}, PublishBus(b) PROVE Stays
  BY <1>1 DEF PublishBus, Stays, control
<1>2. ASSUME NEW silent \in BOOLEAN, Supervise(silent) PROVE Trips \/ Stays
  BY <1>2 DEF Supervise, Trips, Stays, control
<1>3. ASSUME SuperviseCurrent PROVE Trips \/ Stays
  BY <1>3 DEF SuperviseCurrent, Trips, Stays
<1>4. ASSUME NEW verdict \in Verdicts, Tick(verdict) PROVE Trips \/ Ends \/ Stays
  <2>1. PollAlign(verdict)
    BY <1>4 DEF Tick
  <2>2. \/ FinishAlign
        \/ Fault("Alignment")
        \/ UNCHANGED <<mode, lastFault, epoch, calib, aligning, watch, moe>>
    BY <2>1 DEF PollAlign, Verdicts
  <2>3. FinishAlign => Trips \/ Ends
    BY DEF FinishAlign, Trips, Ends
  <2>4. QED
    BY <2>2, <2>3 DEF Trips, Stays
<1>5. QED
  BY <1>1, <1>2, <1>3, <1>4 DEF Supervisor

LEMMA StepIs == CodeTypes /\ [Next]_vars => Trips \/ Ends \/ StartsRun \/ Stays
<1> SUFFICES ASSUME CodeTypes, [Next]_vars PROVE Trips \/ Ends \/ StartsRun \/ Stays
  OBVIOUS
<1>1. HwBreak => Stays
  BY DEF HwBreak, Stays, control
<1>2. BrkIsr => Trips
  BY DEF BrkIsr, Trips
<1>3. BusExpires \/ EncExpires => Stays
  BY DEF BusExpires, EncExpires, Stays, control
<1>4. UNCHANGED vars => Stays
  BY DEF vars, code, Stays, control, hardware
<1>5. QED
  BY <1>1, <1>2, <1>3, <1>4, AdcIs, SupervisorIs, EncoderIs, OperatorIs DEF Next, Step

\* The outputs come on only in enter_mode, from Idle, with good sensors, without a
\* break outstanding and with zero current references.
THEOREM ArmedOnlyByStart == Spec => ArmedByStartOnly
<1>1. ASSUME CodeTypes, [Next]_vars, ~moe, moe'
      PROVE  /\ mode = "Idle" /\ mode' \in LiveModes
             /\ SensorFault(mode') = "None" /\ ~bif'
             /\ refs'.id = 0 /\ refs'.iq = 0
  <2>1. StartsRun
    BY <1>1, StepIs DEF Trips, Ends, Stays, Fault, MoeOff
  <2>2. PICK target \in LiveModes :
          Startable(target) /\ Arm(target) /\ bif' = FALSE
    BY <2>1 DEF StartsRun
  <2>3. mode = "Idle" /\ SensorFault(target) = "None"
    BY <2>2 DEF Startable
  <2>4. mode' = target /\ refs' = Prepared(target)
    BY <2>2 DEF Arm
  <2>5. refs'.id = 0 /\ refs'.iq = 0
    BY <1>1, <2>4 DEF CodeTypes, RefRecords, Prepared
  <2>6. QED
    BY <2>2, <2>3, <2>4, <2>5
<1>2. CodeTypes /\ [Next]_vars =>
        [~moe /\ moe' => /\ mode = "Idle" /\ mode' \in LiveModes
                        /\ SensorFault(mode') = "None" /\ ~bif'
                        /\ refs'.id = 0 /\ refs'.iq = 0]_vars
  BY <1>1
<1>3. QED
  BY <1>2, CodeTypeCorrect, PTL DEF Spec, ArmedByStartOnly

-------------------------------------------------------------------------------
(* What is done on a look is done while nothing has overtaken it. *)
LEMMA NothingOvertaken ==
  ASSUME OvertakenShows, mode # "Fault", ~bif, SensorFault(mode) = "None"
  PROVE  overtaken = {}
BY DEF OvertakenShows, Interrupted

\* Only a commit of the interrupt reaches the timer.
LEMMA OnlyCommitsApply ==
  ASSUME [Next]_vars, applied' # applied
  PROVE  \E strike, ready \in BOOLEAN : AdcCommit(strike, ready)
<1>1. Passing => UNCHANGED applied
  BY DEF Passing, HwBreak, BrkIsr, BusExpires, EncExpires, history
<1>2. AdcIsr /\ applied' # applied => \E strike, ready \in BOOLEAN : AdcCommit(strike, ready)
  BY DEF AdcIsr, AdcSample, AdcAngle, AdcTrip, AdcBadSample, AdcInterlock, history
<1>3. Supervisor => UNCHANGED applied
  BY DEF Supervisor, PublishBus, Supervise, SuperviseCurrent, Tick, history
<1>4. Encoder => UNCHANGED applied
  BY DEF Encoder, EncPublish, EncCheck, SpeedCommit, history
<1>5. Operator => UNCHANGED applied
  BY DEF Operator, CmdEnter, CmdStop, CmdTargets, CmdCalibration, CmdRecalibrate, RecalBegin,
         RecalEnd, ButtonPress, ButtonStop, ButtonStart, history
<1>6. UNCHANGED vars => UNCHANGED applied
  BY DEF vars, code, history
<1>7. QED
  BY <1>1, <1>2, <1>3, <1>4, <1>5, <1>6 DEF Next, Step, Passing

LEMMA CommitsAreCurrent ==
  ASSUME IInv, OvertakenShows, [Next]_vars, applied' # applied
  PROVE  overtaken = {}
<1>1. PICK strike \in BOOLEAN, ready \in BOOLEAN : AdcCommit(strike, ready)
  BY OnlyCommitsApply
<1>2. isr.at = "commit" /\ ~bif
  BY <1>1 DEF AdcCommit, IsrAt, IsrMayRun
<1>3. mode = isr.token.mode /\ SensorFault(isr.token.mode) = "None"
  BY <1>1 DEF AdcCommit, TokenHolds
<1>4. mode # "Fault"
  BY <1>2, <1>3 DEF IInv, Carried, LoopModes
<1>5. QED
  BY <1>2, <1>3, <1>4, NothingOvertaken

\* A trip sets no current; neither does the interrupt, nor a break, nor time.
LEMMA OthersSetNothing ==
  ASSUME CodeTypes, Passing \/ AdcIsr \/ UNCHANGED vars
  PROVE  ~(refs'.iqTgt > refs.iqTgt)
<1>0. refs.iqTgt \in {0, 1}
  BY DEF CodeTypes, RefRecords
<1>1. refs' = refs \/ \E kind : Fault(kind)
  BY DEF Passing, HwBreak, BrkIsr, BusExpires, EncExpires, AdcIsr, AdcSample, AdcAngle,
         AdcTrip, AdcBadSample, AdcInterlock, AdcCommit, vars, code, control
<1>2. ASSUME NEW kind, Fault(kind) PROVE refs' = refs \/ refs'.iqTgt = 0
  BY <1>2 DEF Fault, ClearReferences, RefsCleared, ZeroRefs
<1>3. QED
  BY <1>0, <1>1, <1>2

LEMMA SpeedIsCurrent ==
  ASSUME IInv, OvertakenShows, [Next]_vars, task.at = "speed", refs'.iqTgt > refs.iqTgt
  PROVE  overtaken = {}
<1>1. CodeTypes /\ Carried
  BY DEF IInv
<1>2. Supervisor \/ Encoder \/ Operator
  BY <1>1, OthersSetNothing DEF Next, Step, Passing
<1>3. PICK due \in BOOLEAN : SpeedCommit(due)
  BY <1>2 DEF Supervisor, PublishBus, Supervise, SuperviseCurrent, Tick,
         Encoder, EncPublish, EncCheck,
         Operator, CmdEnter, CmdStop, CmdTargets, CmdCalibration, CmdRecalibrate, RecalBegin,
         RecalEnd, ButtonPress, ButtonStop, ButtonStart, TaskAt
<1>4. task.token.mode = "Speed" /\ ~bif
  BY <1>1, <1>3 DEF Carried, SpeedCommit, TaskAt, TaskMayRun
<1>5. TokenHolds(task.token) /\ SensorFault(task.token.mode) = "None"
  <2>1. ASSUME UNCHANGED <<control, moe>> PROVE FALSE
    BY <1>1, <2>1 DEF control, CodeTypes, RefRecords
  <2>2. ASSUME NEW kind, Fault(kind) PROVE FALSE
    BY <1>1, <2>2 DEF Fault, ClearReferences, RefsCleared, ZeroRefs, CodeTypes, RefRecords
  <2>3. QED
    BY <1>3, <2>1, <2>2 DEF SpeedCommit
<1>6. QED
  BY <1>4, <1>5, NothingOvertaken DEF TokenHolds

LEMMA ButtonIsCurrent ==
  ASSUME IInv, OvertakenShows, [Next]_vars, task.at = "start", mode' = "Run"
  PROVE  overtaken = {}
<1>1. mode \notin LiveModes
  BY DEF IInv, Carried
<1>2. Supervisor \/ Encoder \/ Operator
  <2>1. Passing \/ AdcIsr \/ UNCHANGED vars => mode' \in {mode, "Fault"}
    BY DEF Passing, HwBreak, BrkIsr, BusExpires, EncExpires, AdcIsr, AdcSample, AdcAngle,
           AdcTrip, AdcBadSample, AdcInterlock, AdcCommit, vars, code, control, Fault
  <2>2. QED
    BY <1>1, <2>1 DEF Next, Step, Passing, LiveModes
<1>3. PICK strike \in Strikes : Enter("Run", strike, TRUE)
  BY <1>2 DEF Supervisor, PublishBus, Supervise, SuperviseCurrent, Tick,
         Encoder, EncPublish, EncCheck, SpeedCommit,
         Operator, CmdEnter, CmdStop, CmdTargets, CmdCalibration, CmdRecalibrate, RecalBegin,
         RecalEnd, ButtonPress, ButtonStop, ButtonStart, TaskAt
<1>4. ~bif
  BY <1>2 DEF Supervisor, PublishBus, Supervise, SuperviseCurrent, Tick,
         Encoder, EncPublish, EncCheck, SpeedCommit,
         Operator, CmdEnter, CmdStop, CmdTargets, CmdCalibration, CmdRecalibrate, RecalBegin,
         RecalEnd, ButtonPress, ButtonStop, ButtonStart, TaskAt, TaskMayRun
<1>5. Startable("Run")
  <2>1. ~Startable("Run") => UNCHANGED mode
    BY <1>3 DEF Enter, control
  <2>2. QED
    BY <1>1, <2>1 DEF LiveModes
<1>6. mode = "Idle" /\ SensorFault("Idle") = "None"
  BY <1>5 DEF Startable, SensorFault, EncoderModes
<1>7. QED
  BY <1>4, <1>6, NothingOvertaken

\* Nobody acts on what a break, a trip or an expired sample has overtaken since:
\* not the interrupt in commit_output, not the speed loop's commit, not the button.
THEOREM ResultsStayCurrent == Spec => ResultsAreCurrent
<1>1. IInv /\ OvertakenShows /\ [Next]_vars =>
        [/\ applied' # applied => "isr" \notin overtaken
         /\ task.at = "speed" /\ refs'.iqTgt > refs.iqTgt => "task" \notin overtaken
         /\ task.at = "start" /\ mode' = "Run" => "task" \notin overtaken]_vars
  BY CommitsAreCurrent, SpeedIsCurrent, ButtonIsCurrent
<1>2. QED
  BY <1>1, Invariance, ShownInvariance, PTL DEF Spec, ResultsAreCurrent
===============================================================================
