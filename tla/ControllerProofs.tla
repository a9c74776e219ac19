--------------------------- MODULE ControllerProofs ---------------------------
(***************************************************************************)
(* Theorems about Controller, for every set of agents and gains, every     *)
(* revision width and every saturation bound.                              *)
(*                                                                         *)
(* The comparison of two revisions says nothing by itself: the wrapping    *)
(* revision must stay within one turn of the one an owner remembers. The   *)
(* inductive invariant therefore measures the distance between the two and *)
(* equates it with the number of requests made since the checkout.         *)
(***************************************************************************)
EXTENDS Controller, TLAPS

\* How often the revision moved on the way from r to s, if less than a turn.
Distance(r, s) == IF r <= s THEN s - r ELSE s + RevMod - r

OwnersInStep ==
  \A a \in Agents : held[a] # NoState => since = Distance(seen[a], revision)

IInv ==
  /\ TypeOK
  /\ SingleOwner
  /\ MailboxIsForOwner
  /\ OwnersInStep

-------------------------------------------------------------------------------
\* Applying the mailbox (apply_requests) turns a state into a state.
LEMMA AppliedIsState ==
  ASSUME NEW s \in States, NEW r \in BOOLEAN, NEW g \in Gains \cup {NoGains}
  PROVE  /\ ApplyRequests(s, r, g) \in States
         /\ Cleared(s) \in States
         /\ Stepped(s) \in States
<1>1. Cleared(s) \in States
  BY ControllerAssumption DEF Cleared, States
<1>2. Stepped(s) \in States
  BY ControllerAssumption DEF Stepped, States
<1>3. \A z \in States : g \in Gains => Tuned(z, g) \in States
  BY DEF Tuned, States
<1>4. QED
  BY <1>1, <1>2, <1>3 DEF ApplyRequests

\* States are told apart from the markers for "none".
LEMMA StateIsNotNone ==
  ASSUME NEW s \in States
  PROVE  s # NoState /\ s # NoOutput
BY ControllerAssumption DEF States

\* One more request moves the distance by one, as long as the turn is not full.
LEMMA DistanceStep ==
  ASSUME NEW r \in Revisions, NEW s \in Revisions, Distance(r, s) + 1 < RevMod
  PROVE  Distance(r, NextRevision(s)) = Distance(r, s) + 1
BY ControllerAssumption DEF Distance, NextRevision, Revisions

LEMMA DistanceZero ==
  ASSUME NEW r \in Revisions, NEW s \in Revisions
  PROVE  Distance(r, s) = 0 <=> r = s
BY ControllerAssumption DEF Distance, Revisions

LEMMA NextRevisionType ==
  ASSUME NEW s \in Revisions
  PROVE  NextRevision(s) \in Revisions
BY ControllerAssumption DEF NextRevision, Revisions

-------------------------------------------------------------------------------
\* The inductive invariant holds initially and every critical section keeps it.
LEMMA InitIInv == Init => IInv
<1> SUFFICES ASSUME Init PROVE IInv
  OBVIOUS
<1>1. TypeOK
  <2>1. 0 \in Revisions
    BY ControllerAssumption DEF Revisions
  <2>2. held \in [Agents -> States \cup {NoState}]
    BY DEF Init
  <2>3. seen \in [Agents -> Revisions] /\ returned \in [Agents -> BOOLEAN]
    BY <2>1 DEF Init
  <2>4. QED
    BY <2>1, <2>2, <2>3 DEF Init, TypeOK
<1>2. SingleOwner /\ MailboxIsForOwner /\ OwnersInStep
  BY DEF Init, SingleOwner, MailboxIsForOwner, OwnersInStep, CheckedOut, MailboxEmpty
<1>3. QED
  BY <1>1, <1>2 DEF IInv

LEMMA InitializeKeeps ==
  ASSUME IInv, NEW g \in Gains, Initialize(g)
  PROVE  IInv'
<1>1. [gains |-> g, acc |-> 0] \in States
  BY ControllerAssumption DEF States
<1>2. state' \in States
  BY <1>1, AppliedIsState DEF IInv, TypeOK, Initialize
<1>3. TypeOK'
  BY <1>2 DEF IInv, TypeOK, Initialize
<1>4. ~CheckedOut' /\ state' # NoState
  BY <1>2, StateIsNotNone DEF IInv, SingleOwner, CheckedOut, Initialize
<1>5. QED
  BY <1>3, <1>4 DEF IInv, TypeOK, SingleOwner, MailboxIsForOwner, OwnersInStep,
                    CheckedOut, MailboxEmpty, Initialize

LEMMA RequestKeeps ==
  ASSUME IInv,
         NEW r \in BOOLEAN, NEW g \in Gains \cup {NoGains}, r \/ g # NoGains,
         Request(r, g)
  PROVE  IInv'
<1> DEFINE pending == IF g = NoGains THEN gains ELSE g
<1> USE DEF IInv, TypeOK
<1>1. pending \in Gains \cup {NoGains} /\ (reset \/ r) \in BOOLEAN
  OBVIOUS
<1>2. revision' \in Revisions
  BY NextRevisionType DEF Request
<1>3. CheckedOut' = CheckedOut /\ held' = held /\ initialized' = initialized
  BY DEF Request, CheckedOut
<1>4. CASE state = NoState
  <2>1. TypeOK'
    <3>1. since' \in Revisions
      BY ControllerAssumption DEF Request, Revisions
    <3>2. reset' \in BOOLEAN /\ gains' \in Gains \cup {NoGains} /\ state' = state
      BY <1>1, <1>4 DEF Request
    <3>3. UNCHANGED <<initialized, held, seen, returned, pub>>
      BY DEF Request
    <3>4. QED
      BY <1>2, <3>1, <3>2, <3>3
  <2>2. SingleOwner'
    BY <1>3, <1>4 DEF Request, SingleOwner, CheckedOut
  <2>3. ~MailboxEmpty'
    BY <1>4 DEF Request, MailboxEmpty
  <2>4. MailboxIsForOwner'
    BY <1>3, <1>4, <2>3, ControllerAssumption
       DEF Request, MailboxIsForOwner, Revisions
  <2>5. OwnersInStep'
    <3> SUFFICES ASSUME NEW a \in Agents, held[a] # NoState
                 PROVE  since' = Distance(seen[a], revision')
      BY <1>3 DEF OwnersInStep, Request
    <3>1. CheckedOut /\ since = Distance(seen[a], revision) /\ since' = since + 1
      BY DEF OwnersInStep, CheckedOut, Request
    <3>2. QED
      BY <3>1, DistanceStep DEF Request
  <2>6. QED
    BY <2>1, <2>2, <2>4, <2>5
<1>5. CASE state # NoState
  <2>1. ~CheckedOut
    BY <1>5 DEF SingleOwner, CheckedOut
  <2>2. state' \in States
    <3>1. state' = ApplyRequests(state, reset \/ r, pending)
      BY <1>5 DEF Request
    <3>2. QED
      BY <1>1, <1>5, <3>1, AppliedIsState
  <2>3. TypeOK'
    <3>1. since' \in Revisions
      BY ControllerAssumption DEF Request, Revisions
    <3>2. reset' \in BOOLEAN /\ gains' \in Gains \cup {NoGains}
      BY <1>5 DEF Request
    <3>3. UNCHANGED <<initialized, held, seen, returned, pub>>
      BY DEF Request
    <3>4. QED
      BY <1>2, <2>2, <3>1, <3>2, <3>3
  <2>4. state' # NoState
    BY <2>2, StateIsNotNone
  <2>5. QED
    BY <1>3, <1>5, <2>1, <2>3, <2>4
       DEF SingleOwner, MailboxIsForOwner, OwnersInStep, CheckedOut,
           MailboxEmpty, Request
<1>6. QED
  BY <1>4, <1>5

LEMMA CheckOutKeeps ==
  ASSUME IInv, NEW a \in Agents, CheckOut(a)
  PROVE  IInv'
<1> USE DEF IInv, TypeOK
<1>1. ~CheckedOut /\ initialized /\ MailboxEmpty
  BY DEF CheckOut, SingleOwner, CheckedOut, MailboxIsForOwner
<1>2. TypeOK'
  <2>1. since' \in Revisions
    BY ControllerAssumption DEF CheckOut, Revisions
  <2>2. held' \in [Agents -> States \cup {NoState}] /\ state' \in States \cup {NoState}
    BY DEF CheckOut, AfterTake
  <2>3. seen' \in [Agents -> Revisions]
    BY DEF CheckOut
  <2>4. UNCHANGED <<initialized, revision, reset, gains, returned, pub>>
    BY DEF CheckOut
  <2>5. QED
    BY <2>1, <2>2, <2>3, <2>4
<1>3. /\ held'[a] # NoState
      /\ \A b \in Agents : held'[b] # NoState => b = a
  BY <1>1 DEF CheckOut, CheckedOut
<1>4. SingleOwner'
  BY <1>1, <1>3 DEF CheckOut, SingleOwner, CheckedOut, AfterTake
<1>5. MailboxIsForOwner'
  BY <1>1 DEF CheckOut, MailboxIsForOwner, MailboxEmpty, AfterTake
<1>6. OwnersInStep'
  BY <1>3, DistanceZero DEF CheckOut, OwnersInStep
<1>7. QED
  BY <1>2, <1>4, <1>5, <1>6

\* All three outcomes of the second critical section put a state back.
LEMMA PutBackKeeps ==
  ASSUME IInv, NEW a \in Agents, NEW s \in States, PutBack(a, s),
         revision' \in Revisions, returned' \in [Agents -> BOOLEAN],
         pub' \in States \cup {NoOutput}
  PROVE  IInv'
<1> USE DEF IInv, TypeOK
<1>1. TypeOK'
  <2>1. since' \in Revisions
    BY ControllerAssumption DEF PutBack, Revisions
  <2>2. held' \in [Agents -> States \cup {NoState}]
    BY DEF PutBack
  <2>3. /\ state' \in States
        /\ reset' \in BOOLEAN
        /\ gains' \in Gains \cup {NoGains}
        /\ UNCHANGED <<initialized, seen>>
    BY DEF PutBack
  <2>4. QED
    BY <2>1, <2>2, <2>3
<1>2. state' # NoState
  BY StateIsNotNone DEF PutBack
<1>3. ~CheckedOut' /\ initialized
  BY DEF PutBack, SingleOwner, CheckedOut
<1>4. QED
  BY <1>1, <1>2, <1>3
     DEF PutBack, SingleOwner, MailboxIsForOwner, OwnersInStep, CheckedOut, MailboxEmpty

LEMMA CheckInKeeps ==
  ASSUME IInv, NEW a \in Agents, CheckIn(a)
  PROVE  IInv'
<1> USE DEF IInv, TypeOK
<1>1. held[a] \in States
  BY DEF CheckIn, CheckInCommit, CheckInDrop, CheckInTrip, PutBack
<1>2. Stepped(held[a]) \in States
  BY <1>1, AppliedIsState
<1>3. Returned(a) \in States
  BY <1>2, AppliedIsState DEF Returned
<1>4. Cleared(Returned(a)) \in States
  BY <1>3, AppliedIsState
<1>5. CASE CheckInCommit(a)
  BY <1>2, <1>3, <1>5, PutBackKeeps DEF CheckInCommit
<1>6. CASE CheckInDrop(a)
  BY <1>3, <1>6, PutBackKeeps DEF CheckInDrop
<1>7. CASE CheckInTrip(a)
  BY <1>4, <1>7, NextRevisionType, PutBackKeeps DEF CheckInTrip
<1>8. QED
  BY <1>5, <1>6, <1>7 DEF CheckIn

LEMMA StepIInv == IInv /\ [Next]_vars => IInv'
<1> SUFFICES ASSUME IInv, [Next]_vars PROVE IInv'
  OBVIOUS
<1>1. CASE Reset
  BY <1>1, RequestKeeps DEF Reset
<1>2. ASSUME NEW g \in Gains, Initialize(g) PROVE IInv'
  BY <1>2, InitializeKeeps
<1>3. ASSUME NEW g \in Gains, SetGains(g) PROVE IInv'
  BY <1>3, RequestKeeps, ControllerAssumption DEF SetGains
<1>4. ASSUME NEW a \in Agents, CheckOut(a) PROVE IInv'
  BY <1>4, CheckOutKeeps
<1>5. ASSUME NEW a \in Agents, Reentrant(a) PROVE IInv'
  BY <1>5 DEF Reentrant, slot, IInv, TypeOK, SingleOwner, MailboxIsForOwner,
              OwnersInStep, CheckedOut, MailboxEmpty
<1>6. ASSUME NEW a \in Agents, CheckIn(a) PROVE IInv'
  BY <1>6, CheckInKeeps
<1>7. CASE UNCHANGED vars
  BY <1>7 DEF vars, slot, IInv, TypeOK, SingleOwner, MailboxIsForOwner,
              OwnersInStep, CheckedOut, MailboxEmpty
<1>8. QED
  BY <1>1, <1>2, <1>3, <1>4, <1>5, <1>6, <1>7 DEF Next

-------------------------------------------------------------------------------
LEMMA Invariance == Spec => []IInv
BY InitIInv, StepIInv, PTL DEF Spec

\* The slot of controller.rs keeps its types whatever the interleaving.
THEOREM ControllerTypes == Spec => []TypeOK
<1>1. IInv => TypeOK
  BY DEF IInv
<1>2. QED
  BY <1>1, Invariance, PTL

\* Exclusive ownership: take() and the two critical sections of compute() never
\* copy the controller state and never lose it.
THEOREM Ownership == Spec => []SingleOwner
<1>1. IInv => SingleOwner
  BY DEF IInv
<1>2. QED
  BY <1>1, Invariance, PTL

\* The mailbox holds requests for the current owner only, and is drained when
\* the state comes home.
THEOREM MailboxOwnership == Spec => []MailboxIsForOwner
<1>1. IInv => MailboxIsForOwner
  BY DEF IInv
<1>2. QED
  BY <1>1, Invariance, PTL

\* The revision comparison of compute() is exact, across the wrap of the counter.
LEMMA CurrentIsExact ==
  ASSUME IInv, NEW a \in Agents, held[a] # NoState
  PROVE  Current(a) <=> since = 0
BY DistanceZero DEF IInv, TypeOK, OwnersInStep, Current

THEOREM RevisionExact == Spec => []RevisionTellsOvertaken
<1>1. IInv => RevisionTellsOvertaken
  BY CurrentIsExact DEF RevisionTellsOvertaken
<1>2. QED
  BY <1>1, Invariance, PTL

\* No output computed before a reset or a gain change is published after it.
THEOREM OutputsAreCurrent == Spec => NoStaleCommit
<1>1. IInv /\ [Next]_vars => [pub' # pub => since = 0]_vars
  <2> SUFFICES ASSUME IInv, [Next]_vars, pub' # pub
               PROVE  since = 0
    OBVIOUS
  <2>1. PICK a \in Agents : CheckInCommit(a)
    BY DEF Next, Initialize, Reset, SetGains, Request, CheckOut, Reentrant,
           CheckIn, CheckInDrop, CheckInTrip, vars
  <2>2. held[a] # NoState /\ Current(a)
    BY <2>1 DEF CheckInCommit, PutBack
  <2>3. QED
    BY <2>2, CurrentIsExact
<1>2. QED
  BY <1>1, Invariance, PTL DEF Spec, NoStaleCommit

-------------------------------------------------------------------------------
\* Refinement. While some agent owns the state, that agent is the Owner.
LEMMA OwnerIs ==
  ASSUME IInv, NEW a \in Agents, held[a] # NoState
  PROVE  Owner = a /\ state = NoState /\ initialized
<1>1. state = NoState /\ initialized
  BY DEF IInv, SingleOwner, CheckedOut
<1>2. \A b \in Agents : held[b] # NoState => b = a
  BY <1>1 DEF IInv, SingleOwner, CheckedOut
<1>3. QED
  BY <1>1, <1>2 DEF Owner

LEMMA InitRefines == Init => Abs!Init
BY DEF Init, Abs!Init, SeenGains, SeenAcc

\* A state at home is what a caller sees.
LEMMA SeenAtHome ==
  ASSUME IInv, state # NoState
  PROVE  /\ initialized /\ ~reset /\ gains = NoGains
         /\ SeenGains = state.gains
         /\ SeenAcc = state.acc
         /\ state \in States
BY DEF IInv, TypeOK, SingleOwner, MailboxIsForOwner, MailboxEmpty, SeenGains, SeenAcc, Base

\* The effect of the mailbox on the two fields of a state.
LEMMA AppliedFields ==
  ASSUME NEW s \in States, NEW r \in BOOLEAN, NEW g \in Gains \cup {NoGains}
  PROVE  /\ ApplyRequests(s, r, g).gains = IF g = NoGains THEN s.gains ELSE g
         /\ ApplyRequests(s, r, g).acc = IF r THEN 0 ELSE s.acc
<1>1. /\ Cleared(s) \in States
      /\ Cleared(s).acc = 0
      /\ Cleared(s).gains = s.gains
  BY ControllerAssumption DEF Cleared, States
<1>2. \A z \in States : g \in Gains => Tuned(z, g).gains = g /\ Tuned(z, g).acc = z.acc
  BY DEF Tuned, States
<1>3. QED
  BY <1>1, <1>2 DEF ApplyRequests

LEMMA InitializeRefines ==
  ASSUME IInv, NEW g \in Gains, Initialize(g)
  PROVE  Abs!Boot(g)
<1> DEFINE s == [gains |-> g, acc |-> 0]
<1>1. s \in States /\ s.gains = g /\ s.acc = 0
  BY ControllerAssumption DEF States
<1>2. /\ reset \in BOOLEAN
      /\ gains \in Gains \cup {NoGains}
      /\ state' = ApplyRequests(s, reset, gains)
  BY DEF Initialize, IInv, TypeOK
<1>3. state' \in States
  BY <1>1, <1>2, AppliedIsState
<1>4. state' # NoState
  BY <1>3, StateIsNotNone
<1>5. /\ state'.gains = IF gains = NoGains THEN g ELSE gains
      /\ state'.acc = 0
  BY <1>1, <1>2, AppliedFields
<1>6. /\ SeenGains' = IF gains = NoGains THEN g ELSE gains
      /\ SeenAcc' = 0
  BY <1>4, <1>5 DEF Initialize, SeenGains, SeenAcc, Base
<1>7. ~initialized /\ SeenGains = gains /\ SeenAcc = 0
  BY DEF Initialize, SeenGains, SeenAcc
<1>8. QED
  BY <1>6, <1>7 DEF Abs!Boot, Initialize

\* A request changes what callers see at once, at home or in the mailbox.
LEMMA RequestRefines ==
  ASSUME IInv,
         NEW r \in BOOLEAN, NEW g \in Gains \cup {NoGains}, Request(r, g)
  PROVE  /\ SeenGains' = IF g = NoGains THEN SeenGains ELSE g
         /\ SeenAcc' = IF r THEN 0 ELSE SeenAcc
         /\ UNCHANGED <<initialized, pub>>
<1>1. UNCHANGED <<initialized, pub, held>>
  BY DEF Request
<1>2. CASE state = NoState
  <2>1. Base' = Base
    BY <1>1, <1>2 DEF Base, Owner, Request
  <2>2. /\ gains' = IF g = NoGains THEN gains ELSE g
        /\ reset' <=> (reset \/ r)
    BY <1>2 DEF Request
  <2>3. QED
    BY <1>1, <2>1, <2>2 DEF SeenGains, SeenAcc
<1>3. CASE state # NoState
  <2>1. /\ initialized /\ ~reset /\ gains = NoGains
        /\ SeenGains = state.gains /\ SeenAcc = state.acc
        /\ state \in States
    BY <1>3, SeenAtHome
  <2>2. state' = ApplyRequests(state, r, g) /\ ~reset' /\ gains' = NoGains
    <3>1. (reset \/ r) = r
      BY <2>1
    <3>2. (IF g = NoGains THEN gains ELSE g) = g
      BY <2>1
    <3>3. QED
      BY <1>3, <3>1, <3>2 DEF Request
  <2>3. state' # NoState
    BY <2>1, <2>2, AppliedIsState, StateIsNotNone
  <2>4. SeenGains' = state'.gains /\ SeenAcc' = state'.acc
    BY <1>1, <2>1, <2>2, <2>3 DEF SeenGains, SeenAcc, Base
  <2>5. QED
    BY <1>1, <2>1, <2>2, <2>4, AppliedFields
<1>4. QED
  BY <1>2, <1>3

\* Taking the state away changes nothing a caller sees.
LEMMA CheckOutRefines ==
  ASSUME IInv, NEW a \in Agents, CheckOut(a)
  PROVE  UNCHANGED Abs!vars
<1>1. /\ initialized /\ ~reset /\ gains = NoGains
      /\ SeenGains = state.gains /\ SeenAcc = state.acc
  BY SeenAtHome DEF CheckOut
<1>2. /\ held'[a] = state /\ state # NoState
      /\ \A b \in Agents : held'[b] # NoState => b = a
  BY DEF CheckOut, IInv, TypeOK, SingleOwner, CheckedOut
<1>3. Owner' = a
  BY <1>2 DEF Owner
<1>4. Base' = state
  BY <1>2, <1>3 DEF Base, CheckOut, AfterTake
<1>5. SeenGains' = state.gains /\ SeenAcc' = state.acc
  BY <1>1, <1>4 DEF SeenGains, SeenAcc, CheckOut
<1>6. QED
  BY <1>1, <1>5 DEF Abs!vars, CheckOut

\* What callers see before and after a state is put back.
LEMMA PutBackSeen ==
  ASSUME IInv, NEW a \in Agents, NEW s \in States, PutBack(a, s)
  PROVE  /\ initialized /\ initialized'
         /\ held[a] \in States
         /\ SeenGains = IF gains = NoGains THEN held[a].gains ELSE gains
         /\ SeenAcc = IF reset THEN 0 ELSE held[a].acc
         /\ SeenGains' = s.gains
         /\ SeenAcc' = s.acc
<1>1. held[a] # NoState /\ Owner = a /\ state = NoState /\ initialized
  BY OwnerIs DEF PutBack
<1>2. Base = held[a] /\ held[a] \in States
  BY <1>1 DEF Base, IInv, TypeOK
<1>3. /\ SeenGains = IF gains = NoGains THEN held[a].gains ELSE gains
      /\ SeenAcc = IF reset THEN 0 ELSE held[a].acc
  BY <1>1, <1>2 DEF SeenGains, SeenAcc
<1>4. state' = s /\ s # NoState /\ ~reset' /\ gains' = NoGains /\ initialized'
  BY <1>1, StateIsNotNone DEF PutBack
<1>5. SeenGains' = s.gains /\ SeenAcc' = s.acc
  BY <1>4 DEF SeenGains, SeenAcc, Base
<1>6. QED
  BY <1>1, <1>2, <1>3, <1>4, <1>5

LEMMA SteppedFields ==
  ASSUME NEW s \in States
  PROVE  /\ Stepped(s) \in States
         /\ Stepped(s).gains = s.gains
         /\ Stepped(s).acc = IF s.acc < MaxAcc THEN s.acc + 1 ELSE s.acc
         /\ Stepped(s) = [gains |-> Stepped(s).gains, acc |-> Stepped(s).acc]
BY ControllerAssumption DEF Stepped, States

\* A published result is one atomic step of the controller callers see; a
\* dropped one is such a step without an output, or nothing if it was reset.
LEMMA CheckInRefines ==
  ASSUME IInv, NEW a \in Agents, CheckIn(a)
  PROVE  [Abs!Next]_(Abs!vars)
<1> DEFINE w == Stepped(held[a])
<1>1. held[a] \in States /\ initialized
  <2>1. held[a] # NoState
    BY DEF CheckIn, CheckInCommit, CheckInDrop, CheckInTrip, PutBack
  <2>2. QED
    BY <2>1, OwnerIs DEF IInv, TypeOK
<1>2. /\ w \in States
      /\ w.gains = held[a].gains
      /\ w.acc = IF held[a].acc < MaxAcc THEN held[a].acc + 1 ELSE held[a].acc
      /\ w = [gains |-> w.gains, acc |-> w.acc]
  BY <1>1, SteppedFields
<1>3. reset \in BOOLEAN /\ gains \in Gains \cup {NoGains}
  BY DEF IInv, TypeOK
<1>4. /\ Returned(a) \in States
      /\ Returned(a).gains = IF gains = NoGains THEN held[a].gains ELSE gains
      /\ Returned(a).acc = IF reset THEN 0 ELSE w.acc
  BY <1>2, <1>3, AppliedIsState, AppliedFields DEF Returned
<1>5. CASE CheckInCommit(a)
  <2>1. PutBack(a, Returned(a)) /\ Current(a) /\ pub' = w
    BY <1>5 DEF CheckInCommit
  <2>2. ~reset /\ gains = NoGains
    <3>1. held[a] # NoState
      BY <2>1 DEF PutBack
    <3>2. since = 0
      BY <2>1, <3>1, CurrentIsExact
    <3>3. QED
      BY <3>1, <3>2 DEF IInv, MailboxIsForOwner, MailboxEmpty, CheckedOut
  <2>3. /\ initialized /\ initialized'
        /\ SeenGains = held[a].gains /\ SeenAcc = held[a].acc
        /\ SeenGains' = w.gains /\ SeenAcc' = w.acc
    <3>1. Returned(a).gains = held[a].gains /\ Returned(a).acc = w.acc
      BY <1>4, <2>2
    <3>2. /\ initialized /\ initialized'
          /\ SeenGains = held[a].gains /\ SeenAcc = held[a].acc
          /\ SeenGains' = Returned(a).gains /\ SeenAcc' = Returned(a).acc
      BY <1>4, <2>1, <2>2, PutBackSeen
    <3>3. QED
      BY <1>2, <3>1, <3>2
  <2>4. Abs!Compute
    BY <1>2, <2>1, <2>3 DEF Abs!Compute
  <2>5. QED
    BY <2>4 DEF Abs!Next
<1>6. CASE CheckInDrop(a)
  <2>1. PutBack(a, Returned(a)) /\ pub' = pub
    BY <1>6 DEF CheckInDrop
  <2>2. /\ initialized /\ initialized'
        /\ SeenGains' = SeenGains
        /\ SeenAcc = IF reset THEN 0 ELSE held[a].acc
        /\ SeenAcc' = IF reset THEN 0 ELSE w.acc
    BY <1>4, <2>1, PutBackSeen
  <2>3. CASE reset
    BY <2>1, <2>2, <2>3 DEF Abs!vars
  <2>4. CASE ~reset
    <3>1. Abs!Compute
      BY <1>2, <2>1, <2>2, <2>4 DEF Abs!Compute
    <3>2. QED
      BY <3>1 DEF Abs!Next
  <2>5. QED
    BY <2>3, <2>4
<1>7. CASE CheckInTrip(a)
  <2>1. PutBack(a, Cleared(Returned(a))) /\ pub' = pub
    BY <1>7 DEF CheckInTrip
  <2>2. /\ Cleared(Returned(a)) \in States
        /\ Cleared(Returned(a)).acc = 0
        /\ Cleared(Returned(a)).gains = Returned(a).gains
    BY <1>4, ControllerAssumption DEF Cleared, States
  <2>3. /\ initialized /\ initialized'
        /\ SeenGains' = SeenGains
        /\ SeenAcc' = 0
    BY <1>4, <2>1, <2>2, PutBackSeen
  <2>4. Abs!Reset
    BY <2>1, <2>3 DEF Abs!Reset
  <2>5. QED
    BY <2>4 DEF Abs!Next
<1>8. QED
  BY <1>5, <1>6, <1>7 DEF CheckIn

LEMMA StepRefines == IInv /\ [Next]_vars => [Abs!Next]_(Abs!vars)
<1> SUFFICES ASSUME IInv, [Next]_vars PROVE [Abs!Next]_(Abs!vars)
  OBVIOUS
<1>1. CASE Reset
  <2>1. Abs!Reset
    BY <1>1, RequestRefines DEF Reset, Abs!Reset
  <2>2. QED
    BY <2>1 DEF Abs!Next
<1>2. ASSUME NEW g \in Gains, Initialize(g) PROVE [Abs!Next]_(Abs!vars)
  BY <1>2, InitializeRefines DEF Abs!Next
<1>3. ASSUME NEW g \in Gains, SetGains(g) PROVE [Abs!Next]_(Abs!vars)
  <2>1. Abs!SetGains(g)
    BY <1>3, RequestRefines, ControllerAssumption DEF SetGains, Abs!SetGains
  <2>2. QED
    BY <2>1 DEF Abs!Next
<1>4. ASSUME NEW a \in Agents, CheckOut(a) PROVE [Abs!Next]_(Abs!vars)
  BY <1>4, CheckOutRefines
<1>5. ASSUME NEW a \in Agents, Reentrant(a) PROVE [Abs!Next]_(Abs!vars)
  <2>1. UNCHANGED <<slot, held, pub>>
    BY <1>5 DEF Reentrant
  <2>2. QED
    BY <2>1 DEF slot, SeenGains, SeenAcc, Base, Owner, Abs!vars
<1>6. ASSUME NEW a \in Agents, CheckIn(a) PROVE [Abs!Next]_(Abs!vars)
  BY <1>6, CheckInRefines
<1>7. CASE UNCHANGED vars
  BY <1>7 DEF vars, slot, SeenGains, SeenAcc, Base, Owner, Abs!vars
<1>8. QED
  BY <1>1, <1>2, <1>3, <1>4, <1>5, <1>6, <1>7 DEF Next

\* compute() is atomic for its callers: interrupted computations, the mailbox
\* and the revision check together implement ControllerSpec.
THEOREM Refinement == Spec => ImplementsSpec
<1>1. IInv /\ [Next]_vars => [Abs!Next]_(Abs!vars)
  BY StepRefines
<1>2. QED
  BY <1>1, InitRefines, Invariance, PTL DEF Spec, ImplementsSpec, Abs!Spec
===============================================================================
