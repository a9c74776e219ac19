------------------------------ MODULE Controller ------------------------------
(***************************************************************************)
(* Controller<T> of src/app/controller.rs: exclusive ownership of a PI     *)
(* state with short interrupt-masked transfers.                            *)
(*                                                                         *)
(* Each action is one critical section of the code. compute() is two of    *)
(* them, CheckOut and CheckIn, with the caller's stack owning the state in *)
(* between; every other agent (thread, ADC interrupt, break interrupt) may *)
(* run there. The closure itself works on the private copy, so its effect  *)
(* becomes visible at CheckIn.                                             *)
(***************************************************************************)
EXTENDS Naturals

CONSTANTS
  Agents,    \* call sites that may be inside compute() at the same time
  Gains,     \* gain pairs passed to set_gains
  NoGains,   \* Option::None of the gains mailbox
  NoState,   \* Option::None of the state slot
  NoOutput,  \* nothing published yet
  MaxAcc,    \* bound: the accumulated state saturates at this value
  RevMod     \* number of values of the wrapping revision (2^32 in the code)

ASSUME ControllerAssumption ==
  /\ MaxAcc \in Nat \ {0}
  /\ RevMod \in Nat \ {0, 1}
  /\ NoGains \notin Gains
  /\ NoState \notin [gains : Gains, acc : 0 .. MaxAcc]
  /\ NoOutput \notin [gains : Gains, acc : 0 .. MaxAcc]

VARIABLES
  state,        \* Slot.state: the controller, or NoState while checked out
  initialized,  \* Slot.initialized
  revision,     \* Slot.revision
  reset,        \* Slot.reset: a reset waits in the mailbox
  gains,        \* Slot.gains: a gain pair waits in the mailbox
  held,         \* the state each agent owns on its stack
  seen,         \* the revision each agent read when it checked the state out
  returned,     \* what each agent's last compute() returned
  pub,          \* the output published last, by a commit that returned true
  since         \* history: requests made since the last checkout

slot == <<state, initialized, revision, reset, gains>>
vars == <<slot, held, seen, returned, pub, since>>

States == [gains : Gains, acc : 0 .. MaxAcc]
Revisions == 0 .. RevMod - 1

TypeOK ==
  /\ state \in States \cup {NoState}
  /\ initialized \in BOOLEAN
  /\ revision \in Revisions
  /\ reset \in BOOLEAN
  /\ gains \in Gains \cup {NoGains}
  /\ held \in [Agents -> States \cup {NoState}]
  /\ seen \in [Agents -> Revisions]
  /\ returned \in [Agents -> BOOLEAN]
  /\ pub \in States \cup {NoOutput}
  /\ since \in Revisions

-------------------------------------------------------------------------------
\* What T does with a request, and with one step of its own algorithm.
Cleared(s) == [s EXCEPT !.acc = 0]
Tuned(s, g) == [s EXCEPT !.gains = g]
Stepped(s) == [s EXCEPT !.acc = IF @ < MaxAcc THEN @ + 1 ELSE @]

\* apply_requests: the reset first, then the gains.
\* Faulty variant: the requests are dropped.
MailboxDropped(s, r, g) == s
ApplyRequests(s, r, g) ==
  LET z == IF r THEN Cleared(s) ELSE s
  IN  IF g = NoGains THEN z ELSE Tuned(z, g)

\* revision.wrapping_add(1).
NextRevision(n) == IF n + 1 = RevMod THEN 0 ELSE n + 1

\* The comparison that decides whether the result may be committed.
\* Faulty variant: no comparison.
AnyRevision(a) == TRUE
Current(a) == seen[a] = revision

CheckedOut == \E a \in Agents : held[a] # NoState

-------------------------------------------------------------------------------
Init ==
  /\ state = NoState
  /\ initialized = FALSE
  /\ revision = 0
  /\ reset = FALSE
  /\ gains = NoGains
  /\ held = [a \in Agents |-> NoState]
  /\ seen = [a \in Agents |-> 0]
  /\ returned = [a \in Agents |-> FALSE]
  /\ pub = NoOutput
  /\ since = 0

\* init(): a second call would hit the assertion, so it is not an action.
Initialize(g) ==
  /\ ~initialized
  /\ state' = ApplyRequests([gains |-> g, acc |-> 0], reset, gains)
  /\ initialized' = TRUE
  /\ reset' = FALSE
  /\ gains' = NoGains
  /\ UNCHANGED <<revision, held, seen, returned, pub, since>>

\* request(): record the change, and apply it at once if the state is home.
\* The guard bounds the requests that overtake one computation: the revision
\* cannot tell a burst of RevMod of them from none.
Request(r, g) ==
  /\ CheckedOut => since + 1 < RevMod
  /\ revision' = NextRevision(revision)
  /\ since' = IF CheckedOut THEN since + 1 ELSE 0
  /\ IF state = NoState
     THEN /\ reset' = (reset \/ r)
          /\ gains' = IF g = NoGains THEN gains ELSE g
          /\ UNCHANGED state
     ELSE /\ state' = ApplyRequests(state, reset \/ r,
                                    IF g = NoGains THEN gains ELSE g)
          /\ reset' = FALSE
          /\ gains' = NoGains
  /\ UNCHANGED <<initialized, held, seen, returned, pub>>

Reset == Request(TRUE, NoGains)
SetGains(g) == Request(FALSE, g)

\* compute(), first critical section: take() the state, or give up.
\* Faulty variant: the state is copied out of the slot.
AfterClone == state
AfterTake == NoState

CheckOut(a) ==
  /\ held[a] = NoState
  /\ state # NoState
  /\ held' = [held EXCEPT ![a] = state]
  /\ seen' = [seen EXCEPT ![a] = revision]
  /\ state' = AfterTake
  /\ since' = 0
  /\ UNCHANGED <<initialized, revision, reset, gains, returned, pub>>

Reentrant(a) ==
  /\ held[a] = NoState
  /\ state = NoState
  /\ returned' = [returned EXCEPT ![a] = FALSE]
  /\ UNCHANGED <<slot, held, seen, pub, since>>

\* compute(), second critical section up to the release of the borrow.
PutBack(a, s) ==
  /\ held[a] # NoState
  /\ held' = [held EXCEPT ![a] = NoState]
  /\ state' = s
  /\ reset' = FALSE
  /\ gains' = NoGains
  /\ since' = 0
  /\ UNCHANGED <<initialized, seen>>

\* What is put back: the worked-on copy, with the mailbox applied to it.
Returned(a) == ApplyRequests(Stepped(held[a]), reset, gains)

\* The commit closure accepts the result and publishes it.
CheckInCommit(a) ==
  /\ PutBack(a, Returned(a))
  /\ Current(a)
  /\ pub' = Stepped(held[a])
  /\ returned' = [returned EXCEPT ![a] = TRUE]
  /\ UNCHANGED revision

\* Either the revision moved, or the closure refused (its mode token is stale).
CheckInDrop(a) ==
  /\ PutBack(a, Returned(a))
  /\ returned' = [returned EXCEPT ![a] = FALSE]
  /\ UNCHANGED <<revision, pub>>

\* The closure trips, and the trip resets this same controller: a nested
\* request while the outer call is still in its critical section.
CheckInTrip(a) ==
  /\ Current(a)
  /\ PutBack(a, Cleared(Returned(a)))
  /\ revision' = NextRevision(revision)
  /\ returned' = [returned EXCEPT ![a] = FALSE]
  /\ UNCHANGED pub

\* Faulty variant: a result that may not be committed takes the state with it.
OnlyCurrent(a) == CheckInCommit(a) \/ CheckInTrip(a)
CheckIn(a) == CheckInCommit(a) \/ CheckInDrop(a) \/ CheckInTrip(a)

Next ==
  \/ Reset
  \/ \E g \in Gains : Initialize(g) \/ SetGains(g)
  \/ \E a \in Agents : CheckOut(a) \/ Reentrant(a) \/ CheckIn(a)

\* compute() is straight-line code: an agent that checked the state out
\* checks it in again.
Fairness == \A a \in Agents : WF_vars(CheckIn(a))

Spec == Init /\ [][Next]_vars
FairSpec == Spec /\ Fairness

-------------------------------------------------------------------------------
MailboxEmpty == ~reset /\ gains = NoGains

\* Once init() has run the controller state exists exactly once: in the slot or
\* on one agent's stack, never copied and never dropped (take() and the two
\* critical sections of compute()).
SingleOwner ==
  /\ initialized =>
       \/ state # NoState /\ ~CheckedOut
       \/ /\ state = NoState
          /\ CheckedOut
          /\ \A a, b \in Agents : held[a] # NoState /\ held[b] # NoState => a = b
  /\ ~initialized => state = NoState /\ ~CheckedOut

\* A request waits in the mailbox exactly while a computation it overtook still
\* owns the state; nothing is left waiting once the state is home.
MailboxIsForOwner ==
  /\ state # NoState => MailboxEmpty
  /\ CheckedOut => (MailboxEmpty <=> since = 0)

\* The revision an owner remembers differs from the current one as soon as one
\* request overtook it, wrap-around included: the check before the commit is
\* neither too weak nor too strong.
RevisionTellsOvertaken ==
  \A a \in Agents : held[a] # NoState => (Current(a) <=> since = 0)

\* An output reaches the commit only if no reset or gain change was requested
\* since its computation took the state (the `current &&` of compute()).
NoStaleCommit == [][pub' # pub => since = 0]_vars

\* Every reset or gain change requested while a computation runs is applied in
\* the end: a discarded result still brings the state back.
RequestsApplied == initialized /\ ~MailboxEmpty ~> MailboxEmpty

-------------------------------------------------------------------------------
\* The controller a caller sees: requests count from the moment they are made,
\* and the copy on a stack counts for nothing until it is checked in.
Owner == CHOOSE a \in Agents : held[a] # NoState
Base == IF state # NoState THEN state ELSE held[Owner]

SeenGains ==
  IF gains # NoGains THEN gains
  ELSE IF initialized THEN Base.gains ELSE NoGains
SeenAcc == IF reset \/ ~initialized THEN 0 ELSE Base.acc

Abs == INSTANCE ControllerSpec
         WITH ready <- initialized, gains <- SeenGains, acc <- SeenAcc, pub <- pub

\* compute() is atomic for its callers although requests may interrupt it: the
\* two critical sections and the mailbox implement ControllerSpec.
ImplementsSpec == Abs!Spec
===============================================================================
