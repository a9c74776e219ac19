------------------------------- MODULE Watchdog -------------------------------
(***************************************************************************)
(* The feed policy of foc/src/watchdog.rs with the hardware watchdog of    *)
(* driver/watchdog.rs and the three parts it supervises: the ADC interrupt *)
(* and the encoder task, which count what they complete, and the           *)
(* supervisor, which alone evaluates the policy. Each of them may stop for *)
(* good at any time.                                                       *)
(*                                                                         *)
(* Time is in milliseconds. A worker's sequence moves at most once in each *)
(* of them: the policy only asks whether it moved.                         *)
(***************************************************************************)
EXTENDS Integers

CONSTANTS
  ClockMod,    \* number of values of the wrapping millisecond clock (2^32)
  SeqMod,      \* number of values of the wrapping sequences (2^32)
  IntervalMs,  \* IWDG_FEED_INTERVAL_MS
  TimeoutMs,   \* the hardware's timeout, IWDG_TIMEOUT_MS
  WorkMs,      \* longest time between two completions of a healthy worker
  PollMs       \* longest time between two polls of a healthy supervisor

ASSUME WatchdogAssumption ==
  /\ {ClockMod, SeqMod, IntervalMs, TimeoutMs, WorkMs, PollMs} \subseteq Nat \ {0}
  /\ TimeoutMs < ClockMod /\ TimeoutMs + 1 < SeqMod
  /\ IntervalMs + PollMs < TimeoutMs /\ WorkMs + PollMs < TimeoutMs

Workers == {"adc", "encoder"}
Parts == Workers \cup {"supervisor"}

VARIABLES
  now,       \* the clock
  sequence,  \* CONTROL_SEQUENCE and ENCODER_SEQUENCE
  seen,      \* adc_sequence and encoder_sequence of the policy
  lastFeed,  \* last_feed_ms
  counter,   \* the hardware's counter: time since it was fed
  stopped,   \* the parts that have stopped for good
  idle,      \* history: time since each part last did its work
  moved,     \* history: completions of each worker since the last feed
  late       \* history: feeds since the first part stopped, at most 2

policy == <<seen, lastFeed>>
vars == <<now, sequence, policy, counter, stopped, idle, moved, late>>

Clock == 0 .. ClockMod - 1
Sequences == 0 .. SeqMod - 1
Longest(p) == IF p \in Workers THEN WorkMs ELSE PollMs

TypeOK ==
  /\ now \in Clock /\ lastFeed \in Clock
  /\ sequence \in [Workers -> Sequences] /\ seen \in [Workers -> Sequences]
  /\ counter \in 0 .. TimeoutMs
  /\ stopped \subseteq Parts
  /\ idle \in [Parts -> Nat]
  /\ \A p \in Parts \ stopped : idle[p] <= Longest(p)
  /\ moved \in [Workers -> 0 .. TimeoutMs + 1]
  /\ late \in 0 .. 2

-------------------------------------------------------------------------------
\* fetch_add.
NextSequence(n) == IF n + 1 = SeqMod THEN 0 ELSE n + 1

Elapsed(t, since) == IF t >= since THEN t - since ELSE t + ClockMod - since

\* should_feed. Faulty variants: one worker is enough; the interval is as long
\* as the timeout.
EitherMoved == \E w \in Workers : sequence[w] # seen[w]
AllMoved == \A w \in Workers : sequence[w] # seen[w]
WellDue == Elapsed(now, lastFeed) >= TimeoutMs
Due == Elapsed(now, lastFeed) >= IntervalMs
ShouldFeed == Due /\ AllMoved

\* What a feed remembers of the sequences. Faulty variant: nothing.
SeenKept == seen
Remembered == sequence

-------------------------------------------------------------------------------
\* init: the watchdog runs and cannot be stopped; the policy starts where the
\* sequences are.
Init ==
  /\ now \in Clock
  /\ sequence \in [Workers -> Sequences] /\ seen = sequence
  /\ lastFeed = now /\ counter = 0
  /\ stopped = {}
  /\ idle = [p \in Parts |-> 0]
  /\ moved = [w \in Workers |-> 0]
  /\ late = 0

\* A millisecond passes; a part that has not stopped is never overdue.
Tick ==
  /\ counter < TimeoutMs
  /\ \A p \in Parts \ stopped : idle[p] < Longest(p)
  /\ now' = IF now + 1 = ClockMod THEN 0 ELSE now + 1
  /\ counter' = counter + 1
  /\ idle' = [p \in Parts |-> IF p \in stopped THEN idle[p] ELSE idle[p] + 1]
  /\ UNCHANGED <<sequence, policy, stopped, moved, late>>

\* publish_control_completion, encoder_completed.
Complete(w) ==
  /\ w \notin stopped /\ idle[w] > 0
  /\ sequence' = [sequence EXCEPT ![w] = NextSequence(@)]
  /\ idle' = [idle EXCEPT ![w] = 0]
  /\ moved' = [moved EXCEPT ![w] = @ + 1]
  /\ UNCHANGED <<now, policy, counter, stopped, late>>

\* supervise.
Supervise ==
  /\ "supervisor" \notin stopped
  /\ idle' = [idle EXCEPT !["supervisor"] = 0]
  /\ IF ShouldFeed
     THEN /\ seen' = Remembered /\ lastFeed' = now
          /\ counter' = 0
          /\ moved' = [w \in Workers |-> 0]
          /\ late' = IF stopped = {} THEN 0 ELSE IF late = 2 THEN 2 ELSE late + 1
     ELSE UNCHANGED <<policy, counter, moved, late>>
  /\ UNCHANGED <<now, sequence, stopped>>

\* A part stops for good.
Stop(p) ==
  /\ p \notin stopped
  /\ stopped' = stopped \cup {p}
  /\ UNCHANGED <<now, sequence, policy, counter, idle, moved, late>>

\* The counter has run out: the processor starts again.
Reset ==
  /\ counter = TimeoutMs
  /\ now' = 0
  /\ sequence' = [w \in Workers |-> 0] /\ seen' = sequence'
  /\ lastFeed' = 0 /\ counter' = 0
  /\ stopped' = {}
  /\ idle' = [p \in Parts |-> 0]
  /\ moved' = [w \in Workers |-> 0]
  /\ late' = 0

Next ==
  \/ Tick \/ Supervise \/ Reset
  \/ \E w \in Workers : Complete(w)
  \/ \E p \in Parts : Stop(p)

Spec == Init /\ [][Next]_vars

\* Time passes, and a counter that has run out resets.
FairSpec == Spec /\ WF_vars(Tick) /\ WF_vars(Reset)
                 /\ \A w \in Workers : WF_vars(Complete(w))
                 /\ WF_vars(Supervise)

-------------------------------------------------------------------------------
\* The watchdog is fed only if, since it was fed last, both workers have
\* completed something and the interval has passed, wherever the sequences and
\* the clock wrap.
FeedNeedsAll ==
  [][counter' < counter /\ counter < TimeoutMs =>
       counter >= IntervalMs /\ \A w \in Workers : moved[w] > 0]_vars

\* After one part has stopped the watchdog is fed at most once more, on work
\* that was completed before: the others cannot keep it alive.
OneFeedAfterStop == late <= 1

\* While all parts work the counter never runs out.
NoFalseReset == counter = TimeoutMs => stopped # {}

\* A part that has stopped is started again.
StoppedIsReset == stopped # {} ~> stopped = {}
===============================================================================
