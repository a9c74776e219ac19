---------------------------------- MODULE Nvm ----------------------------------
(***************************************************************************)
(* The calibration journal of foc/src/nvm.rs on the flash page of          *)
(* driver/nvm.rs, with power losses, failing flash operations and flash    *)
(* operations that report success without having had their effect.         *)
(*                                                                         *)
(* A slot is one of: Blank (all ones), a record that decodes, or Junk (a   *)
(* torn, corrupt or old-version slot). A record is 16 bytes, programmed as *)
(* two doublewords; the checksum is in the second, so a half-programmed    *)
(* slot does not decode. Everything the code reads between two flash       *)
(* operations is one step: the thread that saves owns the peripheral       *)
(* (FlashLease), so nothing else writes the page.                          *)
(***************************************************************************)
EXTENDS Naturals

CONSTANTS
  Records,    \* records that Record::encode accepts
  NoRecord,   \* Option::None
  Blank,      \* a slot of erased flash
  Junk,       \* a consumed slot that does not decode
  SlotCount   \* SLOT_COUNT (128 in the code)

ASSUME NvmAssumption ==
  /\ SlotCount \in Nat \ {0}
  /\ NoRecord \notin Records
  /\ Blank \notin Records /\ Junk \notin Records /\ Blank # Junk

VARIABLES
  page,     \* the flash page
  at,       \* where save() stands
  rec,      \* the record being saved
  index,    \* the slot it goes to
  before,   \* history: what load() returned when the append began
  reply,    \* what the last save() returned; "lost" if a power loss cut it
  past      \* history: every record ever completed in a slot

save == <<at, rec, index, before>>
vars == <<page, save, reply, past>>

Slots == 0 .. SlotCount - 1
Contents == Records \cup {Blank, Junk}
Steps == {"idle", "erase", "check", "first", "second", "readback"}
Replies == {"none", "ok", "unchanged", "invalid", "erase", "write", "verify", "lost"}

TypeOK ==
  /\ page \in [Slots -> Contents]
  /\ at \in Steps
  /\ rec \in Records \cup {NoRecord}
  /\ index \in Slots
  /\ before \in Records \cup {NoRecord}
  /\ reply \in Replies
  /\ past \subseteq Records

-------------------------------------------------------------------------------
\* scan(): the valid record of the highest slot, and the slot after the last one
\* that is not blank.
Valid(p) == {i \in Slots : p[i] \in Records}
Used(p) == {i \in Slots : p[i] # Blank}

IsLast(i, S) == i \in S /\ \A j \in S : j <= i

Latest(p) ==
  IF Valid(p) = {} THEN NoRecord ELSE p[CHOOSE i \in Slots : IsLast(i, Valid(p))]

NextFree(p) == IF Used(p) = {} THEN 0 ELSE (CHOOSE i \in Slots : IsLast(i, Used(p))) + 1

\* The test for a full page. Faulty variant: one slot too early.
AlmostFull(n) == n >= SlotCount - 1
Full(n) == n = SlotCount

\* The check that every slot is blank after an erase. Faulty variant: none.
Unverified(p) == TRUE
Erased(p) == \A i \in Slots : p[i] = Blank

\* The readback of the slot just written. Faulty variant: none.
Trusted(p, i, r) == TRUE
ReadsBack(p, i, r) == p[i] = r

-------------------------------------------------------------------------------
Init ==
  /\ page = [i \in Slots |-> Blank]
  /\ at = "idle"
  /\ rec = NoRecord
  /\ index = 0
  /\ before = NoRecord
  /\ reply = "none"
  /\ past = {}

Return(r) ==
  /\ at' = "idle"
  /\ reply' = r
  /\ UNCHANGED <<rec, index, before>>

\* save(): encode, scan, and the choice between nothing to do, append, reclaim.
\* r = NoRecord stands for a record encode refuses.
Save(r) ==
  /\ at = "idle"
  /\ rec' = r
  /\ before' = Latest(page)
  /\ \/ /\ r = NoRecord
        /\ at' = "idle" /\ reply' = "invalid" /\ UNCHANGED index
     \/ /\ r # NoRecord /\ Latest(page) = r
        /\ at' = "idle" /\ reply' = "unchanged" /\ UNCHANGED index
     \/ /\ r # NoRecord /\ Latest(page) # r
        /\ reply' = "none"
        /\ IF Full(NextFree(page))
           THEN at' = "erase" /\ index' = 0
           ELSE at' = "first" /\ index' = NextFree(page)
  /\ UNCHANGED <<page, past>>

\* blocking_erase: it may fail, and a failed or interrupted erase may have
\* turned any of the slots into junk or blank flash.
Wiped(p) == {q \in [Slots -> Contents] : \A i \in Slots : q[i] \in {p[i], Junk, Blank}}

Erase(ok, q) ==
  /\ at = "erase"
  /\ page' = q
  /\ IF ok
     THEN at' = "check" /\ UNCHANGED <<rec, index, before, reply>>
     ELSE Return("erase")
  /\ UNCHANGED past

Check ==
  /\ at = "check"
  /\ IF Erased(page)
     THEN at' = "first" /\ before' = NoRecord /\ UNCHANGED <<rec, index, reply>>
     ELSE Return("verify")
  /\ UNCHANGED <<page, past>>

\* blocking_write: two doublewords. Either may fail, or have no proper effect.
First(ok) ==
  /\ at = "first"
  /\ \E c \in {page[index], Junk} : page' = [page EXCEPT ![index] = c]
  /\ IF ok
     THEN at' = "second" /\ UNCHANGED <<rec, index, before, reply>>
     ELSE Return("write")
  /\ UNCHANGED past

Second(ok, done) ==
  /\ at = "second"
  /\ done => page[index] = Junk
  /\ \E c \in IF done THEN {rec} ELSE {page[index], Junk} : page' = [page EXCEPT ![index] = c]
  /\ past' = IF done THEN past \cup {rec} ELSE past
  /\ IF ok
     THEN at' = "readback" /\ UNCHANGED <<rec, index, before, reply>>
     ELSE Return("write")

Readback ==
  /\ at = "readback"
  /\ IF ReadsBack(page, index, rec) THEN Return("ok") ELSE Return("verify")
  /\ UNCHANGED <<page, past>>

\* A power loss between two operations, or in the middle of an erase.
PowerLoss ==
  /\ at # "idle"
  /\ page' \in IF at = "erase" THEN Wiped(page) ELSE {page}
  /\ Return("lost")
  /\ UNCHANGED past

Next ==
  \/ \E r \in Records \cup {NoRecord} : Save(r)
  \/ \E ok \in BOOLEAN, q \in Wiped(page) : Erase(ok, q)
  \/ Check
  \/ \E ok \in BOOLEAN : First(ok) \/ \E done \in BOOLEAN : Second(ok, done)
  \/ Readback
  \/ PowerLoss

Spec == Init /\ [][Next]_vars

-------------------------------------------------------------------------------
\* A save that reported success is what load() returns from then on, until the
\* next save begins, however many power losses lie in between.
SavedIsLoaded == at = "idle" /\ reply \in {"ok", "unchanged"} => Latest(page) = rec

\* An append, torn or failed at any point, leaves either the earlier record or
\* the new one to be loaded, never nothing and never another.
AppendKeepsRecord ==
  at \in {"first", "second", "readback"} => Latest(page) \in {before, rec}

\* No slot is programmed twice and none out of order: when a write begins, its
\* slot and all after it are blank, whatever torn slots lie before.
ProgrammedOnce == at = "first" => \A i \in index .. SlotCount - 1 : page[i] = Blank

-------------------------------------------------------------------------------
\* The loop of scan(), slot by slot, as the reference of the two closed forms.
ScanTo(p) ==
  LET scan[n \in 0 .. SlotCount] ==
        IF n = 0 THEN [latest |-> NoRecord, next |-> 0]
        ELSE [latest |-> IF p[n - 1] \in Records THEN p[n - 1] ELSE scan[n - 1].latest,
              next |-> IF p[n - 1] # Blank THEN n ELSE scan[n - 1].next]
  IN  scan[SlotCount]

\* Latest and NextFree return what the loop returns.
ScanAgrees == ScanTo(page) = [latest |-> Latest(page), next |-> NextFree(page)]

Abs == INSTANCE NvmSpec
         WITH stored <- Latest(page), room <- SlotCount - NextFree(page), past <- past

\* The journal implements a record that only a reclaim may lose.
ImplementsSpec == Abs!Spec
===============================================================================
