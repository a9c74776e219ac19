----------------------------- MODULE CommandProofs -----------------------------
(***************************************************************************)
(* The operator's side. The journal, for every number of slots and every   *)
(* set of records: what load() returns after a save, that no slot is       *)
(* programmed twice, and that Nvm implements NvmSpec. The calibration      *)
(* commands, for every number of offsets and pole counts: what is          *)
(* authorized was qualified as a pair, and what was saved comes back. The  *)
(* line editor, for every length of line and ring and every set of words.  *)
(***************************************************************************)
EXTENDS Calibration, ShellLine, SequenceTheorems, FiniteSetTheorems, WellFoundedInduction, TLAPS

\* A nonempty set of bounded naturals has a last element.
LEMMA HighestOf ==
  ASSUME NEW n \in Nat, NEW S \in SUBSET (0 .. n), S # {}
  PROVE  \E i \in S : \A j \in S : j <= i
PROOF
<1>. DEFINE Above(i) == {j \in S : i < j}
            T == {Above(i) : i \in S}
<1>1. IsFiniteSet(S)
  <2>1. IsFiniteSet(0 .. n)
    BY FS_Interval
  <2>. QED BY <2>1, FS_Subset
<1>2. IsWellFoundedOn(StrictSubsetOrdering(S), SUBSET S)
  BY <1>1, FS_FiniteSubsetsOfFinite, FS_StrictSubsetOrderingWellFounded
<1>3. T \subseteq SUBSET S /\ T # {}
  OBVIOUS
<1>4. PICK x \in T : \A y \in T : <<y, x>> \notin StrictSubsetOrdering(S)
  <2>. HIDE DEF T
  <2>. QED BY <1>2, <1>3, WFMin
<1>5. PICK i \in S : x = Above(i)
  OBVIOUS
<1>6. ASSUME NEW j \in S, i < j
      PROVE  FALSE
  <2>1. Above(j) \in T
    OBVIOUS
  <2>2. \A k \in S : j < k => i < k
    BY <1>6
  <2>3. j \in Above(i) /\ j \notin Above(j) /\ Above(j) \subseteq Above(i)
    <3>1. ~(j < j)
      OBVIOUS
    <3>. QED BY <1>6, <2>2, <3>1
  <2>4. <<Above(j), Above(i)>> \in StrictSubsetOrdering(S)
    BY <2>3 DEF StrictSubsetOrdering
  <2>. QED BY <1>4, <1>5, <2>1, <2>4
<1>. QED BY <1>6

-------------------------------------------------------------------------------
LEMMA LastExists ==
  ASSUME NEW S \in SUBSET Slots, S # {}
  PROVE  \E i \in Slots : IsLast(i, S)
PROOF
<1>. PICK n \in Nat : n = SlotCount - 1
  BY NvmAssumption
<1>1. S \in SUBSET (0 .. n) /\ Slots = 0 .. n
  BY DEF Slots
<1>2. PICK i \in S : \A j \in S : j <= i
  BY <1>1, HighestOf
<1>. QED BY <1>2 DEF IsLast

LEMMA LastIsUnique ==
  ASSUME NEW S \in SUBSET Slots, NEW i \in Slots, IsLast(i, S)
  PROVE  (CHOOSE k \in Slots : IsLast(k, S)) = i
PROOF
<1>1. IsLast(CHOOSE k \in Slots : IsLast(k, S), S)
  OBVIOUS
<1>. QED BY <1>1 DEF IsLast, Slots

\* What the two results of scan() are.
LEMMA ScanResults ==
  ASSUME NEW p \in [Slots -> Contents]
  PROVE  /\ NextFree(p) \in 0 .. SlotCount
         /\ \A i \in Slots : i >= NextFree(p) => p[i] = Blank
         /\ NextFree(p) > 0 => NextFree(p) - 1 \in Slots /\ p[NextFree(p) - 1] # Blank
         /\ Latest(p) \in Records \cup {NoRecord}
         /\ Latest(p) # NoRecord => \E i \in Slots : p[i] = Latest(p)
PROOF
<1>. DEFINE u == CHOOSE k \in Slots : IsLast(k, Used(p))
            v == CHOOSE k \in Slots : IsLast(k, Valid(p))
<1>1. Used(p) \in SUBSET Slots /\ Valid(p) \in SUBSET Slots
  BY DEF Used, Valid
<1>2. Used(p) # {} => u \in Slots /\ IsLast(u, Used(p))
  BY <1>1, LastExists
<1>3. Valid(p) # {} => v \in Slots /\ IsLast(v, Valid(p))
  BY <1>1, LastExists
<1>. HIDE DEF u, v
<1>4. NextFree(p) = IF Used(p) = {} THEN 0 ELSE u + 1
  BY DEF NextFree, u
<1>5. Latest(p) = IF Valid(p) = {} THEN NoRecord ELSE p[v]
  BY DEF Latest, v
<1>6. \A i \in Slots : i \in Used(p) <=> p[i] # Blank
  BY DEF Used
<1>7. NextFree(p) \in 0 .. SlotCount
  BY <1>2, <1>4, NvmAssumption DEF Slots
<1>8. \A i \in Slots : i >= NextFree(p) => p[i] = Blank
  BY <1>2, <1>4, <1>6 DEF IsLast, Slots
<1>9. NextFree(p) > 0 => NextFree(p) - 1 \in Slots /\ p[NextFree(p) - 1] # Blank
  BY <1>2, <1>4, <1>6 DEF IsLast, Slots
<1>10. Latest(p) \in Records \cup {NoRecord} /\ (Latest(p) # NoRecord => \E i \in Slots : p[i] = Latest(p))
  BY <1>3, <1>5 DEF IsLast, Valid
<1>. QED BY <1>7, <1>8, <1>9, <1>10

LEMMA NextFreeIs ==
  ASSUME NEW p \in [Slots -> Contents], NEW n \in 0 .. SlotCount,
         \A i \in Slots : i >= n => p[i] = Blank,
         n > 0 => p[n - 1] # Blank
  PROVE  NextFree(p) = n
PROOF
<1>1. /\ NextFree(p) \in 0 .. SlotCount
      /\ \A i \in Slots : i >= NextFree(p) => p[i] = Blank
      /\ NextFree(p) > 0 => NextFree(p) - 1 \in Slots /\ p[NextFree(p) - 1] # Blank
  BY ScanResults
<1>2. n > 0 => n - 1 \in Slots
  BY NvmAssumption DEF Slots
<1>3. ~(NextFree(p) > n)
  BY <1>1, NvmAssumption
<1>4. ~(NextFree(p) < n)
  BY <1>1, <1>2, NvmAssumption
<1>. QED BY <1>1, <1>3, <1>4, NvmAssumption

\* The record of the last slot that holds one is the one that loads.
LEMMA LatestIs ==
  ASSUME NEW p \in [Slots -> Contents], NEW i \in Slots, p[i] \in Records,
         \A j \in Slots : j > i => p[j] \notin Records
  PROVE  Latest(p) = p[i]
PROOF
<1>1. IsLast(i, Valid(p)) /\ Valid(p) \in SUBSET Slots /\ Valid(p) # {}
  BY DEF IsLast, Valid, Slots
<1>. QED BY <1>1, LastIsUnique DEF Latest

\* Slots that turn from one thing that does not decode into another change nothing.
LEMMA LatestKept ==
  ASSUME NEW p \in [Slots -> Contents], NEW q \in [Slots -> Contents],
         \A i \in Slots : p[i] = q[i] \/ (p[i] \notin Records /\ q[i] \notin Records)
  PROVE  Latest(q) = Latest(p)
PROOF
<1>1. Valid(p) = Valid(q) /\ Valid(p) \in SUBSET Slots
  BY DEF Valid
<1>2. CASE Valid(p) = {}
  BY <1>1, <1>2 DEF Latest
<1>3. CASE Valid(p) # {}
  <2>1. PICK i \in Slots : IsLast(i, Valid(p))
    BY <1>1, <1>3, LastExists
  <2>2. (CHOOSE k \in Slots : IsLast(k, Valid(p))) = i
    BY <1>1, <2>1, LastIsUnique
  <2>3. p[i] = q[i]
    BY <2>1 DEF IsLast, Valid
  <2>. QED BY <1>1, <1>3, <2>2, <2>3 DEF Latest
<1>. QED BY <1>2, <1>3

LEMMA NothingLoads ==
  ASSUME NEW p \in [Slots -> Contents], \A i \in Slots : p[i] \notin Records
  PROVE  Latest(p) = NoRecord
BY DEF Latest, Valid

-------------------------------------------------------------------------------
\* Programming slot i, the first free one, or the rest of it.
LEMMA Programmed ==
  ASSUME NEW p \in [Slots -> Contents], NEW i \in Slots, NEW q \in [Slots -> Contents],
         q[i] # Blank, \A j \in Slots : j # i => q[j] = p[j],
         \A j \in Slots : j > i => p[j] = Blank
  PROVE  /\ NextFree(q) = i + 1
         /\ q[i] \in Records => Latest(q) = q[i]
         /\ q[i] \notin Records /\ p[i] \notin Records => Latest(q) = Latest(p)
PROOF
<1>1. i \in Nat /\ i + 1 \in 0 .. SlotCount /\ (i + 1) - 1 = i
  BY NvmAssumption DEF Slots
<1>2. \A j \in Slots : j >= i + 1 => q[j] = Blank
  BY <1>1 DEF Slots
<1>3. NextFree(q) = i + 1
  BY <1>1, <1>2, NextFreeIs
<1>4. \A j \in Slots : j > i => q[j] \notin Records
  BY <1>1, <1>2, NvmAssumption DEF Slots
<1>5. q[i] \in Records => Latest(q) = q[i]
  BY <1>4, LatestIs
<1>6. q[i] \notin Records /\ p[i] \notin Records => Latest(q) = Latest(p)
  BY LatestKept
<1>. QED BY <1>3, <1>5, <1>6

\* An erased page, wholly or in part, holds no record that was not there.
LEMMA WipedPage ==
  ASSUME NEW p \in [Slots -> Contents], NEW q \in Wiped(p)
  PROVE  /\ q \in [Slots -> Contents]
         /\ \A i \in Slots : q[i] \in Records => q[i] = p[i]
BY NvmAssumption DEF Wiped

LEMMA ErasedPage ==
  ASSUME NEW p \in [Slots -> Contents], Erased(p)
  PROVE  NextFree(p) = 0 /\ Latest(p) = NoRecord
PROOF
<1>1. NextFree(p) = 0
  BY NextFreeIs, NvmAssumption DEF Erased
<1>. QED BY <1>1, NothingLoads, NvmAssumption DEF Erased

-------------------------------------------------------------------------------
\* Every record in the page was once completed there.
Recorded == \A i \in Slots : page[i] \in Records => page[i] \in past

\* What a save has established when it stands at one of its flash operations.
Underway ==
  /\ at # "idle" => rec \in Records
  /\ at = "erase" => NextFree(page) = SlotCount
  /\ at \in {"erase", "check"} => index = 0
  /\ at = "first" => page[index] = Blank
  /\ at \in {"first", "second"} =>
       /\ page[index] \in {Blank, Junk}
       /\ index > 0 => page[index - 1] # Blank
       /\ Latest(page) = before
  /\ at \in {"first", "second", "readback"} =>
       \A j \in Slots : j > index => page[j] = Blank

IInv == TypeOK /\ Recorded /\ Underway /\ SavedIsLoaded /\ AppendKeepsRecord

LEMMA InitIInv == Init => IInv
PROOF
<1>. SUFFICES ASSUME Init PROVE IInv
  OBVIOUS
<1>1. TypeOK
  BY NvmAssumption DEF Init, TypeOK, Slots, Contents, Steps, Replies
<1>2. Recorded
  BY NvmAssumption DEF Init, Recorded
<1>. QED BY <1>1, <1>2 DEF Init, IInv, Underway, SavedIsLoaded, AppendKeepsRecord

\* A save that has returned and was not successful leaves nothing to say but the types.
LEMMA Returned ==
  ASSUME TypeOK, Recorded, NEW r \in Replies \ {"ok", "unchanged"}, Return(r),
         page' \in [Slots -> Contents], past' \subseteq Records,
         \A i \in Slots : page'[i] \in Records => page'[i] \in past'
  PROVE  IInv'
PROOF
<1>1. TypeOK'
  BY DEF TypeOK, Return, Steps
<1>. QED BY <1>1 DEF IInv, Recorded, Underway, SavedIsLoaded, AppendKeepsRecord, Return

LEMMA SaveIInv ==
  ASSUME IInv, NEW r \in Records \cup {NoRecord}, Save(r)
  PROVE  IInv'
PROOF
<1>1. page \in [Slots -> Contents] /\ page' = page /\ past' = past /\ rec' = r /\ before' = Latest(page)
  BY DEF IInv, TypeOK, Save
<1>2. /\ NextFree(page) \in 0 .. SlotCount
      /\ \A i \in Slots : i >= NextFree(page) => page[i] = Blank
      /\ NextFree(page) > 0 => NextFree(page) - 1 \in Slots /\ page[NextFree(page) - 1] # Blank
      /\ Latest(page) \in Records \cup {NoRecord}
  BY <1>1, ScanResults
<1>3. Recorded'
  BY <1>1 DEF IInv, Recorded
<1>4. CASE at' = "idle"
  <2>1. TypeOK' /\ reply' \in {"invalid", "unchanged"} /\ (reply' = "unchanged" => Latest(page) = r)
    BY <1>1, <1>2, <1>4 DEF Save, IInv, TypeOK, Steps, Replies
  <2>. QED BY <1>1, <1>3, <1>4, <2>1 DEF IInv, Underway, SavedIsLoaded, AppendKeepsRecord
<1>5. CASE at' # "idle" /\ NextFree(page) = SlotCount
  <2>1. r \in Records /\ at' = "erase" /\ index' = 0 /\ reply' = "none"
    BY <1>5 DEF Save, Full
  <2>2. TypeOK'
    BY <1>1, <1>2, <2>1, NvmAssumption DEF IInv, TypeOK, Steps, Replies, Slots
  <2>. QED BY <1>1, <1>3, <1>5, <2>1, <2>2 DEF IInv, Underway, SavedIsLoaded, AppendKeepsRecord
<1>6. CASE at' # "idle" /\ NextFree(page) # SlotCount
  <2>1. r \in Records /\ at' = "first" /\ index' = NextFree(page) /\ reply' = "none"
    BY <1>6 DEF Save, Full
  <2>2. index' \in Slots /\ page[index'] = Blank
    BY <1>2, <1>6, <2>1, NvmAssumption DEF Slots
  <2>3. \A j \in Slots : j > index' => page[j] = Blank
    BY <1>2, <2>1, NvmAssumption DEF Slots
  <2>4. TypeOK'
    BY <1>1, <1>2, <2>1, <2>2 DEF IInv, TypeOK, Steps, Replies
  <2>5. Underway'
    BY <1>1, <1>2, <2>1, <2>2, <2>3 DEF Underway
  <2>. QED BY <1>1, <1>3, <2>1, <2>4, <2>5 DEF IInv, SavedIsLoaded, AppendKeepsRecord
<1>. QED BY <1>4, <1>5, <1>6

LEMMA EraseIInv ==
  ASSUME IInv, NEW ok \in BOOLEAN, NEW q \in Wiped(page), Erase(ok, q)
  PROVE  IInv'
PROOF
<1>1. page \in [Slots -> Contents] /\ page' = q /\ past' = past /\ past \subseteq Records
  BY DEF IInv, TypeOK, Erase
<1>2. /\ page' \in [Slots -> Contents]
      /\ \A i \in Slots : page'[i] \in Records => page'[i] \in past'
  BY <1>1, WipedPage DEF IInv, Recorded
<1>3. CASE ok
  <2>1. at' = "check" /\ at = "erase" /\ rec' = rec /\ index' = index /\ before' = before /\ reply' = reply
    BY <1>3 DEF Erase
  <2>2. TypeOK' /\ Recorded'
    BY <1>1, <1>2, <2>1 DEF IInv, TypeOK, Recorded, Steps
  <2>. QED BY <2>1, <2>2 DEF IInv, Underway, SavedIsLoaded, AppendKeepsRecord
<1>4. CASE ~ok
  <2>1. Return("erase") /\ "erase" \in Replies \ {"ok", "unchanged"}
    BY <1>4 DEF Erase, Replies
  <2>. QED BY <1>1, <1>2, <2>1, Returned DEF IInv
<1>. QED BY <1>3, <1>4

LEMMA CheckIInv ==
  ASSUME IInv, Check
  PROVE  IInv'
PROOF
<1>1. page \in [Slots -> Contents] /\ page' = page /\ past' = past /\ past \subseteq Records /\ at = "check"
  BY DEF IInv, TypeOK, Check
<1>2. CASE Erased(page)
  <2>1. at' = "first" /\ before' = NoRecord /\ rec' = rec /\ index' = index /\ reply' = reply
    BY <1>2 DEF Check
  <2>2. Latest(page) = NoRecord
    BY <1>1, <1>2, ErasedPage
  <2>3. index = 0 /\ rec \in Records
    BY <1>1 DEF IInv, Underway
  <2>4. TypeOK' /\ Recorded'
    BY <1>1, <2>1 DEF IInv, TypeOK, Recorded, Steps
  <2>5. \A j \in Slots : page[j] = Blank
    BY <1>2 DEF Erased
  <2>6. 0 \in Slots
    BY NvmAssumption DEF Slots
  <2>7. Underway'
    BY <1>1, <2>1, <2>2, <2>3, <2>5, <2>6 DEF Underway
  <2>. QED BY <1>1, <2>1, <2>2, <2>4, <2>7 DEF IInv, SavedIsLoaded, AppendKeepsRecord
<1>3. CASE ~Erased(page)
  <2>1. Return("verify") /\ "verify" \in Replies \ {"ok", "unchanged"}
    BY <1>3 DEF Check, Replies
  <2>. QED BY <1>1, <2>1, Returned DEF IInv, Recorded
<1>. QED BY <1>2, <1>3

LEMMA FirstIInv ==
  ASSUME IInv, NEW ok \in BOOLEAN, First(ok)
  PROVE  IInv'
PROOF
<1>1. /\ page \in [Slots -> Contents] /\ index \in Slots /\ past' = past /\ past \subseteq Records
      /\ at = "first" /\ page[index] = Blank /\ Latest(page) = before
      /\ \A j \in Slots : j > index => page[j] = Blank
      /\ index > 0 => page[index - 1] # Blank
  BY DEF IInv, TypeOK, First, Underway
<1>2. PICK c \in {page[index], Junk} : page' = [page EXCEPT ![index] = c]
  BY DEF First
<1>3. /\ page' \in [Slots -> Contents] /\ page'[index] = c /\ c \in {Blank, Junk}
      /\ \A j \in Slots : j # index => page'[j] = page[j]
  BY <1>1, <1>2 DEF Contents
<1>4. Latest(page') = Latest(page)
  BY <1>1, <1>3, LatestKept, NvmAssumption
<1>5. \A i \in Slots : page'[i] \in Records => page'[i] \in past'
  BY <1>1, <1>3, NvmAssumption DEF IInv, Recorded
<1>6. CASE ok
  <2>1. at' = "second" /\ rec' = rec /\ index' = index /\ before' = before /\ reply' = reply
    BY <1>6 DEF First
  <2>2. TypeOK' /\ Recorded'
    BY <1>1, <1>3, <1>5, <2>1 DEF IInv, TypeOK, Recorded, Steps
  <2>3. index > 0 => index - 1 \in Slots /\ index - 1 # index
    BY <1>1, NvmAssumption DEF Slots
  <2>4. \A j \in Slots : j > index => j # index
    BY <1>1, NvmAssumption DEF Slots
  <2>5. rec \in Records
    BY <1>1 DEF IInv, Underway
  <2>6. Underway'
    BY <1>1, <1>3, <1>4, <2>1, <2>3, <2>4, <2>5 DEF Underway
  <2>. QED BY <1>1, <1>4, <2>1, <2>2, <2>6 DEF IInv, SavedIsLoaded, AppendKeepsRecord
<1>7. CASE ~ok
  <2>1. Return("write") /\ "write" \in Replies \ {"ok", "unchanged"}
    BY <1>7 DEF First, Replies
  <2>. QED BY <1>1, <1>3, <1>5, <2>1, Returned DEF IInv
<1>. QED BY <1>6, <1>7

\* What the second doubleword leaves behind.
LEMMA SecondPage ==
  ASSUME IInv, NEW ok \in BOOLEAN, NEW done \in BOOLEAN, Second(ok, done)
  PROVE  /\ page' \in [Slots -> Contents] /\ past' \subseteq Records
         /\ \A i \in Slots : page'[i] \in Records => page'[i] \in past'
         /\ \A j \in Slots : j > index => page'[j] = Blank
         /\ Latest(page') = IF done THEN rec ELSE Latest(page)
PROOF
<1>1. /\ page \in [Slots -> Contents] /\ index \in Slots /\ past \subseteq Records
      /\ at = "second" /\ page[index] \in {Blank, Junk} /\ rec \in Records
      /\ \A j \in Slots : j > index => page[j] = Blank
  BY DEF IInv, TypeOK, Second, Underway
<1>2. PICK c \in IF done THEN {rec} ELSE {page[index], Junk} : page' = [page EXCEPT ![index] = c]
  BY DEF Second
<1>3. /\ c \in Contents /\ page' \in [Slots -> Contents] /\ page'[index] = c
      /\ \A j \in Slots : j # index => page'[j] = page[j]
  BY <1>1, <1>2 DEF Contents
<1>4. \A j \in Slots : j > index => j # index
  BY <1>1, NvmAssumption DEF Slots
<1>5. past' = (IF done THEN past \cup {rec} ELSE past)
  BY DEF Second
<1>6. CASE done
  <2>1. c = rec /\ c # Blank
    BY <1>1, <1>2, <1>6, NvmAssumption
  <2>2. \A j \in Slots : j > index => page'[j] \notin Records
    BY <1>1, <1>3, <1>4, NvmAssumption
  <2>3. Latest(page') = c
    BY <1>1, <1>3, <2>1, <2>2, LatestIs
  <2>. QED BY <1>1, <1>3, <1>4, <1>5, <1>6, <2>1, <2>3 DEF IInv, Recorded
<1>7. CASE ~done
  <2>1. c \in {Blank, Junk}
    BY <1>1, <1>2, <1>7
  <2>2. Latest(page') = Latest(page)
    BY <1>1, <1>3, <2>1, LatestKept, NvmAssumption
  <2>3. c \notin Records
    BY <2>1, NvmAssumption
  <2>. QED BY <1>1, <1>3, <1>4, <1>5, <1>7, <2>2, <2>3 DEF IInv, Recorded
<1>. QED BY <1>6, <1>7

LEMMA SecondIInv ==
  ASSUME IInv, NEW ok \in BOOLEAN, NEW done \in BOOLEAN, Second(ok, done)
  PROVE  IInv'
PROOF
<1>1. /\ page' \in [Slots -> Contents] /\ past' \subseteq Records
      /\ \A i \in Slots : page'[i] \in Records => page'[i] \in past'
      /\ \A j \in Slots : j > index => page'[j] = Blank
      /\ Latest(page') = IF done THEN rec ELSE Latest(page)
  BY SecondPage
<1>2. at = "second" /\ rec \in Records /\ Latest(page) = before
  BY DEF IInv, Underway, Second
<1>3. CASE ok
  <2>1. at' = "readback" /\ rec' = rec /\ index' = index /\ before' = before /\ reply' = reply
    BY <1>3 DEF Second
  <2>2. TypeOK' /\ Recorded'
    BY <1>1, <2>1 DEF IInv, TypeOK, Recorded, Steps
  <2>. QED BY <1>1, <1>2, <2>1, <2>2 DEF IInv, Underway, SavedIsLoaded, AppendKeepsRecord
<1>4. CASE ~ok
  <2>1. Return("write") /\ "write" \in Replies \ {"ok", "unchanged"}
    BY <1>4 DEF Second, Replies
  <2>. QED BY <1>1, <2>1, Returned DEF IInv
<1>. QED BY <1>3, <1>4

LEMMA ReadbackIInv ==
  ASSUME IInv, Readback
  PROVE  IInv'
PROOF
<1>1. /\ page \in [Slots -> Contents] /\ index \in Slots /\ page' = page /\ past' = past
      /\ past \subseteq Records /\ at = "readback" /\ rec \in Records
      /\ \A j \in Slots : j > index => page[j] = Blank
  BY DEF IInv, TypeOK, Readback, Underway
<1>2. CASE ReadsBack(page, index, rec)
  <2>1. Return("ok")
    BY <1>2 DEF Readback
  <2>2. Latest(page) = rec
    BY <1>1, <1>2, LatestIs, NvmAssumption DEF ReadsBack
  <2>3. TypeOK' /\ Recorded'
    BY <1>1, <2>1 DEF IInv, TypeOK, Recorded, Steps, Replies, Return
  <2>. QED BY <1>1, <2>1, <2>2, <2>3 DEF IInv, Underway, SavedIsLoaded, AppendKeepsRecord, Return
<1>3. CASE ~ReadsBack(page, index, rec)
  <2>1. Return("verify") /\ "verify" \in Replies \ {"ok", "unchanged"}
    BY <1>3 DEF Readback, Replies
  <2>. QED BY <1>1, <2>1, Returned DEF IInv, Recorded
<1>. QED BY <1>2, <1>3

LEMMA PowerLossIInv ==
  ASSUME IInv, PowerLoss
  PROVE  IInv'
PROOF
<1>1. page \in [Slots -> Contents] /\ past' = past /\ past \subseteq Records
  BY DEF IInv, TypeOK, PowerLoss
<1>2. Return("lost") /\ "lost" \in Replies \ {"ok", "unchanged"}
  BY DEF PowerLoss, Replies
<1>3. CASE at = "erase"
  <2>1. page' \in Wiped(page)
    BY <1>3 DEF PowerLoss
  <2>2. page' \in [Slots -> Contents] /\ \A i \in Slots : page'[i] \in Records => page'[i] \in past'
    BY <1>1, <2>1, WipedPage DEF IInv, Recorded
  <2>. QED BY <1>1, <1>2, <2>2, Returned DEF IInv
<1>4. CASE at # "erase"
  <2>1. page' = page
    BY <1>4 DEF PowerLoss
  <2>. QED BY <1>1, <1>2, <2>1, Returned DEF IInv, Recorded
<1>. QED BY <1>3, <1>4

LEMMA NextIInv == IInv /\ [Next]_vars => IInv'
PROOF
<1>. SUFFICES ASSUME IInv, [Next]_vars PROVE IInv'
  OBVIOUS
<1>1. CASE UNCHANGED vars
  BY <1>1 DEF IInv, TypeOK, Recorded, Underway, SavedIsLoaded, AppendKeepsRecord, vars, save
<1>2. ASSUME NEW r \in Records \cup {NoRecord}, Save(r) PROVE IInv'
  BY <1>2, SaveIInv
<1>3. ASSUME NEW ok \in BOOLEAN, NEW q \in Wiped(page), Erase(ok, q) PROVE IInv'
  BY <1>3, EraseIInv
<1>4. CASE Check
  BY <1>4, CheckIInv
<1>5. ASSUME NEW ok \in BOOLEAN, First(ok) PROVE IInv'
  BY <1>5, FirstIInv
<1>6. ASSUME NEW ok \in BOOLEAN, NEW done \in BOOLEAN, Second(ok, done) PROVE IInv'
  BY <1>6, SecondIInv
<1>7. CASE Readback
  BY <1>7, ReadbackIInv
<1>8. CASE PowerLoss
  BY <1>8, PowerLossIInv
<1>. QED BY <1>1, <1>2, <1>3, <1>4, <1>5, <1>6, <1>7, <1>8 DEF Next

LEMMA Invariance == Spec => []IInv
BY InitIInv, NextIInv, PTL DEF Spec

\* The page, the save under way and its outcome keep their types.
THEOREM JournalTypes == Spec => []TypeOK
BY Invariance, PTL DEF IInv

\* A save that reported success is loaded until the next one, for every page size.
THEOREM SavedLoads == Spec => []SavedIsLoaded
BY Invariance, PTL DEF IInv

\* While an append is under way, torn or not, the earlier record or the new one loads.
THEOREM AppendsKeep == Spec => []AppendKeepsRecord
BY Invariance, PTL DEF IInv

LEMMA BlankFromIndex == IInv => ProgrammedOnce
PROOF
<1>. SUFFICES ASSUME IInv, at = "first", NEW i \in index .. SlotCount - 1
              PROVE  page[i] = Blank
  BY DEF ProgrammedOnce
<1>1. index \in Slots /\ i \in Slots /\ (i = index \/ i > index)
  BY NvmAssumption DEF IInv, TypeOK, Slots
<1>. QED BY <1>1 DEF IInv, Underway

\* No slot is programmed a second time, and none before an unused one.
THEOREM SlotsProgrammedOnce == Spec => []ProgrammedOnce
BY Invariance, BlankFromIndex, PTL

-------------------------------------------------------------------------------
LEMMA SpecInit == Init => Abs!Init
PROOF
<1>. SUFFICES ASSUME Init PROVE Abs!Init
  OBVIOUS
<1>1. page \in [Slots -> Contents] /\ Erased(page) /\ past = {}
  BY DEF Init, Slots, Contents, Erased
<1>2. NextFree(page) = 0 /\ Latest(page) = NoRecord
  BY <1>1, ErasedPage
<1>. QED BY <1>1, <1>2, NvmAssumption DEF Abs!Init

\* Everything that wipes slots is a reclaim.
LEMMA WipeReclaims ==
  ASSUME IInv, at = "erase", page' \in Wiped(page), past' = past
  PROVE  Abs!Reclaim
PROOF
<1>1. page \in [Slots -> Contents] /\ NextFree(page) = SlotCount
  BY DEF IInv, TypeOK, Underway
<1>2. page' \in [Slots -> Contents] /\ \A i \in Slots : page'[i] \in Records => page'[i] = page[i]
  BY <1>1, WipedPage
<1>3. /\ NextFree(page') \in 0 .. SlotCount
      /\ Latest(page') \in Records \cup {NoRecord}
      /\ Latest(page') # NoRecord => \E i \in Slots : page'[i] = Latest(page')
  BY <1>2, ScanResults
<1>4. Latest(page') \in past \cup {NoRecord}
  BY <1>2, <1>3 DEF IInv, Recorded
<1>. QED BY <1>1, <1>3, <1>4, NvmAssumption DEF Abs!Reclaim

LEMMA FirstConsumes ==
  ASSUME IInv, NEW ok \in BOOLEAN, First(ok)
  PROVE  Abs!Consume \/ UNCHANGED Abs!vars
PROOF
<1>1. /\ page \in [Slots -> Contents] /\ index \in Slots /\ past' = past
      /\ page[index] = Blank
      /\ \A j \in Slots : j > index => page[j] = Blank
      /\ index > 0 => page[index - 1] # Blank
  BY DEF IInv, TypeOK, First, Underway
<1>2. PICK c \in {page[index], Junk} : page' = [page EXCEPT ![index] = c]
  BY DEF First
<1>3. /\ page' \in [Slots -> Contents] /\ page'[index] = c
      /\ \A j \in Slots : j # index => page'[j] = page[j]
  BY <1>1, <1>2 DEF Contents
<1>4. CASE c = page[index]
  <2>1. page' = page
    BY <1>1, <1>2, <1>4
  <2>. QED BY <1>1, <2>1 DEF Abs!vars
<1>5. CASE c # page[index]
  <2>1. c \in Contents /\ c # Blank /\ c \notin Records /\ page[index] \notin Records
    BY <1>1, <1>2, <1>5, NvmAssumption DEF Contents
  <2>2. NextFree(page') = index + 1 /\ Latest(page') = Latest(page)
    BY <1>1, <1>3, <2>1, Programmed
  <2>3. index \in 0 .. SlotCount /\ \A i \in Slots : i >= index => page[i] = Blank
    BY <1>1, NvmAssumption DEF Slots
  <2>4. NextFree(page) = index
    BY <1>1, <2>3, NextFreeIs
  <2>. QED BY <1>1, <2>2, <2>4, NvmAssumption DEF Abs!Consume, Slots
<1>. QED BY <1>4, <1>5

LEMMA SecondStores ==
  ASSUME IInv, NEW ok \in BOOLEAN, NEW done \in BOOLEAN, Second(ok, done)
  PROVE  Abs!Next \/ UNCHANGED Abs!vars
PROOF
<1>1. /\ page \in [Slots -> Contents] /\ index \in Slots /\ rec \in Records
      /\ page[index] \in {Blank, Junk}
      /\ \A j \in Slots : j > index => page[j] = Blank
      /\ index > 0 => page[index - 1] # Blank
  BY DEF IInv, TypeOK, Second, Underway
<1>2. PICK c \in IF done THEN {rec} ELSE {page[index], Junk} : page' = [page EXCEPT ![index] = c]
  BY DEF Second
<1>3. past' = (IF done THEN past \cup {rec} ELSE past) /\ (done => page[index] = Junk)
  BY DEF Second
<1>4. page[index] = Junk => NextFree(page) = index + 1
  <2>1. /\ index + 1 \in 0 .. SlotCount /\ (index + 1) - 1 = index
        /\ \A i \in Slots : i >= index + 1 => page[i] = Blank
    BY <1>1, NvmAssumption DEF Slots
  <2>. QED BY <1>1, <2>1, NextFreeIs, NvmAssumption
<1>5. page[index] = Blank => NextFree(page) = index
  <2>1. index \in 0 .. SlotCount /\ (page[index] = Blank => \A i \in Slots : i >= index => page[i] = Blank)
    BY <1>1, NvmAssumption DEF Slots
  <2>. QED BY <1>1, <2>1, NextFreeIs
<1>6. /\ page' \in [Slots -> Contents] /\ page'[index] = c
      /\ \A j \in Slots : j # index => page'[j] = page[j]
  BY <1>1, <1>2 DEF Contents
<1>7. CASE c = page[index]
  <2>1. page' = page /\ ~done
    BY <1>1, <1>2, <1>3, <1>7, NvmAssumption
  <2>. QED BY <1>3, <2>1 DEF Abs!vars
<1>8. CASE c # page[index]
  <2>1. c \in Contents /\ c # Blank /\ page[index] \notin Records
    BY <1>1, <1>2, <1>8, NvmAssumption DEF Contents
  <2>2. /\ NextFree(page') = index + 1
        /\ c \in Records => Latest(page') = c
        /\ c \notin Records => Latest(page') = Latest(page)
    BY <1>1, <1>6, <2>1, Programmed
  <2>3. CASE done
    <3>1. c = rec /\ NextFree(page) = index + 1
      BY <1>2, <1>3, <1>4, <2>3
    <3>2. Abs!Store(rec)
      BY <1>1, <1>3, <2>2, <2>3, <3>1, NvmAssumption DEF Abs!Store, Slots
    <3>. QED BY <1>1, <3>2 DEF Abs!Next
  <2>4. CASE ~done
    <3>1. c = Junk /\ page[index] = Blank /\ c \notin Records
      BY <1>1, <1>2, <1>8, <2>4, NvmAssumption
    <3>2. Abs!Consume
      BY <1>1, <1>3, <1>5, <2>2, <2>4, <3>1, NvmAssumption DEF Abs!Consume, Slots
    <3>. QED BY <3>2 DEF Abs!Next
  <2>. QED BY <2>3, <2>4
<1>. QED BY <1>7, <1>8

LEMMA SpecNext == IInv /\ [Next]_vars => [Abs!Next]_Abs!vars
PROOF
<1>. SUFFICES ASSUME IInv, [Next]_vars PROVE [Abs!Next]_Abs!vars
  OBVIOUS
<1>1. CASE page' = page /\ past' = past
  BY <1>1 DEF Abs!vars
<1>2. ASSUME NEW ok \in BOOLEAN, NEW q \in Wiped(page), Erase(ok, q) PROVE Abs!Next
  <2>1. at = "erase" /\ page' \in Wiped(page) /\ past' = past
    BY <1>2 DEF Erase
  <2>. QED BY <2>1, WipeReclaims DEF Abs!Next
<1>3. ASSUME NEW ok \in BOOLEAN, First(ok) PROVE Abs!Next \/ UNCHANGED Abs!vars
  BY <1>3, FirstConsumes DEF Abs!Next
<1>4. ASSUME NEW ok \in BOOLEAN, NEW done \in BOOLEAN, Second(ok, done)
      PROVE  Abs!Next \/ UNCHANGED Abs!vars
  BY <1>4, SecondStores
<1>5. CASE PowerLoss /\ at = "erase"
  <2>1. page' \in Wiped(page) /\ past' = past
    BY <1>5 DEF PowerLoss
  <2>. QED BY <1>5, <2>1, WipeReclaims DEF Abs!Next
<1>6. PowerLoss /\ at # "erase" => page' = page /\ past' = past
  BY DEF PowerLoss
<1>7. Check \/ Readback \/ (\E r \in Records \cup {NoRecord} : Save(r)) \/ UNCHANGED vars
      => page' = page /\ past' = past
  BY DEF Check, Readback, Save, vars
<1>. QED BY <1>1, <1>2, <1>3, <1>4, <1>5, <1>6, <1>7 DEF Next

\* The journal implements a record that only a reclaim can lose, for every page size.
THEOREM JournalImplements == Spec => ImplementsSpec
BY SpecInit, SpecNext, Invariance, PTL DEF Spec, Abs!Spec, ImplementsSpec

-------------------------------------------------------------------------------
\* One turn of the loop, on the result of the turns before.
Turned(p, n, r) ==
  [latest |-> IF p[n - 1] \in Records THEN p[n - 1] ELSE r.latest,
   next |-> IF p[n - 1] # Blank THEN n ELSE r.next]

\* The two closed forms on the slots below n.
Below(S, n) == {i \in S : i < n}
LastOf(S) == CHOOSE i \in Slots : IsLast(i, S)
Closed(p, n) ==
  [latest |-> IF Below(Valid(p), n) = {} THEN NoRecord ELSE p[LastOf(Below(Valid(p), n))],
   next |-> IF Below(Used(p), n) = {} THEN 0 ELSE LastOf(Below(Used(p), n)) + 1]

LEMMA BelowGrows ==
  ASSUME NEW S \in SUBSET Slots, NEW n \in 1 .. SlotCount
  PROVE  /\ n - 1 \in S => Below(S, n) # {} /\ LastOf(Below(S, n)) = n - 1
         /\ n - 1 \notin S => Below(S, n) = Below(S, n - 1)
PROOF
<1>1. ASSUME n - 1 \in S
      PROVE  Below(S, n) # {} /\ LastOf(Below(S, n)) = n - 1
  <2>1. IsLast(n - 1, Below(S, n))
    BY <1>1, NvmAssumption DEF IsLast, Below, Slots
  <2>2. Below(S, n) \in SUBSET Slots /\ n - 1 \in Slots
    BY <1>1 DEF Below
  <2>3. (CHOOSE k \in Slots : IsLast(k, Below(S, n))) = n - 1
    BY <2>1, <2>2, LastIsUnique
  <2>4. Below(S, n) # {}
    BY <2>1 DEF IsLast
  <2>. QED BY <2>3, <2>4 DEF LastOf
<1>2. ASSUME n - 1 \notin S
      PROVE  Below(S, n) = Below(S, n - 1)
  <2>1. \A i \in S : i < n <=> i < n - 1
    <3>1. \A i \in S : i # n - 1
      BY <1>2
    <3>. QED BY <3>1, NvmAssumption DEF Slots
  <2>. QED BY <2>1 DEF Below
<1>. QED BY <1>1, <1>2

LEMMA ClosedTurns ==
  ASSUME NEW p \in [Slots -> Contents], NEW n \in 1 .. SlotCount
  PROVE  Closed(p, n) = Turned(p, n, Closed(p, n - 1))
PROOF
<1>1. Valid(p) \in SUBSET Slots /\ Used(p) \in SUBSET Slots
  BY DEF Valid, Used
<1>2. n - 1 \in Slots
  BY NvmAssumption DEF Slots
<1>3. (n - 1 \in Valid(p) <=> p[n - 1] \in Records) /\ (n - 1 \in Used(p) <=> p[n - 1] # Blank)
  BY <1>2 DEF Valid, Used
<1>4. /\ n - 1 \in Valid(p) => Below(Valid(p), n) # {} /\ LastOf(Below(Valid(p), n)) = n - 1
      /\ n - 1 \notin Valid(p) => Below(Valid(p), n) = Below(Valid(p), n - 1)
  BY <1>1, BelowGrows
<1>5. /\ n - 1 \in Used(p) => Below(Used(p), n) # {} /\ LastOf(Below(Used(p), n)) = n - 1
      /\ n - 1 \notin Used(p) => Below(Used(p), n) = Below(Used(p), n - 1)
  BY <1>1, BelowGrows
<1>6. Closed(p, n).latest = Turned(p, n, Closed(p, n - 1)).latest
  BY <1>3, <1>4 DEF Closed, Turned
<1>7. n - 1 + 1 = n
  BY NvmAssumption
<1>8. Closed(p, n).next = Turned(p, n, Closed(p, n - 1)).next
  BY <1>3, <1>5, <1>7 DEF Closed, Turned
<1>. QED BY <1>6, <1>8 DEF Closed, Turned

\* A nonempty set of numbers of slots has a first one.
LEMMA FirstExists ==
  ASSUME NEW S \in SUBSET (0 .. SlotCount), S # {}
  PROVE  \E n \in S : \A m \in S : n <= m
PROOF
<1>. DEFINE Less(n) == {m \in S : m < n}
            T == {Less(n) : n \in S}
<1>1. IsFiniteSet(S)
  <2>1. 0 \in Int /\ SlotCount \in Int
    BY NvmAssumption
  <2>2. IsFiniteSet(0 .. SlotCount)
    BY <2>1, FS_Interval
  <2>. QED BY <2>2, FS_Subset
<1>2. IsWellFoundedOn(StrictSubsetOrdering(S), SUBSET S)
  BY <1>1, FS_FiniteSubsetsOfFinite, FS_StrictSubsetOrderingWellFounded
<1>3. T \subseteq SUBSET S /\ T # {}
  OBVIOUS
<1>4. PICK x \in T : \A y \in T : <<y, x>> \notin StrictSubsetOrdering(S)
  <2>. HIDE DEF T
  <2>. QED BY <1>2, <1>3, WFMin
<1>5. PICK n \in S : x = Less(n)
  OBVIOUS
<1>6. ASSUME NEW m \in S, m < n
      PROVE  FALSE
  <2>1. Less(m) \in T
    OBVIOUS
  <2>2. \A k \in S : k < m => k < n
    BY <1>6, NvmAssumption
  <2>3. m \in Less(n) /\ m \notin Less(m) /\ Less(m) \subseteq Less(n)
    <3>1. ~(m < m)
      BY NvmAssumption
    <3>. QED BY <1>6, <2>2, <3>1
  <2>4. <<Less(m), Less(n)>> \in StrictSubsetOrdering(S)
    BY <2>3 DEF StrictSubsetOrdering
  <2>. QED BY <1>4, <1>5, <2>1, <2>4
<1>7. \A m \in S : n <= m
  BY <1>6, NvmAssumption
<1>. QED BY <1>7

LEMMA LoopIsClosed ==
  ASSUME NEW p \in [Slots -> Contents], NEW f,
         f = [n \in 0 .. SlotCount |->
                IF n = 0 THEN [latest |-> NoRecord, next |-> 0] ELSE Turned(p, n, f[n - 1])]
  PROVE  \A n \in 0 .. SlotCount : f[n] = Closed(p, n)
PROOF
<1>. DEFINE Wrong == {n \in 0 .. SlotCount : f[n] # Closed(p, n)}
<1>1. SUFFICES ASSUME Wrong # {} PROVE FALSE
  OBVIOUS
<1>2. Wrong \in SUBSET (0 .. SlotCount)
  OBVIOUS
<1>3. PICK n \in Wrong : \A m \in Wrong : n <= m
  <2>. HIDE DEF Wrong
  <2>. QED BY <1>1, <1>2, FirstExists
<1>4. CASE n = 0
  <2>1. 0 \in 0 .. SlotCount
    BY NvmAssumption
  <2>2. f[0] = [latest |-> NoRecord, next |-> 0]
    BY <2>1
  <2>3. Below(Valid(p), 0) = {} /\ Below(Used(p), 0) = {}
    BY NvmAssumption DEF Below, Valid, Used, Slots
  <2>. QED BY <1>4, <2>2, <2>3 DEF Closed
<1>5. CASE n # 0
  <2>1. n \in 1 .. SlotCount /\ n \in 0 .. SlotCount /\ n - 1 \in 0 .. SlotCount /\ ~(n <= n - 1)
    BY <1>5, NvmAssumption
  <2>2. f[n - 1] = Closed(p, n - 1)
    BY <1>3, <2>1
  <2>3. f[n] = Turned(p, n, f[n - 1])
    BY <1>5, <2>1
  <2>4. Closed(p, n) = Turned(p, n, Closed(p, n - 1))
    BY <2>1, ClosedTurns
  <2>. QED BY <2>2, <2>3, <2>4
<1>. QED BY <1>4, <1>5

\* There is such a function: the closed forms themselves.
LEMMA LoopExists ==
  ASSUME NEW p \in [Slots -> Contents]
  PROVE  \E f : f = [n \in 0 .. SlotCount |->
                IF n = 0 THEN [latest |-> NoRecord, next |-> 0] ELSE Turned(p, n, f[n - 1])]
PROOF
<1>. DEFINE g == [n \in 0 .. SlotCount |-> Closed(p, n)]
<1>1. \A n \in 0 .. SlotCount :
        g[n] = IF n = 0 THEN [latest |-> NoRecord, next |-> 0] ELSE Turned(p, n, g[n - 1])
  <2>. SUFFICES ASSUME NEW n \in 0 .. SlotCount
                PROVE  g[n] = IF n = 0 THEN [latest |-> NoRecord, next |-> 0] ELSE Turned(p, n, g[n - 1])
    OBVIOUS
  <2>1. CASE n = 0
    <3>1. Below(Valid(p), 0) = {} /\ Below(Used(p), 0) = {}
      BY NvmAssumption DEF Below, Valid, Used, Slots
    <3>. QED BY <2>1, <3>1 DEF Closed
  <2>2. CASE n # 0
    <3>1. n \in 1 .. SlotCount /\ n - 1 \in 0 .. SlotCount
      BY <2>2, NvmAssumption
    <3>2. Closed(p, n) = Turned(p, n, Closed(p, n - 1))
      BY <3>1, ClosedTurns
    <3>. QED BY <2>2, <3>1, <3>2
  <2>. QED BY <2>1, <2>2
<1>2. g = [n \in 0 .. SlotCount |->
             IF n = 0 THEN [latest |-> NoRecord, next |-> 0] ELSE Turned(p, n, g[n - 1])]
  <2>. HIDE DEF g
  <2>1. g = [n \in 0 .. SlotCount |-> g[n]]
    BY DEF g
  <2>. QED BY <1>1, <2>1
<1>. QED BY <1>2

LEMMA ScanIs ==
  ASSUME NEW p \in [Slots -> Contents]
  PROVE  ScanTo(p) = [latest |-> Latest(p), next |-> NextFree(p)]
PROOF
<1>. DEFINE Loop(f) == f = [n \in 0 .. SlotCount |->
                IF n = 0 THEN [latest |-> NoRecord, next |-> 0] ELSE Turned(p, n, f[n - 1])]
            f == CHOOSE g : Loop(g)
<1>1. Loop(f)
  <2>1. \E g : Loop(g)
    BY LoopExists
  <2>. HIDE DEF Loop
  <2>. QED BY <2>1
<1>2. ScanTo(p) = f[SlotCount]
  BY DEF ScanTo, Turned
<1>3. f[SlotCount] = Closed(p, SlotCount)
  <2>. HIDE DEF f
  <2>. QED BY <1>1, LoopIsClosed, NvmAssumption
<1>4. Below(Valid(p), SlotCount) = Valid(p) /\ Below(Used(p), SlotCount) = Used(p)
  BY NvmAssumption DEF Below, Valid, Used, Slots
<1>. QED BY <1>2, <1>3, <1>4 DEF Closed, Latest, NextFree, LastOf

\* The closed forms in which everything above is stated are what the loop of scan()
\* computes, on every page that a save, a failure or a power loss leaves.
THEOREM ScansAgree == Spec => []ScanAgrees
PROOF
<1>1. TypeOK => ScanAgrees
  BY ScanIs DEF TypeOK, ScanAgrees
<1>. QED BY <1>1, JournalTypes, PTL

-------------------------------------------------------------------------------
\* The calibration kept in the journal.
calVars == <<journal, volatile, qualified>>

LEMMA RemainderRange ==
  ASSUME NEW x \in Int, NEW t \in Nat \ {0}
  PROVE  x % t \in 0 .. t - 1
  OBVIOUS

-------------------------------------------------------------------------------
\* The strengthening: what is being saved was qualified, and a save that succeeded
\* was given a record.
Vouched ==
  /\ at # "idle" => rec \in qualified
  /\ reply \in {"ok", "unchanged"} => rec \in Records

CalInv == IInv /\ CalTypeOK /\ QualifiedTogether /\ Vouched

LEMMA PairIsRecord ==
  ASSUME CalTypeOK
  PROVE  Pair \in Records
PROOF
<1>1. off \in 0 .. Turn - 1 /\ poles \in 1 .. MaxPoles
  BY DEF CalTypeOK
<1>2. Pair \in [off : 0 .. Turn - 1, poles : 1 .. MaxPoles]
  BY <1>1 DEF Pair
<1>. QED BY <1>2, CalibrationAssumption

LEMMA LatchedRange ==
  ASSUME CalTypeOK, NEW reading \in 0 .. Turn - 1
  PROVE  LatchedOffset(reading) \in 0 .. Turn - 1
PROOF
<1>1. poles \in Int /\ reading \in Int /\ Turn \in Nat \ {0}
  BY CalibrationAssumption DEF CalTypeOK
<1>. DEFINE x == reading * poles
<1>2. x \in Int
  BY <1>1
<1>3. x % Turn \in 0 .. Turn - 1
  <2>. HIDE DEF x
  <2>. QED BY <1>1, <1>2, RemainderRange
<1>. QED BY <1>3 DEF LatchedOffset

LEMMA WrappedRange ==
  ASSUME NEW mrad \in Entered
  PROVE  Wrapped(mrad) \in 0 .. Turn - 1
BY RemainderRange, CalibrationAssumption DEF Wrapped

-------------------------------------------------------------------------------
\* What a step of this module is for the journal.
LEMMA FlashSteps ==
  ASSUME Flash
  PROVE  /\ Next
         /\ at # "idle" /\ rec' = rec /\ past' \subseteq past \cup {rec}
         /\ UNCHANGED <<mode, off, poles, valid, owed, qualified>>
PROOF
<1>1. UNCHANGED <<mode, off, poles, valid, owed, qualified>>
  BY DEF Flash, volatile, calibration
<1>2. Next
  BY DEF Flash, Next
<1>3. ASSUME NEW ok \in BOOLEAN, NEW q \in Wiped(page), Erase(ok, q)
      PROVE  at # "idle" /\ rec' = rec /\ past' \subseteq past \cup {rec}
  BY <1>3 DEF Erase, Return
<1>4. ASSUME Check
      PROVE  at # "idle" /\ rec' = rec /\ past' \subseteq past \cup {rec}
  BY <1>4 DEF Check, Return
<1>5. ASSUME NEW ok \in BOOLEAN, First(ok)
      PROVE  at # "idle" /\ rec' = rec /\ past' \subseteq past \cup {rec}
  BY <1>5 DEF First, Return
<1>6. ASSUME NEW ok \in BOOLEAN, NEW done \in BOOLEAN, Second(ok, done)
      PROVE  at # "idle" /\ rec' = rec /\ past' \subseteq past \cup {rec}
  BY <1>6 DEF Second, Return
<1>7. ASSUME Readback
      PROVE  at # "idle" /\ rec' = rec /\ past' \subseteq past \cup {rec}
  BY <1>7 DEF Readback, Return
<1>. QED BY <1>1, <1>2, <1>3, <1>4, <1>5, <1>6, <1>7 DEF Flash

LEMMA PersistSteps ==
  ASSUME CalInv, Persist
  PROVE  \/ UNCHANGED <<page, at, rec, index, before, reply, past>>
         \/ Save(Pair) /\ Pair \in Records /\ Pair \in qualified
PROOF
<1>1. Pair \in Records
  BY PairIsRecord DEF CalInv
<1>2. CASE mode = "Idle" /\ valid
  <2>1. Encodes(Pair)
    BY CalibrationAssumption DEF CalInv, CalTypeOK, Encodes, Pair
  <2>2. Save(Pair)
    BY <1>2, <2>1 DEF Persist
  <2>. QED BY <1>1, <1>2, <2>2 DEF CalInv, QualifiedTogether
<1>3. CASE ~(mode = "Idle" /\ valid)
  BY <1>3 DEF Persist, journal, save
<1>. QED BY <1>2, <1>3

LEMMA JournalStep ==
  ASSUME CalInv, [CalNext]_calVars
  PROVE  [Next]_vars
PROOF
<1>1. CASE UNCHANGED journal
  BY <1>1 DEF journal, vars
<1>2. CASE PowerCycle
  BY <1>1, <1>2 DEF PowerCycle, Next
<1>3. CASE Persist
  <2>1. CASE UNCHANGED <<page, at, rec, index, before, reply, past>>
    BY <2>1 DEF vars, save
  <2>2. CASE Save(Pair) /\ Pair \in Records
    BY <2>2 DEF Next
  <2>. QED BY <1>3, <2>1, <2>2, PersistSteps
<1>4. CASE Flash
  BY <1>4, FlashSteps
<1>5. CASE UNCHANGED calVars
  BY <1>1, <1>5 DEF calVars
<1>6. ASSUME NEW target \in {"Align", "Open", "Closed"}, Start(target) PROVE UNCHANGED journal
  BY <1>6 DEF Start
<1>7. ASSUME NEW reading \in 0 .. Turn - 1, FinishAlign(reading) \/ Capture(reading)
      PROVE  UNCHANGED journal
  BY <1>7 DEF FinishAlign, Capture
<1>8. ASSUME NEW n \in Entered, SetPoles(n) \/ SetOffset(n) PROVE UNCHANGED journal
  BY <1>8 DEF SetPoles, SetOffset
<1>9. Trip \/ Halt => UNCHANGED journal
  BY DEF Trip, Halt
<1>. QED BY <1>1, <1>2, <1>3, <1>4, <1>5, <1>6, <1>7, <1>8, <1>9 DEF CalNext

-------------------------------------------------------------------------------
LEMMA CalInitInv == CalInit => CalInv
PROOF
<1>. SUFFICES ASSUME CalInit PROVE CalInv
  OBVIOUS
<1>1. IInv
  BY InitIInv DEF CalInit
<1>2. CalTypeOK
  <2>1. 0 \in 0 .. Turn - 1 /\ DefaultPoles \in 1 .. MaxPoles
    BY CalibrationAssumption
  <2>. QED BY <1>1, <2>1 DEF CalInit, CalTypeOK, IInv, Modes
<1>3. QualifiedTogether /\ Vouched
  BY DEF CalInit, Init, QualifiedTogether, Vouched
<1>. QED BY <1>1, <1>2, <1>3 DEF CalInv

\* load_nvm at boot: what is in flash was qualified.
LEMMA BootKeeps ==
  ASSUME CalInv, IInv', Boot(page'), UNCHANGED qualified, past' \subseteq qualified
  PROVE  CalTypeOK' /\ QualifiedTogether'
PROOF
<1>1. page' \in [Slots -> Contents] /\ TypeOK'
  BY DEF IInv, TypeOK
<1>2. Latest(page') \in Records \cup {NoRecord}
      /\ (Latest(page') # NoRecord => \E i \in Slots : page'[i] = Latest(page'))
  BY <1>1, ScanResults
<1>3. Latest(page') \in Records => Latest(page') \in qualified
  BY <1>2, NvmAssumption DEF IInv, Recorded
<1>4. mode' = "Idle" /\ owed' = FALSE /\ qualified' \subseteq Records
  BY DEF Boot, CalInv, CalTypeOK
<1>5. CASE Accepts(Latest(page'))
  <2>1. Latest(page') \in Records
    BY <1>2, <1>5 DEF Accepts
  <2>2. Latest(page') \in [off : 0 .. Turn - 1, poles : 1 .. MaxPoles]
    BY <2>1, CalibrationAssumption
  <2>3. off' = Latest(page').off /\ poles' = Latest(page').poles /\ valid' = TRUE
    BY <1>5 DEF Boot
  <2>4. Pair' = Latest(page')
    BY <2>2, <2>3 DEF Pair
  <2>5. off' \in 0 .. Turn - 1 /\ poles' \in 1 .. MaxPoles
    BY <2>2, <2>3
  <2>. QED BY <1>1, <1>3, <1>4, <2>1, <2>3, <2>4, <2>5 DEF CalTypeOK, QualifiedTogether, Modes
<1>6. CASE ~Accepts(Latest(page'))
  <2>1. off' = 0 /\ poles' = DefaultPoles /\ valid' = FALSE
    BY <1>6 DEF Boot
  <2>2. 0 \in 0 .. Turn - 1 /\ DefaultPoles \in 1 .. MaxPoles
    BY CalibrationAssumption
  <2>3. CalTypeOK'
    BY <1>1, <1>4, <2>1, <2>2 DEF CalTypeOK, Modes
  <2>4. past' \subseteq qualified'
    OBVIOUS
  <2>. QED BY <1>4, <2>1, <2>3, <2>4 DEF QualifiedTogether
<1>. QED BY <1>5, <1>6

LEMMA PowerCycleInv ==
  ASSUME CalInv, IInv', PowerCycle
  PROVE  CalInv'
PROOF
<1>1. qualified' = qualified /\ past' = past /\ rec' = rec /\ at' = "idle"
      /\ (reply' = reply \/ reply' = "lost")
  BY DEF PowerCycle, PowerLoss, Return, journal, save
<1>2. past' \subseteq qualified
  BY <1>1 DEF CalInv, QualifiedTogether
<1>3. CalTypeOK' /\ QualifiedTogether'
  BY <1>1, <1>2, BootKeeps DEF PowerCycle
<1>4. Vouched'
  BY <1>1 DEF CalInv, Vouched
<1>. QED BY <1>3, <1>4 DEF CalInv

LEMMA PersistInv ==
  ASSUME CalInv, IInv', Persist
  PROVE  CalInv'
PROOF
<1>1. UNCHANGED <<mode, off, poles, valid, qualified>> /\ owed' = FALSE
  BY DEF Persist, calibration
<1>2. /\ past' = past
      /\ at' # "idle" => rec' \in qualified
      /\ reply' \in {"ok", "unchanged"} => rec' \in Records
  <2>1. CASE UNCHANGED <<page, at, rec, index, before, reply, past>>
    BY <2>1 DEF CalInv, Vouched
  <2>2. CASE Save(Pair) /\ Pair \in Records /\ Pair \in qualified
    BY <2>2 DEF Save
  <2>. QED BY <2>1, <2>2, PersistSteps
<1>3. CalTypeOK'
  BY <1>1 DEF CalInv, CalTypeOK, IInv
<1>4. QualifiedTogether' /\ Vouched'
  BY <1>1, <1>2 DEF CalInv, QualifiedTogether, Vouched, Pair
<1>. QED BY <1>3, <1>4 DEF CalInv

LEMMA FlashInv ==
  ASSUME CalInv, IInv', Flash
  PROVE  CalInv'
PROOF
<1>1. /\ at # "idle" /\ rec' = rec /\ past' \subseteq past \cup {rec}
      /\ UNCHANGED <<mode, off, poles, valid, owed, qualified>>
  BY FlashSteps
<1>2. rec \in qualified /\ rec \in Records
  BY <1>1 DEF CalInv, Vouched, CalTypeOK
<1>3. CalTypeOK'
  BY <1>1 DEF CalInv, CalTypeOK, IInv
<1>4. QualifiedTogether' /\ Vouched'
  BY <1>1, <1>2 DEF CalInv, QualifiedTogether, Vouched, Pair
<1>. QED BY <1>3, <1>4 DEF CalInv

\* Whatever leaves the journal alone and authorizes only a qualified pair.
LEMMA CommandInv ==
  ASSUME CalInv, IInv', UNCHANGED journal,
         mode' \in Modes, off' \in 0 .. Turn - 1, poles' \in 1 .. MaxPoles,
         valid' \in BOOLEAN, owed' \in BOOLEAN,
         qualified \subseteq qualified', qualified' \subseteq Records,
         valid' \/ mode' = "Closed" => Pair' \in qualified'
  PROVE  CalInv'
PROOF
<1>1. UNCHANGED <<page, at, rec, index, before, reply, past>>
  BY DEF journal, save
<1>2. CalTypeOK'
  BY DEF CalTypeOK, IInv
<1>3. QualifiedTogether' /\ Vouched'
  BY <1>1 DEF CalInv, QualifiedTogether, Vouched
<1>. QED BY <1>2, <1>3 DEF CalInv

LEMMA NextCalInv == CalInv /\ [CalNext]_calVars => CalInv'
PROOF
<1>. SUFFICES ASSUME CalInv, [CalNext]_calVars PROVE CalInv'
  OBVIOUS
<1>1. IInv'
  BY JournalStep, NextIInv DEF CalInv
<1>2. /\ mode \in Modes /\ off \in 0 .. Turn - 1 /\ poles \in 1 .. MaxPoles
      /\ valid \in BOOLEAN /\ owed \in BOOLEAN /\ qualified \subseteq Records
      /\ valid \/ mode = "Closed" => Pair \in qualified
  BY DEF CalInv, CalTypeOK, QualifiedTogether
<1>3. CASE PowerCycle
  BY <1>1, <1>3, PowerCycleInv
<1>4. CASE Persist
  BY <1>1, <1>4, PersistInv
<1>5. CASE Flash
  BY <1>1, <1>5, FlashInv
<1>6. CASE Trip
  <2>1. UNCHANGED journal /\ mode' = "Fault" /\ UNCHANGED <<off, poles, valid, owed, qualified>>
    BY <1>6 DEF Trip, calibration
  <2>2. Pair' = Pair
    BY <2>1 DEF Pair
  <2>. QED BY <1>1, <1>2, <2>1, <2>2, CommandInv DEF Modes
<1>7. CASE Halt
  <2>1. UNCHANGED journal /\ mode' = "Idle" /\ UNCHANGED <<off, poles, valid, owed, qualified>>
    BY <1>7 DEF Halt, calibration
  <2>2. Pair' = Pair
    BY <2>1 DEF Pair
  <2>. QED BY <1>1, <1>2, <2>1, <2>2, CommandInv DEF Modes
<1>8. ASSUME NEW target \in {"Align", "Open", "Closed"}, Start(target) PROVE CalInv'
  <2>1. /\ UNCHANGED journal /\ UNCHANGED <<off, poles, owed, qualified>>
        /\ mode' \in {target, "Fault"} /\ (target = "Closed" => valid)
        /\ valid' = (valid /\ target # "Align")
    BY <1>8 DEF Start
  <2>2. Pair' = Pair
    BY <2>1 DEF Pair
  <2>3. mode' \in Modes /\ valid' \in BOOLEAN /\ (valid' \/ mode' = "Closed" => Pair' \in qualified')
    BY <1>2, <2>1, <2>2 DEF Modes
  <2>. QED BY <1>1, <1>2, <2>1, <2>3, CommandInv
<1>9. ASSUME NEW reading \in 0 .. Turn - 1, FinishAlign(reading) PROVE CalInv'
  <2>1. /\ UNCHANGED journal /\ UNCHANGED <<poles, owed>>
        /\ off' = LatchedOffset(reading) /\ valid' = TRUE /\ mode' = "Idle"
        /\ qualified' = qualified \cup {[Pair EXCEPT !.off = off']}
    BY <1>9 DEF FinishAlign
  <2>2. off' \in 0 .. Turn - 1
    BY <2>1, LatchedRange DEF CalInv
  <2>3. [Pair EXCEPT !.off = off'] = Pair'
    BY <2>1 DEF Pair
  <2>4. Pair' \in Records
    BY <1>2, <2>1, <2>2, CalibrationAssumption DEF Pair
  <2>. QED BY <1>1, <1>2, <2>1, <2>2, <2>3, <2>4, CommandInv DEF Modes
<1>10. ASSUME NEW reading \in 0 .. Turn - 1, Capture(reading) PROVE CalInv'
  <2>1. /\ UNCHANGED journal /\ UNCHANGED <<mode, poles, owed, qualified>>
        /\ mode = "Idle" /\ off' = LatchedOffset(reading) /\ valid' = FALSE
    BY <1>10 DEF Capture
  <2>2. off' \in 0 .. Turn - 1
    BY <2>1, LatchedRange DEF CalInv
  <2>. QED BY <1>1, <1>2, <2>1, <2>2, CommandInv
<1>11. ASSUME NEW n \in Entered, SetPoles(n) PROVE CalInv'
  <2>1. /\ UNCHANGED journal /\ UNCHANGED <<mode, off, owed, qualified>>
        /\ mode = "Idle" /\ n \in 1 .. MaxPoles /\ poles' = n /\ valid' = (valid /\ n = poles)
    BY <1>11 DEF SetPoles, StillValid
  <2>2. valid' => Pair' = Pair
    BY <2>1 DEF Pair
  <2>. QED BY <1>1, <1>2, <2>1, <2>2, CommandInv
<1>12. ASSUME NEW n \in Entered, SetOffset(n) PROVE CalInv'
  <2>1. /\ UNCHANGED journal /\ UNCHANGED <<mode, poles>>
        /\ off' = Wrapped(n) /\ valid' = TRUE /\ owed' = TRUE
        /\ qualified' = qualified \cup {[Pair EXCEPT !.off = off']}
    BY <1>12 DEF SetOffset
  <2>2. off' \in 0 .. Turn - 1
    BY <2>1, WrappedRange
  <2>3. [Pair EXCEPT !.off = off'] = Pair'
    BY <2>1 DEF Pair
  <2>4. Pair' \in Records
    BY <1>2, <2>1, <2>2, CalibrationAssumption DEF Pair
  <2>. QED BY <1>1, <1>2, <2>1, <2>2, <2>3, <2>4, CommandInv
<1>13. CASE UNCHANGED calVars
  <2>1. UNCHANGED journal /\ UNCHANGED <<mode, off, poles, valid, owed, qualified>>
    BY <1>13 DEF calVars, volatile, calibration
  <2>2. Pair' = Pair
    BY <2>1 DEF Pair
  <2>. QED BY <1>1, <1>2, <2>1, <2>2, CommandInv
<1>. QED
  BY <1>3, <1>4, <1>5, <1>6, <1>7, <1>8, <1>9, <1>10, <1>11, <1>12, <1>13 DEF CalNext

LEMMA CalInvariance == CalSpec => []CalInv
BY CalInitInv, NextCalInv, PTL DEF CalSpec, calVars

-------------------------------------------------------------------------------
\* Offset, pole reading, mode and history keep their types, for every resolution of the
\* offset and every pole reading that may be entered.
THEOREM CalibrationTypes == CalSpec => []CalTypeOK
BY CalInvariance, PTL DEF CalInv

\* A valid calibration, a closed loop and every record in flash rest on a pair that an
\* alignment or the operator vouched for as a pair, in whatever order commands,
\* alignments, trips, failing saves and power cycles come.
THEOREM PairsAreQualified == CalSpec => []QualifiedTogether
BY CalInvariance, PTL DEF CalInv

\* encode() never refuses a calibration that is valid.
THEOREM CalibrationEncodes == CalSpec => []AlwaysEncodes
PROOF
<1>1. CalInv => AlwaysEncodes
  BY CalibrationAssumption DEF CalInv, CalTypeOK, AlwaysEncodes, Encodes, Pair
<1>. QED BY <1>1, CalInvariance, PTL

\* The calibration commands use the journal as Nvm has it: their saves, failures and
\* power cycles are steps of it, so its theorems hold here.
THEOREM CalibrationUsesJournal == CalSpec => Spec
PROOF
<1>1. CalInit => Init
  BY DEF CalInit
<1>2. CalInv /\ [CalNext]_calVars => [Next]_vars
  BY JournalStep
<1>. QED BY <1>1, <1>2, CalInvariance, PTL DEF CalSpec, calVars, Spec

\* Save and load as a whole: what a save reported as done is what the next power cycle
\* brings back, authorized.
THEOREM SavedIsRestored == CalSpec => SavedComesBack
PROOF
<1>1. ASSUME CalInv, PowerCycle, at = "idle", reply \in {"ok", "unchanged"}
      PROVE  valid' /\ Pair' = rec
  <2>1. page' = page /\ rec \in Records /\ Latest(page) = rec
    BY <1>1, NvmAssumption DEF PowerCycle, journal, CalInv, IInv, SavedIsLoaded, Vouched
  <2>2. rec \in [off : 0 .. Turn - 1, poles : 1 .. MaxPoles] /\ rec # NoRecord
    BY <2>1, CalibrationAssumption, NvmAssumption
  <2>3. Accepts(Latest(page'))
    BY <2>1, <2>2, CalibrationAssumption DEF Accepts
  <2>4. valid' = TRUE /\ off' = rec.off /\ poles' = rec.poles
    BY <1>1, <2>1, <2>3 DEF PowerCycle, Boot
  <2>. QED BY <2>2, <2>4 DEF Pair
<1>2. CalInv => (PowerCycle /\ at = "idle" /\ reply \in {"ok", "unchanged"} => valid' /\ Pair' = rec)
  BY <1>1
<1>. QED BY <1>2, CalInvariance, PTL DEF SavedComesBack

-------------------------------------------------------------------------------
(***************************************************************************)
(* The line editor. Edited says that the terminal shows the line and that  *)
(* painted is its length, Kept that the ring holds the submitted lines in  *)
(* order behind its next slot, Walked where a walk through it stands. What *)
(* complete() makes of a line is one lemma, CompletedForm.                 *)
(***************************************************************************)

\* A nonempty set of bounded naturals has a first element.
LEMMA LowestOf ==
  ASSUME NEW n \in Nat, NEW S \in SUBSET (0 .. n), S # {}
  PROVE  \E i \in S : \A j \in S : i <= j
PROOF
<1>. DEFINE T == {n - i : i \in S}
<1>1. T \in SUBSET (0 .. n) /\ T # {}
  <2>1. \A i \in S : n - i \in 0 .. n
    OBVIOUS
  <2>. QED BY <2>1, Zenon
<1>2. PICK k \in T : \A j \in T : j <= k
  <2>. HIDE DEF T
  <2>. QED BY <1>1, HighestOf
<1>3. PICK i \in S : k = n - i
  OBVIOUS
<1>4. \A j \in S : n - j \in T
  OBVIOUS
<1>5. ASSUME NEW j \in S
      PROVE  i <= j
  <2>1. n - j <= n - i
    BY <1>2, <1>3, <1>4
  <2>2. i \in 0 .. n /\ j \in 0 .. n
    OBVIOUS
  <2>. QED BY <2>1, <2>2
<1>. QED BY <1>5

LEMMA ExtremesOf ==
  ASSUME NEW n \in Nat, NEW S \in SUBSET (0 .. n), S # {}
  PROVE  /\ Min(S) \in S /\ \A j \in S : Min(S) <= j
         /\ Max(S) \in S /\ \A j \in S : j <= Max(S)
PROOF
<1>1. PICK i \in S : \A j \in S : i <= j
  BY LowestOf
<1>2. PICK k \in S : \A j \in S : j <= k
  BY HighestOf
<1>3. \A j \in S : k >= j
  BY <1>2
<1>4. Min(S) \in S /\ \A j \in S : Min(S) <= j
  BY <1>1 DEF Min
<1>5. Max(S) \in S /\ \A j \in S : Max(S) >= j
  BY <1>3 DEF Max
<1>. QED BY <1>4, <1>5

-------------------------------------------------------------------------------
LEMMA ShellConstants ==
  /\ LineCap \in Nat /\ HistCap \in Nat /\ MatchCap \in Nat
  /\ LineCap > 0 /\ HistCap > 0 /\ MatchCap > 0
  /\ Letters \subseteq Chars /\ Space \in Chars /\ Space \notin Letters
  /\ Roots \in Seq(Seq(Letters)) /\ \A w \in Tokens : SubWords(w) \in Seq(Seq(Letters))
PROOF
<1>1. {LineCap, HistCap, MatchCap} \subseteq Nat \ {0} /\ Space \notin Letters
  BY ShellAssumption
<1>2. LineCap \in Nat \ {0} /\ HistCap \in Nat \ {0} /\ MatchCap \in Nat \ {0}
  BY <1>1
<1>3. Roots \in Seq(Seq(Letters)) /\ \A w \in Tokens : SubWords(w) \in Seq(Seq(Letters))
  BY WordsAssumption
<1>4. Letters \subseteq Chars /\ Space \in Chars
  BY DEF Chars
<1>5. /\ LineCap \in Nat /\ HistCap \in Nat /\ MatchCap \in Nat
      /\ LineCap > 0 /\ HistCap > 0 /\ MatchCap > 0
  BY <1>2
<1>. QED BY <1>1, <1>3, <1>4, <1>5, Zenon

\* A part of a sequence.
LEMMA PartType ==
  ASSUME NEW S, NEW l \in Seq(S), NEW m \in 1 .. Len(l) + 1, NEW n \in m - 1 .. Len(l)
  PROVE  SubSeq(l, m, n) \in Seq(S)
OBVIOUS

LEMMA PartLength ==
  ASSUME NEW S, NEW l \in Seq(S), NEW m \in 1 .. Len(l) + 1, NEW n \in m - 1 .. Len(l)
  PROVE  Len(SubSeq(l, m, n)) = n - m + 1
OBVIOUS

LEMMA PartElement ==
  ASSUME NEW S, NEW l \in Seq(S), NEW m \in 1 .. Len(l) + 1, NEW n \in m - 1 .. Len(l),
         NEW i \in 1 .. n - m + 1
  PROVE  SubSeq(l, m, n)[i] = l[m + i - 1]
OBVIOUS

LEMMA JoinedType ==
  ASSUME NEW S, NEW l \in Seq(S), NEW m \in Seq(S)
  PROVE  l \o m \in Seq(S) /\ Len(l \o m) = Len(l) + Len(m)
OBVIOUS

LEMMA JoinedElement ==
  ASSUME NEW S, NEW l \in Seq(S), NEW m \in Seq(S), NEW i \in 1 .. Len(l) + Len(m)
  PROVE  (l \o m)[i] = IF i <= Len(l) THEN l[i] ELSE m[i - Len(l)]
OBVIOUS

LEMMA SameElements ==
  ASSUME NEW S, NEW l \in Seq(S), NEW m \in Seq(S), Len(l) = Len(m),
         \A i \in 1 .. Len(l) : l[i] = m[i]
  PROVE  l = m
OBVIOUS

LEMMA WiderType ==
  ASSUME NEW S, NEW l \in Seq(S), NEW R, S \subseteq R
  PROVE  l \in Seq(R)
OBVIOUS

LEMMA IntervalEnd ==
  ASSUME NEW n \in Nat, NEW m \in Nat, 1 .. n = 1 .. m
  PROVE  n = m
OBVIOUS

LEMMA BlanksType ==
  ASSUME NEW k \in Nat, NEW S, Space \in S
  PROVE  [i \in 1 .. k |-> Space] \in Seq(S) /\ Len([i \in 1 .. k |-> Space]) = k
PROOF
<1>. DEFINE b == [i \in 1 .. k |-> Space]
<1>1. b \in [1 .. k -> S] /\ DOMAIN b = 1 .. k
  OBVIOUS
<1>. HIDE DEF b
<1>2. b \in Seq(S)
  BY <1>1, SeqDef
<1>3. DOMAIN b = 1 .. Len(b) /\ Len(b) \in Nat
  BY <1>2, LenProperties
<1>4. 1 .. Len(b) = 1 .. k
  BY <1>1, <1>3, Zenon
<1>5. Len(b) = k
  BY <1>3, <1>4, IntervalEnd
<1>. QED BY <1>2, <1>5 DEF b

LEMMA EmptyType ==
  ASSUME NEW S
  PROVE  <<>> \in Seq(S) /\ Len(<<>>) = 0 /\ \A l \in Seq(S) : Len(l) = 0 => l = <<>>
OBVIOUS

LEMMA SingleType ==
  ASSUME NEW S, NEW c \in S
  PROVE  <<c>> \in Seq(S) /\ Len(<<c>>) = 1 /\ <<c>>[1] = c
OBVIOUS

LEMMA PrefixMeans ==
  ASSUME NEW S, NEW l \in Seq(S), NEW m \in Seq(S)
  PROVE  IsPrefix(l, m) <=> Len(l) <= Len(m) /\ \A i \in 1 .. Len(l) : l[i] = m[i]
BY DEF IsPrefix

LEMMA HeadOfJoined ==
  ASSUME NEW S, NEW l \in Seq(S), NEW m \in Seq(S)
  PROVE  SubSeq(l \o m, 1, Len(l)) = l
OBVIOUS

LEMMA TailOfJoined ==
  ASSUME NEW S, NEW l \in Seq(S), NEW m \in Seq(S), NEW i \in 1 .. Len(m)
  PROVE  (l \o m)[Len(l) + i] = m[i]
OBVIOUS

LEMMA PrefixJoined ==
  ASSUME NEW S, NEW l \in Seq(S), NEW m \in Seq(S)
  PROVE  IsPrefix(l, l \o m) /\ SubSeq(l \o m, Len(l) + 1, Len(l \o m)) = m
PROOF
<1>. DEFINE t == l \o m
            r == SubSeq(t, Len(l) + 1, Len(t))
<1>1. t \in Seq(S) /\ Len(t) = Len(l) + Len(m) /\ Len(l) \in Nat /\ Len(m) \in Nat
  OBVIOUS
<1>2. \A i \in 1 .. Len(l) : t[i] = l[i]
  OBVIOUS
<1>3. \A i \in 1 .. Len(m) : t[Len(l) + i] = m[i]
  BY TailOfJoined
<1>. HIDE DEF t
<1>4. IsPrefix(l, t)
  BY <1>1, <1>2, PrefixMeans
<1>5. r \in Seq(S) /\ Len(r) = Len(m)
  BY <1>1
<1>6. \A i \in 1 .. Len(m) : r[i] = t[Len(l) + i]
  BY <1>1
<1>. HIDE DEF r
<1>7. r = m
  BY <1>3, <1>5, <1>6, SameElements
<1>. QED BY <1>4, <1>7 DEF t, r

-------------------------------------------------------------------------------
\* The lines that fit the buffer.
Fitting == {l \in Seq(Chars) : Len(l) <= LineCap}

\* What is blank behind the n-th cell does not show.
LEMMA ShownPart ==
  ASSUME NEW cells \in Seq(Chars), NEW n \in 0 .. Len(cells),
         \A i \in n + 1 .. Len(cells) : cells[i] = Space
  PROVE  Shown(cells, n) = SubSeq(cells, 1, n)
PROOF
<1>. DEFINE Edge(k) == /\ \A i \in k + 1 .. Len(cells) : cells[i] = Space
                       /\ k = n \/ cells[k] # Space
<1>0. Len(cells) \in Nat /\ n \in Nat /\ n <= Len(cells)
  OBVIOUS
<1>1. n \in n .. Len(cells) /\ Edge(n)
  BY <1>0
<1>2. ASSUME NEW k \in n .. Len(cells), Edge(k)
      PROVE  k = n
  <2>1. SUFFICES ASSUME k # n PROVE FALSE
    OBVIOUS
  <2>2. k \in n + 1 .. Len(cells)
    BY <1>0, <2>1
  <2>3. cells[k] = Space
    BY <2>2
  <2>. QED BY <1>2, <2>1, <2>3
<1>3. (CHOOSE k \in n .. Len(cells) : Edge(k)) = n
  <2>. HIDE DEF Edge
  <2>. QED BY <1>1, <1>2
<1>. QED BY <1>3 DEF Shown

\* redraw_line leaves nothing of what was painted before.
LEMMA RedrawnIsLine ==
  ASSUME NEW l \in Seq(Chars), NEW old \in Seq(Chars), painted \in Nat, Len(old) <= painted
  PROVE  Redrawn(l, old) = l
PROOF
<1>. DEFINE blanks == [i \in 1 .. Overpainted(l) |-> Space]
            over == l \o blanks
            behind == SubSeq(old, Len(over) + 1, Len(old))
<1>1. Overpainted(l) \in Nat /\ Len(l) + Overpainted(l) >= painted /\ Len(l) \in Nat /\ Len(old) \in Nat
  BY DEF Overpainted
<1>2. blanks \in Seq(Chars) /\ Len(blanks) = Overpainted(l)
  BY <1>1, BlanksType, ShellConstants
<1>2a. \A i \in 1 .. Overpainted(l) : blanks[i] = Space
  OBVIOUS
<1>. HIDE DEF blanks
<1>3. over \in Seq(Chars) /\ Len(over) = Len(l) + Overpainted(l)
  BY <1>2
<1>4. behind = <<>>
  <2>. HIDE DEF over
  <2>1. Len(over) \in Nat /\ Len(old) < Len(over) + 1 /\ Len(over) + 1 \in Int /\ Len(old) \in Int
    BY <1>1, <1>3
  <2>. QED BY <2>1, SubSeqEmpty
<1>5. over \o behind = over
  <2>. HIDE DEF over, behind
  <2>. QED BY <1>3, <1>4, ConcatEmptySeq
<1>6. \A i \in Len(l) + 1 .. Len(over) : over[i] = Space
  <2>. SUFFICES ASSUME NEW i \in Len(l) + 1 .. Len(over) PROVE over[i] = Space
    OBVIOUS
  <2>1. i - Len(l) \in 1 .. Len(blanks) /\ Len(l) + (i - Len(l)) = i
    BY <1>1, <1>2, <1>3
  <2>2. over[Len(l) + (i - Len(l))] = blanks[i - Len(l)]
    BY <1>2, <2>1, TailOfJoined
  <2>3. blanks[i - Len(l)] = Space
    BY <1>2, <1>2a, <2>1
  <2>. QED BY <2>1, <2>2, <2>3
<1>7. Shown(over, Len(l)) = SubSeq(over, 1, Len(l))
  <2>. HIDE DEF over
  <2>1. Len(l) \in 0 .. Len(over)
    BY <1>1, <1>3
  <2>. QED BY <1>3, <1>6, <2>1, ShownPart
<1>8. SubSeq(over, 1, Len(l)) = l
  BY <1>2, HeadOfJoined
<1>9. Redrawn(l, old) = Shown(over \o behind, Len(l))
  BY DEF Redrawn, blanks
<1>. QED BY <1>5, <1>7, <1>8, <1>9

LEMMA ErasedLast ==
  ASSUME NEW l \in Seq(Chars), l # <<>>
  PROVE  Shown([l EXCEPT ![Len(l)] = Space], Len(l) - 1) = SubSeq(l, 1, Len(l) - 1)
PROOF
<1>. DEFINE cells == [l EXCEPT ![Len(l)] = Space]
<1>. PICK n \in Nat : n = Len(l)
  OBVIOUS
<1>1. n >= 1 /\ n \in 1 .. Len(l)
  BY EmptyType
<1>2. cells \in Seq(Chars) /\ Len(cells) = Len(l)
      /\ \A i \in 1 .. Len(l) : cells[i] = IF i = Len(l) THEN Space ELSE l[i]
  BY <1>1, ExceptSeq, ShellConstants
<1>. HIDE DEF cells
<1>3. Shown(cells, n - 1) = SubSeq(cells, 1, n - 1)
  <2>1. n - 1 \in 0 .. Len(cells) /\ \A i \in n - 1 + 1 .. Len(cells) : cells[i] = Space
    BY <1>1, <1>2
  <2>. QED BY <1>2, <2>1, ShownPart
<1>4. SubSeq(cells, 1, n - 1) = SubSeq(l, 1, n - 1)
  <2>. DEFINE a == SubSeq(cells, 1, n - 1)
              b == SubSeq(l, 1, n - 1)
  <2>1. a \in Seq(Chars) /\ b \in Seq(Chars) /\ Len(a) = n - 1 /\ Len(b) = n - 1
    BY <1>1, <1>2
  <2>2. \A i \in 1 .. n - 1 : a[i] = cells[i] /\ b[i] = l[i]
    BY <1>1, <1>2
  <2>3. \A i \in 1 .. n - 1 : cells[i] = l[i]
    BY <1>1, <1>2
  <2>. HIDE DEF a, b
  <2>4. \A i \in 1 .. n - 1 : a[i] = b[i]
    BY <2>2, <2>3
  <2>5. a = b
    BY <2>1, <2>4, SameElements
  <2>. QED BY <2>5 DEF a, b
<1>. QED BY <1>3, <1>4 DEF cells
-------------------------------------------------------------------------------
\* Letters from a start on end somewhere.
LEMMA EndBehind ==
  ASSUME NEW l \in Fitting, NEW i \in Starts(l)
  PROVE  \E m \in Ends(l) : m \in i .. Len(l) /\ \A k \in i .. m : l[k] # Space
PROOF
<1>. PICK n \in Nat : n = Len(l)
  BY DEF Fitting
<1>1. l \in Seq(Chars) /\ n <= LineCap /\ DOMAIN l = 1 .. n
  BY DEF Fitting
<1>2. i \in 1 .. n /\ l[i] # Space
  BY <1>1 DEF Starts
<1>. DEFINE Run == {j \in i .. n : \A k \in i .. j : l[k] # Space}
<1>3. Run \in SUBSET (0 .. n) /\ i \in Run
  <2>1. \A k \in i .. i : k = i
    BY <1>2
  <2>. QED BY <1>2, <2>1
<1>4. PICK m \in Run : \A j \in Run : j <= m
  <2>. HIDE DEF Run
  <2>. QED BY <1>3, HighestOf
<1>5. m \in i .. n /\ \A k \in i .. m : l[k] # Space
  OBVIOUS
<1>6. m = n \/ l[m + 1] = Space
  <2>1. ASSUME m # n, l[m + 1] # Space PROVE FALSE
    <3>1. m + 1 \in i .. n /\ ~(m + 1 <= m)
      BY <1>2, <1>5, <2>1
    <3>2. \A k \in i .. m + 1 : k \in i .. m \/ k = m + 1
      BY <1>2, <1>5
    <3>3. m + 1 \in Run
      BY <1>5, <2>1, <3>1, <3>2
    <3>. HIDE DEF Run
    <3>. QED BY <1>4, <3>1, <3>3
  <2>. QED BY <2>1
<1>7. m \in Ends(l)
  <2>1. m \in 1 .. n
    BY <1>2, <1>5
  <2>. QED BY <1>1, <1>5, <1>6, <2>1 DEF Ends
<1>. QED BY <1>5, <1>7

\* A token: from a start to the first end behind it, all of it letters.
LEMMA TokenType ==
  ASSUME NEW l \in Fitting, NEW i \in Starts(l)
  PROVE  Token(l, i) \in Tokens
PROOF
<1>. PICK n \in Nat : n = Len(l)
  BY DEF Fitting
<1>1. l \in Seq(Chars) /\ n <= LineCap /\ DOMAIN l = 1 .. n
  BY DEF Fitting
<1>2. i \in 1 .. n /\ l[i] # Space
  BY <1>1 DEF Starts
<1>. DEFINE Stops == {j \in Ends(l) : j >= i}
<1>. PICK m \in Ends(l) : m \in i .. n /\ \A k \in i .. m : l[k] # Space
  BY EndBehind
<1>5. m \in i .. n /\ \A k \in i .. m : l[k] # Space
  OBVIOUS
<1>7. m \in Stops /\ Stops \in SUBSET (0 .. n)
  <2>1. m >= i
    BY <1>2, <1>5
  <2>2. \A j \in Ends(l) : j \in 0 .. n
    BY <1>1 DEF Ends
  <2>. QED BY <2>1, <2>2
<1>. PICK e \in Int : e = Min(Stops)
  <2>. HIDE DEF Stops
  <2>1. Min(Stops) \in Stops
    BY <1>7, ExtremesOf
  <2>2. Min(Stops) \in Int
    <3>1. \A x \in Stops : x \in Int
      BY <1>7
    <3>. QED BY <2>1, <3>1, Zenon
  <2>. QED BY <2>2, Zenon
<1>8. e \in i .. m
  <2>. HIDE DEF Stops
  <2>1. e \in Stops /\ e <= m
    BY <1>7, ExtremesOf
  <2>2. e >= i
    BY <2>1 DEF Stops
  <2>. QED BY <1>2, <1>5, <2>1, <2>2
<1>9. \A k \in i .. e : l[k] \in Letters
  <2>. SUFFICES ASSUME NEW k \in i .. e PROVE l[k] \in Letters
    OBVIOUS
  <2>1. k \in i .. m /\ k \in 1 .. n
    BY <1>2, <1>5, <1>8
  <2>2. l[k] \in Chars /\ l[k] # Space
    BY <1>1, <1>5, <2>1
  <2>. QED BY <2>2 DEF Chars
<1>. DEFINE t == SubSeq(l, i, e)
<1>10. t \in Seq(Letters) /\ Len(t) = e - i + 1 /\ e - i + 1 \in 1 .. LineCap
  <2>1. t \in Seq(Letters)
    BY <1>2, <1>8, <1>9, SubSeqProperties
  <2>2. Len(t) = e - i + 1
    BY <1>1, <1>2, <1>5, <1>8, PartLength
  <2>3. e - i + 1 \in 1 .. LineCap
    BY <1>1, <1>2, <1>5, <1>8, ShellConstants
  <2>. QED BY <2>1, <2>2, <2>3
<1>11. t \in Tokens
  <2>. HIDE DEF t
  <2>1. t \in [1 .. Len(t) -> Letters]
    BY <1>10, LenProperties
  <2>. QED BY <1>10, <2>1 DEF Tokens
<1>. QED BY <1>11 DEF Token

LEMMA TokenIsWord ==
  ASSUME NEW w \in Tokens
  PROVE  w \in Seq(Letters)
BY SeqDef DEF Tokens

LEMMA WordsType ==
  ASSUME NEW l \in Fitting
  PROVE  \/ CompletionWords(l) = NoWords
         \/ \E prefix \in Tokens \cup {<<>>}, list \in {Roots} \cup {SubWords(w) : w \in Tokens} :
              CompletionWords(l) = [prefix |-> prefix, list |-> list]
PROOF
<1>. PICK n \in Nat : n = Len(l)
  BY DEF Fitting
<1>1. \A S \in SUBSET Starts(l) : S # {} => Min(S) \in Starts(l) /\ Token(l, Min(S)) \in Tokens
  <2>1. Starts(l) \in SUBSET (0 .. n)
    BY DEF Starts, Fitting
  <2>2. SUFFICES ASSUME NEW S \in SUBSET Starts(l), S # {}
                 PROVE  Min(S) \in Starts(l) /\ Token(l, Min(S)) \in Tokens
    OBVIOUS
  <2>3. S \in SUBSET (0 .. n)
    BY <2>1
  <2>4. Min(S) \in S
    BY <2>2, <2>3, ExtremesOf
  <2>. QED BY <2>4, TokenType
<1>. DEFINE starts == Starts(l)
            first == Min(starts)
            rest == starts \ {first}
            second == Min(rest)
            spaced == l # <<>> /\ l[Len(l)] = Space
<1>2. starts # {} => Token(l, first) \in Tokens
  BY <1>1
<1>3. rest # {} => Token(l, second) \in Tokens
  BY <1>1
<1>. DEFINE W == CASE starts = {} -> [prefix |-> <<>>, list |-> Roots]
        [] starts # {} /\ rest = {} /\ ~spaced -> [prefix |-> Token(l, first), list |-> Roots]
        [] starts # {} /\ rest = {} /\ spaced -> [prefix |-> <<>>, list |-> SubWords(Token(l, first))]
        [] starts # {} /\ rest # {} /\ rest = {second} /\ ~spaced ->
             [prefix |-> Token(l, second), list |-> SubWords(Token(l, first))]
        [] OTHER -> NoWords
<1>4. CompletionWords(l) = W
  BY DEF CompletionWords
<1>. HIDE DEF starts, first, rest, second, spaced
<1>5. \/ W = NoWords
      \/ W = [prefix |-> <<>>, list |-> Roots]
      \/ starts # {} /\ W = [prefix |-> Token(l, first), list |-> Roots]
      \/ starts # {} /\ W = [prefix |-> <<>>, list |-> SubWords(Token(l, first))]
      \/ /\ starts # {} /\ rest # {}
         /\ W = [prefix |-> Token(l, second), list |-> SubWords(Token(l, first))]
  OBVIOUS
<1>. HIDE DEF W
<1>. QED BY <1>2, <1>3, <1>4, <1>5, Zenon
-------------------------------------------------------------------------------
\* longest_common_prefix of words: a prefix of each, and no other is longer.
LEMMA LongestExists ==
  ASSUME NEW S \in SUBSET Seq(Chars), S # {}
  PROVE  /\ LongestCommonPrefix(S) \in Seq(Chars)
         /\ \A w \in S : IsPrefix(LongestCommonPrefix(S), w)
         /\ \A p \in Seq(Chars) : (\A w \in S : IsPrefix(p, w)) => Len(p) <= Len(LongestCommonPrefix(S))
PROOF
<1>. DEFINE C == CommonPrefixes(S)
            L == {Len(p) : p \in C}
<1>1. PICK u \in S : TRUE
  OBVIOUS
<1>2. \A p \in C : p \in Seq(Chars) /\ \A w \in S : IsPrefix(p, w)
  <2>. SUFFICES ASSUME NEW p \in C PROVE p \in Seq(Chars) /\ \A w \in S : IsPrefix(p, w)
    OBVIOUS
  <2>1. \A w \in S : IsPrefix(p, w)
    BY DEF CommonPrefixes
  <2>2. PICK w \in S : p \in Prefixes(w)
    BY DEF CommonPrefixes
  <2>3. PICK k \in 0 .. Len(w) : p = SubSeq(w, 1, k)
    BY <2>2 DEF Prefixes
  <2>4. p \in Seq(Chars)
    BY <2>3, PartType
  <2>. QED BY <2>1, <2>4
<1>3. \A p \in Seq(Chars) : (\A w \in S : IsPrefix(p, w)) => p \in C
  <2>. SUFFICES ASSUME NEW p \in Seq(Chars), \A w \in S : IsPrefix(p, w) PROVE p \in C
    OBVIOUS
  <2>1. Len(p) \in 0 .. Len(u) /\ \A i \in 1 .. Len(p) : p[i] = u[i]
    BY PrefixMeans
  <2>. DEFINE q == SubSeq(u, 1, Len(p))
  <2>2. q \in Seq(Chars) /\ Len(q) = Len(p) /\ \A i \in 1 .. Len(p) : q[i] = u[i]
    BY <2>1
  <2>3. p = q
    <3>. HIDE DEF q
    <3>. QED BY <2>1, <2>2, SameElements
  <2>4. p \in Prefixes(u)
    BY <2>1, <2>3 DEF Prefixes
  <2>. QED BY <2>4 DEF CommonPrefixes
<1>4. <<>> \in C
  <2>1. <<>> \in Seq(Chars) /\ \A w \in S : IsPrefix(<<>>, w)
    <3>1. <<>> \in Seq(Chars) /\ Len(<<>>) = 0
      BY EmptyType
    <3>2. ASSUME NEW w \in S PROVE IsPrefix(<<>>, w)
      <4>1. Len(<<>>) <= Len(w) /\ \A i \in 1 .. Len(<<>>) : <<>>[i] = w[i]
        BY <3>1
      <4>. QED BY <3>1, <4>1, PrefixMeans
    <3>. QED BY <3>1, <3>2
  <2>. QED BY <1>3, <2>1
<1>5. L \in SUBSET (0 .. Len(u)) /\ L # {} /\ Len(u) \in Nat
  <2>1. ASSUME NEW p \in C PROVE Len(p) \in 0 .. Len(u)
    <3>1. p \in Seq(Chars) /\ IsPrefix(p, u)
      BY <1>2
    <3>. QED BY <3>1, PrefixMeans
  <2>2. L \in SUBSET (0 .. Len(u))
    BY <2>1
  <2>3. Len(<<>>) \in L
    BY <1>4
  <2>. QED BY <2>2, <2>3
<1>6. PICK m \in L : \A k \in L : k <= m
  <2>. HIDE DEF L
  <2>. QED BY <1>5, HighestOf
<1>7. PICK p \in C : Len(p) = m
  OBVIOUS
<1>8. \A q \in C : Len(q) <= Len(p)
  BY <1>6, <1>7
<1>. DEFINE best == LongestCommonPrefix(S)
<1>9. best \in C /\ \A q \in C : Len(q) <= Len(best)
  BY <1>8 DEF LongestCommonPrefix
<1>. HIDE DEF best, C
<1>10. best \in Seq(Chars) /\ \A w \in S : IsPrefix(best, w)
  BY <1>2, <1>9
<1>11. \A q \in Seq(Chars) : (\A w \in S : IsPrefix(q, w)) => Len(q) <= Len(best)
  BY <1>3, <1>9
<1>. QED BY <1>10, <1>11 DEF best

\* Of two prefixes of one word the longer one begins with the other.
LEMMA PrefixesNest ==
  ASSUME NEW p \in Seq(Chars), NEW q \in Seq(Chars), NEW w \in Seq(Chars),
         IsPrefix(p, w), IsPrefix(q, w), Len(p) <= Len(q)
  PROVE  p \o SubSeq(q, Len(p) + 1, Len(q)) = q
PROOF
<1>. PICK n \in Nat, k \in Nat : n = Len(p) /\ k = Len(q)
  OBVIOUS
<1>1. n <= k /\ \A i \in 1 .. n : p[i] = q[i]
  <2>1. \A i \in 1 .. n : p[i] = w[i]
    BY PrefixMeans
  <2>2. \A i \in 1 .. k : q[i] = w[i]
    BY PrefixMeans
  <2>3. \A i \in 1 .. n : i \in 1 .. k
    OBVIOUS
  <2>. QED BY <2>1, <2>2, <2>3
<1>. DEFINE r == SubSeq(q, n + 1, k)
            t == p \o r
<1>2. r \in Seq(Chars) /\ Len(r) = k - n /\ \A i \in 1 .. k - n : r[i] = q[n + i]
  BY <1>1
<1>. HIDE DEF r
<1>3. t \in Seq(Chars) /\ Len(t) = k
  <2>1. t \in Seq(Chars) /\ Len(t) = Len(p) + Len(r)
    BY <1>2, JoinedType
  <2>. HIDE DEF t
  <2>. QED BY <1>1, <1>2, <2>1
<1>4. \A i \in 1 .. k : t[i] = q[i]
  <2>. SUFFICES ASSUME NEW i \in 1 .. k PROVE t[i] = q[i]
    OBVIOUS
  <2>1. CASE i <= n
    <3>1. t[i] = p[i] /\ i \in 1 .. n
      BY <1>2, <2>1
    <3>. QED BY <1>1, <3>1
  <2>2. CASE ~(i <= n)
    <3>1. i - n \in 1 .. k - n /\ n + (i - n) = i
      BY <2>2
    <3>2. t[n + (i - n)] = r[i - n]
      BY <1>2, <3>1, TailOfJoined
    <3>3. r[i - n] = q[n + (i - n)]
      BY <1>2, <3>1
    <3>. QED BY <3>1, <3>2, <3>3
  <2>. QED BY <2>1, <2>2
<1>5. t = q
  <2>. HIDE DEF t
  <2>. QED BY <1>3, <1>4, SameElements
<1>. QED BY <1>5 DEF r
-------------------------------------------------------------------------------
\* What completion works on, as far as the type of the words goes.
WordLists == {Roots} \cup {SubWords(w) : w \in Tokens}

LEMMA ListType ==
  ASSUME NEW list \in WordLists
  PROVE  list \in Seq(Seq(Chars))
PROOF
<1>1. list \in Seq(Seq(Letters))
  BY ShellConstants DEF WordLists
<1>2. Seq(Letters) \subseteq Seq(Chars)
  BY ShellConstants, WiderType
<1>. QED BY <1>1, <1>2, WiderType

LEMMA WordType ==
  ASSUME NEW list \in WordLists, NEW i \in DOMAIN list
  PROVE  list[i] \in Seq(Chars)
PROOF
<1>1. list \in Seq(Seq(Chars)) /\ i \in 1 .. Len(list)
  BY ListType, LenProperties
<1>. QED BY <1>1, ElementOfSeq

LEMMA PrefixType ==
  ASSUME NEW prefix \in Tokens \cup {<<>>}
  PROVE  prefix \in Seq(Chars)
PROOF
<1>1. prefix \in Seq(Letters)
  BY TokenIsWord, EmptyType
<1>. QED BY <1>1, ShellConstants, WiderType

\* What is common to all matches goes on from the prefix.
LEMMA CommonExtends ==
  ASSUME NEW prefix \in Tokens \cup {<<>>}, NEW list \in WordLists,
         NEW chosen \in SUBSET Hits([prefix |-> prefix, list |-> list]), chosen # {}
  PROVE  /\ CommonPrefix(list, chosen) \in Seq(Chars)
         /\ Len(prefix) <= Len(CommonPrefix(list, chosen))
         /\ \A i \in chosen : IsPrefix(CommonPrefix(list, chosen), list[i])
         /\ prefix \o SubSeq(CommonPrefix(list, chosen), Len(prefix) + 1, Len(CommonPrefix(list, chosen)))
              = CommonPrefix(list, chosen)
PROOF
<1>. DEFINE S == {list[i] : i \in chosen}
            lcp == LongestCommonPrefix(S)
<1>1. prefix \in Seq(Chars)
  BY PrefixType
<1>2. \A i \in chosen : list[i] \in Seq(Chars) /\ IsPrefix(prefix, list[i])
  <2>1. \A i \in chosen : i \in DOMAIN list /\ IsPrefix(prefix, list[i])
    BY DEF Hits
  <2>. QED BY <2>1, WordType
<1>3. S \in SUBSET Seq(Chars) /\ S # {}
  BY <1>2
<1>4. /\ lcp \in Seq(Chars)
      /\ \A w \in S : IsPrefix(lcp, w)
      /\ \A p \in Seq(Chars) : (\A w \in S : IsPrefix(p, w)) => Len(p) <= Len(lcp)
  <2>. HIDE DEF S
  <2>. QED BY <1>3, LongestExists
<1>5. \A w \in S : IsPrefix(prefix, w)
  BY <1>2
<1>6. PICK w \in S : TRUE
  BY <1>3
<1>. HIDE DEF lcp
<1>7. Len(prefix) <= Len(lcp)
  <2>. HIDE DEF S
  <2>. QED BY <1>1, <1>4, <1>5, Zenon
<1>8. prefix \o SubSeq(lcp, Len(prefix) + 1, Len(lcp)) = lcp
  <2>. HIDE DEF S
  <2>1. w \in Seq(Chars) /\ IsPrefix(prefix, w) /\ IsPrefix(lcp, w)
    BY <1>3, <1>4, <1>5
  <2>. QED BY <1>1, <1>4, <1>7, <2>1, PrefixesNest
<1>9. lcp = CommonPrefix(list, chosen)
  BY DEF lcp, CommonPrefix
<1>. QED BY <1>4, <1>7, <1>8, <1>9

\* Of one match alone it is all.
LEMMA OneIsItself ==
  ASSUME NEW prefix \in Tokens \cup {<<>>}, NEW list \in WordLists,
         NEW i \in Hits([prefix |-> prefix, list |-> list])
  PROVE  CommonPrefix(list, {i}) = list[i]
PROOF
<1>. DEFINE w == list[i]
            lcp == LongestCommonPrefix({w})
<1>1. w \in Seq(Chars)
  <2>1. i \in DOMAIN list
    BY DEF Hits
  <2>. QED BY <2>1, WordType
<1>. HIDE DEF w
<1>2. /\ lcp \in Seq(Chars) /\ IsPrefix(lcp, w)
      /\ \A p \in Seq(Chars) : (\A v \in {w} : IsPrefix(p, v)) => Len(p) <= Len(lcp)
  <2>1. {w} \in SUBSET Seq(Chars) /\ {w} # {}
    BY <1>1
  <2>. QED BY <2>1, LongestExists
<1>. HIDE DEF lcp
<1>3. IsPrefix(w, w)
  BY <1>1, PrefixMeans
<1>4. Len(w) <= Len(lcp)
  BY <1>1, <1>2, <1>3
<1>5. lcp = w
  <2>1. Len(lcp) <= Len(w) /\ \A k \in 1 .. Len(lcp) : lcp[k] = w[k]
    BY <1>1, <1>2, PrefixMeans
  <2>2. Len(lcp) = Len(w)
    BY <1>1, <1>2, <1>4, <2>1
  <2>. QED BY <1>1, <1>2, <2>1, <2>2, SameElements
<1>6. CommonPrefix(list, {i}) = LongestCommonPrefix({list[i]})
  <2>1. {list[j] : j \in {i}} = {list[i]}
    OBVIOUS
  <2>. QED BY <2>1 DEF CommonPrefix
<1>. QED BY <1>5, <1>6 DEF w, lcp
LEMMA PrefixOfSelf ==
  ASSUME NEW p \in Seq(Chars)
  PROVE  IsPrefix(p, p)
BY PrefixMeans

LEMMA PrefixOfLonger ==
  ASSUME NEW p \in Seq(Chars), NEW w \in Seq(Chars), NEW s \in Seq(Chars), IsPrefix(p, w)
  PROVE  IsPrefix(p, w \o s)
PROOF
<1>1. Len(p) <= Len(w) /\ \A i \in 1 .. Len(p) : p[i] = w[i]
  BY PrefixMeans
<1>2. w \o s \in Seq(Chars) /\ Len(w \o s) = Len(w) + Len(s)
  BY JoinedType
<1>3. \A i \in 1 .. Len(w) : (w \o s)[i] = w[i]
  OBVIOUS
<1>. DEFINE t == w \o s
<1>4. Len(p) <= Len(t) /\ \A i \in 1 .. Len(p) : p[i] = t[i]
  <2>. HIDE DEF t
  <2>. QED BY <1>1, <1>2, <1>3 DEF t
<1>. HIDE DEF t
<1>5. t \in Seq(Chars)
  BY <1>2 DEF t
<1>6. IsPrefix(p, t)
  BY <1>4, <1>5, PrefixMeans
<1>. QED BY <1>6 DEF t

\* A completion that is alone, and a completion that adds something: no match was left
\* out of the array.
LEMMA AllMatched ==
  ASSUME NEW prefix \in Tokens \cup {<<>>}, NEW list \in WordLists, NEW words,
         words = [prefix |-> prefix, list |-> list],
         Alone(Matches(words)) \/ Len(CommonPrefix(list, Matches(words))) > Len(prefix)
  PROVE  Matches(words) = Hits(words)
PROOF
<1>. DEFINE lcp == CommonPrefix(list, Matches(words))
<1>1. Matches(words) # Hits(words) => ~Alone(Matches(words)) /\ Len(lcp) <= Len(prefix)
  BY WordsAssumption, Zenon DEF WordLists
<1>2. Matches(words) # {} => Len(lcp) \in Nat
  <2>1. Matches(words) \in SUBSET Hits(words)
    BY DEF Matches
  <2>. HIDE DEF lcp
  <2>2. Matches(words) # {} => lcp \in Seq(Chars)
    BY <2>1, CommonExtends DEF lcp
  <2>. QED BY <2>2
<1>3. Len(prefix) \in Nat
  BY PrefixType
<1>. QED BY <1>1, <1>2, <1>3

\* What complete() makes of a line: the line and what it adds, which fits, and which
\* goes on with every word that was meant.
LEMMA CompletedForm ==
  ASSUME NEW l \in Fitting
  PROVE  \E added \in Seq(Chars) :
           /\ Completed(l) = l \o added /\ Len(l) + Len(added) <= LineCap
           /\ added # <<>> =>
                \A w \in Meant(l) : IsPrefix(CompletionWords(l).prefix \o added, w \o <<Space>>)
PROOF
<1>. DEFINE words == CompletionWords(l)
            matches == Matches(words)
            lcp == CommonPrefix(words.list, matches)
            longer == Applied(l, words.prefix, lcp)
            Good(added) == /\ added \in Seq(Chars)
                           /\ Completed(l) = l \o added /\ Len(l) + Len(added) <= LineCap
                           /\ added # <<>> =>
                                \A w \in Meant(l) : IsPrefix(words.prefix \o added, w \o <<Space>>)
<1>. SUFFICES \E added : Good(added)
  OBVIOUS
<1>1. l \in Seq(Chars) /\ Len(l) <= LineCap /\ Len(l) \in Nat
  BY DEF Fitting
<1>2. <<Space>> \in Seq(Chars) /\ Len(<<Space>>) = 1 /\ <<>> \in Seq(Chars) /\ Len(<<>>) = 0 /\ l \o <<>> = l
  BY <1>1, ShellConstants, SingleType, EmptyType, ConcatEmptySeq
<1>3. Completed(l) = l => Good(<<>>)
  BY <1>1, <1>2
<1>4. CASE matches = {}
  <2>1. Completed(l) = l
    BY <1>4 DEF Completed
  <2>2. Good(<<>>)
    BY <1>3, <2>1
  <2>. QED BY <2>2
<1>5. CASE matches # {}
  <2>1. PICK prefix \in Tokens \cup {<<>>}, list \in WordLists :
               words = [prefix |-> prefix, list |-> list]
    <3>1. words # NoWords
      <4>1. DOMAIN NoWords.list = {}
        BY DEF NoWords
      <4>2. Matches(NoWords) = {}
        BY <4>1 DEF Matches, Hits
      <4>. QED BY <1>5, <4>2
    <3>. QED BY <3>1, WordsType DEF WordLists
  <2>2. words.prefix = prefix /\ words.list = list
    BY <2>1
  <2>. HIDE DEF words
  <2>3. matches \in SUBSET Hits(words)
    BY DEF Matches
  <2>. DEFINE ext == SubSeq(lcp, Len(prefix) + 1, Len(lcp))
  <2>4. /\ lcp \in Seq(Chars) /\ Len(prefix) <= Len(lcp) /\ prefix \o ext = lcp
        /\ \A i \in matches : IsPrefix(lcp, list[i])
    <3>. HIDE DEF matches
    <3>. QED BY <1>5, <2>1, <2>2, <2>3, CommonExtends
  <2>5. prefix \in Seq(Chars) /\ Len(prefix) \in Nat
    BY PrefixType
  <2>6. ext \in Seq(Chars) /\ Len(ext) = Len(lcp) - Len(prefix)
    <3>. HIDE DEF lcp
    <3>. QED BY <2>4, <2>5
  <2>7. longer = IF Len(l) + Len(ext) <= LineCap THEN l \o ext ELSE l
    BY <2>2 DEF Applied, Fits
  <2>8. Completed(l) = IF Len(lcp) > Len(prefix)
                       THEN IF Alone(matches) /\ longer # l THEN SpaceAfter(longer, lcp) ELSE longer
                       ELSE IF Alone(matches) THEN SpaceAfter(l, list[Min(matches)]) ELSE l
    BY <1>5, <2>2 DEF Completed, words
  <2>9. Alone(matches) => \E i \in Hits(words) : matches = {i}
    <3>. HIDE DEF matches
    <3>1. Hits(words) \in SUBSET (0 .. Len(list)) /\ Len(list) \in Nat
      BY <2>2, ListType DEF Hits
    <3>2. IsFiniteSet(0 .. Len(list))
      BY <3>1, FS_Interval
    <3>3. IsFiniteSet(matches)
      BY <2>3, <3>1, <3>2, FS_Subset
    <3>4. Alone(matches) => \E i : matches = {i}
      BY <3>3, FS_Singleton DEF Alone
    <3>. QED BY <2>3, <3>4
  <2>10. Alone(matches) \/ Len(lcp) > Len(prefix) => matches = Hits(words)
    BY <2>1, <2>2, AllMatched
  <2>11. \A w \in Meant(l) : \E i \in Hits(words) : w = list[i]
    <3>1. Meant(l) = {w \in ToSet(list) : IsPrefix(prefix, w)}
      BY <2>2 DEF Meant, words
    <3>. QED BY <2>2, <3>1 DEF ToSet, Hits
  <2>12. \A i \in Hits(words) : list[i] \in Seq(Chars)
    BY <2>2, WordType DEF Hits
  <2>13. matches = Hits(words) => \A w \in Meant(l) : w \in Seq(Chars) /\ IsPrefix(lcp, w)
    BY <2>4, <2>11, <2>12
  <2>14. Alone(matches) => \A w \in Meant(l) : lcp = w
    <3>. SUFFICES ASSUME Alone(matches), NEW w \in Meant(l) PROVE lcp = w
      OBVIOUS
    <3>1. PICK i \in Hits(words) : matches = {i}
      BY <2>9
    <3>2. matches = Hits(words)
      BY <2>10
    <3>3. w = list[i]
      BY <2>11, <3>1, <3>2
    <3>4. CommonPrefix(list, {i}) = list[i]
      BY <2>1, OneIsItself
    <3>. QED BY <2>2, <3>1, <3>3, <3>4
  <2>. HIDE DEF lcp, longer, ext, matches
  <2>15. ASSUME NEW a \in Seq(Chars), NEW word
         PROVE  SpaceAfter(a, word) = a \/ (Len(a) < LineCap /\ SpaceAfter(a, word) = a \o <<Space>>)
    BY DEF SpaceAfter
  <2>16. CASE Len(lcp) > Len(prefix)
    <3>1. \A w \in Meant(l) : w \in Seq(Chars) /\ IsPrefix(lcp, w)
      BY <2>10, <2>13, <2>16
    <3>2. \A w \in Meant(l) : IsPrefix(prefix \o ext, w \o <<Space>>)
      BY <1>2, <2>4, <3>1, PrefixOfLonger
    <3>3. longer = l \o ext => Len(l) + Len(ext) <= LineCap \/ longer = l
      BY <2>7
    <3>4. CASE Completed(l) = longer
      <4>1. CASE longer = l
        BY <1>3, <3>4, <4>1
      <4>2. CASE longer # l
        <5>1. Good(ext)
          BY <2>2, <2>6, <2>7, <3>2, <3>4, <4>2
        <5>. QED BY <5>1
      <4>. QED BY <4>1, <4>2
    <3>5. CASE Alone(matches) /\ longer # l /\ Completed(l) = SpaceAfter(longer, lcp)
               /\ Completed(l) # longer
      <4>. DEFINE added == ext \o <<Space>>
      <4>1. longer = l \o ext
        BY <2>7, <3>5
      <4>2. longer \in Seq(Chars) /\ Len(longer) = Len(l) + Len(ext)
        BY <1>1, <2>6, <4>1, JoinedType
      <4>3. Completed(l) = longer \o <<Space>> /\ Len(longer) < LineCap
        BY <2>15, <3>5, <4>2
      <4>4. added \in Seq(Chars) /\ Len(added) = Len(ext) + 1
        BY <1>2, <2>6, JoinedType
      <4>5. longer \o <<Space>> = l \o added
        BY <1>1, <1>2, <2>6, <4>1, ConcatAssociative
      <4>6. prefix \o added = lcp \o <<Space>>
        BY <1>2, <2>4, <2>5, <2>6, ConcatAssociative
      <4>7. ASSUME NEW w \in Meant(l)
            PROVE  IsPrefix(prefix \o added, w \o <<Space>>)
        <5>1. w \o <<Space>> = lcp \o <<Space>>
          BY <2>14, <3>5
        <5>2. IsPrefix(lcp \o <<Space>>, lcp \o <<Space>>)
          BY <1>2, <2>4, JoinedType, PrefixOfSelf
        <5>. QED BY <4>6, <5>1, <5>2
      <4>. HIDE DEF added
      <4>8. Len(l) + Len(added) <= LineCap
        BY <1>1, <2>6, <4>2, <4>3, <4>4, ShellConstants
      <4>9. Good(added)
        BY <2>2, <4>3, <4>4, <4>5, <4>7, <4>8
      <4>. QED BY <4>9
    <3>. QED BY <2>8, <2>16, <3>4, <3>5
  <2>17. CASE ~(Len(lcp) > Len(prefix))
    <3>1. CASE Completed(l) = l
      BY <1>3, <3>1
    <3>2. CASE Completed(l) # l
      <4>1. Alone(matches) /\ Completed(l) = SpaceAfter(l, list[Min(matches)])
        BY <2>8, <2>17, <3>2
      <4>2. Completed(l) = l \o <<Space>> /\ Len(l) < LineCap
        BY <1>1, <2>15, <3>2, <4>1
      <4>3. prefix = lcp
        <5>1. Len(ext) = 0
          BY <2>4, <2>5, <2>6, <2>17
        <5>2. ext = <<>>
          BY <2>6, <5>1, EmptyType
        <5>. QED BY <2>4, <2>5, <5>2, ConcatEmptySeq
      <4>4. ASSUME NEW w \in Meant(l)
            PROVE  IsPrefix(prefix \o <<Space>>, w \o <<Space>>)
        <5>1. w = prefix
          BY <2>14, <4>1, <4>3
        <5>2. IsPrefix(prefix \o <<Space>>, prefix \o <<Space>>)
          BY <1>2, <2>5, JoinedType, PrefixOfSelf
        <5>. QED BY <5>1, <5>2
      <4>5. Good(<<Space>>)
        BY <1>1, <1>2, <2>2, <4>2, <4>4, ShellConstants
      <4>. QED BY <4>5
    <3>. QED BY <3>1, <3>2
  <2>. QED BY <2>16, <2>17
<1>. QED BY <1>4, <1>5
\* trim() leaves a part of the line.
LEMMA TrimmedType ==
  ASSUME NEW l \in Fitting
  PROVE  Trim(l) \in Fitting
PROOF
<1>. PICK n \in Nat : n = Len(l)
  BY DEF Fitting
<1>1. l \in Seq(Chars) /\ n <= LineCap /\ DOMAIN l = 1 .. n
  BY DEF Fitting
<1>2. CASE Starts(l) = {}
  <2>1. <<>> \in Seq(Chars) /\ Len(<<>>) <= LineCap
    BY EmptyType, ShellConstants
  <2>. QED BY <1>2, <2>1 DEF Trim, Fitting
<1>3. CASE Starts(l) # {}
  <2>1. Starts(l) \in SUBSET (0 .. n) /\ Ends(l) \in SUBSET (0 .. n)
    BY <1>1 DEF Starts, Ends
  <2>2. Min(Starts(l)) \in Starts(l)
    BY <1>3, <2>1, ExtremesOf
  <2>3. PICK i \in Starts(l) : i = Min(Starts(l))
    BY <2>2
  <2>4. PICK m \in Ends(l) : m \in i .. n
    BY EndBehind
  <2>5. Max(Ends(l)) \in Ends(l) /\ \A j \in Ends(l) : j <= Max(Ends(l))
    BY <2>1, <2>4, ExtremesOf
  <2>6. PICK e \in Ends(l) : e = Max(Ends(l)) /\ m <= e
    BY <2>4, <2>5
  <2>7. i \in 1 .. n /\ e \in 1 .. n /\ i <= e
    <3>1. i \in 1 .. n /\ e \in 1 .. n
      BY <1>1 DEF Starts, Ends
    <3>. QED BY <2>4, <2>6, <3>1
  <2>8. SubSeq(l, i, e) \in Seq(Chars) /\ Len(SubSeq(l, i, e)) = e - i + 1
    BY <1>1, <2>7, PartType, PartLength
  <2>9. e - i + 1 <= LineCap
    BY <1>1, <2>7, ShellConstants
  <2>10. Trim(l) = SubSeq(l, i, e)
    BY <1>3, <2>3, <2>6 DEF Trim
  <2>. QED BY <2>8, <2>9, <2>10 DEF Fitting
<1>. QED BY <1>2, <1>3

-------------------------------------------------------------------------------
\* The slot of the n-th last line, when the next one goes to slot h.
SlotOf(h, n) == (h + HistCap - 1 - n) % HistCap

LEMMA WrapOnce ==
  ASSUME NEW m \in Nat, m > 0, NEW x \in 0 .. 2 * m - 1
  PROVE  x % m = IF x < m THEN x ELSE x - m
OBVIOUS

LEMMA SlotMoves ==
  ASSUME NEW h \in RingSlots
  PROVE  /\ (h + 1) % HistCap \in RingSlots
         /\ SlotOf((h + 1) % HistCap, 0) = h
         /\ \A n \in 0 .. HistCap - 1 : SlotOf(h, n) \in RingSlots
         /\ \A n \in 0 .. HistCap - 2 : /\ SlotOf((h + 1) % HistCap, n + 1) = SlotOf(h, n)
                                        /\ SlotOf(h, n) # h
PROOF
<1>. PICK m \in Nat : m = HistCap /\ m > 0
  BY ShellConstants
<1>1. h \in 0 .. m - 1
  BY DEF RingSlots
<1>2. (h + 1) % m = IF h + 1 < m THEN h + 1 ELSE 0
  BY <1>1, WrapOnce
<1>3. PICK k \in 0 .. m - 1 : k = (h + 1) % m /\ k = IF h + 1 < m THEN h + 1 ELSE 0
  BY <1>1, <1>2
<1>4. \A g \in 0 .. m - 1, n \in 0 .. m - 1 :
        SlotOf(g, n) = IF g - 1 - n >= 0 THEN g - 1 - n ELSE g + m - 1 - n
  <2>. SUFFICES ASSUME NEW g \in 0 .. m - 1, NEW n \in 0 .. m - 1
                PROVE  SlotOf(g, n) = IF g - 1 - n >= 0 THEN g - 1 - n ELSE g + m - 1 - n
    OBVIOUS
  <2>1. PICK x \in 0 .. 2 * m - 1 : x = g + m - 1 - n
    OBVIOUS
  <2>2. x % m = IF x < m THEN x ELSE x - m
    BY WrapOnce
  <2>3. SlotOf(g, n) = x % m
    BY <2>1 DEF SlotOf
  <2>. QED BY <2>1, <2>2, <2>3
<1>5. SlotOf(k, 0) = h
  BY <1>1, <1>3, <1>4
<1>6. \A n \in 0 .. m - 1 : SlotOf(h, n) \in 0 .. m - 1
  BY <1>1, <1>4
<1>7. \A n \in 0 .. m - 2 : SlotOf(k, n + 1) = SlotOf(h, n) /\ SlotOf(h, n) # h
  <2>. SUFFICES ASSUME NEW n \in 0 .. m - 2
                PROVE  SlotOf(k, n + 1) = SlotOf(h, n) /\ SlotOf(h, n) # h
    OBVIOUS
  <2>1. SlotOf(h, n) = IF h - 1 - n >= 0 THEN h - 1 - n ELSE h + m - 1 - n
    BY <1>1, <1>4
  <2>2. SlotOf(k, n + 1) = IF k - 1 - (n + 1) >= 0 THEN k - 1 - (n + 1) ELSE k + m - 1 - (n + 1)
    BY <1>4
  <2>. QED BY <1>1, <1>3, <2>1, <2>2
<1>. QED BY <1>3, <1>5, <1>6, <1>7 DEF RingSlots
-------------------------------------------------------------------------------
\* The terminal shows the line, and no more was painted.
Edited ==
  /\ line \in Fitting /\ draft \in Fitting
  /\ row = line /\ painted = Len(line)
  /\ esc \in Escapes /\ skipLf \in BOOLEAN

\* The ring holds what was submitted, the last line behind the slot that is next.
Kept ==
  /\ hist \in [RingSlots -> Fitting] /\ head \in RingSlots /\ count \in 0 .. HistCap
  /\ submitted \in Seq(Fitting) /\ Len(submitted) = count
  /\ \A j \in 1 .. count : submitted[j] = hist[SlotOf(head, j - 1)]

\* A walk shows the line it has come to and remembers where it began.
Walked ==
  /\ nav \in {NoNav} \cup 0 .. count - 1
  /\ nav # NoNav => line = submitted[nav + 1] /\ draft = typed

ShellInv == Edited /\ Kept /\ Walked

LEMMA LineType ==
  ASSUME Edited
  PROVE  /\ line \in Seq(Chars) /\ Len(line) <= LineCap /\ Len(line) \in Nat
         /\ painted \in Nat /\ Len(row) <= painted
BY DEF Edited, Fitting

LEMMA InitHolds == ShellInit => ShellInv
PROOF
<1>. SUFFICES ASSUME ShellInit PROVE ShellInv
  OBVIOUS
<1>1. <<>> \in Fitting /\ Len(<<>>) = 0
  BY EmptyType, ShellConstants DEF Fitting
<1>2. Edited
  BY <1>1 DEF ShellInit, Edited, Escapes
<1>3. Kept
  <2>1. hist \in [RingSlots -> Fitting]
    BY <1>1 DEF ShellInit
  <2>2. head \in RingSlots /\ count \in 0 .. HistCap /\ count = 0
    BY ShellConstants DEF ShellInit, RingSlots
  <2>3. submitted \in Seq(Fitting) /\ Len(submitted) = 0
    BY EmptyType DEF ShellInit
  <2>. QED BY <2>1, <2>2, <2>3 DEF Kept
<1>4. Walked
  BY DEF ShellInit, Walked
<1>. QED BY <1>2, <1>3, <1>4 DEF ShellInv

\* Keys that leave the line alone.
LEMMA QuietKeeps ==
  ASSUME ShellInv, UNCHANGED <<line, ring, nav, draft, painted, row, typed>>,
         esc' \in Escapes, skipLf' \in BOOLEAN
  PROVE  ShellInv'
PROOF
<1>1. Edited'
  BY DEF ShellInv, Edited
<1>2. Kept'
  BY DEF ShellInv, Kept, ring
<1>3. Walked'
  BY DEF ShellInv, Walked, ring
<1>. QED BY <1>1, <1>2, <1>3 DEF ShellInv

\* Keys that edit the line, and end the walk.
LEMMA EditKeeps ==
  ASSUME ShellInv, UNCHANGED ring, EndWalk, Plain, skipLf' \in BOOLEAN,
         line' \in Fitting, row' = line', painted' = Len(line')
  PROVE  ShellInv'
PROOF
<1>1. draft' \in Fitting /\ nav' = NoNav
  BY EmptyType, ShellConstants DEF EndWalk, Fitting
<1>2. Edited'
  BY <1>1 DEF Edited, Plain, Escapes
<1>3. Kept'
  BY DEF ShellInv, Kept, ring
<1>4. Walked'
  BY <1>1 DEF Walked
<1>. QED BY <1>2, <1>3, <1>4 DEF ShellInv

LEMMA QuietSteps ==
  ASSUME ShellInv, Escape \/ Swallow \/ Ignore \/ DropLf \/ \E b \in {"[", "O"} : Introduce(b)
  PROVE  ShellInv'
PROOF
<1>0. esc \in Escapes /\ skipLf \in BOOLEAN
  BY DEF ShellInv, Edited
<1>1. UNCHANGED <<line, ring, nav, draft, painted, row, typed>>
  BY Zenon DEF Escape, Swallow, Ignore, DropLf, Introduce, Plain
<1>2. esc' \in Escapes
  BY <1>0, Zenon DEF Escape, Swallow, Ignore, DropLf, Introduce, Plain, Escapes
<1>3. skipLf' \in BOOLEAN
  BY <1>0, Zenon DEF Escape, Swallow, Ignore, DropLf, Introduce, Plain
<1>. QED BY <1>1, <1>2, <1>3, QuietKeeps

LEMMA AbortStep ==
  ASSUME ShellInv, Abort
  PROVE  ShellInv'
PROOF
<1>1. line' \in Fitting /\ row' = line' /\ painted' = Len(line')
  BY EmptyType, ShellConstants DEF Abort, Fitting
<1>. QED BY <1>1, EditKeeps DEF Abort

LEMMA KillStep ==
  ASSUME ShellInv, Kill
  PROVE  ShellInv'
PROOF
<1>1. line' = <<>> /\ line' \in Fitting /\ <<>> \in Seq(Chars)
  BY EmptyType, ShellConstants DEF Kill, Fitting
<1>2. row \in Seq(Chars)
  BY LineType DEF ShellInv, Edited
<1>3. Redrawn(<<>>, row) = <<>>
  BY <1>1, <1>2, LineType, RedrawnIsLine DEF ShellInv
<1>4. row' = line' /\ painted' = Len(line')
  BY <1>1, <1>3 DEF Kill, RedrawLine
<1>. QED BY <1>1, <1>4, EditKeeps DEF Kill

LEMMA BackspaceStep ==
  ASSUME ShellInv, Backspace
  PROVE  ShellInv'
PROOF
<1>. PICK n \in Nat : n = Len(line)
  BY LineType DEF ShellInv
<1>0. Edited /\ line \in Seq(Chars) /\ n <= LineCap
  BY LineType DEF ShellInv
<1>1. line' \in Fitting /\ row' = line' /\ painted' = Len(line')
  <2>1. CASE line = <<>>
    <3>1. n = 0 /\ <<>> \in Fitting
      BY <2>1, EmptyType, ShellConstants DEF Fitting
    <3>2. SubSeq(line, 1, n - 1) = <<>>
      BY <3>1, SubSeqEmpty
    <3>3. line' = <<>> /\ row' = <<>> /\ painted' = 0
      BY <1>0, <2>1, <3>1, <3>2 DEF Backspace, Edited
    <3>. QED BY <3>1, <3>3, EmptyType
  <2>2. CASE line # <<>>
    <3>1. n > 0
      BY <1>0, <2>2, EmptyType
    <3>2. line' = SubSeq(line, 1, n - 1)
      BY DEF Backspace
    <3>3. row' = SubSeq(line, 1, n - 1)
      BY <1>0, <2>2, ErasedLast DEF Backspace, Edited
    <3>4. SubSeq(line, 1, n - 1) \in Seq(Chars) /\ Len(SubSeq(line, 1, n - 1)) = n - 1
      BY <1>0, <3>1
    <3>5. painted' = n - 1
      BY <1>0, <2>2, <3>1 DEF Backspace, Edited
    <3>6. n - 1 <= LineCap
      BY <1>0, ShellConstants
    <3>. QED BY <3>2, <3>3, <3>4, <3>5, <3>6 DEF Fitting
  <2>. QED BY <2>1, <2>2
<1>. QED BY <1>1, EditKeeps DEF Backspace

LEMMA TypeStep ==
  ASSUME ShellInv, NEW c \in Chars, Type(c)
  PROVE  ShellInv'
PROOF
<1>. PICK n \in Nat : n = Len(line)
  BY LineType DEF ShellInv
<1>0. Edited /\ line \in Seq(Chars) /\ n <= LineCap /\ row = line
  BY LineType DEF ShellInv, Edited
<1>1. line' \in Fitting /\ row' = line' /\ painted' = Len(line')
  <2>1. CASE n < LineCap
    <3>1. line' = line \o <<c>> /\ painted' = n + 1 /\ row' = line' \o SubSeq(row, n + 2, Len(row))
      BY <2>1 DEF Type
    <3>2. line' \in Seq(Chars) /\ Len(line') = n + 1
      BY <1>0, <3>1, SingleType, JoinedType
    <3>3. SubSeq(row, n + 2, Len(row)) = <<>>
      BY <1>0, SubSeqEmpty
    <3>4. row' = line'
      BY <3>1, <3>2, <3>3, ConcatEmptySeq
    <3>5. n + 1 <= LineCap
      BY <2>1, ShellConstants
    <3>. QED BY <3>1, <3>2, <3>4, <3>5 DEF Fitting
  <2>2. CASE ~(n < LineCap)
    BY <1>0, <2>2 DEF Type, Edited
  <2>. QED BY <2>1, <2>2
<1>. QED BY <1>1, EditKeeps DEF Type

LEMMA TabStep ==
  ASSUME ShellInv, Tab
  PROVE  ShellInv'
PROOF
<1>0. Edited /\ line \in Fitting /\ row = line /\ row \in Seq(Chars) /\ painted \in Nat /\ Len(row) <= painted
  BY LineType DEF ShellInv, Edited
<1>1. line' = Completed(line)
  BY DEF Tab
<1>2. line' \in Fitting
  <2>1. PICK added \in Seq(Chars) : line' = line \o added /\ Len(line) + Len(added) <= LineCap
    BY <1>0, <1>1, CompletedForm
  <2>2. line' \in Seq(Chars) /\ Len(line') = Len(line) + Len(added)
    BY <1>0, <2>1, JoinedType
  <2>. QED BY <2>1, <2>2 DEF Fitting
<1>. DEFINE matches == Matches(CompletionWords(line))
<1>3. row' = line' /\ painted' = Len(line')
  <2>1. CASE matches = {}
    <3>1. line' = line
      BY <1>1, <2>1 DEF Completed
    <3>2. UNCHANGED <<painted, row>>
      BY <2>1 DEF Tab
    <3>. QED BY <1>0, <3>1, <3>2 DEF Edited
  <2>2. CASE matches # {}
    <3>. HIDE DEF matches
    <3>1. RedrawLine(line', row) \/ RedrawLine(line', <<>>)
      BY <2>2 DEF Tab, matches
    <3>2. line' \in Seq(Chars) /\ <<>> \in Seq(Chars) /\ Len(<<>>) <= painted
      BY <1>0, <1>2, EmptyType DEF Fitting
    <3>3. Redrawn(line', row) = line' /\ Redrawn(line', <<>>) = line'
      BY <1>0, <3>2, RedrawnIsLine
    <3>. QED BY <3>1, <3>3 DEF RedrawLine
  <2>. QED BY <2>1, <2>2
<1>. QED BY <1>2, <1>3, EditKeeps DEF Tab
\* load_hist shows the line that was submitted so long ago.
LEMMA LoadedLine ==
  ASSUME ShellInv, NEW n \in 0 .. count - 1, Load(n)
  PROVE  line' = submitted[n + 1] /\ line' \in Fitting /\ row' = line' /\ painted' = Len(line')
PROOF
<1>. DEFINE l == hist[HistIndex(n)]
<1>1. HistIndex(n) = SlotOf(head, n)
  BY DEF HistIndex, SlotOf
<1>2. n \in 0 .. HistCap - 1 /\ n + 1 \in 1 .. count /\ n + 1 - 1 = n
  BY ShellConstants DEF ShellInv, Kept
<1>3. SlotOf(head, n) \in RingSlots
  BY <1>2, SlotMoves DEF ShellInv, Kept
<1>4. l \in Fitting
  BY <1>1, <1>3 DEF ShellInv, Kept
<1>5. submitted[n + 1] = l
  <2>1. submitted[n + 1] = hist[SlotOf(head, n + 1 - 1)]
    BY <1>2 DEF ShellInv, Kept
  <2>. QED BY <1>1, <1>2, <2>1
<1>6. line' = l /\ RedrawLine(l, row)
  BY DEF Load
<1>. HIDE DEF l
<1>7. Redrawn(l, row) = l
  BY <1>4, LineType, RedrawnIsLine DEF ShellInv, Edited, Fitting
<1>. QED BY <1>4, <1>5, <1>6, <1>7 DEF RedrawLine

\* A step of the walk, or out of it.
LEMMA WalkKeeps ==
  ASSUME ShellInv, UNCHANGED <<ring, skipLf>>, esc' = "None",
         line' \in Fitting, draft' \in Fitting, row' = line', painted' = Len(line'),
         nav' \in {NoNav} \cup 0 .. count - 1,
         nav' # NoNav => line' = submitted[nav' + 1] /\ draft' = typed'
  PROVE  ShellInv'
PROOF
<1>1. Edited'
  BY DEF ShellInv, Edited, Escapes
<1>2. Kept' /\ count' = count /\ submitted' = submitted
  BY DEF ShellInv, Kept, ring
<1>3. Walked'
  BY <1>2 DEF Walked
<1>. QED BY <1>1, <1>2, <1>3 DEF ShellInv

LEMMA StillKeeps ==
  ASSUME ShellInv, UNCHANGED <<ring, skipLf, line, nav, draft, typed, painted, row>>, esc' = "None"
  PROVE  ShellInv'
PROOF
<1>1. esc' \in Escapes /\ skipLf' \in BOOLEAN
  BY DEF ShellInv, Edited, Escapes
<1>. QED BY <1>1, QuietKeeps

LEMMA UpStep ==
  ASSUME ShellInv, HistoryUp
  PROVE  ShellInv'
PROOF
<1>0. count \in Nat /\ (nav # NoNav => nav \in 0 .. count - 1) /\ line \in Fitting /\ draft \in Fitting
  BY DEF ShellInv, Kept, Walked, Edited
<1>1. CASE count > 0 /\ nav = NoNav
  <2>1. draft' = line /\ typed' = line /\ nav' = 0 /\ Load(0) /\ esc' = "None" /\ UNCHANGED <<ring, skipLf>>
    BY <1>1 DEF HistoryUp
  <2>2. 0 \in 0 .. count - 1
    BY <1>0, <1>1
  <2>. QED BY <1>0, <2>1, <2>2, LoadedLine, WalkKeeps
<1>2. CASE count > 0 /\ nav # NoNav /\ nav + 1 < count
  <2>1. nav' = nav + 1 /\ Load(nav + 1) /\ UNCHANGED <<draft, typed>> /\ esc' = "None"
        /\ UNCHANGED <<ring, skipLf>>
    BY <1>2 DEF HistoryUp
  <2>2. nav + 1 \in 0 .. count - 1
    BY <1>0, <1>2
  <2>3. draft' = typed'
    BY <1>2, <2>1 DEF ShellInv, Walked
  <2>. QED BY <1>0, <2>1, <2>2, <2>3, LoadedLine, WalkKeeps
<1>3. CASE ~(count > 0 /\ nav = NoNav) /\ ~(count > 0 /\ nav # NoNav /\ nav + 1 < count)
  <2>1. UNCHANGED <<ring, skipLf, line, nav, draft, typed, painted, row>> /\ esc' = "None"
    BY <1>3 DEF HistoryUp
  <2>. QED BY <2>1, StillKeeps
<1>. QED BY <1>1, <1>2, <1>3

LEMMA DownStep ==
  ASSUME ShellInv, HistoryDown
  PROVE  ShellInv'
PROOF
<1>0. /\ count \in Nat /\ nav \in {NoNav} \cup 0 .. count - 1 /\ (nav # NoNav => nav \in 0 .. count - 1)
      /\ line \in Fitting /\ draft \in Fitting
  BY DEF ShellInv, Kept, Walked, Edited
<1>1. CASE nav = NoNav
  <2>1. UNCHANGED <<ring, skipLf, line, nav, draft, typed, painted, row>> /\ esc' = "None"
    BY <1>1 DEF HistoryDown, NoNav
  <2>. QED BY <2>1, StillKeeps
<1>2. CASE nav = 0
  <2>1. line' = draft /\ RedrawLine(draft, row) /\ EndWalk /\ esc' = "None" /\ UNCHANGED <<ring, skipLf>>
    BY <1>2 DEF HistoryDown, NoNav
  <2>2. Redrawn(draft, row) = draft
    BY <1>0, LineType, RedrawnIsLine DEF ShellInv, Edited, Fitting
  <2>3. draft' \in Fitting /\ nav' = NoNav
    BY <2>1, EmptyType, ShellConstants DEF EndWalk, Fitting
  <2>4. row' = line' /\ painted' = Len(line')
    BY <2>1, <2>2 DEF RedrawLine
  <2>. QED BY <1>0, <2>1, <2>3, <2>4, WalkKeeps
<1>3. CASE nav # NoNav /\ nav > 0
  <2>1. nav' = nav - 1 /\ Load(nav - 1) /\ UNCHANGED <<draft, typed>> /\ esc' = "None"
        /\ UNCHANGED <<ring, skipLf>>
    BY <1>0, <1>3 DEF HistoryDown, NoNav
  <2>2. nav - 1 \in 0 .. count - 1
    BY <1>0, <1>3
  <2>3. draft' = typed'
    BY <1>3, <2>1 DEF ShellInv, Walked
  <2>. QED BY <1>0, <2>1, <2>2, <2>3, LoadedLine, WalkKeeps
<1>. QED BY <1>0, <1>1, <1>2, <1>3
LEMMA LesserOfTwo ==
  ASSUME NEW a \in Nat, NEW b \in Nat
  PROVE  Min({a, b}) = IF a <= b THEN a ELSE b
PROOF
<1>. DEFINE S == {a, b}
<1>. PICK n \in Nat : n = a + b
  OBVIOUS
<1>1. S \in SUBSET (0 .. n) /\ S # {}
  OBVIOUS
<1>. HIDE DEF S
<1>2. Min(S) \in S /\ \A j \in S : Min(S) <= j
  BY <1>1, ExtremesOf
<1>3. Min({a, b}) \in {a, b} /\ \A j \in {a, b} : Min({a, b}) <= j
  BY <1>2 DEF S
<1>. QED BY <1>3

\* push_history: the ring takes the line as what was submitted takes it.
LEMMA PushKeeps ==
  ASSUME Kept, NEW l \in Fitting, PushHistory(l),
         submitted' = IF l = <<>> \/ (submitted # <<>> /\ submitted[1] = l) THEN submitted
                      ELSE SubSeq(<<l>> \o submitted, 1, Min({Len(submitted) + 1, HistCap}))
  PROVE  Kept'
PROOF
<1>. PICK c \in Nat, h \in RingSlots : c = count /\ h = head /\ c <= HistCap
  BY ShellConstants DEF Kept
<1>0. /\ submitted \in Seq(Fitting) /\ Len(submitted) = c /\ hist \in [RingSlots -> Fitting]
      /\ \A j \in 1 .. c : submitted[j] = hist[SlotOf(h, j - 1)]
      /\ HistCap \in Nat /\ HistCap > 0
  BY ShellConstants DEF Kept
<1>1. SameAsLast(l) <=> submitted # <<>> /\ submitted[1] = l
  <2>1. submitted # <<>> <=> c > 0
    BY <1>0, EmptyType
  <2>2. c > 0 => submitted[1] = hist[SlotOf(h, 0)]
    BY <1>0
  <2>3. SlotOf(h, 0) = (head + HistCap - 1) % HistCap
    <3>1. h \in Nat /\ h + HistCap - 1 - 0 = h + HistCap - 1
      BY <1>0 DEF RingSlots
    <3>. QED BY <3>1 DEF SlotOf
  <2>. QED BY <2>1, <2>2, <2>3 DEF SameAsLast
<1>2. CASE l = <<>> \/ SameAsLast(l)
  <2>1. UNCHANGED <<hist, head, count, submitted>>
    BY <1>1, <1>2 DEF PushHistory
  <2>. QED BY <2>1 DEF Kept
<1>3. CASE ~(l = <<>> \/ SameAsLast(l))
  <2>. DEFINE longer == <<l>> \o submitted
  <2>. PICK k \in RingSlots : k = (h + 1) % HistCap
    BY SlotMoves
  <2>. PICK d \in Nat : d = IF c < HistCap THEN c + 1 ELSE c
    OBVIOUS
  <2>1. hist' = [hist EXCEPT ![h] = l] /\ head' = k /\ count' = d
    BY <1>3 DEF PushHistory
  <2>2. submitted' = SubSeq(longer, 1, d)
    <3>1. Min({c + 1, HistCap}) = d
      BY <1>0, LesserOfTwo
    <3>. QED BY <1>0, <1>1, <1>3, <3>1
  <2>3. longer \in Seq(Fitting) /\ Len(longer) = c + 1 /\ longer[1] = l
        /\ \A i \in 1 .. c : longer[1 + i] = submitted[i]
    <3>1. <<l>> \in Seq(Fitting) /\ Len(<<l>>) = 1 /\ <<l>>[1] = l
      BY SingleType
    <3>2. longer \in Seq(Fitting) /\ Len(longer) = c + 1
      BY <1>0, <3>1, JoinedType
    <3>3. longer[1] = l
      BY <1>0, <3>1, JoinedElement
    <3>4. \A i \in 1 .. c : longer[1 + i] = submitted[i]
      BY <1>0, <3>1, TailOfJoined
    <3>. QED BY <3>2, <3>3, <3>4
  <2>4. d >= 1 /\ d <= c + 1 /\ d <= HistCap
    BY <1>0
  <2>. HIDE DEF longer
  <2>5. submitted' \in Seq(Fitting) /\ Len(submitted') = d /\ \A j \in 1 .. d : submitted'[j] = longer[j]
    <3>1. 1 \in 1 .. Len(longer) + 1 /\ d \in 1 - 1 .. Len(longer) /\ d - 1 + 1 = d
      BY <2>3, <2>4
    <3>2. submitted' \in Seq(Fitting)
      BY <2>2, <2>3, <3>1, PartType
    <3>3. Len(submitted') = d
      <4>1. Len(SubSeq(longer, 1, d)) = d - 1 + 1
        BY <2>3, <3>1, PartLength
      <4>. QED BY <2>2, <3>1, <4>1
    <3>4. ASSUME NEW j \in 1 .. d PROVE submitted'[j] = longer[j]
      <4>1. SubSeq(longer, 1, d)[j] = longer[1 + j - 1]
        BY <2>3, <3>1, PartElement
      <4>2. 1 + j - 1 = j
        OBVIOUS
      <4>. QED BY <2>2, <4>1, <4>2
    <3>. QED BY <3>2, <3>3, <3>4
  <2>6. hist' \in [RingSlots -> Fitting] /\ hist'[h] = l
        /\ \A i \in RingSlots : i # h => hist'[i] = hist[i]
    BY <1>0, <2>1
  <2>7. ASSUME NEW j \in 1 .. d
        PROVE  submitted'[j] = hist'[SlotOf(k, j - 1)]
    <3>1. CASE j = 1
      <4>1. SlotOf(k, 0) = h
        BY SlotMoves
      <4>. QED BY <2>3, <2>5, <2>6, <3>1, <4>1
    <3>2. CASE j # 1
      <4>. PICK i \in 1 .. c : j = 1 + i
        BY <2>4, <3>2
      <4>1. submitted'[j] = submitted[i]
        BY <2>3, <2>5
      <4>2. submitted[i] = hist[SlotOf(h, i - 1)]
        BY <1>0
      <4>3. i - 1 \in 0 .. HistCap - 2 /\ i - 1 \in 0 .. HistCap - 1 /\ i - 1 + 1 = j - 1
        BY <1>0, <2>4
      <4>4. SlotOf(k, i - 1 + 1) = SlotOf(h, i - 1) /\ SlotOf(h, i - 1) # h
        BY <4>3, SlotMoves
      <4>5. SlotOf(h, i - 1) \in RingSlots
        BY <4>3, SlotMoves
      <4>. QED BY <2>6, <4>1, <4>2, <4>3, <4>4, <4>5
    <3>. QED BY <3>1, <3>2
  <2>8. d \in 0 .. HistCap
    BY <1>0, <2>4
  <2>. QED BY <2>1, <2>5, <2>6, <2>7, <2>8 DEF Kept
<1>. QED BY <1>2, <1>3

LEMMA SubmitStep ==
  ASSUME ShellInv, NEW lf \in BOOLEAN, Submit(lf)
  PROVE  ShellInv'
PROOF
<1>1. Trim(line) \in Fitting
  BY TrimmedType DEF ShellInv, Edited
<1>2. Kept'
  BY <1>1, PushKeeps DEF ShellInv, Submit
<1>3. Edited'
  <2>1. <<>> \in Fitting /\ Len(<<>>) = 0
    BY EmptyType, ShellConstants DEF Fitting
  <2>. QED BY <2>1 DEF Submit, EndWalk, Plain, Edited, Escapes
<1>4. Walked'
  BY DEF Submit, EndWalk, Walked
<1>. QED BY <1>2, <1>3, <1>4 DEF ShellInv

LEMMA StepKeeps ==
  ASSUME ShellInv, [ShellNext]_shellVars
  PROVE  ShellInv'
PROOF
<1>1. CASE Escape \/ Swallow \/ Ignore \/ DropLf \/ \E b \in {"[", "O"} : Introduce(b)
  BY <1>1, QuietSteps
<1>2. CASE HistoryUp \/ HistoryDown
  BY <1>2, UpStep, DownStep
<1>3. CASE Abort \/ Kill \/ Backspace \/ Tab
  BY <1>3, AbortStep, KillStep, BackspaceStep, TabStep
<1>4. CASE \E c \in Chars : Type(c)
  BY <1>4, TypeStep
<1>5. CASE Submit(FALSE) \/ (~skipLf /\ Submit(TRUE))
  BY <1>5, SubmitStep
<1>6. CASE UNCHANGED shellVars
  BY <1>6, QuietKeeps DEF shellVars, ShellInv, Edited
<1>. QED BY <1>1, <1>2, <1>3, <1>4, <1>5, <1>6, Zenon DEF ShellNext

\* The strengthened invariant, from which the others follow.
THEOREM ShellInvariant == ShellSpec => []ShellInv
PROOF
<1>1. ShellInit => ShellInv
  BY InitHolds
<1>2. ShellInv /\ [ShellNext]_shellVars => ShellInv'
  BY StepKeeps
<1>. QED BY <1>1, <1>2, PTL DEF ShellSpec

-------------------------------------------------------------------------------
\* No key and no sequence of keys writes behind the line buffer, the draft or a line of
\* the history, or leads the indices of the ring and of the walk out of their range.
THEOREM ShellTypes == ShellSpec => []ShellTypeOK
PROOF
<1>1. ShellInv => ShellTypeOK
  <2>. SUFFICES ASSUME ShellInv PROVE ShellTypeOK
    OBVIOUS
  <2>1. Len(line) <= LineCap /\ Len(draft) <= LineCap /\ painted \in 0 .. LineCap
    BY ShellConstants DEF ShellInv, Edited, Fitting
  <2>2. \A i \in RingSlots : Len(hist[i]) <= LineCap
    <3>1. \A i \in RingSlots : hist[i] \in Fitting
      BY DEF ShellInv, Kept
    <3>. QED BY <3>1 DEF Fitting
  <2>. QED BY <2>1, <2>2 DEF ShellTypeOK, ShellInv, Edited, Kept, Walked
<1>. QED BY <1>1, ShellInvariant, PTL

\* After every key the terminal shows the line that Enter would run and nothing else,
\* for every length of line and ring, every set of words and every sequence of keys.
THEOREM ScreenIsTrue == ShellSpec => []ScreenShowsLine
PROOF
<1>1. ShellInv => ScreenShowsLine
  BY DEF ShellInv, Edited, ScreenShowsLine
<1>. QED BY <1>1, ShellInvariant, PTL

\* Each step up through the history shows the next older line that was submitted, over
\* wraps of the ring, and the way down ends at what was being typed.
THEOREM RecallIsTrue == ShellSpec => []RecallIsSubmitted
PROOF
<1>1. ShellInv => RecallIsSubmitted
  BY DEF ShellInv, Kept, Walked, RecallIsSubmitted
<1>. QED BY <1>1, ShellInvariant, PTL

\* complete() keeps what was typed and adds only what every word that could have been
\* meant has in common, and a space behind the only one.
THEOREM CompletionIsCommon == ShellSpec => TabAddsCommon
PROOF
<1>. DEFINE Added == line' # line /\ Tab =>
              /\ IsPrefix(line, line')
              /\ LET added == SubSeq(line', Len(line) + 1, Len(line'))
                 IN  \A w \in Meant(line) :
                       IsPrefix(CompletionWords(line).prefix \o added, w \o <<Space>>)
<1>1. ShellInv /\ [ShellNext]_shellVars => [Added]_shellVars
  <2>. SUFFICES ASSUME ShellInv, line' # line, Tab PROVE Added
    OBVIOUS
  <2>1. line \in Fitting /\ line \in Seq(Chars) /\ line' = Completed(line)
    BY DEF ShellInv, Edited, Tab, Fitting
  <2>2. PICK added \in Seq(Chars) :
          /\ line' = line \o added
          /\ added # <<>> =>
               \A w \in Meant(line) : IsPrefix(CompletionWords(line).prefix \o added, w \o <<Space>>)
    BY <2>1, CompletedForm
  <2>3. added # <<>>
    BY <2>1, <2>2, ConcatEmptySeq
  <2>4. IsPrefix(line, line') /\ SubSeq(line', Len(line) + 1, Len(line')) = added
    BY <2>1, <2>2, PrefixJoined
  <2>. QED BY <2>2, <2>3, <2>4
<1>. QED BY <1>1, ShellInvariant, PTL DEF ShellSpec, TabAddsCommon
===============================================================================
