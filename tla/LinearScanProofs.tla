------------------------- MODULE LinearScanProofs -------------------------
(***************************************************************************)
(* The allocator never puts two values that are live at the same time into *)
(* one register, whatever the intervals and however many registers.        *)
(*                                                                         *)
(* The invariant that carries the proof: the registers of the active       *)
(* intervals are taken, and by one interval each; and an interval that is  *)
(* no longer active ended before the start of every interval to come.      *)
(***************************************************************************)
EXTENDS LinearScan, TLAPS

ActiveHold ==
    /\ active \subseteq 1..(turn - 1)
    /\ \A k \in active : alloc[k] \in Regs /\ alloc[k] \notin free
    /\ \A j, k \in active : j # k => alloc[j] # alloc[k]

PastEnded ==
    \A j \in 1..(turn - 1) : j \notin active =>
        \A k \in turn..Len(intervals) : intervals[j].end < intervals[k].start

ScanInv == ScanTypeOK /\ Sorted(intervals) /\ ActiveHold /\ PastEnded /\ NoClash

LEMMA InitScanInv == ScanInit => ScanInv
<1> SUFFICES ASSUME ScanInit PROVE ScanInv
  OBVIOUS
<1>1. ScanTypeOK /\ Sorted(intervals)
  <2>1. intervals \in Seq(Interval) /\ Len(intervals) \in Nat /\ turn = 1
    BY DEF ScanInit
  <2>2. turn \in 1..(Len(intervals) + 1)
    BY <2>1
  <2>3. alloc \in [DOMAIN intervals -> Regs \cup {Unassigned}]
    BY DEF ScanInit
  <2> QED
    BY <2>1, <2>2, <2>3 DEF ScanInit, ScanTypeOK
<1>2. ActiveHold /\ PastEnded /\ NoClash
  BY DEF ScanInit, ActiveHold, PastEnded, NoClash
<1> QED
  BY <1>1, <1>2 DEF ScanInv

\* What Assign reads of the state before it.
LEMMA AssignScanInv ==
    ASSUME ScanInv, Assign
    PROVE  ScanInv'
<1>1. PICK r \in FreeNow :
        /\ alloc' = [alloc EXCEPT ![turn] = r]
        /\ free' = FreeNow \ {r}
  BY DEF Assign
<1>2. /\ turn \in 1..Len(intervals) /\ turn' = turn + 1 /\ turn \in Nat
      /\ active' = (active \ Expired) \cup {turn}
      /\ UNCHANGED <<intervals, spilled>>
      /\ intervals \in Seq(Interval)
      /\ \A k \in 1..Len(intervals) : intervals[k].start \in Nat /\ intervals[k].end \in Nat
  <2>1. intervals \in Seq(Interval)
    BY DEF ScanInv, ScanTypeOK
  <2>2. \A k \in 1..Len(intervals) : intervals[k] \in Interval
    BY <2>1
  <2>3. turn \in 1..Len(intervals) /\ turn \in Nat
    BY <2>1 DEF Assign, Scanning
  <2> QED
    BY <2>1, <2>2, <2>3 DEF Assign, Interval
<1>3. FreeNow \subseteq Regs /\ r \in Regs
  BY <1>1 DEF FreeNow, Expired, ScanInv, ScanTypeOK, ActiveHold
<1>4. \A k \in DOMAIN alloc : alloc'[k] = IF k = turn THEN r ELSE alloc[k]
  BY <1>1
<1>5. DOMAIN alloc = 1..Len(intervals) /\ Len(intervals) \in Nat
  BY <1>2 DEF ScanInv, ScanTypeOK
<1>6. alloc'[turn] = r /\ \A k \in 1..(turn - 1) : alloc'[k] = alloc[k]
  BY <1>2, <1>4, <1>5, SMTT(30)
<1>7. ScanTypeOK'
  <2>1. alloc' \in [DOMAIN intervals' -> Regs \cup {Unassigned}]
    BY <1>1, <1>2, <1>3 DEF ScanInv, ScanTypeOK
  <2>2. turn' \in 1..(Len(intervals') + 1) /\ free' \subseteq Regs
    BY <1>1, <1>2, <1>3, <1>5
  <2>3. active' \subseteq DOMAIN intervals'
    BY <1>2 DEF ScanInv, ScanTypeOK
  <2> QED
    BY <1>2, <2>1, <2>2, <2>3 DEF ScanInv, ScanTypeOK
<1>8. Sorted(intervals)'
  BY <1>2 DEF ScanInv, Sorted
\* An active interval that has not expired keeps a register that is not free.
<1>9. \A k \in active \ Expired : alloc[k] \notin FreeNow
  BY DEF FreeNow, Expired, ScanInv, ActiveHold
<1>10. ActiveHold'
  <2>1. active' \subseteq 1..(turn' - 1)
    <3>1. active \subseteq 1..(turn - 1)
      BY DEF ScanInv, ActiveHold
    <3>2. 1..(turn - 1) \subseteq 1..turn /\ turn' - 1 = turn /\ turn \in 1..turn
      BY <1>2
    <3> QED
      BY <1>2, <3>1, <3>2
  <2>2. \A k \in active' : alloc'[k] \in Regs /\ alloc'[k] \notin free'
    BY <1>1, <1>2, <1>3, <1>6, <1>9 DEF ScanInv, ActiveHold
  <2>3. \A j, k \in active' : j # k => alloc'[j] # alloc'[k]
    BY <1>1, <1>2, <1>6, <1>9 DEF ScanInv, ActiveHold
  <2> QED
    BY <2>1, <2>2, <2>3 DEF ActiveHold
<1>11. PastEnded'
  <2> SUFFICES ASSUME NEW j \in 1..turn, j \notin active',
                      NEW k \in (turn + 1)..Len(intervals)
               PROVE  intervals[j].end < intervals[k].start
    BY <1>2 DEF PastEnded
  <2>1. j \in 1..(turn - 1) /\ (j \notin active \/ j \in Expired)
    BY <1>2
  <2>2. k \in turn..Len(intervals) /\ turn <= k
    BY <1>2, <1>5
  <2>3. CASE j \notin active
    BY <2>1, <2>2, <2>3 DEF ScanInv, PastEnded
  <2>4. CASE j \in Expired
    <3>1. intervals[j].end < intervals[turn].start
      BY <2>4 DEF Expired
    <3>2. intervals[turn].start <= intervals[k].start
      BY <1>2, <2>2 DEF ScanInv, Sorted
    <3> QED
      BY <1>2, <1>5, <2>1, <2>2, <3>1, <3>2, SMTT(30)
  <2> QED
    BY <2>1, <2>3, <2>4
<1>12. NoClash'
  \* The new interval overlaps only intervals that are still active.
  <2>1. \A j \in 1..(turn - 1) : Overlap(j, turn) => j \in active \ Expired
    <3> SUFFICES ASSUME NEW j \in 1..(turn - 1), Overlap(j, turn)
                 PROVE  j \in active \ Expired
      OBVIOUS
    <3>1. intervals[turn].start <= intervals[j].end
      BY DEF Overlap
    <3>2. ~(intervals[j].end < intervals[turn].start)
      BY <1>2, <1>5, <3>1
    <3>3. turn \in turn..Len(intervals)
      BY <1>2, <1>5
    <3> QED
      BY <3>2, <3>3 DEF Expired, ScanInv, PastEnded
  <2>2. \A j \in 1..(turn - 1) : Overlap(j, turn) => alloc[j] # r
    BY <1>1, <1>9, <2>1
  <2>3. \A j, k : Overlap(j, k)' <=> Overlap(j, k)
    BY <1>2 DEF Overlap
  <2>4. \A j : Overlap(turn, j) <=> Overlap(j, turn)
    BY DEF Overlap
  <2> SUFFICES ASSUME NEW j \in 1..turn, NEW k \in 1..turn, j # k, Overlap(j, k)
               PROVE  alloc'[j] # alloc'[k]
    BY <1>2, <2>3 DEF NoClash
  <2>a. \A m \in 1..turn : m # turn => m \in 1..(turn - 1)
    BY <1>2
  <2>5. CASE j = turn
    <3>1. k \in 1..(turn - 1) /\ Overlap(k, turn)
      BY <2>4, <2>5, <2>a
    <3>2. alloc[k] # r /\ alloc'[k] = alloc[k]
      BY <1>6, <2>2, <3>1
    <3> QED
      BY <1>6, <2>5, <3>2
  <2>6. CASE k = turn
    <3>1. j \in 1..(turn - 1) /\ Overlap(j, turn)
      BY <2>6, <2>a
    <3>2. alloc[j] # r /\ alloc'[j] = alloc[j]
      BY <1>6, <2>2, <3>1
    <3> QED
      BY <1>6, <2>6, <3>2
  <2>7. CASE j # turn /\ k # turn
    <3>1. j \in 1..(turn - 1) /\ k \in 1..(turn - 1)
      BY <2>7, <2>a
    <3>2. alloc'[j] = alloc[j] /\ alloc'[k] = alloc[k]
      BY <1>6, <3>1
    <3>3. alloc[j] # alloc[k]
      BY <3>1 DEF ScanInv, NoClash
    <3> QED
      BY <3>2, <3>3
  <2> QED
    BY <2>5, <2>6, <2>7
<1> QED
  BY <1>7, <1>8, <1>10, <1>11, <1>12 DEF ScanInv

LEMMA StepScanInv == ScanInv /\ [ScanNext]_scanVars => ScanInv'
<1> SUFFICES ASSUME ScanInv, [ScanNext]_scanVars PROVE ScanInv'
  OBVIOUS
<1>1. CASE Assign
  BY <1>1, AssignScanInv
<1>2. CASE Spill
  BY <1>2 DEF Spill, ScanInv, ScanTypeOK, Sorted, ActiveHold, PastEnded, NoClash, Overlap
<1>3. CASE UNCHANGED scanVars
  BY <1>3 DEF scanVars, ScanInv, ScanTypeOK, Sorted, ActiveHold, PastEnded, NoClash, Overlap
<1> QED
  BY <1>1, <1>2, <1>3 DEF ScanNext

(***************************************************************************)
(* Values that are live at the same time are in different registers, for   *)
(* every sorted list of intervals and every number of registers.           *)
(***************************************************************************)
THEOREM ScanNoClash == ScanSpec => []NoClash
<1>1. ScanInv => NoClash
  BY DEF ScanInv
<1> QED
  BY <1>1, InitScanInv, StepScanInv, PTL DEF ScanSpec

(***************************************************************************)
(* The allocator keeps its types; in particular every register it hands    *)
(* out exists.                                                             *)
(***************************************************************************)
THEOREM ScanType == ScanSpec => []ScanTypeOK
<1>1. ScanInv => ScanTypeOK
  BY DEF ScanInv
<1> QED
  BY <1>1, InitScanInv, StepScanInv, PTL DEF ScanSpec

=============================================================================
