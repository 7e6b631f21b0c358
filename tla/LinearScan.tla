---------------------------- MODULE LinearScan ----------------------------
(***************************************************************************)
(* The register allocator of the custom JIT (linear_scan_alloc, jit/ir.rs) *)
(* as a state machine: one step for each live interval, in order of start. *)
(* An interval is closed: the value is defined at start and read for the   *)
(* last time at end.                                                       *)
(***************************************************************************)
EXTENDS Integers, Sequences, FiniteSets

CONSTANTS
    NumRegs,    \* NUM_PHYS_REGS
    Unassigned

Regs == 0..(NumRegs - 1)

ASSUME LinearScanAssumption ==
    /\ NumRegs \in Nat
    /\ Unassigned \notin Regs

VARIABLES
    intervals,    \* the intervals, sorted by start
    turn,         \* the one whose turn it is
    free,         \* the registers nobody holds
    active,       \* the intervals that hold one
    alloc,        \* interval -> register
    spilled       \* no register was left, and the graph goes to Cranelift

scanVars == <<intervals, turn, free, active, alloc, spilled>>

Interval == [start : Nat, end : Nat]

Sorted(ivs) ==
    \A j, k \in DOMAIN ivs : j <= k => ivs[j].start <= ivs[k].start

\* The allocation of ivs begins.
StartScan(ivs) ==
    /\ intervals' = ivs
    /\ turn' = 1
    /\ free' = Regs
    /\ active' = {}
    /\ alloc' = [k \in DOMAIN ivs |-> Unassigned]
    /\ spilled' = FALSE

ScanInit ==
    /\ intervals \in Seq(Interval) /\ Sorted(intervals)
    /\ turn = 1
    /\ free = Regs
    /\ active = {}
    /\ alloc = [k \in DOMAIN intervals |-> Unassigned]
    /\ spilled = FALSE

Scanning == turn \in DOMAIN intervals /\ ~spilled

\* Slip: a register is free again for the instruction that reads its value
\* for the last time.
ExpiredAtEnd == {k \in active : intervals[k].end <= intervals[turn].start}

\* Intervals that ended before this one starts give their register back.
Expired == {k \in active : intervals[k].end < intervals[turn].start}
FreeNow == free \cup {alloc[k] : k \in Expired}

\* The lowest register that is free goes to the interval.
Assign ==
    /\ Scanning
    /\ \E r \in FreeNow :
          /\ \A q \in FreeNow : r <= q
          /\ alloc' = [alloc EXCEPT ![turn] = r]
          /\ free' = FreeNow \ {r}
    /\ active' = (active \ Expired) \cup {turn}
    /\ turn' = turn + 1
    /\ UNCHANGED <<intervals, spilled>>

Spill ==
    /\ Scanning
    /\ FreeNow = {}
    /\ spilled' = TRUE
    /\ UNCHANGED <<intervals, turn, free, active, alloc>>

ScanNext == Assign \/ Spill

ScanSpec == ScanInit /\ [][ScanNext]_scanVars

ScanTypeOK ==
    /\ intervals \in Seq(Interval)
    /\ turn \in 1..(Len(intervals) + 1)
    /\ free \subseteq Regs
    /\ active \subseteq DOMAIN intervals
    /\ alloc \in [DOMAIN intervals -> Regs \cup {Unassigned}]
    /\ spilled \in BOOLEAN

\* Two intervals that are live at the same instruction: the one that reads
\* a value for the last time included, because the code emitted for it
\* writes its result before it has read its second operand.
Overlap(j, k) ==
    /\ intervals[j].start <= intervals[k].end
    /\ intervals[k].start <= intervals[j].end

(***************************************************************************)
(* Values that are live at the same time are in different registers.  The  *)
(* allocator only remembers the intervals that have not expired, and hands *)
(* out a register as soon as one has.                                      *)
(***************************************************************************)
NoClash ==
    \A j, k \in 1..(turn - 1) :
        j # k /\ Overlap(j, k) => alloc[j] # alloc[k]

=============================================================================
