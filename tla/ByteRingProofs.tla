--------------------------- MODULE ByteRingProofs ---------------------------
(***************************************************************************)
(* Proofs about the ring buffer, for every capacity, every counter width   *)
(* that is a multiple of it, every chunk and every set of messages.        *)
(***************************************************************************)
EXTENDS ByteRing, SequenceTheorems, TLAPS

LEMMA CapIsPositive == Cap \in Nat /\ Cap > 0
BY RingAssumption DEF RingAssumption

\* A ring holds less than the counters can count.
LEMMA WrapIsMultiple ==
    /\ Wrap \in Nat /\ Wrap > Cap
    /\ \E k \in Nat : Wrap = k * Cap
<1>1. PICK k \in 2..Wrap : Wrap = k * Cap
  BY RingAssumption DEF RingAssumption
<1>2. k \in Nat /\ k >= 2 /\ Wrap \in Nat
  BY RingAssumption DEF RingAssumption
<1>3. k * Cap >= 2 * Cap
  BY <1>2, CapIsPositive, SMT
<1> QED
  BY <1>1, <1>2, <1>3, CapIsPositive

\* A remainder is determined by its bounds and the quotient.
LEMMA Remainder ==
    ASSUME NEW a \in Int, NEW q \in Int, NEW r \in 0..(Cap - 1), a = q * Cap + r
    PROVE  a % Cap = r
BY CapIsPositive, SMTT(30)

LEMMA Division ==
    ASSUME NEW a \in Nat
    PROVE  a % Cap \in 0..(Cap - 1) /\ \E q \in Int : a = q * Cap + (a % Cap)
BY CapIsPositive, SMTT(30)

\* Moving a position on by n moves its cell on by n.
LEMMA StartMoves ==
    ASSUME NEW a \in Nat, NEW n \in 0..Cap
    PROVE  (a + n) % Cap = Cell(Start(a), n)
<1>1. PICK q \in Int : a = q * Cap + (a % Cap)
  BY Division
<1>2. a % Cap \in 0..(Cap - 1)
  BY Division
<1>3. CASE (a % Cap) + n < Cap
  <2>1. a + n = q * Cap + ((a % Cap) + n) /\ (a % Cap) + n \in 0..(Cap - 1)
    BY <1>1, <1>2, <1>3, CapIsPositive
  <2> QED
    BY <2>1, <1>3, <1>2, CapIsPositive, Remainder, SMTT(30) DEF Cell, Start
<1>4. CASE (a % Cap) + n >= Cap
  <2> DEFINE b == a + n
             r == (a % Cap) + n - Cap
  <2>1. PICK p \in Int : p = q + 1
    OBVIOUS
  <2>2. p * Cap = q * Cap + Cap
    BY <2>1, CapIsPositive, SMT
  <2>3. b \in Int /\ r \in 0..(Cap - 1) /\ b = p * Cap + r
    BY <1>1, <1>2, <1>4, <2>2, CapIsPositive
  <2> HIDE DEF b, r
  <2>4. b % Cap = r
    BY <2>3, Remainder
  <2> QED
    BY <2>4, <1>4, <1>2, CapIsPositive DEF b, r, Cell, Start
<1> QED
  BY <1>2, <1>3, <1>4, CapIsPositive

\* Wrapping a counter does not change its cell.
LEMMA WrapKeepsCell ==
    ASSUME NEW a \in Nat, a >= Wrap
    PROVE  (a - Wrap) % Cap = a % Cap
<1>1. PICK q \in Int : a = q * Cap + (a % Cap)
  BY Division
<1>2. PICK k \in Nat : Wrap = k * Cap
  BY WrapIsMultiple
<1>3. (q - k) * Cap = q * Cap - k * Cap
  BY CapIsPositive, SMT
<1>4. a % Cap \in 0..(Cap - 1)
  BY Division
<1>5. a - Wrap = (q - k) * Cap + (a % Cap)
  BY <1>1, <1>2, <1>3, <1>4, CapIsPositive
<1> QED
  BY <1>4, <1>5, WrapIsMultiple, Remainder

LEMMA StartIsCell ==
    ASSUME NEW a \in Nat
    PROVE  Start(a) \in 0..(Cap - 1)
BY Division DEF Start

LEMMA StartWraps ==
    ASSUME NEW a \in 0..(Wrap - 1), NEW n \in 0..Cap
    PROVE  /\ WrappingAdd(a, n) \in 0..(Wrap - 1)
           /\ Start(WrappingAdd(a, n)) = Cell(Start(a), n)
<1>1. a \in Nat /\ a + n \in Nat /\ Wrap \in Nat /\ n < Wrap
  BY WrapIsMultiple, CapIsPositive
<1>2. WrappingAdd(a, n) \in 0..(Wrap - 1)
  BY <1>1 DEF WrappingAdd
<1>3. Start(a + n) = Cell(Start(a), n)
  BY <1>1, StartMoves DEF Start
<1>4. a + n >= Wrap => Start(a + n - Wrap) = Start(a + n)
  BY <1>1, WrapKeepsCell DEF Start
<1>5. CASE a + n < Wrap
  BY <1>5, <1>2, <1>3 DEF WrappingAdd
<1>6. CASE a + n >= Wrap
  <2>1. WrappingAdd(a, n) = a + n - Wrap
    BY <1>1, <1>6 DEF WrappingAdd
  <2> QED
    BY <2>1, <1>2, <1>3, <1>4, <1>6
<1> QED
  BY <1>1, <1>5, <1>6

\* Cells of a window no longer than the ring: moving twice, and no repeats.
LEMMA CellsCompose ==
    ASSUME NEW s \in 0..(Cap - 1), NEW n \in Nat, NEW m \in Nat, n + m <= Cap
    PROVE  Cell(Cell(s, n), m) = Cell(s, n + m)
BY CapIsPositive DEF Cell

LEMMA CellsAreCells ==
    ASSUME NEW s \in 0..(Cap - 1), NEW n \in 0..Cap
    PROVE  Cell(s, n) \in Cells
BY CapIsPositive DEF Cell, Cells

LEMMA CellsDiffer ==
    ASSUME NEW s \in 0..(Cap - 1), NEW n \in 0..(Cap - 1), NEW m \in 0..(Cap - 1),
           Cell(s, n) = Cell(s, m)
    PROVE  n = m
BY CapIsPositive DEF Cell

\* The distance between two counters, when either is moved.
LEMMA HeadMoves ==
    ASSUME NEW a \in 0..(Wrap - 1), NEW b \in 0..(Wrap - 1), NEW n \in Nat,
           WrappingSub(a, b) + n < Wrap
    PROVE  WrappingSub(WrappingAdd(a, n), b) = WrappingSub(a, b) + n
BY WrapIsMultiple DEF WrappingAdd, WrappingSub

LEMMA TailMoves ==
    ASSUME NEW a \in 0..(Wrap - 1), NEW b \in 0..(Wrap - 1), NEW n \in Nat,
           n <= WrappingSub(a, b)
    PROVE  WrappingSub(a, WrappingAdd(b, n)) = WrappingSub(a, b) - n
BY WrapIsMultiple DEF WrappingAdd, WrappingSub

LEMMA DistanceType ==
    ASSUME NEW a \in 0..(Wrap - 1), NEW b \in 0..(Wrap - 1)
    PROVE  WrappingSub(a, b) \in 0..(Wrap - 1)
BY WrapIsMultiple DEF WrappingSub

----------------------------------------------------------------------------
(***************************************************************************)
(* The invariant: a push in progress fits behind what is there, a drain in *)
(* progress is of bytes that are there, both even though each side works   *)
(* with an old value of the other's counter; the two counters' cells are   *)
(* as far apart as the counters; and each side has copied what it should.  *)
(***************************************************************************)
PushFits ==
    /\ Available <= Cap
    /\ ppc = "copy" => msg \in Messages /\ Available + Len(msg) <= Cap
    /\ cpc = "copy" => toRead > 0 /\ toRead <= Available

HeadFollowsTail == Start(head) = Cell(Start(tail), Available)

CopiedIn ==
    ppc = "copy" =>
        \A i \in 0..(copied - 1) : data[Cell(Start(head), i)] = msg[i + 1]

CopiedOut ==
    cpc = "copy" =>
        \A i \in 1..Len(out) : out[i] = data[Cell(Start(tail), i - 1)]

IInv == RingTypeOK /\ PushFits /\ HeadFollowsTail /\ CopiedIn /\ CopiedOut

\* The counters and both sides at the start (network.rs: RingBuffer::new).
THEOREM RingInitial == RingInit => IInv
<1> SUFFICES ASSUME RingInit PROVE IInv
  OBVIOUS
<1> USE CapIsPositive, WrapIsMultiple DEF RingInit
<1>1. RingTypeOK
  <2>1. data \in [Cells -> Byte]
    BY RingAssumption DEF RingAssumption
  <2>2. msg \in Seq(Byte) /\ out \in Seq(Byte) /\ taken \in Seq(Byte)
    OBVIOUS
  <2> QED
    BY <2>1, <2>2, RingAssumption DEF RingTypeOK, RingAssumption
<1>2. Available = 0
  BY DEF Available, WrappingSub
<1>3. PushFits
  BY <1>2 DEF PushFits
<1>4. Start(0) \in 0..(Cap - 1)
  BY StartIsCell
<1>5. HeadFollowsTail
  BY <1>2, <1>4 DEF HeadFollowsTail, Cell
<1> QED
  BY <1>1, <1>3, <1>5 DEF IInv, CopiedIn, CopiedOut

\* Types of what the lemmas above are about.
LEMMA Positions ==
    ASSUME RingTypeOK
    PROVE  /\ Available \in 0..(Wrap - 1)
           /\ Start(head) \in 0..(Cap - 1)
           /\ Start(tail) \in 0..(Cap - 1)
           /\ Len(msg) \in Nat /\ Len(out) \in Nat
<1>1. head \in Nat /\ tail \in Nat
  BY WrapIsMultiple DEF RingTypeOK
<1>2. Available \in 0..(Wrap - 1)
  BY DistanceType DEF RingTypeOK, Available
<1>3. Start(head) \in 0..(Cap - 1) /\ Start(tail) \in 0..(Cap - 1)
  BY <1>1, StartIsCell
<1>4. Len(msg) \in Nat /\ Len(out) \in Nat
  BY DEF RingTypeOK
<1> QED
  BY <1>2, <1>3, <1>4

\* The cells being written lie outside the published bytes.
LEMMA WindowsApart ==
    ASSUME IInv, ppc = "copy", NEW i \in 0..(Len(msg) - 1),
           NEW j \in 0..(Available - 1)
    PROVE  Cell(Start(head), i) # Cell(Start(tail), j)
<1>1. /\ Available \in Nat /\ Len(msg) \in Nat /\ Available + Len(msg) <= Cap
      /\ Start(tail) \in 0..(Cap - 1)
  BY Positions, WrapIsMultiple DEF IInv, PushFits
<1>2. Cell(Start(head), i) = Cell(Start(tail), Available + i)
  <2>1. Available + i <= Cap /\ i \in Nat
    BY <1>1, CapIsPositive
  <2> QED
    BY <1>1, <2>1, CellsCompose DEF IInv, HeadFollowsTail
<1>3. /\ Available + i \in 0..(Cap - 1) /\ j \in 0..(Cap - 1)
      /\ Available + i # j
  BY <1>1, CapIsPositive
<1> QED
  BY <1>1, <1>2, <1>3, CellsDiffer

(***************************************************************************)
(* The induction step, one step per action.                                *)
(***************************************************************************)
LEMMA StepPushRefused ==
    ASSUME IInv, NEW m \in Messages, PushRefused(m) PROVE IInv'
BY DEF IInv, PushRefused, RingTypeOK, PushFits, HeadFollowsTail, CopiedIn,
       CopiedOut, consumerVars, Available, WrappingSub, Start, Cell

LEMMA StepPushAdmitted ==
    ASSUME IInv, NEW m \in Messages, PushAdmitted(m) PROVE IInv'
<1> USE DEF PushAdmitted, consumerVars
<1>1. m \in Seq(Byte) /\ Len(m) \in Nat
  BY RingAssumption DEF RingAssumption
<1>2. RingTypeOK'
  BY <1>1 DEF IInv, RingTypeOK
<1>3. Available' = Available /\ Start(head)' = Start(head) /\ Start(tail)' = Start(tail)
  BY DEF Available, WrappingSub, Start
<1>4. PushFits'
  BY <1>3 DEF IInv, PushFits
<1>5. HeadFollowsTail'
  BY <1>3 DEF IInv, HeadFollowsTail, Cell
<1>6. CopiedIn'
  BY DEF CopiedIn
<1>7. CopiedOut'
  BY <1>3 DEF IInv, CopiedOut, Cell
<1> QED
  BY <1>2, <1>4, <1>5, <1>6, <1>7 DEF IInv

LEMMA StepCopyIn ==
    ASSUME IInv, CopyIn PROVE IInv'
<1> DEFINE c == Cell(Start(head), copied)
<1>1. /\ Available' = Available /\ Start(head)' = Start(head)
      /\ Start(tail)' = Start(tail) /\ msg' = msg /\ out' = out
      /\ toRead' = toRead /\ ppc' = ppc /\ cpc' = cpc
      /\ ppc = "copy" /\ copied' = copied + 1
      /\ data' = [data EXCEPT ![c] = msg[copied + 1]]
  BY DEF CopyIn, consumerVars, Available, WrappingSub, Start
<1>2. /\ copied \in 0..(Len(msg) - 1) /\ Len(msg) \in Nat /\ Len(msg) <= Cap
      /\ Start(head) \in 0..(Cap - 1) /\ Available \in Nat /\ Available <= Cap
      /\ msg \in Seq(Byte) /\ data \in [Cells -> Byte]
  BY <1>1, Positions, WrapIsMultiple, CapIsPositive, SMTT(30)
     DEF CopyIn, IInv, RingTypeOK, PushFits
<1>3. copied \in 0..(Cap - 1) /\ copied \in 0..Cap
  BY <1>2, CapIsPositive
<1>4. c \in Cells
  BY <1>2, <1>3, CellsAreCells
<1> HIDE DEF c
<1>5. RingTypeOK'
  <2>1. msg[copied + 1] \in Byte
    BY <1>2
  <2>2. data' \in [Cells -> Byte]
    BY <1>1, <1>2, <1>4, <2>1
  <2> QED
    BY <1>1, <1>2, <2>2 DEF IInv, RingTypeOK, CopyIn, consumerVars
<1>6. PushFits'
  BY <1>1 DEF IInv, PushFits
<1>7. HeadFollowsTail'
  BY <1>1 DEF IInv, HeadFollowsTail, Cell
<1>8. CopiedIn'
  <2> SUFFICES ASSUME NEW i \in 0..copied
               PROVE  data'[Cell(Start(head), i)] = msg[i + 1]
    BY <1>1, <1>2 DEF CopiedIn, Cell
  <2>1. i \in 0..(Cap - 1) /\ i \in 0..Cap
    BY <1>2, <1>3, CapIsPositive
  <2>2. Cell(Start(head), i) \in Cells
    BY <1>2, <2>1, CellsAreCells
  <2>3. CASE i = copied
    BY <2>3, <1>1, <1>2, <1>4 DEF c
  <2>4. CASE i # copied
    <3>1. Cell(Start(head), i) # c
      BY <2>1, <2>4, <1>2, <1>3, CellsDiffer DEF c
    <3>2. i \in 0..(copied - 1)
      BY <2>4, <1>2
    <3> QED
      BY <3>1, <3>2, <2>2, <1>1, <1>2 DEF IInv, CopiedIn
  <2> QED
    BY <2>3, <2>4
<1>9. CopiedOut'
  <2> SUFFICES ASSUME cpc = "copy", NEW i \in 1..Len(out)
               PROVE  out[i] = data'[Cell(Start(tail), i - 1)]
    BY <1>1 DEF CopiedOut, Cell
  <2>1. i - 1 \in 0..(Available - 1) /\ i - 1 \in 0..Cap
    BY <1>2, CapIsPositive DEF IInv, PushFits, RingTypeOK
  <2>2. Cell(Start(tail), i - 1) # c
    BY <1>1, <1>2, <2>1, WindowsApart DEF c
  <2>3. Cell(Start(tail), i - 1) \in Cells
    BY <2>1, Positions, CellsAreCells DEF IInv
  <2>4. data'[Cell(Start(tail), i - 1)] = data[Cell(Start(tail), i - 1)]
    BY <1>1, <1>2, <2>2, <2>3
  <2> QED
    BY <2>4 DEF IInv, CopiedOut
<1> QED
  BY <1>5, <1>6, <1>7, <1>8, <1>9 DEF IInv

LEMMA StepPublish ==
    ASSUME IInv, Publish PROVE IInv'
<1>1. /\ head' = WrappingAdd(head, Len(msg)) /\ tail' = tail /\ data' = data
      /\ ppc' = "idle" /\ msg' = <<>> /\ copied' = 0 /\ pushed' = TRUE
      /\ cpc' = cpc /\ toRead' = toRead /\ out' = out /\ taken' = taken
      /\ ppc = "copy"
  BY DEF Publish, consumerVars
<1>2. /\ Available \in Nat /\ Len(msg) \in Nat /\ Available + Len(msg) <= Cap
      /\ Available + Len(msg) < Wrap /\ Len(msg) \in 0..Cap
      /\ head \in 0..(Wrap - 1) /\ tail \in 0..(Wrap - 1)
      /\ Start(tail) \in 0..(Cap - 1)
  <2>1. RingTypeOK /\ Available + Len(msg) <= Cap
    BY <1>1 DEF IInv, PushFits
  <2>2. /\ Available \in Nat /\ Len(msg) \in Nat /\ Start(tail) \in 0..(Cap - 1)
    BY <2>1, Positions, WrapIsMultiple
  <2>3. head \in 0..(Wrap - 1) /\ tail \in 0..(Wrap - 1)
    BY <2>1 DEF RingTypeOK
  <2> QED
    BY <2>1, <2>2, <2>3, WrapIsMultiple, CapIsPositive
<1>3. /\ head' \in 0..(Wrap - 1)
      /\ Start(head') = Cell(Start(head), Len(msg))
  BY <1>1, <1>2, StartWraps
<1>4. Available' = Available + Len(msg)
  BY <1>1, <1>2, HeadMoves DEF Available
<1>5. RingTypeOK'
  BY <1>1, <1>3 DEF IInv, RingTypeOK
<1>6. PushFits'
  BY <1>1, <1>2, <1>4, CapIsPositive DEF IInv, PushFits, RingTypeOK
<1>7. HeadFollowsTail'
  <2>1. Cell(Cell(Start(tail), Available), Len(msg)) = Cell(Start(tail), Available + Len(msg))
    BY <1>2, CellsCompose
  <2>2. Start(head') = Cell(Start(tail'), Available')
    BY <1>1, <1>3, <1>4, <2>1 DEF IInv, HeadFollowsTail
  <2> QED
    BY <2>2 DEF HeadFollowsTail, Start, Cell
<1>8. CopiedIn'
  BY <1>1 DEF CopiedIn
<1>9. CopiedOut'
  BY <1>1 DEF IInv, CopiedOut, Start, Cell
<1> QED
  BY <1>5, <1>6, <1>7, <1>8, <1>9 DEF IInv

LEMMA StepDrainNothing ==
    ASSUME IInv, DrainNothing PROVE IInv'
BY DEF IInv, DrainNothing, RingTypeOK, PushFits, HeadFollowsTail, CopiedIn,
       CopiedOut, producerVars, Available, WrappingSub, Start, Cell

LEMMA StepDrainSome ==
    ASSUME IInv, DrainSome PROVE IInv'
<1>1. /\ data' = data /\ head' = head /\ tail' = tail /\ taken' = taken
      /\ ppc' = ppc /\ msg' = msg /\ copied' = copied /\ pushed' = pushed
      /\ cpc' = "copy" /\ out' = <<>> /\ Available > 0
      /\ toRead' = IF Available < Chunk THEN Available ELSE Chunk
  BY DEF DrainSome, producerVars
<1>2. /\ Available' = Available /\ Start(head)' = Start(head)
      /\ Start(tail)' = Start(tail)
  BY <1>1 DEF Available, WrappingSub, Start
<1>3. Available \in Nat /\ Chunk \in Nat
  BY Positions, WrapIsMultiple, RingAssumption DEF IInv, RingAssumption
<1>4. toRead' \in 0..Chunk /\ toRead' > 0 /\ toRead' <= Available
  BY <1>1, <1>3, RingAssumption DEF RingAssumption
<1>5. RingTypeOK'
  BY <1>1, <1>4 DEF IInv, RingTypeOK
<1>6. PushFits'
  BY <1>1, <1>2, <1>4 DEF IInv, PushFits
<1>7. HeadFollowsTail' /\ CopiedIn'
  BY <1>1, <1>2 DEF IInv, HeadFollowsTail, CopiedIn, Cell
<1>8. CopiedOut'
  BY <1>1 DEF CopiedOut
<1> QED
  BY <1>5, <1>6, <1>7, <1>8 DEF IInv

LEMMA StepCopyOut ==
    ASSUME IInv, CopyOut PROVE IInv'
<1>1. /\ data' = data /\ head' = head /\ tail' = tail /\ taken' = taken
      /\ ppc' = ppc /\ msg' = msg /\ copied' = copied /\ pushed' = pushed
      /\ cpc = "copy" /\ cpc' = cpc /\ toRead' = toRead /\ Len(out) < toRead
      /\ out' = Append(out, data[Cell(Start(tail), Len(out))])
  BY DEF CopyOut, producerVars
<1>2. /\ Available' = Available /\ Start(head)' = Start(head)
      /\ Start(tail)' = Start(tail)
  BY <1>1 DEF Available, WrappingSub, Start
<1>3. /\ toRead \in Nat /\ Len(out) \in Nat /\ Available \in Nat
      /\ Available <= Cap /\ toRead <= Available /\ out \in Seq(Byte)
      /\ Start(tail) \in 0..(Cap - 1) /\ data \in [Cells -> Byte]
  BY <1>1, Positions, WrapIsMultiple, RingAssumption
     DEF IInv, PushFits, RingTypeOK, RingAssumption
<1>4. Cell(Start(tail), Len(out)) \in Cells
  BY <1>1, <1>3, CapIsPositive, CellsAreCells
<1>5. /\ out' \in Seq(Byte) /\ Len(out') = Len(out) + 1
      /\ \A i \in 1..Len(out) : out'[i] = out[i]
      /\ out'[Len(out) + 1] = data[Cell(Start(tail), Len(out))]
  BY <1>1, <1>3, <1>4
<1>6. RingTypeOK'
  BY <1>1, <1>3, <1>5 DEF IInv, RingTypeOK
<1>7. PushFits' /\ HeadFollowsTail' /\ CopiedIn'
  BY <1>1, <1>2 DEF IInv, PushFits, HeadFollowsTail, CopiedIn, Cell
<1>8. CopiedOut'
  <2> SUFFICES ASSUME NEW i \in 1..Len(out')
               PROVE  out'[i] = data[Cell(Start(tail), i - 1)]
    BY <1>1, <1>2 DEF CopiedOut, Cell
  <2>1. CASE i \in 1..Len(out)
    BY <2>1, <1>1, <1>5 DEF IInv, CopiedOut
  <2>2. CASE i = Len(out) + 1
    BY <2>2, <1>3, <1>5
  <2> QED
    BY <2>1, <2>2, <1>3, <1>5
<1> QED
  BY <1>6, <1>7, <1>8 DEF IInv

LEMMA StepRelease ==
    ASSUME IInv, Release PROVE IInv'
<1>1. /\ data' = data /\ head' = head /\ tail' = WrappingAdd(tail, toRead)
      /\ ppc' = ppc /\ msg' = msg /\ copied' = copied /\ pushed' = pushed
      /\ cpc = "copy" /\ cpc' = "idle" /\ toRead' = 0 /\ out' = <<>>
      /\ taken' = out
  BY DEF Release, producerVars
<1>2. /\ toRead \in Nat /\ Available \in Nat /\ Len(msg) \in Nat
      /\ toRead <= Available /\ Available <= Cap /\ toRead \in 0..Cap
      /\ Start(tail) \in 0..(Cap - 1)
  <2>1. RingTypeOK /\ toRead <= Available /\ Available <= Cap
    BY <1>1 DEF IInv, PushFits
  <2>2. toRead \in Nat
    BY <2>1, RingAssumption DEF RingTypeOK, RingAssumption
  <2>3. Available \in Nat /\ Len(msg) \in Nat /\ Start(tail) \in 0..(Cap - 1)
    BY <2>1, Positions, WrapIsMultiple
  <2> QED
    BY <2>1, <2>2, <2>3, CapIsPositive
<1>3. head \in 0..(Wrap - 1) /\ tail \in 0..(Wrap - 1)
  BY DEF IInv, RingTypeOK
<1>4. /\ tail' \in 0..(Wrap - 1)
      /\ Start(tail') = Cell(Start(tail), toRead)
  BY <1>1, <1>2, <1>3, StartWraps
<1>5. Available' = Available - toRead
  BY <1>1, <1>2, <1>3, TailMoves DEF Available
<1>6. RingTypeOK'
  BY <1>1, <1>4, RingAssumption DEF IInv, RingTypeOK, RingAssumption
<1>7. PushFits'
  BY <1>1, <1>2, <1>5, CapIsPositive DEF IInv, PushFits
<1>8. HeadFollowsTail'
  <2>1. Cell(Cell(Start(tail), toRead), Available - toRead)
            = Cell(Start(tail), toRead + (Available - toRead))
    BY <1>2, CellsCompose
  <2>2. toRead + (Available - toRead) = Available
    BY <1>2
  <2>3. Start(head) = Cell(Start(tail'), Available')
    BY <1>4, <1>5, <2>1, <2>2 DEF IInv, HeadFollowsTail
  <2> QED
    BY <2>3, <1>1 DEF HeadFollowsTail, Start, Cell
<1>9. CopiedIn'
  BY <1>1 DEF IInv, CopiedIn, Start, Cell
<1>10. CopiedOut'
  BY <1>1 DEF CopiedOut
<1> QED
  BY <1>6, <1>7, <1>8, <1>9, <1>10 DEF IInv

\* Every step of push and of drain keeps the invariant.
THEOREM RingStep == IInv /\ [RingNext]_ringVars => IInv'
<1> SUFFICES ASSUME IInv, [RingNext]_ringVars PROVE IInv'
  OBVIOUS
<1>1. ASSUME NEW m \in Messages, PushRefused(m) PROVE IInv'
  BY <1>1, StepPushRefused
<1>2. ASSUME NEW m \in Messages, PushAdmitted(m) PROVE IInv'
  BY <1>2, StepPushAdmitted
<1>3. ASSUME CopyIn PROVE IInv'
  BY <1>3, StepCopyIn
<1>4. ASSUME Publish PROVE IInv'
  BY <1>4, StepPublish
<1>5. ASSUME DrainNothing PROVE IInv'
  BY <1>5, StepDrainNothing
<1>6. ASSUME DrainSome PROVE IInv'
  BY <1>6, StepDrainSome
<1>7. ASSUME CopyOut PROVE IInv'
  BY <1>7, StepCopyOut
<1>8. ASSUME Release PROVE IInv'
  BY <1>8, StepRelease
<1>9. ASSUME UNCHANGED ringVars PROVE IInv'
  BY <1>9 DEF IInv, RingTypeOK, PushFits, HeadFollowsTail, CopiedIn, CopiedOut,
     ringVars, producerVars, consumerVars, Available, WrappingSub, Start, Cell
<1> QED
  BY <1>1, <1>2, <1>3, <1>4, <1>5, <1>6, <1>7, <1>8, <1>9
     DEF RingNext, Producer, Consumer

LEMMA RingInvariant == RingSpec => []IInv
BY RingInitial, RingStep, PTL DEF RingSpec

(***************************************************************************)
(* Types.                                                                  *)
(***************************************************************************)
THEOREM RingTypeCorrect == RingSpec => []RingTypeOK
<1>1. IInv => RingTypeOK
  BY DEF IInv
<1> QED
  BY <1>1, RingInvariant, PTL

(***************************************************************************)
(* The unsynchronised copies of push and drain never touch one cell at the *)
(* same time.                                                              *)
(***************************************************************************)
THEOREM CopiesDoNotOverlap == RingSpec => []NoOverlap
<1>1. IInv => NoOverlap
  <2> SUFFICES ASSUME IInv, NEW c \in Writing, c \in Reading PROVE FALSE
    BY DEF NoOverlap
  <2>1. ppc = "copy" /\ cpc = "copy"
    BY DEF Writing, Reading
  <2>2. PICK i \in 0..(Len(msg) - 1) : c = Cell(Start(head), i)
    BY <2>1 DEF Writing
  <2>3. PICK j \in 0..(toRead - 1) : c = Cell(Start(tail), j)
    BY <2>1 DEF Reading
  <2>4. Available \in Nat /\ toRead \in Nat
    BY Positions, WrapIsMultiple, RingAssumption DEF IInv, RingTypeOK, RingAssumption
  <2>5. j \in 0..(Available - 1)
    BY <2>1, <2>4 DEF IInv, PushFits
  <2> QED
    BY <2>1, <2>2, <2>3, <2>5, WindowsApart
<1> QED
  BY <1>1, RingInvariant, PTL

----------------------------------------------------------------------------
(***************************************************************************)
(* Refinement: what lies between the counters is a FIFO.                   *)
(***************************************************************************)
LEMMA ContentsType ==
    ASSUME RingTypeOK, Available <= Cap
    PROVE  /\ Contents \in Seq(Byte)
           /\ Len(Contents) = Available /\ Available \in Nat
<1>1. /\ Available \in Nat /\ Start(tail) \in 0..(Cap - 1)
      /\ data \in [Cells -> Byte]
  BY Positions, WrapIsMultiple DEF RingTypeOK
<1>2. ASSUME NEW i \in 1..Available PROVE data[Cell(Start(tail), i - 1)] \in Byte
  <2>1. i - 1 \in 0..Cap
    BY <1>1, CapIsPositive
  <2> QED
    BY <1>1, <2>1, CellsAreCells
<1> QED
  BY <1>1, <1>2 DEF Contents

\* Copying a byte in changes none of the published ones.
LEMMA CopyInKeepsContents ==
    ASSUME IInv, CopyIn PROVE Contents' = Contents
<1> DEFINE c == Cell(Start(head), copied)
<1>1. /\ Available' = Available /\ Start(tail)' = Start(tail) /\ ppc = "copy"
      /\ data' = [data EXCEPT ![c] = msg[copied + 1]]
  BY DEF CopyIn, consumerVars, Available, WrappingSub, Start
<1>2. /\ copied \in 0..(Len(msg) - 1) /\ Available \in Nat /\ Available <= Cap
      /\ Start(tail) \in 0..(Cap - 1) /\ data \in [Cells -> Byte]
  BY Positions, WrapIsMultiple DEF CopyIn, IInv, RingTypeOK, PushFits
<1>3. ASSUME NEW i \in 1..Available
      PROVE  data'[Cell(Start(tail), i - 1)] = data[Cell(Start(tail), i - 1)]
  <2>1. i - 1 \in 0..(Available - 1) /\ i - 1 \in 0..Cap
    BY <1>2, CapIsPositive
  <2>2. Cell(Start(tail), i - 1) # c
    BY <1>1, <1>2, <2>1, WindowsApart
  <2>3. Cell(Start(tail), i - 1) \in Cells
    BY <1>2, <2>1, CellsAreCells
  <2> HIDE DEF c
  <2> QED
    BY <1>1, <1>2, <2>2, <2>3
<1> QED
  BY <1>1, <1>3 DEF Contents, Cell

\* Moving the head appends the message.
LEMMA PublishAppends ==
    ASSUME IInv, Publish
    PROVE  Contents' = Contents \o msg /\ Len(Contents) + Len(msg) <= Cap
<1>1. /\ ppc = "copy" /\ copied = Len(msg) /\ data' = data /\ tail' = tail
      /\ head' = WrappingAdd(head, Len(msg))
  BY DEF Publish, consumerVars
<1>2. RingTypeOK /\ Available <= Cap /\ Available + Len(msg) <= Cap
  BY <1>1 DEF IInv, PushFits
<1>3. /\ Available \in Nat /\ Len(msg) \in Nat /\ Start(tail) \in 0..(Cap - 1)
      /\ msg \in Seq(Byte) /\ head \in 0..(Wrap - 1) /\ tail \in 0..(Wrap - 1)
  BY <1>2, Positions, WrapIsMultiple DEF RingTypeOK
<1>4. Available' = Available + Len(msg)
  <2>1. Available + Len(msg) < Wrap
    BY <1>2, <1>3, WrapIsMultiple, CapIsPositive
  <2> QED
    BY <1>1, <1>3, <2>1, HeadMoves DEF Available
<1>5. Contents \in Seq(Byte) /\ Len(Contents) = Available
  BY <1>2, ContentsType
<1>6. Contents' = [i \in 1..(Available + Len(msg)) |-> data[Cell(Start(tail), i - 1)]]
  BY <1>1, <1>4 DEF Contents, Start, Cell
<1>7. ASSUME NEW i \in 1..Available
      PROVE  data[Cell(Start(tail), i - 1)] = Contents[i]
  BY DEF Contents
<1>8. ASSUME NEW i \in (Available + 1)..(Available + Len(msg))
      PROVE  data[Cell(Start(tail), i - 1)] = msg[i - Available]
  <2> DEFINE k == i - 1 - Available
  <2>1. /\ k \in 0..(copied - 1) /\ k \in Nat /\ Available + k = i - 1
        /\ Available + k <= Cap /\ k + 1 = i - Available
    BY <1>1, <1>2, <1>3, CapIsPositive
  <2>2. Cell(Start(head), k) = Cell(Start(tail), i - 1)
    <3> HIDE DEF k
    <3>1. Cell(Cell(Start(tail), Available), k) = Cell(Start(tail), Available + k)
      BY <2>1, <1>3, CellsCompose
    <3> QED
      BY <2>1, <3>1 DEF IInv, HeadFollowsTail
  <2>3. data[Cell(Start(head), k)] = msg[k + 1]
    BY <1>1, <2>1 DEF IInv, CopiedIn
  <2> QED
    BY <2>1, <2>2, <2>3
<1>9. Contents \o msg = [i \in 1..(Available + Len(msg)) |->
                           IF i <= Available THEN Contents[i] ELSE msg[i - Available]]
  <2>1. /\ Contents \o msg \in Seq(Byte)
        /\ Len(Contents \o msg) = Available + Len(msg)
        /\ \A i \in 1..(Available + Len(msg)) :
              (Contents \o msg)[i] =
                IF i <= Available THEN Contents[i] ELSE msg[i - Available]
    BY <1>3, <1>5, ConcatProperties
  <2>2. ASSUME NEW q \in Seq(Byte), Len(q) = Available + Len(msg)
        PROVE  q = [i \in 1..(Available + Len(msg)) |-> q[i]]
    BY <2>2
  <2> QED
    BY <2>1, <2>2
<1>10. ASSUME NEW i \in 1..(Available + Len(msg))
       PROVE  data[Cell(Start(tail), i - 1)] =
                IF i <= Available THEN Contents[i] ELSE msg[i - Available]
  <2>1. CASE i \in 1..Available
    BY <2>1, <1>7, <1>3
  <2>2. CASE i \in (Available + 1)..(Available + Len(msg))
    BY <2>2, <1>8, <1>3
  <2> QED
    BY <2>1, <2>2, <1>3
<1> QED
  BY <1>2, <1>5, <1>6, <1>9, <1>10

\* Moving the tail takes what was copied out off the front.
LEMMA ReleaseTakes ==
    ASSUME IInv, Release
    PROVE  /\ toRead <= Len(Contents)
           /\ taken' = SubSeq(Contents, 1, toRead)
           /\ Contents' = SubSeq(Contents, toRead + 1, Len(Contents))
<1>1. /\ cpc = "copy" /\ Len(out) = toRead /\ taken' = out /\ data' = data
      /\ head' = head /\ tail' = WrappingAdd(tail, toRead)
  BY DEF Release
<1>2. RingTypeOK /\ Available <= Cap /\ toRead <= Available
  BY <1>1 DEF IInv, PushFits
<1>3. /\ Available \in Nat /\ toRead \in Nat /\ Start(tail) \in 0..(Cap - 1)
      /\ out \in Seq(Byte) /\ head \in 0..(Wrap - 1) /\ tail \in 0..(Wrap - 1)
      /\ toRead \in 0..Cap
  <2>1. toRead \in Nat /\ out \in Seq(Byte)
    BY <1>2, RingAssumption DEF RingTypeOK, RingAssumption
  <2>2. head \in 0..(Wrap - 1) /\ tail \in 0..(Wrap - 1)
    BY <1>2 DEF RingTypeOK
  <2>3. Available \in Nat /\ Start(tail) \in 0..(Cap - 1)
    BY <1>2, Positions, WrapIsMultiple
  <2> QED
    BY <1>2, <2>1, <2>2, <2>3, CapIsPositive
<1>4. Available' = Available - toRead
  BY <1>1, <1>2, <1>3, TailMoves DEF Available
<1>5. Start(tail') = Cell(Start(tail), toRead)
  BY <1>1, <1>3, StartWraps
<1>6. Contents \in Seq(Byte) /\ Len(Contents) = Available
  BY <1>2, ContentsType
<1>7. taken' = SubSeq(Contents, 1, toRead)
  <2>1. \A i \in 1..toRead : out[i] = Contents[i]
    BY <1>1, <1>2, <1>3 DEF IInv, CopiedOut, Contents
  <2>2. SubSeq(Contents, 1, toRead) = [i \in 1..toRead |-> Contents[i]]
    BY <1>2, <1>3, <1>6
  <2>3. out = [i \in 1..toRead |-> out[i]]
    BY <1>1, <1>3
  <2> QED
    BY <1>1, <2>1, <2>2, <2>3
<1>8. Contents' = SubSeq(Contents, toRead + 1, Len(Contents))
  <2>1. Contents' = [i \in 1..(Available - toRead) |->
                       data[Cell(Cell(Start(tail), toRead), i - 1)]]
    BY <1>1, <1>4, <1>5 DEF Contents, Start, Cell
  <2>2. ASSUME NEW i \in 1..(Available - toRead)
        PROVE  data[Cell(Cell(Start(tail), toRead), i - 1)] = Contents[toRead + i]
    <3> DEFINE k == i - 1
    <3>1. /\ k \in Nat /\ toRead + k <= Cap /\ toRead + k = toRead + i - 1
          /\ toRead + i \in 1..Available
      BY <1>2, <1>3, CapIsPositive
    <3>2. Cell(Cell(Start(tail), toRead), k) = Cell(Start(tail), toRead + k)
      <4> HIDE DEF k
      <4> QED
        BY <3>1, <1>3, CellsCompose
    <3>3. Contents[toRead + i] = data[Cell(Start(tail), (toRead + i) - 1)]
      BY <3>1 DEF Contents
    <3> QED
      BY <3>1, <3>2, <3>3, <1>3
  <2>3. SubSeq(Contents, toRead + 1, Len(Contents)) =
            [i \in 1..(Available - toRead) |-> Contents[toRead + i]]
    BY <1>2, <1>3, <1>6
  <2> QED
    BY <2>1, <2>2, <2>3
<1> QED
  BY <1>2, <1>6, <1>7, <1>8

LEMMA RingInitImplements == RingInit => Queue!QueueInit
<1> SUFFICES ASSUME RingInit PROVE Queue!QueueInit
  OBVIOUS
<1>1. Available = 0
  BY WrapIsMultiple DEF RingInit, Available, WrappingSub
<1>2. Contents = <<>>
  BY <1>1 DEF Contents
<1> QED
  BY <1>2 DEF Queue!QueueInit, RingInit

\* Neither counter nor the buffer moves, so the queue stays.
LEMMA ContentsStay ==
    ASSUME data' = data, head' = head, tail' = tail
    PROVE  Contents' = Contents
BY DEF Contents, Available, WrappingSub, Start, Cell

(***************************************************************************)
(* A push is accepted where the head moves and refused where it is found   *)
(* not to fit; bytes are taken where the tail moves.                       *)
(***************************************************************************)
LEMMA RingStepImplements ==
    IInv /\ [RingNext]_ringVars => [Queue!QueueNext]_(Queue!queueVars)
<1> SUFFICES ASSUME IInv, [RingNext]_ringVars
             PROVE  [Queue!QueueNext]_(Queue!queueVars)
  OBVIOUS
<1>0. Contents \in Seq(Byte) /\ Len(Contents) = Available /\ Available \in Nat
  BY ContentsType DEF IInv, PushFits
<1>1. ASSUME NEW m \in Messages, PushRefused(m) PROVE Queue!QueueNext
  <2>1. Len(Contents) + Len(m) > Cap /\ pushed' = FALSE /\ taken' = taken
    BY <1>0, <1>1 DEF PushRefused, consumerVars
  <2>2. Contents' = Contents
    BY <1>1, ContentsStay DEF PushRefused
  <2>3. Queue!Refuse(m)
    BY <2>1, <2>2 DEF Queue!Refuse
  <2> QED
    BY <2>3 DEF Queue!QueueNext
<1>2. ASSUME NEW m \in Messages, PushAdmitted(m)
      PROVE  UNCHANGED Queue!queueVars
  BY <1>2, ContentsStay DEF PushAdmitted, consumerVars, Queue!queueVars
<1>3. ASSUME CopyIn PROVE UNCHANGED Queue!queueVars
  BY <1>3, CopyInKeepsContents DEF CopyIn, consumerVars, Queue!queueVars
<1>4. ASSUME Publish, msg \in Messages PROVE Queue!QueueNext
  <2>1. pushed' = TRUE /\ taken' = taken
    BY <1>4 DEF Publish, consumerVars
  <2>2. Queue!Accept(msg)
    BY <1>4, <2>1, PublishAppends DEF Queue!Accept
  <2> QED
    BY <1>4, <2>2 DEF Queue!QueueNext
<1>5. ASSUME DrainNothing PROVE Queue!QueueNext
  <2>1. Contents' = Contents
    BY <1>5, ContentsStay DEF DrainNothing
  <2>2. Contents = <<>>
    BY <1>0, <1>5 DEF DrainNothing
  <2>3. taken' = <<>> /\ pushed' = pushed
    BY <1>5 DEF DrainNothing, producerVars
  <2>4. Queue!TakeNothing
    BY <2>1, <2>2, <2>3 DEF Queue!TakeNothing
  <2> QED
    BY <2>4 DEF Queue!QueueNext
<1>6. ASSUME DrainSome \/ CopyOut PROVE UNCHANGED Queue!queueVars
  BY <1>6, ContentsStay DEF DrainSome, CopyOut, producerVars, Queue!queueVars
<1>7. ASSUME Release PROVE Queue!QueueNext
  <2>1. toRead \in 0..Chunk /\ Chunk \in Nat
    BY RingAssumption DEF IInv, RingTypeOK, RingAssumption
  <2>2. pushed' = pushed
    BY <1>7 DEF Release, producerVars
  <2>3. toRead <= Len(Contents) /\ Queue!Take(toRead)
    BY <1>7, <2>2, ReleaseTakes DEF Queue!Take
  <2>4. toRead # 0
    BY <1>7, <2>1 DEF Release, IInv, PushFits
  <2> QED
    BY <2>1, <2>3, <2>4 DEF Queue!QueueNext
<1>8. ASSUME UNCHANGED ringVars PROVE UNCHANGED Queue!queueVars
  BY <1>8, ContentsStay
     DEF ringVars, producerVars, consumerVars, Queue!queueVars
<1>9. Publish => msg \in Messages
  BY DEF Publish, IInv, PushFits
<1> QED
  BY <1>1, <1>2, <1>3, <1>4, <1>5, <1>6, <1>7, <1>8, <1>9
     DEF RingNext, Producer, Consumer

(***************************************************************************)
(* The ring implements the bounded FIFO.                                   *)
(***************************************************************************)
THEOREM RingImplementsQueue == RingSpec => FifoImplemented
<1>1. RingSpec => Queue!QueueInit /\ [][Queue!QueueNext]_(Queue!queueVars)
  BY RingInitImplements, RingInvariant, RingStepImplements, PTL DEF RingSpec
<1> QED
  BY <1>1 DEF FifoImplemented, Queue!QueueSpec
============================================================================
