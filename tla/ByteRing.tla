------------------------------ MODULE ByteRing ------------------------------
(***************************************************************************)
(* RingBuffer of network.rs: the lock-free byte ring between the thread    *)
(* that dispatches tiles and the thread that writes them to the socket.    *)
(*                                                                         *)
(* push and drain each read both counters once, copy bytes with no         *)
(* synchronisation, and then publish by storing their own counter.  Every  *)
(* shared access is a step: the two loads at the start (a thread's own     *)
(* counter cannot change under it, so they are one step), each byte, and   *)
(* the store.  The counters are free-running: they count modulo Wrap, 2^64 *)
(* in the code, and are masked to a cell of the buffer.  Loads acquire and *)
(* stores release, so each thread sees the bytes behind a counter it reads *)
(* and interleaving is enough.                                             *)
(***************************************************************************)
EXTENDS Integers, Sequences

CONSTANTS
    Cap,        \* RING_CAP
    Wrap,       \* counters count modulo this
    Chunk,      \* how many bytes the sender drains at once
    Byte,       \* byte values
    Zero,       \* what the buffer is filled with
    Messages    \* bound: the messages pushed

ASSUME RingAssumption ==
    /\ Cap \in Nat \ {0}
    /\ Wrap \in Nat /\ \E k \in 2..Wrap : Wrap = k * Cap
    /\ Chunk \in Nat \ {0}
    /\ Zero \in Byte
    /\ Messages \subseteq (Seq(Byte) \ {<<>>})

VARIABLES
    data,      \* the buffer
    head,      \* write position, stored by the producer
    tail,      \* read position, stored by the consumer
    ppc,       \* where the producer is in push
    msg,       \* the bytes it is pushing
    copied,    \* how many of them it has copied
    pushed,    \* what push returned last
    cpc,       \* where the consumer is in drain
    toRead,    \* how many bytes it is draining
    out,       \* those it has copied so far
    taken      \* the bytes drain handed over last

producerVars == <<ppc, msg, copied, pushed>>
consumerVars == <<cpc, toRead, out, taken>>
ringVars == <<data, head, tail, producerVars, consumerVars>>

Cells == 0..(Cap - 1)

RingTypeOK ==
    /\ data \in [Cells -> Byte]
    /\ head \in 0..(Wrap - 1)
    /\ tail \in 0..(Wrap - 1)
    /\ ppc \in {"idle", "copy"}
    /\ msg \in Seq(Byte)
    /\ copied \in 0..Len(msg)
    /\ pushed \in BOOLEAN
    /\ cpc \in {"idle", "copy"}
    /\ toRead \in 0..Chunk
    /\ out \in Seq(Byte) /\ Len(out) <= toRead
    /\ taken \in Seq(Byte)

RingInit ==
    /\ data = [c \in Cells |-> Zero]
    /\ head = 0
    /\ tail = 0
    /\ ppc = "idle" /\ msg = <<>> /\ copied = 0 /\ pushed = TRUE
    /\ cpc = "idle" /\ toRead = 0 /\ out = <<>> /\ taken = <<>>

\* Slip: a counter may reach the value it should wrap at.
WrappingAddLate(a, n) == IF a + n <= Wrap THEN a + n ELSE a + n - Wrap

\* wrapping_add and wrapping_sub, for operands below the width.
WrappingAdd(a, n) == IF a + n < Wrap THEN a + n ELSE a + n - Wrap

\* Slip: the counters are subtracted as if they never wrapped.
SaturatingSub(a, b) == IF a >= b THEN a - b ELSE 0
WrappingSub(a, b) == IF a >= b THEN a - b ELSE Wrap - (b - a)

Available == WrappingSub(head, tail)

\* The mask picks the first cell; a copy that would run off the end of the
\* buffer is done in two pieces.
Start(counter) == counter % Cap
Cell(start, i) == IF start + i < Cap THEN start + i ELSE start + i - Cap

----------------------------------------------------------------------------
\* push: a message that does not fit is refused whole ...
PushRefused(m) ==
    /\ ppc = "idle"
    /\ Available + Len(m) > Cap
    /\ pushed' = FALSE
    /\ UNCHANGED <<data, head, tail, ppc, msg, copied, consumerVars>>

\* Slip: one byte too many is let in.
PushAdmittedFull(m) ==
    /\ ppc = "idle"
    /\ Available + Len(m) <= Cap + 1
    /\ ppc' = "copy"
    /\ msg' = m
    /\ copied' = 0
    /\ UNCHANGED <<data, head, tail, pushed, consumerVars>>

\* ... one that fits is copied byte by byte ...
PushAdmitted(m) ==
    /\ ppc = "idle"
    /\ Available + Len(m) <= Cap
    /\ ppc' = "copy"
    /\ msg' = m
    /\ copied' = 0
    /\ UNCHANGED <<data, head, tail, pushed, consumerVars>>

CopyIn ==
    /\ ppc = "copy"
    /\ copied < Len(msg)
    /\ data' = [data EXCEPT ![Cell(Start(head), copied)] = msg[copied + 1]]
    /\ copied' = copied + 1
    /\ UNCHANGED <<head, tail, ppc, msg, pushed, consumerVars>>

\* ... and published by moving the head.
Publish ==
    /\ ppc = "copy"
    /\ copied = Len(msg)
    /\ head' = WrappingAdd(head, Len(msg))
    /\ pushed' = TRUE
    /\ ppc' = "idle" /\ msg' = <<>> /\ copied' = 0
    /\ UNCHANGED <<data, tail, consumerVars>>

Producer ==
    \/ \E m \in Messages : PushRefused(m) \/ PushAdmitted(m)
    \/ CopyIn
    \/ Publish

----------------------------------------------------------------------------
\* drain, called in a loop by the sender thread, which clears the vector
\* first: nothing to read ...
DrainNothing ==
    /\ cpc = "idle"
    /\ Available = 0
    /\ taken' = <<>>
    /\ UNCHANGED <<data, head, tail, cpc, toRead, out, producerVars>>

\* Slip: the sender waits for a full chunk.
DrainFullChunk ==
    /\ cpc = "idle"
    /\ Available >= Chunk
    /\ cpc' = "copy"
    /\ toRead' = Chunk
    /\ out' = <<>>
    /\ UNCHANGED <<data, head, tail, taken, producerVars>>

\* ... or some bytes, Chunk at most ...
DrainSome ==
    /\ cpc = "idle"
    /\ Available > 0
    /\ cpc' = "copy"
    /\ toRead' = IF Available < Chunk THEN Available ELSE Chunk
    /\ out' = <<>>
    /\ UNCHANGED <<data, head, tail, taken, producerVars>>

CopyOut ==
    /\ cpc = "copy"
    /\ Len(out) < toRead
    /\ out' = Append(out, data[Cell(Start(tail), Len(out))])
    /\ UNCHANGED <<data, head, tail, cpc, toRead, taken, producerVars>>

\* ... whose cells go back to the producer when the tail moves.
Release ==
    /\ cpc = "copy"
    /\ Len(out) = toRead
    /\ tail' = WrappingAdd(tail, toRead)
    /\ taken' = out
    /\ cpc' = "idle" /\ toRead' = 0 /\ out' = <<>>
    /\ UNCHANGED <<data, head, producerVars>>

Consumer == DrainNothing \/ DrainSome \/ CopyOut \/ Release

RingNext == Producer \/ Consumer

RingSpec == RingInit /\ [][RingNext]_ringVars

\* The sender thread loops for as long as the connection lives, and a push
\* that was begun ends; nobody is obliged to push.
RingFairSpec ==
    /\ RingSpec
    /\ WF_ringVars(CopyIn \/ Publish)
    /\ WF_ringVars(Consumer)

----------------------------------------------------------------------------
\* The cells each side may still touch before it stores its counter.
Writing == IF ppc = "copy" THEN {Cell(Start(head), i) : i \in 0..(Len(msg) - 1)} ELSE {}
Reading == IF cpc = "copy" THEN {Cell(Start(tail), i) : i \in 0..(toRead - 1)} ELSE {}

(***************************************************************************)
(* The unsafe copies of push and drain never touch the same cell at the    *)
(* same time, although each works with a counter of the other that may be  *)
(* long out of date: this is what entitles them to go unsynchronised.      *)
(***************************************************************************)
NoOverlap == Writing \cap Reading = {}

\* The bytes between the counters, oldest first.
Contents == [i \in 1..Available |-> data[Cell(Start(tail), i - 1)]]

Queue == INSTANCE ByteQueue WITH
    queue <- Contents,
    accepted <- pushed

(***************************************************************************)
(* The ring is a bounded FIFO: no byte is lost, repeated or reordered when *)
(* the counters wrap or a copy is split at the end of the buffer; a push   *)
(* is refused only if the message does not fit; and drain comes back with  *)
(* nothing only if there is nothing.                                       *)
(***************************************************************************)
FifoImplemented == Queue!QueueSpec

(***************************************************************************)
(* Bytes do not stay in the ring: as long as the sender thread runs, the   *)
(* tail moves on whenever there is something to read.  A short message     *)
(* must not wait for a longer one to follow it.                            *)
(***************************************************************************)
RingDrains == \A n \in 0..(Wrap - 1) : (tail = n /\ head # n) ~> (tail # n)

=============================================================================
