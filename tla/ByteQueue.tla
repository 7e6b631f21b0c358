----------------------------- MODULE ByteQueue -----------------------------
(***************************************************************************)
(* What the ring buffer of network.rs promises its two users: a bounded    *)
(* FIFO of bytes.  A message is accepted whole, if it fits, and refused    *)
(* otherwise; the reader takes bytes in the order they were accepted, with *)
(* no regard for where messages begin and end.                             *)
(***************************************************************************)
EXTENDS Naturals, Sequences

CONSTANTS Cap, Chunk, Messages

VARIABLES
    queue,      \* the bytes accepted and not yet taken, oldest first
    accepted,   \* whether the last message offered was accepted
    taken       \* the bytes the reader took last

queueVars == <<queue, accepted, taken>>

QueueInit ==
    /\ queue = <<>>
    /\ accepted = TRUE
    /\ taken = <<>>

Accept(m) ==
    /\ Len(queue) + Len(m) <= Cap
    /\ queue' = queue \o m
    /\ accepted' = TRUE
    /\ UNCHANGED taken

Refuse(m) ==
    /\ Len(queue) + Len(m) > Cap
    /\ accepted' = FALSE
    /\ UNCHANGED <<queue, taken>>

Take(n) ==
    /\ taken' = SubSeq(queue, 1, n)
    /\ queue' = SubSeq(queue, n + 1, Len(queue))
    /\ UNCHANGED accepted

\* The reader comes back with nothing only when there is nothing.
TakeNothing ==
    /\ queue = <<>>
    /\ taken' = <<>>
    /\ UNCHANGED <<queue, accepted>>

QueueNext ==
    \/ \E m \in Messages : Accept(m) \/ Refuse(m)
    \/ \E n \in 1..Chunk : n <= Len(queue) /\ Take(n)
    \/ TakeNothing

QueueSpec == QueueInit /\ [][QueueNext]_queueVars
=============================================================================
