------------------------------ MODULE TileNet ------------------------------
(***************************************************************************)
(* Tile distribution (network.rs): one coordinator cuts a large graph into *)
(* tiles, sends all but the first to worker nodes over TCP and puts the    *)
(* answers together.                                                       *)
(*                                                                         *)
(* Each connection has a byte ring (module ByteRing; here a bounded queue  *)
(* of message parts), a thread that writes the ring to the socket, one     *)
(* that reads answers into a map, and at the other end a handler thread    *)
(* with an engine of its own (module EngineArena).  A request is two parts *)
(* on the wire, its tag and the rest, so that a chunk of the ring or a     *)
(* lost connection may cut it in half; an answer is read as a whole.       *)
(*                                                                         *)
(* The nodes are numbered; elements carry the call they belong to and      *)
(* their index, so that an answer that ends up in the wrong place shows.   *)
(***************************************************************************)
EXTENDS EngineArena, Integers, Sequences, FiniteSets

CONSTANTS
    NumNodes,       \* nodes given to NetworkLayer::connect
    Sizes,          \* graph.size of the graphs that are cut
    Threshold,      \* LOCAL_TILE_THRESHOLD
    InputLen,       \* elements in the packed buffer of the first variable
    RingCap,        \* RING_CAP, in message parts
    MaxIds          \* bound: tiles cut in one behaviour, over all calls

Nodes == 1..NumNodes

ASSUME TileNetAssumption ==
    /\ NumNodes \in Nat
    /\ Nodes \subseteq Owner
    /\ Sizes \subseteq Nat \ {0}
    /\ Threshold \in Nat
    /\ InputLen \in Nat
    /\ RingCap \in Nat
    /\ MaxIds \in Nat

VARIABLES
    workers,     \* NetworkLayer.workers: the nodes that could be reached
    phase,       \* where the coordinator is
    rounds,      \* graphs cut so far
    size,        \* elements of the graph being cut
    tiles,       \* the tiles, in order; the first stays here
    nextId,      \* TILE_ID_CTR
    next,        \* the tile dispatch comes to next
    dispatched,  \* ids dispatch returned
    remaining,   \* ids collect still waits for
    collected,   \* answers collect has: id -> data
    out,         \* what reassemble returned
    alive,       \* per node: WorkerConn.alive
    ring,        \* per node: WorkerConn.ring
    results,     \* per node: WorkerConn.results, id -> data
    sender,      \* per node: where nt-net-send is
    receiver,    \* per node: where nt-net-recv is
    link,        \* per node: "up" or "reset"
    toWorker,    \* per node: parts on the wire
    toCoord,     \* per node: answers on the wire
    handler      \* per node: where nt-worker-conn is

cutVars == <<rounds, size, tiles, nextId>>
callVars == <<cutVars, next, dispatched, remaining, collected, out>>
coordVars == <<workers, phase, callVars>>
wireVars == <<link, toWorker, toCoord>>
workerVars == <<handler, engineVars>>
connVars == <<alive, ring, results, sender, receiver, wireVars, workerVars>>
vars == <<coordVars, connVars>>

Element == Nat \X Nat
Zero == <<0, 0>>
Data == Seq(Element \cup {Zero})
Tile == [id : Nat, start : Nat, count : Nat, data : Data]
Answer == [id : Nat, data : Data]
Part == [tag : {"TILE_REQ"}] \cup [tag : {"payload"}, tile : Tile]
            \cup [tag : {"SHUTDOWN"}]

\* A map with finitely many keys: HashMap<u64, TileResult>.
Insert(m, a) == [i \in DOMAIN m \cup {a.id} |-> IF i = a.id THEN a.data ELSE m[i]]
Remove(m, id) == [i \in DOMAIN m \ {id} |-> m[i]]
NoAnswers == [i \in {} |-> <<>>]

Smaller(m, n) == IF m < n THEN m ELSE n
Elements(s) == {s[k] : k \in DOMAIN s}

----------------------------------------------------------------------------
(***************************************************************************)
(* NetworkLayer::connect: nodes that cannot be reached are skipped, the    *)
(* others, in their order, get a ring and their two threads.  At the node, *)
(* the connection waits until run_worker accepts it.                       *)
(***************************************************************************)
Connect ==
    /\ phase = "start"
    /\ \E ok \in SUBSET Nodes :
          LET On(f, v) == [n \in Nodes |-> IF n \in ok THEN v ELSE f[n]]
          IN /\ workers' \in [1..Cardinality(ok) -> ok]
             /\ \A i, j \in DOMAIN workers' : i < j => workers'[i] < workers'[j]
             /\ alive' = On(alive, TRUE)
             /\ sender' = On(sender, "drain")
             /\ receiver' = On(receiver, "check")
             /\ link' = On(link, "up")
             /\ handler' = On(handler, "backlog")
    /\ phase' = "ready"
    /\ UNCHANGED <<callVars, ring, results, toWorker, toCoord, engineVars>>

Connected == Elements(workers)

----------------------------------------------------------------------------
(* decompose. *)

\* The packed buffer of the first variable, of the graph cut in this round.
Input(r) == [k \in 1..InputLen |-> <<r, k>>]

\* The part of the buffer behind a tile, trimmed to the buffer's end; zeros
\* if the tile starts behind it.
SubSlice(buf, start, count) ==
    IF start < Len(buf)
    THEN SubSeq(buf, start + 1, Smaller(start + count, Len(buf)))
    ELSE [k \in 1..count |-> Zero]

\* One part for each node and one to keep, if the size allows; the first
\* size % parts of them are one longer.
PartCount(s, parts, i) == s \div parts + (IF i <= s % parts THEN 1 ELSE 0)

\* Each tile starts where the one before ends.
Starts(s, parts) ==
    LET start[i \in 1..parts] ==
            IF i = 1 THEN 0 ELSE start[i - 1] + PartCount(s, parts, i - 1)
    IN start

\* Slip: each tile starts where it would if all were of the base size.
EvenTiles(r, s, parts, first) ==
    [i \in 1..parts |->
        LET start == (i - 1) * (s \div parts)
            count == PartCount(s, parts, i)
        IN [id |-> first + i - 1, start |-> start, count |-> count,
            data |-> SubSlice(Input(r), start, count)]]

\* Slip: ids are numbered from zero in every call.
LocalIds(r, s, parts, first) ==
    LET start == Starts(s, parts)
    IN [i \in 1..parts |->
          [id |-> i - 1, start |-> start[i], count |-> PartCount(s, parts, i),
           data |-> SubSlice(Input(r), start[i], PartCount(s, parts, i))]]

\* The tiles, with ids of their own.
TilesOf(r, s, parts, first) ==
    LET start == Starts(s, parts)
    IN [i \in 1..parts |->
          [id |-> first + i - 1, start |-> start[i], count |-> PartCount(s, parts, i),
           data |-> SubSlice(Input(r), start[i], PartCount(s, parts, i))]]

\* A graph that is not large, or no nodes: decompose returns None, and the
\* caller computes it alone.
Decompose ==
    /\ phase = "ready"
    /\ \E s \in Sizes, n \in 1..NumNodes :
          LET parts == Smaller(n + 1, s)
          IN /\ s > Threshold
             /\ nextId + parts <= MaxIds
             /\ size' = s
             /\ tiles' = TilesOf(rounds + 1, s, parts, nextId)
             /\ nextId' = nextId + parts
    /\ rounds' = rounds + 1
    /\ next' = 2
    /\ phase' = "dispatch"
    /\ UNCHANGED <<workers, dispatched, remaining, collected, out, connVars>>

----------------------------------------------------------------------------
(* dispatch, collect and reassemble. *)

\* encode_tile_req.
Request(t) == << [tag |-> "TILE_REQ"], [tag |-> "payload", tile |-> t] >>

\* Slip: a message is let in if there is room for any of it.
FitsPartly(n, msg) == Len(ring[n]) + Len(msg) <= RingCap + 1

\* RingBuffer::push, whole or not at all.
Fits(n, msg) == Len(ring[n]) + Len(msg) <= RingCap

\* Round robin over the workers; tile 0 is not among those counted.
WorkerOf(i) == workers[((i - 2) % Len(workers)) + 1]

Accepted(i) == alive[WorkerOf(i)] /\ Fits(WorkerOf(i), Request(tiles[i]))

\* A tile whose worker is gone or whose ring is full is passed over.
DispatchTile ==
    /\ phase = "dispatch"
    /\ workers # <<>> /\ next <= Len(tiles)
    /\ IF Accepted(next)
       THEN /\ ring' = [ring EXCEPT ![WorkerOf(next)] = @ \o Request(tiles[next])]
            /\ dispatched' = dispatched \cup {tiles[next].id}
       ELSE UNCHANGED <<ring, dispatched>>
    /\ next' = next + 1
    /\ UNCHANGED <<workers, phase, cutVars, remaining, collected, out,
                   alive, results, sender, receiver, wireVars, workerVars>>

\* The caller passes the ids on to collect.
DispatchDone ==
    /\ phase = "dispatch"
    /\ workers = <<>> \/ next > Len(tiles)
    /\ remaining' = dispatched
    /\ phase' = "collect"
    /\ UNCHANGED <<workers, cutVars, next, dispatched, collected, out, connVars>>

\* Slip: poll_result reads the answer and leaves it in the map.
PollByGet(n, id) ==
    /\ phase = "collect"
    /\ id \in remaining /\ id \in DOMAIN results[n]
    /\ collected' = Insert(collected, [id |-> id, data |-> results[n][id]])
    /\ remaining' = remaining \ {id}
    /\ UNCHANGED <<workers, phase, cutVars, next, dispatched, out,
                   alive, ring, results, sender, receiver, wireVars, workerVars>>

\* poll_result for one worker and one id, in collect's loop, which comes to
\* every pair in turn.
Poll(n, id) ==
    /\ phase = "collect"
    /\ id \in remaining /\ id \in DOMAIN results[n]
    /\ collected' = Insert(collected, [id |-> id, data |-> results[n][id]])
    /\ results' = [results EXCEPT ![n] = Remove(@, id)]
    /\ remaining' = remaining \ {id}
    /\ UNCHANGED <<workers, phase, cutVars, next, dispatched, out,
                   alive, ring, sender, receiver, wireVars, workerVars>>

\* All there, or past the deadline: what is missing then is given up.
CollectDone ==
    /\ phase = "collect"
    /\ remaining' = {}
    /\ phase' = "reassemble"
    /\ UNCHANGED <<workers, cutVars, next, dispatched, collected, out, connVars>>

\* What worker and coordinator alike make of a tile: its first input, padded.
Echo(t) == [k \in 1..t.count |-> IF k <= Len(t.data) THEN t.data[k] ELSE Zero]

\* Slip: the first tile that is missing ends the output.
JoinedUntilGap(done) ==
    LET joined[i \in 1..Len(tiles)] ==
            IF i = 1 THEN Echo(tiles[1])
            ELSE IF \A j \in 2..i : tiles[j].id \in DOMAIN done
                 THEN joined[i - 1] \o done[tiles[i].id]
                 ELSE joined[i - 1]
    IN joined

\* The local tile, then the answers in the order of the tiles, as far as the
\* i-th; a tile that is missing takes no room.
Joined(done) ==
    LET joined[i \in 1..Len(tiles)] ==
            IF i = 1 THEN Echo(tiles[1])
            ELSE IF tiles[i].id \in DOMAIN done
                 THEN joined[i - 1] \o done[tiles[i].id]
                 ELSE joined[i - 1]
    IN joined

Join(done) == Joined(done)[Len(tiles)]

Reassemble ==
    /\ phase = "reassemble"
    /\ out' = Join(collected)
    /\ phase' = "joined"
    /\ UNCHANGED <<workers, cutVars, next, dispatched, remaining, collected, connVars>>

\* The caller goes on, to its next graph or to the end.
NextCall ==
    /\ phase = "joined"
    /\ tiles' = <<>> /\ dispatched' = {} /\ collected' = NoAnswers /\ out' = <<>>
    /\ phase' = "ready"
    /\ UNCHANGED <<workers, rounds, size, nextId, next, remaining, connVars>>

----------------------------------------------------------------------------
(* shutdown, called when the NetworkLayer is dropped. *)

Drop ==
    /\ phase = "ready"
    /\ phase' = "closing"
    /\ UNCHANGED <<workers, callVars, connVars>>

\* Worker by worker, the flag is cleared first ...
ClearAlive(n) ==
    /\ phase = "closing"
    /\ workers # <<>> /\ n = Head(workers)
    /\ alive' = [alive EXCEPT ![n] = FALSE]
    /\ phase' = "closing_push"
    /\ UNCHANGED <<workers, callVars, ring, results, sender, receiver, wireVars, workerVars>>

\* ... and then SHUTDOWN is pushed, if there is room for it.
PushShutdown(n) ==
    /\ phase = "closing_push"
    /\ n = Head(workers)
    /\ ring' = [ring EXCEPT ![n] =
                   IF Fits(n, <<1>>) THEN Append(@, [tag |-> "SHUTDOWN"]) ELSE @]
    /\ workers' = Tail(workers)
    /\ phase' = "closing"
    /\ UNCHANGED <<callVars, alive, results, sender, receiver, wireVars, workerVars>>

Closed ==
    /\ phase = "closing" /\ workers = <<>>
    /\ phase' = "closed"
    /\ UNCHANGED <<workers, callVars, connVars>>

----------------------------------------------------------------------------
(* nt-net-send.  The flag is checked at the top of the loop; here, at the  *)
(* end of the turn before, with nothing in between.                        *)

NextTurn(n) == IF alive[n] THEN "drain" ELSE "done"

\* Nothing in the ring: sleep, and look again.
SenderIdle(n) ==
    /\ sender[n] = "drain"
    /\ ring[n] = <<>>
    /\ sender' = [sender EXCEPT ![n] = NextTurn(n)]
    /\ UNCHANGED <<coordVars, alive, ring, results, receiver, wireVars, workerVars>>

\* Slip: the sender waits until the ring is full.
SenderWaits(n) ==
    /\ sender[n] = "drain"
    /\ Len(ring[n]) >= RingCap
    /\ ring' = [ring EXCEPT ![n] = <<>>]
    /\ toWorker' = [toWorker EXCEPT ![n] = IF link[n] = "up" THEN @ \o ring[n] ELSE @]
    /\ sender' = [sender EXCEPT ![n] = IF link[n] = "up" THEN NextTurn(n) ELSE "done"]
    /\ UNCHANGED <<coordVars, alive, results, receiver, link, toCoord, workerVars>>

\* A chunk takes what fits in 64 KiB, wherever that ends, and is written: what
\* is lost between the two is lost as if on the wire.  A write to a connection
\* that is reset fails and ends the loop, without a word to anybody.
SenderWrite(n) ==
    /\ sender[n] = "drain"
    /\ \E k \in 1..Len(ring[n]) :
          /\ ring' = [ring EXCEPT ![n] = SubSeq(@, k + 1, Len(@))]
          /\ toWorker' = [toWorker EXCEPT ![n] =
                             IF link[n] = "up" THEN @ \o SubSeq(ring[n], 1, k) ELSE @]
    /\ sender' = [sender EXCEPT ![n] = IF link[n] = "up" THEN NextTurn(n) ELSE "done"]
    /\ UNCHANGED <<coordVars, alive, results, receiver, link, toCoord, workerVars>>

----------------------------------------------------------------------------
(* nt-net-recv.  A thread that waits for the next answer does not see the  *)
(* flag; it looks when it starts and after each answer.                    *)

ReceiverCheck(n) ==
    /\ receiver[n] = "check"
    /\ receiver' = [receiver EXCEPT ![n] = IF alive[n] THEN "read" ELSE "done"]
    /\ UNCHANGED <<coordVars, alive, ring, results, sender, wireVars, workerVars>>

ReceiverAnswer(n) ==
    /\ receiver[n] = "read"
    /\ toCoord[n] # <<>>
    /\ results' = [results EXCEPT ![n] = Insert(@, Head(toCoord[n]))]
    /\ toCoord' = [toCoord EXCEPT ![n] = Tail(@)]
    /\ receiver' = [receiver EXCEPT ![n] = IF alive[n] THEN "read" ELSE "done"]
    /\ UNCHANGED <<coordVars, alive, ring, sender, link, toWorker, workerVars>>

\* The stream has ended: the handler at the other end has dropped its side,
\* or the connection is reset.
ReadFails(n) ==
    \/ link[n] = "reset"
    \/ handler[n] = "done" /\ toCoord[n] = <<>>

\* Slip: the receiver ends without telling anybody.
ReceiverQuiet(n) ==
    /\ receiver[n] = "read"
    /\ ReadFails(n)
    /\ receiver' = [receiver EXCEPT ![n] = "done"]
    /\ UNCHANGED <<coordVars, alive, ring, results, sender, wireVars, workerVars>>

\* The worker is then no longer alive to dispatch.
ReceiverEnd(n) ==
    /\ receiver[n] = "read"
    /\ ReadFails(n)
    /\ receiver' = [receiver EXCEPT ![n] = "done"]
    /\ alive' = [alive EXCEPT ![n] = FALSE]
    /\ UNCHANGED <<coordVars, ring, results, sender, wireVars, workerVars>>

----------------------------------------------------------------------------
(* run_worker and handle_worker_connection, at the node. *)

Accept(n) ==
    /\ handler[n] = "backlog"
    /\ Create(n)
    /\ handler' = [handler EXCEPT ![n] = "tag"]
    /\ UNCHANGED <<coordVars, alive, ring, results, sender, receiver, wireVars>>

\* Slip: a SHUTDOWN is read and not acted upon.
IgnoreShutdown(n) ==
    /\ handler[n] = "tag"
    /\ toWorker[n] # <<>>
    /\ handler' = [handler EXCEPT ![n] =
                      IF Head(toWorker[n]).tag = "TILE_REQ" THEN "payload" ELSE "tag"]
    /\ toWorker' = [toWorker EXCEPT ![n] = Tail(@)]
    /\ UNCHANGED <<coordVars, alive, ring, results, sender, receiver, link, toCoord,
                   engineVars>>

ReadTag(n) ==
    /\ handler[n] = "tag"
    /\ toWorker[n] # <<>>
    /\ handler' = [handler EXCEPT ![n] =
                      IF Head(toWorker[n]).tag = "TILE_REQ" THEN "payload" ELSE "drop"]
    /\ toWorker' = [toWorker EXCEPT ![n] = Tail(@)]
    /\ UNCHANGED <<coordVars, alive, ring, results, sender, receiver, link, toCoord,
                   engineVars>>

\* process_tile_request reads the rest and answers with the first input; if
\* the answer cannot be written, nobody notices.
ProcessTile(n) ==
    /\ handler[n] = "payload"
    /\ toWorker[n] # <<>>
    /\ LET t == Head(toWorker[n]).tile
       IN toCoord' = [toCoord EXCEPT ![n] = Append(@, [id |-> t.id, data |-> Echo(t)])]
    /\ toWorker' = [toWorker EXCEPT ![n] = Tail(@)]
    /\ handler' = [handler EXCEPT ![n] = "tag"]
    /\ UNCHANGED <<coordVars, alive, ring, results, sender, receiver, link, engineVars>>

\* The coordinator's end is closed when both of its threads have ended.
CoordGone(n) ==
    \/ link[n] = "reset"
    \/ sender[n] = "done" /\ receiver[n] = "done" /\ toWorker[n] = <<>>

HandlerEnds(n) ==
    /\ handler[n] \in {"tag", "payload"}
    /\ CoordGone(n)
    /\ handler' = [handler EXCEPT ![n] = "drop"]
    /\ UNCHANGED <<coordVars, alive, ring, results, sender, receiver, wireVars, engineVars>>

\* The engine is dropped before the stream.
HandlerDrops(n) ==
    /\ handler[n] = "drop"
    /\ Deactivate(n)
    /\ handler' = [handler EXCEPT ![n] = "free"]
    /\ UNCHANGED <<coordVars, alive, ring, results, sender, receiver, wireVars>>

HandlerFrees(n) ==
    /\ handler[n] = "free"
    /\ Free(n)
    /\ handler' = [handler EXCEPT ![n] = "done"]
    /\ UNCHANGED <<coordVars, alive, ring, results, sender, receiver, wireVars>>

----------------------------------------------------------------------------
\* A connection is reset: what is on the wire is lost.
Reset(n) ==
    /\ link[n] = "up" /\ alive[n]
    /\ link' = [link EXCEPT ![n] = "reset"]
    /\ toWorker' = [toWorker EXCEPT ![n] = <<>>]
    /\ toCoord' = [toCoord EXCEPT ![n] = <<>>]
    /\ UNCHANGED <<coordVars, alive, ring, results, sender, receiver, workerVars>>

Init ==
    /\ EngineInit
    /\ workers = <<>> /\ phase = "start"
    /\ rounds = 0 /\ size = 0 /\ tiles = <<>> /\ nextId = 0
    /\ next = 2 /\ dispatched = {} /\ remaining = {} /\ collected = NoAnswers /\ out = <<>>
    /\ alive = [n \in Nodes |-> FALSE]
    /\ ring = [n \in Nodes |-> <<>>]
    /\ results = [n \in Nodes |-> NoAnswers]
    /\ sender = [n \in Nodes |-> "done"]
    /\ receiver = [n \in Nodes |-> "done"]
    /\ link = [n \in Nodes |-> "reset"]
    /\ toWorker = [n \in Nodes |-> <<>>] /\ toCoord = [n \in Nodes |-> <<>>]
    /\ handler = [n \in Nodes |-> "done"]

\* What a call does once it is made.
InCall ==
    \/ DispatchTile \/ DispatchDone
    \/ \E n \in Nodes : \E id \in remaining : Poll(n, id)
    \/ Reassemble
    \/ \E n \in Nodes : ClearAlive(n) \/ PushShutdown(n)
    \/ Closed

Coordinator ==
    \/ Connect
    \/ Decompose
    \/ InCall
    \/ CollectDone
    \/ NextCall
    \/ Drop

Sender(n) == SenderIdle(n) \/ SenderWrite(n)
Receiver(n) == ReceiverCheck(n) \/ ReceiverAnswer(n) \/ ReceiverEnd(n)
Handler(n) == Accept(n) \/ ReadTag(n) \/ ProcessTile(n)
                 \/ HandlerEnds(n) \/ HandlerDrops(n) \/ HandlerFrees(n)

Next ==
    \/ Coordinator
    \/ \E n \in Nodes : Sender(n) \/ Receiver(n) \/ Handler(n) \/ Reset(n)

Spec == Init /\ [][Next]_vars

\* Threads run for as long as they have something to do.  Nobody is obliged
\* to start a call, and collect may end at any time.
FairSpec ==
    /\ Spec
    /\ WF_vars(InCall) /\ WF_vars(CollectDone)
    /\ \A n \in Nodes : WF_vars(Sender(n)) /\ WF_vars(Receiver(n)) /\ WF_vars(Handler(n))

----------------------------------------------------------------------------
TileNetTypeOK ==
    /\ EngineTypeOK
    /\ workers \in Seq(Nodes)
    /\ phase \in {"start", "ready", "dispatch", "collect", "reassemble",
                  "joined", "closing", "closing_push", "closed"}
    /\ rounds \in 0..MaxIds
    /\ size \in Nat /\ nextId \in Nat /\ next \in Nat
    /\ tiles \in Seq(Tile)
    /\ dispatched \subseteq Nat /\ remaining \subseteq dispatched
    /\ DOMAIN collected \subseteq Nat
    /\ \A id \in DOMAIN collected : collected[id] \in Data
    /\ out \in Data
    /\ alive \in [Nodes -> BOOLEAN]
    /\ ring \in [Nodes -> Seq(Part)] /\ \A n \in Nodes : Len(ring[n]) <= RingCap
    /\ \A n \in Nodes : \A id \in DOMAIN results[n] : results[n][id] \in Data
    /\ sender \in [Nodes -> {"drain", "done"}]
    /\ receiver \in [Nodes -> {"check", "read", "done"}]
    /\ link \in [Nodes -> {"up", "reset"}]
    /\ toWorker \in [Nodes -> Seq(Part)]
    /\ toCoord \in [Nodes -> Seq(Answer)]
    /\ handler \in [Nodes -> {"backlog", "tag", "payload", "drop", "free", "done"}]

\* The tiles whose payload waits in a sequence of parts.
Payloads(s) == {s[k].tile : k \in {j \in DOMAIN s : s[j].tag = "payload"}}

\* A request or an answer on its way.
Owed(n, id) ==
    \/ \E t \in Payloads(ring[n]) \cup Payloads(toWorker[n]) : t.id = id
    \/ \E k \in DOMAIN toCoord[n] : toCoord[n][k].id = id

\* Where the answer to a tile is, or will come from.
Pending(n, id) ==
    \/ Owed(n, id)
    \/ id \in DOMAIN results[n]

(***************************************************************************)
(* An answer belongs to the tile it is filed under.  Ids are handed out    *)
(* over the life of the process, and an answer that misses the deadline of *)
(* its own call stays in its map: a later call must not take it for the    *)
(* answer to one of its own tiles.                                         *)
(***************************************************************************)
OwnAnswers ==
    \A i \in 1..Len(tiles) :
        tiles[i].id \in DOMAIN collected => collected[tiles[i].id] = Echo(tiles[i])

\* An element of the result of the r-th graph.
At(r, k) == IF k <= InputLen THEN <<r, k>> ELSE Zero

\* What the call would return if it were computed in one place.
Whole == [k \in 1..size |-> At(rounds, k)]

(***************************************************************************)
(* reassemble returns the whole result if every remote tile was collected, *)
(* sizes that do not divide by the number of parts, buffers shorter than   *)
(* the graph and answers in any order included.                            *)
(***************************************************************************)
WholeWhenComplete ==
    phase = "joined" /\ (\A i \in 2..Len(tiles) : tiles[i].id \in DOMAIN collected)
        => out = Whole

(***************************************************************************)
(* A tile that dispatch has accepted is in one place only: its request or  *)
(* its answer in one of the buffers on the way, or collected.  It is never *)
(* computed twice and never gone while its connection stands and the layer *)
(* is not being dropped.                                                   *)
(***************************************************************************)
TileInOnePlace ==
    \A id \in dispatched :
        /\ id \in DOMAIN collected => \A n \in Nodes : ~Pending(n, id)
        /\ Cardinality({n \in Nodes : Pending(n, id)}) <= 1
        /\ (/\ phase \in {"dispatch", "collect"} /\ id \notin DOMAIN collected
            /\ \A n \in Nodes : link[n] = "up" \/ n \notin Connected)
              => \E n \in Nodes : Pending(n, id)

\* The elements of a tile, and the stretches that the tiles of some ids cover.
Share(t) == (t.start + 1)..(t.start + t.count)
Shares(ids) == {Share(tiles[i]) : i \in {j \in 1..Len(tiles) : tiles[j].id \in ids}}

(***************************************************************************)
(* "If a worker dropped the tile, leave zeros (partial result)"            *)
(* (network.rs:490): if all remote tiles were accepted by workers, and some*)
(* did not come back, the output has zeros in the place of those and the   *)
(* elements of the result everywhere else.                                 *)
(***************************************************************************)
MissingTilesLeaveZeros ==
    phase = "joined" /\ dispatched = {tiles[i].id : i \in 2..Len(tiles)} =>
        LET missing == dispatched \ DOMAIN collected
        IN out = [k \in 1..size |->
                     IF k \in UNION Shares(missing) THEN Zero ELSE At(rounds, k)]

\* Where the caller of the network layer is.
Stage ==
    CASE phase \in {"start", "ready"} -> "idle"
      [] phase = "dispatch" -> "offering"
      [] phase \in {"collect", "reassemble"} -> "waiting"
      [] phase = "joined" -> "done"
      [] OTHER -> "closed"

Service == INSTANCE TileService
           WITH Blank <- Zero, stage <- Stage, graph <- rounds,
                shares <- {Share(tiles[i]) : i \in 1..Len(tiles)},
                accepted <- Shares(dispatched), answered <- Shares(DOMAIN collected),
                result <- out, ResultAt <- At

(***************************************************************************)
(* Rings, threads, connections and deadlines implement the service: no     *)
(* tile is given out twice or counted twice, the local tile is not given   *)
(* out, and reassemble returns all that was collected, of this graph and   *)
(* in order, whichever tiles are missing.                                  *)
(***************************************************************************)
NetworkImplementsService == Service!ServiceSpec

(***************************************************************************)
(* A tile that is accepted is answered, unless its connection fails or the *)
(* layer is dropped: the sender does not sleep on what is in the ring, and *)
(* a request cut in two by a chunk is put together again.                  *)
(***************************************************************************)
TileAnswered ==
    \A id \in 1..(MaxIds - 1) :
        LET Waiting == \E n \in Nodes : link[n] = "up" /\ alive[n] /\ Owed(n, id)
        IN Waiting ~> ~Waiting

(***************************************************************************)
(* A connection that is reset is noticed: the worker is no longer alive    *)
(* and gets no more tiles, although the sender that fails first tells      *)
(* nobody.                                                                 *)
(***************************************************************************)
LossNoticed == \A n \in Nodes : link[n] = "reset" ~> ~alive[n]

(***************************************************************************)
(* A SHUTDOWN that makes it to the wire ends the handler, and with it the  *)
(* engine, and the receiver that waits for its answers.                    *)
(***************************************************************************)
ShutdownEnds ==
    \A n \in Nodes :
        (\E k \in DOMAIN toWorker[n] : toWorker[n][k].tag = "SHUTDOWN")
            ~> (\/ handler[n] = "done" /\ receiver[n] = "done" /\ n \notin engines
                \/ link[n] # "up")

=============================================================================
