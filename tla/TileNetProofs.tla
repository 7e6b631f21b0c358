--------------------------- MODULE TileNetProofs ---------------------------
(***************************************************************************)
(* Three facts about tile distribution, for any number of nodes, processes *)
(* and tiles, any size and buffer, and any fate of the connections: the    *)
(* emergency hook never finds an arena that is gone, an answer is never    *)
(* taken for another tile's, and the answers are put together to what the  *)
(* graph was cut from.                                                     *)
(***************************************************************************)
EXTENDS TileNet, SequenceTheorems, FiniteSetTheorems, Recursion, TLAPS

\* Where a handler holds an engine, and where the global pointer may still
\* name it.
Holding == {"tag", "payload", "drop", "free"}
Named == {"tag", "payload", "drop"}

(***************************************************************************)
(* A handler has an engine from its creation to the end of its drop, and   *)
(* the pointer of a process names a handler of that process, which has not *)
(* begun to drop its engine.                                               *)
(***************************************************************************)
HookInv ==
    /\ handler \in [Nodes -> {"backlog", "done"} \cup Holding]
    /\ phase = "start" => \A n \in Nodes : handler[n] = "done"
    /\ engines = {n \in Nodes : handler[n] \in Holding}
    /\ active \in [Process -> Nodes \cup {NoEngine}]
    /\ \A p \in Process : active[p] # NoEngine =>
          ProcessOf[active[p]] = p /\ handler[active[p]] \in Named

LEMMA InitHookInv == Init => HookInv
BY DEF Init, EngineInit, HookInv, Holding

\* Steps that leave the handlers alone.
LEMMA OthersHookInv ==
    ASSUME HookInv, UNCHANGED <<handler, engines, active>>, phase' = "start" => phase = "start"
    PROVE  HookInv'
BY DEF HookInv

LEMMA ConnectHookInv ==
    ASSUME HookInv, Connect
    PROVE  HookInv'
<1>1. PICK ok \in SUBSET Nodes :
         handler' = [n \in Nodes |-> IF n \in ok THEN "backlog" ELSE handler[n]]
  BY DEF Connect
<1>2. phase = "start" /\ phase' = "ready" /\ engines' = engines /\ active' = active
  BY DEF Connect, engineVars
<1>3. \A n \in Nodes : handler[n] = "done" /\ handler'[n] \in {"backlog", "done"}
  BY <1>1, <1>2 DEF HookInv
<1> QED
  BY <1>1, <1>2, <1>3 DEF HookInv, Holding, Named

LEMMA HandlerHookInv ==
    ASSUME TileNetAssumption, EngineAssumption, HookInv, NEW n \in Nodes, Handler(n)
    PROVE  HookInv'
<1>1. /\ phase' = phase /\ phase # "start"
      /\ handler[n] \in {"backlog"} \cup Holding
      /\ ProcessOf[n] \in Process /\ n # NoEngine
  BY DEF Handler, Accept, ReadTag, ProcessTile, HandlerEnds, HandlerDrops, HandlerFrees,
         coordVars, HookInv, Holding, TileNetAssumption, EngineAssumption
<1>2. CASE Accept(n)
  BY <1>1, <1>2 DEF Accept, Create, HookInv, Holding, Named
<1>3. CASE ReadTag(n) \/ ProcessTile(n) \/ HandlerEnds(n)
  <2>1. /\ engines' = engines /\ active' = active
        /\ handler[n] \in Named
        /\ \E h \in Named : handler' = [handler EXCEPT ![n] = h]
    BY <1>3 DEF ReadTag, ProcessTile, HandlerEnds, engineVars, Named
  <2> QED
    BY <1>1, <2>1 DEF HookInv, Holding, Named
<1>4. CASE HandlerDrops(n)
  BY <1>1, <1>4 DEF HandlerDrops, Deactivate, HookInv, Holding, Named
<1>5. CASE HandlerFrees(n)
  BY <1>1, <1>5 DEF HandlerFrees, Free, HookInv, Holding, Named
<1> QED
  BY <1>2, <1>3, <1>4, <1>5 DEF Handler

LEMMA NextHookInv ==
    ASSUME TileNetAssumption, EngineAssumption, HookInv, [Next]_vars
    PROVE  HookInv'
<1>1. CASE Connect
  BY <1>1, ConnectHookInv
<1>2. CASE \E n \in Nodes : Handler(n)
  BY <1>2, HandlerHookInv
<1>3. CASE Decompose \/ InCall \/ CollectDone \/ NextCall \/ Drop
  <2>1. UNCHANGED <<handler, engines, active>> /\ phase' # "start"
    BY <1>3 DEF Decompose, InCall, CollectDone, NextCall, Drop, DispatchTile, DispatchDone,
       Poll, Reassemble, ClearAlive, PushShutdown, Closed, connVars, workerVars, engineVars
  <2> QED
    BY <2>1, OthersHookInv
<1>4. CASE \E n \in Nodes : Sender(n) \/ Receiver(n) \/ Reset(n)
  <2>1. UNCHANGED <<handler, engines, active>> /\ phase' = phase
    BY <1>4 DEF Sender, Receiver, Reset, SenderIdle, SenderWrite, ReceiverCheck,
       ReceiverAnswer, ReceiverEnd, coordVars, workerVars, engineVars
  <2> QED
    BY <2>1, OthersHookInv
<1>5. CASE UNCHANGED vars
  <2>1. UNCHANGED <<handler, engines, active, phase>>
    BY <1>5 DEF vars, coordVars, connVars, workerVars, engineVars
  <2> QED
    BY <2>1, OthersHookInv
<1> QED
  BY <1>1, <1>2, <1>3, <1>4, <1>5 DEF Next, Coordinator

\* Whichever handlers create and drop engines in between, g_active_engine is null
\* or names an engine whose arena is allocated (main.zig, nt_engine_destroy
\* clears the pointer first).
THEOREM ActivePointerNamesAnEngine == Spec => []ActiveEngineAllocated
<1>1. HookInv => ActiveEngineAllocated
  <2> SUFFICES ASSUME HookInv, NEW p \in Process, active[p] # NoEngine
               PROVE  active[p] \in engines
    BY DEF ActiveEngineAllocated
  <2>1. active[p] \in Nodes /\ handler[active[p]] \in Named
    BY DEF HookInv
  <2> QED
    BY <2>1 DEF HookInv, Holding, Named
<1>2. Init => HookInv
  BY InitHookInv
<1>3. HookInv /\ [Next]_vars => HookInv'
  BY NextHookInv, TileNetAssumption, EngineAssumption
<1> QED
  BY <1>1, <1>2, <1>3, PTL DEF Spec

-----------------------------------------------------------------------------
(* Sequences of message parts. *)

LEMMA SeqWidens ==
    ASSUME NEW S, NEW T, S \subseteq T
    PROVE  Seq(S) \subseteq Seq(T)
<1> SUFFICES ASSUME NEW s \in Seq(S) PROVE s \in Seq(T)
  OBVIOUS
<1>1. \A k \in 1..Len(s) : s[k] \in T
  OBVIOUS
<1> QED
  BY <1>1

Regrouped(x, y, z) == (x \o y) \o z = x \o (y \o z)

LEMMA Regroup ==
    ASSUME NEW P, NEW x \in Seq(P), NEW y \in Seq(P), NEW z \in Seq(P)
    PROVE  Regrouped(x, y, z)
BY ConcatAssociative, SMTT(60) DEF Regrouped

\* The tag of a request is followed by the rest of it.
Framed(s) ==
    \A k \in 1..Len(s) :
        s[k].tag = "TILE_REQ" => k < Len(s) /\ s[k + 1].tag = "payload"

\* What is left of a request whose tag was read.
Begun(s) == Len(s) > 0 /\ s[1].tag = "payload"

LEMMA RequestFramed ==
    ASSUME NEW P, NEW s \in Seq(P), NEW t, Framed(s),
           Request(t)[1] \in P, Request(t)[2] \in P
    PROVE  /\ Request(t) \in Seq(P)
           /\ Framed(s \o Request(t))
           /\ Begun(s) => Begun(s \o Request(t))
<1> DEFINE q == Request(t)
           u == s \o q
<1>1. /\ q \in Seq(P) /\ Len(q) = 2
      /\ q[1].tag = "TILE_REQ" /\ q[2].tag = "payload"
  BY DEF Request
<1> HIDE DEF q
<1>2. Len(s) \in Nat
  OBVIOUS
<1>3. /\ Len(u) = Len(s) + Len(q)
      /\ \A k \in 1..Len(s) + Len(q) : u[k] = IF k <= Len(s) THEN s[k] ELSE q[k - Len(s)]
  <2>1. q \in Seq(P)
    BY <1>1
  <2> QED
    BY <2>1, ConcatProperties
<1>4. /\ Len(u) = Len(s) + 2
      /\ \A k \in 1..Len(s) : u[k] = s[k]
      /\ u[Len(s) + 1] = q[1] /\ u[Len(s) + 2] = q[2]
  <2> HIDE DEF u
  <2> QED
    BY <1>1, <1>2, <1>3
<1> HIDE DEF u
<1>5. Framed(u)
  <2> SUFFICES ASSUME NEW k \in 1..(Len(s) + 2), u[k].tag = "TILE_REQ"
               PROVE  k < Len(s) + 2 /\ u[k + 1].tag = "payload"
    BY <1>4 DEF Framed
  <2>1. CASE k \in 1..Len(s)
    <3>1. k < Len(s) /\ s[k + 1].tag = "payload"
      BY <1>4, <2>1 DEF Framed
    <3> QED
      BY <1>2, <1>4, <2>1, <3>1
  <2>2. CASE k = Len(s) + 1
    BY <1>1, <1>2, <1>4, <2>2
  <2>3. CASE k = Len(s) + 2
    BY <1>1, <1>2, <1>4, <2>3
  <2> QED
    BY <1>2, <2>1, <2>2, <2>3
<1>6. Begun(s) => Begun(u)
  BY <1>2, <1>4 DEF Begun
<1> QED
  BY <1>1, <1>5, <1>6 DEF q, u

LEMMA ShutdownFramed ==
    ASSUME NEW P, NEW s \in Seq(P), NEW p \in P, p.tag = "SHUTDOWN", Framed(s)
    PROVE  /\ Framed(Append(s, p))
           /\ Begun(s) => Begun(Append(s, p))
BY DEF Framed, Begun

LEMMA TailFramed ==
    ASSUME NEW P, NEW s \in Seq(P), Framed(s), s # <<>>
    PROVE  /\ Framed(Tail(s))
           /\ s[1].tag = "TILE_REQ" => Begun(Tail(s))
<1>1. /\ Tail(s) \in Seq(P) /\ Len(s) > 0 /\ Len(Tail(s)) = Len(s) - 1
      /\ \A k \in 1..(Len(s) - 1) : Tail(s)[k] = s[k + 1]
  OBVIOUS
<1>2. Framed(Tail(s))
  BY <1>1 DEF Framed
<1> QED
  BY <1>1, <1>2 DEF Framed, Begun

\* Parts move from the ring to the wire, and behind those that are there.
Chunked(P, q, r, k) ==
    /\ SubSeq(r, 1, k) \in Seq(P) /\ SubSeq(r, k + 1, Len(r)) \in Seq(P)
    /\ (q \o SubSeq(r, 1, k)) \o SubSeq(r, k + 1, Len(r)) = q \o r

\* So they do, wherever the chunk ends.
LEMMA ChunkMoves ==
    ASSUME NEW P, NEW q \in Seq(P), NEW r \in Seq(P), NEW k \in 1..Len(r)
    PROVE  Chunked(P, q, r, k)
<1> DEFINE a == SubSeq(r, 1, k)
           b == SubSeq(r, k + 1, Len(r))
<1>1. a \in Seq(P) /\ b \in Seq(P)
  <2>1. Len(r) \in Int /\ k \in Int /\ k + 1 \in Int
    OBVIOUS
  <2>2. \A j \in 1..Len(r) : r[j] \in P
    OBVIOUS
  <2>3. (\A j \in 1..k : r[j] \in P) /\ (\A j \in (k + 1)..Len(r) : r[j] \in P)
    BY <2>2
  <2>4. SubSeq(r, 1, k) \in Seq(P)
    BY <2>1, <2>3, SubSeqProperties
  <2>5. SubSeq(r, k + 1, Len(r)) \in Seq(P)
    BY <2>1, <2>3, SubSeqProperties
  <2> QED
    BY <2>4, <2>5
<1>2. a \o b = SubSeq(r, 1, Len(r))
  BY ConcatAdjacentSubSeq
<1>3. SubSeq(r, 1, Len(r)) = r
  BY SubSeqFull
<1>4. (q \o a) \o b = q \o r
  <2> HIDE DEF a, b
  <2>1. Regrouped(q, a, b)
    BY <1>1, Regroup, Zenon
  <2>2. (q \o a) \o b = q \o (a \o b)
    BY <2>1, Zenon DEF Regrouped
  <2> QED
    BY <1>2, <1>3, <2>2 DEF a, b
<1> QED
  BY <1>1, <1>4, Zenon DEF Chunked

(***************************************************************************)
(* An answer fits a tile id if the id was handed out and the tile of that  *)
(* id, if the call that runs has one, would be answered so.  A part is     *)
(* true if its tile would be answered so.                                  *)
(***************************************************************************)
Fitting(id, data) ==
    /\ id \in Nat /\ id < nextId
    /\ \A i \in 1..Len(tiles) : tiles[i].id = id => data = Echo(tiles[i])

TruePart(p) == p.tag = "payload" => Fitting(p.tile.id, Echo(p.tile))

\* Everything on the way, in either direction, is true.
Carried(P, A) ==
    /\ \A p \in P : TruePart(p)
    /\ \A a \in A : Fitting(a.id, a.data)
    /\ ring \in [Nodes -> Seq(P)] /\ toWorker \in [Nodes -> Seq(P)]
    /\ toCoord \in [Nodes -> Seq(A)]

\* The ids of the tiles are theirs alone.
IdInv ==
    /\ nextId \in Nat /\ next \in Nat \ {0} /\ Len(tiles) \in Nat
    /\ \A i \in 1..Len(tiles) : tiles[i].id \in Nat /\ tiles[i].id < nextId
    /\ \A i, j \in 1..Len(tiles) : tiles[i].id = tiles[j].id => i = j

\* So is everything that has arrived.
FiledInv ==
    /\ results = [n \in Nodes |-> results[n]]
    /\ \A n \in Nodes : \A id \in DOMAIN results[n] : Fitting(id, results[n][id])
    /\ \A id \in DOMAIN collected : Fitting(id, collected[id])

(***************************************************************************)
(* A handler takes for a tile only what follows the tag of a request, and  *)
(* nothing but a request has one: a chunk or the end of the layer does not *)
(* come between the two parts.                                             *)
(***************************************************************************)
FrameInv ==
    /\ link \in [Nodes -> {"up", "reset"}]
    /\ phase = "start" => \A n \in Nodes : ring[n] = <<>> /\ toWorker[n] = <<>>
    /\ \A n \in Nodes :
          IF link[n] = "up"
          THEN /\ Framed(toWorker[n] \o ring[n])
               /\ handler[n] = "payload" => Begun(toWorker[n] \o ring[n])
          ELSE toWorker[n] = <<>>

AnswerInv ==
    /\ HookInv /\ IdInv /\ FiledInv /\ FrameInv
    /\ \E P, A : Carried(P, A)

LEMMA FittingStays ==
    ASSUME UNCHANGED <<tiles, nextId>>
    PROVE  \A id, data : Fitting(id, data) => Fitting(id, data)'
BY DEF Fitting

LEMMA CarriedStays ==
    ASSUME NEW P, NEW A, Carried(P, A), UNCHANGED <<ring, toWorker, toCoord>>,
           \A id, data : Fitting(id, data) => Fitting(id, data)'
    PROVE  Carried(P, A)'
<1>1. \A p \in P : TruePart(p)'
  BY DEF Carried, TruePart
<1>2. \A a \in A : Fitting(a.id, a.data)'
  BY DEF Carried
<1> QED
  BY <1>1, <1>2 DEF Carried

LEMMA FiledStays ==
    ASSUME FiledInv, UNCHANGED <<results, collected>>,
           \A id, data : Fitting(id, data) => Fitting(id, data)'
    PROVE  FiledInv'
BY DEF FiledInv

LEMMA InitAnswerInv == TileNetAssumption /\ Init => AnswerInv
<1> SUFFICES ASSUME TileNetAssumption, Init PROVE AnswerInv
  OBVIOUS
<1>1. HookInv
  BY InitHookInv
<1>2. IdInv
  BY DEF Init, IdInv
<1>3. FiledInv
  BY DEF Init, FiledInv, NoAnswers
<1>4. FrameInv
  BY DEF Init, FrameInv
<1>5. Carried({}, {})
  BY DEF Init, Carried
<1> QED
  BY <1>1, <1>2, <1>3, <1>4, <1>5 DEF AnswerInv

\* Steps that move no part and no answer, and start no request.
LEMMA QuietAnswerInv ==
    ASSUME AnswerInv, HookInv',
           UNCHANGED <<tiles, nextId, next, collected, ring, results, link,
                       toWorker, toCoord>>,
           phase' = "start" => phase = "start",
           \A n \in Nodes : handler'[n] = "payload" => handler[n] = "payload"
    PROVE  AnswerInv'
<1>1. \A id, data : Fitting(id, data) => Fitting(id, data)'
  BY FittingStays
<1>2. IdInv'
  BY DEF AnswerInv, IdInv
<1>3. FiledInv'
  BY <1>1, FiledStays DEF AnswerInv
<1>4. FrameInv'
  BY DEF AnswerInv, FrameInv
<1>5. PICK P, A : Carried(P, A)
  BY DEF AnswerInv
<1>6. Carried(P, A)'
  BY <1>1, <1>5, CarriedStays
<1> QED
  BY <1>2, <1>3, <1>4, <1>6 DEF AnswerInv

LEMMA ConnectAnswerInv ==
    ASSUME AnswerInv, HookInv', Connect
    PROVE  AnswerInv'
<1>1. PICK ok \in SUBSET Nodes :
         /\ link' = [n \in Nodes |-> IF n \in ok THEN "up" ELSE link[n]]
         /\ handler' = [n \in Nodes |-> IF n \in ok THEN "backlog" ELSE handler[n]]
  BY DEF Connect
<1>2. /\ phase = "start" /\ phase' = "ready"
      /\ UNCHANGED <<tiles, nextId, next, collected, ring, results, toWorker, toCoord>>
  BY DEF Connect, callVars, cutVars
<1>3. \A id, data : Fitting(id, data) => Fitting(id, data)'
  BY <1>2, FittingStays
<1>4. IdInv'
  BY <1>2 DEF AnswerInv, IdInv
<1>5. FiledInv'
  BY <1>2, <1>3, FiledStays DEF AnswerInv
<1>6. FrameInv'
  <2>1. \A n \in Nodes : /\ ring'[n] = <<>> /\ toWorker'[n] = <<>>
                         /\ handler'[n] # "payload"
    BY <1>1, <1>2 DEF AnswerInv, FrameInv, HookInv
  <2>2. Framed(<<>> \o <<>>)
    BY DEF Framed
  <2>3. link' \in [Nodes -> {"up", "reset"}]
    BY <1>1 DEF AnswerInv, FrameInv
  <2> QED
    BY <1>2, <2>1, <2>2, <2>3 DEF FrameInv
<1>7. PICK P, A : Carried(P, A)
  BY DEF AnswerInv
<1>8. Carried(P, A)'
  BY <1>2, <1>3, <1>7, CarriedStays
<1> QED
  BY <1>4, <1>5, <1>6, <1>8 DEF AnswerInv

\* The ids of the tiles of a call go on where those of the last call ended.
LEMMA TileIds ==
    ASSUME NEW r, NEW s, NEW parts \in Nat, NEW first \in Nat
    PROVE  /\ Len(TilesOf(r, s, parts, first)) = parts
           /\ \A i \in 1..parts : TilesOf(r, s, parts, first)[i].id = first + i - 1
BY DEF TilesOf

LEMMA DecomposeAnswerInv ==
    ASSUME TileNetAssumption, AnswerInv, HookInv', Decompose
    PROVE  AnswerInv'
<1>1. PICK s \in Sizes, n \in 1..NumNodes :
         /\ tiles' = TilesOf(rounds + 1, s, Smaller(n + 1, s), nextId)
         /\ nextId' = nextId + Smaller(n + 1, s)
  BY DEF Decompose
<1>2. /\ phase' # "start" /\ next' = 2
      /\ UNCHANGED <<collected, ring, results, link, toWorker, toCoord, handler>>
  BY DEF Decompose, connVars, wireVars, workerVars
<1>3. Smaller(n + 1, s) \in Nat /\ nextId \in Nat
  BY DEF TileNetAssumption, Smaller, AnswerInv, IdInv
<1>4. /\ Len(tiles') = Smaller(n + 1, s)
      /\ \A i \in 1..Len(tiles') : tiles'[i].id = nextId + i - 1
  BY <1>1, <1>3, TileIds
<1>5. \A id, data : Fitting(id, data) => Fitting(id, data)'
  BY <1>1, <1>3, <1>4 DEF Fitting
<1>6. IdInv'
  BY <1>1, <1>2, <1>3, <1>4 DEF IdInv
<1>7. FiledInv'
  BY <1>2, <1>5, FiledStays DEF AnswerInv
<1>8. FrameInv'
  BY <1>2 DEF AnswerInv, FrameInv
<1>9. PICK P, A : Carried(P, A)
  BY DEF AnswerInv
<1>10. Carried(P, A)'
  BY <1>2, <1>5, <1>9, CarriedStays
<1> QED
  BY <1>6, <1>7, <1>8, <1>10 DEF AnswerInv

LEMMA NextCallAnswerInv ==
    ASSUME AnswerInv, HookInv', NextCall
    PROVE  AnswerInv'
<1>1. /\ phase' = "ready" /\ tiles' = <<>> /\ collected' = NoAnswers
      /\ UNCHANGED <<nextId, next, ring, results, link, toWorker, toCoord, handler>>
  BY DEF NextCall, connVars, wireVars, workerVars
<1>2. \A id, data : Fitting(id, data) => Fitting(id, data)'
  BY <1>1 DEF Fitting
<1>3. IdInv'
  BY <1>1 DEF AnswerInv, IdInv
<1>4. FiledInv'
  BY <1>1, <1>2 DEF AnswerInv, FiledInv, NoAnswers
<1>5. FrameInv'
  BY <1>1 DEF AnswerInv, FrameInv
<1>6. PICK P, A : Carried(P, A)
  BY DEF AnswerInv
<1>7. Carried(P, A)'
  BY <1>1, <1>2, <1>6, CarriedStays
<1> QED
  BY <1>3, <1>4, <1>5, <1>7 DEF AnswerInv

LEMMA PollAnswerInv ==
    ASSUME AnswerInv, HookInv', NEW n \in Nodes, NEW id, Poll(n, id)
    PROVE  AnswerInv'
<1>1. /\ phase' = phase
      /\ UNCHANGED <<tiles, nextId, next, ring, link, toWorker, toCoord, handler>>
  BY DEF Poll, cutVars, wireVars, workerVars
<1>2. /\ id \in DOMAIN results[n]
      /\ collected' = Insert(collected, [id |-> id, data |-> results[n][id]])
      /\ results' = [results EXCEPT ![n] = Remove(@, id)]
  BY DEF Poll
<1>3. \A i, data : Fitting(i, data) => Fitting(i, data)'
  BY <1>1, FittingStays
<1>4. FiledInv'
  <2>1. Fitting(id, results[n][id])
    BY <1>2 DEF AnswerInv, FiledInv
  <2>2. ASSUME NEW i \in DOMAIN collected'
        PROVE  Fitting(i, collected[i])'
    <3>1. \/ i = id /\ collected'[i] = results[n][id]
          \/ i \in DOMAIN collected /\ collected'[i] = collected[i]
      BY <1>2 DEF Insert
    <3>2. \A k \in DOMAIN collected : Fitting(k, collected[k])
      BY DEF AnswerInv, FiledInv
    <3>3. Fitting(i, collected'[i])
      BY <2>1, <3>1, <3>2
    <3> QED
      BY <1>1, <3>3 DEF Fitting
  <2>3. results' = [m \in Nodes |-> results'[m]]
    BY <1>2 DEF AnswerInv, FiledInv
  <2>4. ASSUME NEW m \in Nodes, NEW i \in DOMAIN results'[m]
        PROVE  Fitting(i, results[m][i])'
    <3>1. results'[m] = results[m] \/ results'[m] = Remove(results[m], id)
      BY <1>2 DEF AnswerInv, FiledInv
    <3>2. i \in DOMAIN results[m] /\ results'[m][i] = results[m][i]
      BY <3>1 DEF Remove
    <3>3. Fitting(i, results'[m][i])
      BY <3>2 DEF AnswerInv, FiledInv
    <3> QED
      BY <1>1, <3>3 DEF Fitting
  <2> QED
    BY <2>2, <2>3, <2>4 DEF FiledInv
<1>5. IdInv'
  BY <1>1 DEF AnswerInv, IdInv
<1>6. FrameInv'
  BY <1>1 DEF AnswerInv, FrameInv
<1>7. PICK P, A : Carried(P, A)
  BY DEF AnswerInv
<1>8. Carried(P, A)'
  BY <1>1, <1>3, <1>7, CarriedStays
<1> QED
  BY <1>4, <1>5, <1>6, <1>8 DEF AnswerInv

LEMMA DispatchTileAnswerInv ==
    ASSUME AnswerInv, HookInv', DispatchTile
    PROVE  AnswerInv'
<1> DEFINE w == WorkerOf(next)
           t == tiles[next]
           q == Request(t)
<1>1. /\ phase' = phase /\ phase # "start" /\ next' = next + 1 /\ next <= Len(tiles)
      /\ UNCHANGED <<tiles, nextId, collected, results, link, toWorker, toCoord, handler>>
      /\ ring' = [ring EXCEPT ![w] = @ \o q] \/ ring' = ring
  BY DEF DispatchTile, cutVars, wireVars, workerVars
<1> HIDE DEF w
<1>2. \A id, data : Fitting(id, data) => Fitting(id, data)'
  BY <1>1, FittingStays
<1>3. IdInv'
  BY <1>1 DEF AnswerInv, IdInv
<1>4. FiledInv'
  BY <1>1, <1>2, FiledStays DEF AnswerInv
<1>5. PICK P, A : Carried(P, A)
  BY DEF AnswerInv
<1>6. next \in 1..Len(tiles) /\ Fitting(t.id, Echo(t))
  BY <1>1 DEF AnswerInv, IdInv, Fitting
<1>7. PICK Q : Q = P \cup {q[1], q[2]}
  OBVIOUS
<1>8. /\ q \in Seq(Q) /\ Seq(P) \subseteq Seq(Q)
      /\ \A p \in Q : TruePart(p)
  <2>1. \A p \in Q : TruePart(p)
    BY <1>5, <1>6, <1>7 DEF Carried, TruePart, Request
  <2>2. q \in Seq(Q)
    BY <1>7 DEF Request
  <2>3. Seq(P) \subseteq Seq(Q)
    BY <1>7, SeqWidens
  <2> QED
    BY <2>1, <2>2, <2>3
<1> HIDE DEF t, q
<1>9. CASE ring' = ring
  <2>1. FrameInv'
    BY <1>1, <1>9 DEF AnswerInv, FrameInv
  <2>2. Carried(P, A)'
    BY <1>1, <1>2, <1>5, <1>9, CarriedStays
  <2> QED
    BY <1>3, <1>4, <2>1, <2>2 DEF AnswerInv
<1>10. CASE ring' = [ring EXCEPT ![w] = @ \o q]
  <2>1. Carried(Q, A)'
    <3>1. ring \in [Nodes -> Seq(Q)] /\ toWorker \in [Nodes -> Seq(Q)]
      BY <1>5, <1>8 DEF Carried
    <3>2. \A s \in Seq(Q) : s \o q \in Seq(Q)
      BY <1>8
    <3>3. ring' \in [Nodes -> Seq(Q)]
      BY <1>10, <3>1, <3>2
    <3>4. \A p \in Q : TruePart(p)'
      BY <1>2, <1>8 DEF TruePart
    <3>5. \A a \in A : Fitting(a.id, a.data)'
      BY <1>2, <1>5 DEF Carried
    <3>6. toWorker' \in [Nodes -> Seq(Q)] /\ toCoord' \in [Nodes -> Seq(A)]
      BY <1>1, <1>5, <3>1 DEF Carried
    <3> QED
      BY <3>3, <3>4, <3>5, <3>6 DEF Carried
  <2>2. FrameInv'
    <3> SUFFICES ASSUME NEW n \in Nodes, link[n] = "up"
                 PROVE  /\ Framed(toWorker[n] \o ring'[n])
                        /\ handler[n] = "payload" => Begun(toWorker[n] \o ring'[n])
      BY <1>1 DEF AnswerInv, FrameInv
    <3>1. /\ Framed(toWorker[n] \o ring[n])
          /\ handler[n] = "payload" => Begun(toWorker[n] \o ring[n])
      BY DEF AnswerInv, FrameInv
    <3>2. CASE n # w
      BY <1>5, <1>10, <3>1, <3>2 DEF AnswerInv, FrameInv, Carried
    <3>3. CASE n = w
      <4>1. toWorker[n] \in Seq(Q) /\ ring[n] \in Seq(Q)
        BY <1>5, <1>8 DEF Carried
      <4>2. ring'[n] = ring[n] \o q
        BY <1>5, <1>10, <3>3 DEF Carried
      <4>3. toWorker[n] \o ring'[n] = (toWorker[n] \o ring[n]) \o q
        <5>1. Regrouped(toWorker[n], ring[n], q)
          BY <1>8, <4>1, Regroup, Zenon
        <5> QED
          BY <4>2, <5>1 DEF Regrouped
      <4>4. toWorker[n] \o ring[n] \in Seq(Q)
        BY <4>1
      <4>5. q[1] \in Q /\ q[2] \in Q
        BY <1>7
      <4>6. /\ Framed((toWorker[n] \o ring[n]) \o q)
            /\ Begun(toWorker[n] \o ring[n]) => Begun((toWorker[n] \o ring[n]) \o q)
        BY <3>1, <4>4, <4>5, RequestFramed DEF q
      <4> QED
        BY <3>1, <4>3, <4>6
    <3> QED
      BY <3>2, <3>3
  <2> QED
    BY <1>3, <1>4, <2>1, <2>2 DEF AnswerInv
<1> QED
  BY <1>1, <1>9, <1>10

LEMMA PushShutdownAnswerInv ==
    ASSUME AnswerInv, HookInv', NEW w \in Nodes, PushShutdown(w)
    PROVE  AnswerInv'
<1> DEFINE p == [tag |-> "SHUTDOWN"]
<1>1. /\ phase' = "closing"
      /\ UNCHANGED <<tiles, nextId, next, collected, results, link, toWorker, toCoord, handler>>
      /\ ring' = [ring EXCEPT ![w] = Append(@, p)] \/ ring' = [ring EXCEPT ![w] = @]
  BY DEF PushShutdown, callVars, cutVars, wireVars, workerVars
<1>2. \A id, data : Fitting(id, data) => Fitting(id, data)'
  BY <1>1, FittingStays
<1>3. IdInv'
  BY <1>1 DEF AnswerInv, IdInv
<1>4. FiledInv'
  BY <1>1, <1>2, FiledStays DEF AnswerInv
<1>5. PICK P, A : Carried(P, A)
  BY DEF AnswerInv
<1>6. PICK Q : Q = P \cup {p}
  OBVIOUS
<1>7. /\ Seq(P) \subseteq Seq(Q) /\ p \in Q /\ p.tag = "SHUTDOWN"
      /\ \A x \in Q : TruePart(x)
  <2>1. \A x \in Q : TruePart(x)
    BY <1>5, <1>6 DEF Carried, TruePart
  <2>2. Seq(P) \subseteq Seq(Q)
    BY <1>6, SeqWidens
  <2> QED
    BY <1>6, <2>1, <2>2
<1> HIDE DEF p
<1>8. ring \in [Nodes -> Seq(Q)] /\ toWorker \in [Nodes -> Seq(Q)]
  BY <1>5, <1>7 DEF Carried
<1>9. Carried(Q, A)'
  <2>1. ring' \in [Nodes -> Seq(Q)]
    <3>1. \A x \in Seq(Q) : Append(x, p) \in Seq(Q)
      BY <1>7
    <3> QED
      BY <1>1, <1>8, <3>1
  <2>2. \A x \in Q : TruePart(x)'
    BY <1>2, <1>7 DEF TruePart
  <2>3. \A a \in A : Fitting(a.id, a.data)'
    BY <1>2, <1>5 DEF Carried
  <2>4. toWorker' \in [Nodes -> Seq(Q)] /\ toCoord' \in [Nodes -> Seq(A)]
    BY <1>1, <1>5, <1>8 DEF Carried
  <2> QED
    BY <2>1, <2>2, <2>3, <2>4 DEF Carried
<1>10. FrameInv'
  <2> SUFFICES ASSUME NEW n \in Nodes, link[n] = "up"
               PROVE  /\ Framed(toWorker[n] \o ring'[n])
                      /\ handler[n] = "payload" => Begun(toWorker[n] \o ring'[n])
    BY <1>1 DEF AnswerInv, FrameInv
  <2>1. /\ Framed(toWorker[n] \o ring[n])
        /\ handler[n] = "payload" => Begun(toWorker[n] \o ring[n])
    BY DEF AnswerInv, FrameInv
  <2>2. CASE ring'[n] = ring[n]
    BY <2>1, <2>2
  <2>3. CASE ring'[n] = Append(ring[n], p)
    <3>1. PICK x, y \in Seq(Q) : x = toWorker[n] /\ y = ring[n]
      BY <1>8
    <3>2. /\ x \o y \in Seq(Q)
          /\ x \o Append(y, p) = Append(x \o y, p)
      <4>1. PICK z \in Q : z = p
        BY <1>7
      <4>2. x \o Append(y, z) = Append(x \o y, z)
        BY ONLY x \in Seq(Q), y \in Seq(Q), z \in Q
      <4> QED
        BY <3>1, <4>1, <4>2
    <3>3. /\ Framed(Append(x \o y, p))
          /\ Begun(x \o y) => Begun(Append(x \o y, p))
      BY <1>7, <2>1, <3>1, <3>2, ShutdownFramed
    <3> QED
      BY <2>1, <2>3, <3>1, <3>2, <3>3
  <2> QED
    BY <1>1, <1>8, <2>2, <2>3
<1> QED
  BY <1>3, <1>4, <1>9, <1>10 DEF AnswerInv

LEMMA SenderWriteAnswerInv ==
    ASSUME AnswerInv, HookInv', NEW w \in Nodes, SenderWrite(w)
    PROVE  AnswerInv'
<1>1. /\ phase' = phase
      /\ UNCHANGED <<tiles, nextId, next, collected, results, link, toCoord, handler>>
  BY DEF SenderWrite, coordVars, callVars, cutVars, workerVars
<1>2. PICK k \in 1..Len(ring[w]) :
         /\ ring' = [ring EXCEPT ![w] = SubSeq(@, k + 1, Len(@))]
         /\ toWorker' = [toWorker EXCEPT ![w] =
                            IF link[w] = "up" THEN @ \o SubSeq(ring[w], 1, k) ELSE @]
  BY DEF SenderWrite
<1>3. \A id, data : Fitting(id, data) => Fitting(id, data)'
  BY <1>1, FittingStays
<1>4. IdInv'
  BY <1>1 DEF AnswerInv, IdInv
<1>5. FiledInv'
  BY <1>1, <1>3, FiledStays DEF AnswerInv
<1>6. PICK P, A : Carried(P, A)
  BY DEF AnswerInv
<1>7. ring \in [Nodes -> Seq(P)] /\ toWorker \in [Nodes -> Seq(P)]
  BY <1>6 DEF Carried
<1>8. PICK q, r \in Seq(P) : q = toWorker[w] /\ r = ring[w]
  BY <1>7
<1>9. PICK a, b \in Seq(P) : /\ a = SubSeq(r, 1, k) /\ b = SubSeq(r, k + 1, Len(r))
                             /\ q \o a \in Seq(P) /\ (q \o a) \o b = q \o r
  <2>1. k \in 1..Len(r)
    BY <1>8
  <2>2. Chunked(P, q, r, k)
    BY <2>1, ChunkMoves, Zenon
  <2>3. \A x \in Seq(P) : q \o x \in Seq(P)
    OBVIOUS
  <2> QED
    BY <2>2, <2>3, Zenon DEF Chunked
<1>10. /\ ring' = [ring EXCEPT ![w] = b]
       /\ toWorker' = [toWorker EXCEPT ![w] = IF link[w] = "up" THEN q \o a ELSE q]
  BY <1>2, <1>7, <1>8, <1>9
<1>11. Carried(P, A)'
  <2>1. ring' \in [Nodes -> Seq(P)]
    BY <1>7, <1>9, <1>10
  <2>2. toWorker' \in [Nodes -> Seq(P)]
    BY <1>7, <1>9, <1>10
  <2>3. \A x \in P : TruePart(x)'
    BY <1>3, <1>6 DEF Carried, TruePart
  <2>4. \A x \in A : Fitting(x.id, x.data)'
    BY <1>3, <1>6 DEF Carried
  <2>5. toCoord' \in [Nodes -> Seq(A)]
    BY <1>1, <1>6 DEF Carried
  <2> QED
    BY <2>1, <2>2, <2>3, <2>4, <2>5 DEF Carried
<1>12. FrameInv'
  <2>1. \A n \in Nodes : link[n] = "up" => toWorker'[n] \o ring'[n] = toWorker[n] \o ring[n]
    BY <1>7, <1>8, <1>9, <1>10
  <2>2. \A n \in Nodes : link[n] # "up" => toWorker'[n] = toWorker[n]
    BY <1>7, <1>8, <1>10
  <2>3. phase # "start"
    <3>1. Len(ring[w]) # 0
      BY <1>7, <1>2
    <3> QED
      BY <3>1 DEF AnswerInv, FrameInv
  <2> QED
    BY <1>1, <2>1, <2>2, <2>3 DEF AnswerInv, FrameInv
<1> QED
  BY <1>4, <1>5, <1>11, <1>12 DEF AnswerInv

LEMMA ReceiverAnswerAnswerInv ==
    ASSUME AnswerInv, HookInv', NEW w \in Nodes, ReceiverAnswer(w)
    PROVE  AnswerInv'
<1>1. /\ phase' = phase /\ toCoord[w] # <<>>
      /\ UNCHANGED <<tiles, nextId, next, collected, ring, link, toWorker, handler>>
      /\ results' = [results EXCEPT ![w] = Insert(@, Head(toCoord[w]))]
      /\ toCoord' = [toCoord EXCEPT ![w] = Tail(@)]
  BY DEF ReceiverAnswer, coordVars, callVars, cutVars, workerVars
<1>2. \A id, data : Fitting(id, data) => Fitting(id, data)'
  BY <1>1, FittingStays
<1>3. IdInv'
  BY <1>1 DEF AnswerInv, IdInv
<1>4. FrameInv'
  BY <1>1 DEF AnswerInv, FrameInv
<1>5. PICK P, A : Carried(P, A)
  BY DEF AnswerInv
<1>6. PICK a \in A : a = Head(toCoord[w])
  BY <1>1, <1>5 DEF Carried
<1>7. FiledInv'
  <2>1. ASSUME NEW n \in Nodes, NEW i \in DOMAIN results'[n]
        PROVE  Fitting(i, results[n][i])'
    <3>1. results'[n] = results[n] \/ results'[n] = Insert(results[n], a)
      BY <1>1, <1>6 DEF AnswerInv, FiledInv
    <3>2. \/ i \in DOMAIN results[n] /\ results'[n][i] = results[n][i]
          \/ i = a.id /\ results'[n][i] = a.data
      BY <3>1 DEF Insert
    <3>3. Fitting(a.id, a.data)
      BY <1>5 DEF Carried
    <3>4. \A k \in DOMAIN results[n] : Fitting(k, results[n][k])
      BY DEF AnswerInv, FiledInv
    <3>5. Fitting(i, results'[n][i])
      BY <3>2, <3>3, <3>4
    <3> QED
      BY <1>1, <3>5 DEF Fitting
  <2>2. results' = [n \in Nodes |-> results'[n]]
    BY <1>1 DEF AnswerInv, FiledInv
  <2>3. \A id \in DOMAIN collected' : Fitting(id, collected[id])'
    BY <1>1, <1>2 DEF AnswerInv, FiledInv
  <2> QED
    BY <2>1, <2>2, <2>3 DEF FiledInv
<1>8. Carried(P, A)'
  <2>1. \A p \in P : TruePart(p)'
    BY <1>2, <1>5 DEF Carried, TruePart
  <2>2. \A x \in A : Fitting(x.id, x.data)'
    BY <1>2, <1>5 DEF Carried
  <2>3. toCoord' \in [Nodes -> Seq(A)]
    <3>1. Tail(toCoord[w]) \in Seq(A)
      BY <1>1, <1>5 DEF Carried
    <3> QED
      BY <1>1, <1>5, <3>1 DEF Carried
  <2>4. ring' \in [Nodes -> Seq(P)] /\ toWorker' \in [Nodes -> Seq(P)]
    BY <1>1, <1>5 DEF Carried
  <2> QED
    BY <2>1, <2>2, <2>3, <2>4 DEF Carried
<1> QED
  BY <1>3, <1>4, <1>7, <1>8 DEF AnswerInv

\* The handler takes the first part off the wire.
LEMMA HandlerTakes ==
    ASSUME AnswerInv, NEW w \in Nodes, toWorker[w] # <<>>,
           NEW P, NEW A, Carried(P, A)
    PROVE  /\ link[w] = "up" /\ phase # "start"
           /\ Head(toWorker[w]) \in P
           /\ Tail(toWorker[w]) \in Seq(P)
           /\ Framed(Tail(toWorker[w]) \o ring[w])
           /\ Head(toWorker[w]).tag = "TILE_REQ" => Begun(Tail(toWorker[w]) \o ring[w])
           /\ handler[w] = "payload" => Head(toWorker[w]).tag = "payload"
<1>1. PICK q, r \in Seq(P) : q = toWorker[w] /\ r = ring[w]
  BY DEF Carried
<1>2. q # <<>> /\ link[w] = "up" /\ phase # "start"
  BY <1>1 DEF AnswerInv, FrameInv
<1>3. Framed(q \o r) /\ (handler[w] = "payload" => Begun(q \o r))
  BY <1>1, <1>2 DEF AnswerInv, FrameInv
<1>4. /\ q \o r \in Seq(P) /\ q \o r # <<>>
      /\ (q \o r)[1] = Head(q) /\ Tail(q \o r) = Tail(q) \o r
      /\ Head(q) \in P /\ Tail(q) \in Seq(P)
  BY ONLY <1>2, q \in Seq(P), r \in Seq(P)
<1>5. /\ Framed(Tail(q) \o r)
      /\ Head(q).tag = "TILE_REQ" => Begun(Tail(q) \o r)
  BY <1>3, <1>4, TailFramed
<1>6. handler[w] = "payload" => Head(q).tag = "payload"
  BY <1>3, <1>4 DEF Begun
<1> QED
  BY <1>1, <1>2, <1>4, <1>5, <1>6

LEMMA ReadTagAnswerInv ==
    ASSUME AnswerInv, HookInv', NEW w \in Nodes, ReadTag(w)
    PROVE  AnswerInv'
<1>1. /\ phase' = phase /\ toWorker[w] # <<>>
      /\ UNCHANGED <<tiles, nextId, next, collected, ring, results, link, toCoord>>
      /\ toWorker' = [toWorker EXCEPT ![w] = Tail(@)]
      /\ handler' = [handler EXCEPT ![w] =
                        IF Head(toWorker[w]).tag = "TILE_REQ" THEN "payload" ELSE "drop"]
  BY DEF ReadTag, coordVars, callVars, cutVars
<1>2. \A id, data : Fitting(id, data) => Fitting(id, data)'
  BY <1>1, FittingStays
<1>3. IdInv'
  BY <1>1 DEF AnswerInv, IdInv
<1>4. FiledInv'
  BY <1>1, <1>2, FiledStays DEF AnswerInv
<1>5. PICK P, A : Carried(P, A)
  BY DEF AnswerInv
<1>6. /\ phase # "start" /\ Tail(toWorker[w]) \in Seq(P)
      /\ Framed(Tail(toWorker[w]) \o ring[w])
      /\ Head(toWorker[w]).tag = "TILE_REQ" => Begun(Tail(toWorker[w]) \o ring[w])
  BY <1>1, <1>5, HandlerTakes
<1>7. toWorker \in [Nodes -> Seq(P)] /\ handler = [n \in Nodes |-> handler[n]]
  BY <1>5 DEF Carried, AnswerInv, HookInv
<1>8. FrameInv'
  <2>1. ASSUME NEW n \in Nodes, link[n] = "up"
        PROVE  /\ Framed(toWorker'[n] \o ring[n])
               /\ handler'[n] = "payload" => Begun(toWorker'[n] \o ring[n])
    <3>1. CASE n = w
      <4>1. /\ toWorker'[n] = Tail(toWorker[w])
            /\ handler'[n] = IF Head(toWorker[w]).tag = "TILE_REQ" THEN "payload" ELSE "drop"
        BY <1>1, <1>7, <3>1
      <4> QED
        BY <1>6, <3>1, <4>1
    <3>2. CASE n # w
      <4>1. toWorker'[n] = toWorker[n] /\ handler'[n] = handler[n]
        BY <1>1, <1>7, <3>2
      <4> QED
        BY <2>1, <4>1 DEF AnswerInv, FrameInv
    <3> QED
      BY <3>1, <3>2
  <2>2. \A n \in Nodes : link[n] # "up" => toWorker'[n] = <<>>
    BY <1>1, <1>7 DEF AnswerInv, FrameInv
  <2> QED
    BY <1>1, <1>6, <2>1, <2>2 DEF AnswerInv, FrameInv
<1>9. Carried(P, A)'
  <2>1. \A p \in P : TruePart(p)'
    BY <1>2, <1>5 DEF Carried, TruePart
  <2>2. \A x \in A : Fitting(x.id, x.data)'
    BY <1>2, <1>5 DEF Carried
  <2>3. toWorker' \in [Nodes -> Seq(P)]
    BY <1>1, <1>6, <1>7
  <2>4. ring' \in [Nodes -> Seq(P)] /\ toCoord' \in [Nodes -> Seq(A)]
    BY <1>1, <1>5 DEF Carried
  <2> QED
    BY <2>1, <2>2, <2>3, <2>4 DEF Carried
<1> QED
  BY <1>3, <1>4, <1>8, <1>9 DEF AnswerInv

LEMMA ProcessTileAnswerInv ==
    ASSUME AnswerInv, HookInv', NEW w \in Nodes, ProcessTile(w)
    PROVE  AnswerInv'
<1> DEFINE t == Head(toWorker[w]).tile
           answer == [id |-> t.id, data |-> Echo(t)]
<1>1. /\ phase' = phase /\ toWorker[w] # <<>> /\ handler[w] = "payload"
      /\ UNCHANGED <<tiles, nextId, next, collected, ring, results, link>>
      /\ toWorker' = [toWorker EXCEPT ![w] = Tail(@)]
      /\ toCoord' = [toCoord EXCEPT ![w] = Append(@, answer)]
      /\ handler' = [handler EXCEPT ![w] = "tag"]
  BY DEF ProcessTile, coordVars, callVars, cutVars
<1>2. \A id, data : Fitting(id, data) => Fitting(id, data)'
  BY <1>1, FittingStays
<1>3. IdInv'
  BY <1>1 DEF AnswerInv, IdInv
<1>4. FiledInv'
  BY <1>1, <1>2, FiledStays DEF AnswerInv
<1>5. PICK P, A : Carried(P, A)
  BY DEF AnswerInv
<1>6. /\ phase # "start" /\ Tail(toWorker[w]) \in Seq(P)
      /\ Framed(Tail(toWorker[w]) \o ring[w])
      /\ Head(toWorker[w]) \in P /\ Head(toWorker[w]).tag = "payload"
  BY <1>1, <1>5, HandlerTakes
<1>7. toWorker \in [Nodes -> Seq(P)] /\ handler = [n \in Nodes |-> handler[n]]
  BY <1>5 DEF Carried, AnswerInv, HookInv
<1>8. PICK B : B = A \cup {answer}
  OBVIOUS
<1>9. \A a \in B : Fitting(a.id, a.data)
  <2>1. Fitting(t.id, Echo(t))
    BY <1>5, <1>6 DEF Carried, TruePart
  <2> QED
    BY <1>5, <1>8, <2>1 DEF Carried
<1>10. FrameInv'
  <2>1. ASSUME NEW n \in Nodes, link[n] = "up"
        PROVE  /\ Framed(toWorker'[n] \o ring[n])
               /\ handler'[n] = "payload" => Begun(toWorker'[n] \o ring[n])
    <3>1. CASE n = w
      <4>1. toWorker'[n] = Tail(toWorker[w]) /\ handler'[n] = "tag"
        BY <1>1, <1>7, <3>1
      <4> QED
        BY <1>6, <3>1, <4>1
    <3>2. CASE n # w
      <4>1. toWorker'[n] = toWorker[n] /\ handler'[n] = handler[n]
        BY <1>1, <1>7, <3>2
      <4> QED
        BY <2>1, <4>1 DEF AnswerInv, FrameInv
    <3> QED
      BY <3>1, <3>2
  <2>2. \A n \in Nodes : link[n] # "up" => toWorker'[n] = <<>>
    BY <1>1, <1>7 DEF AnswerInv, FrameInv
  <2> QED
    BY <1>1, <1>6, <2>1, <2>2 DEF AnswerInv, FrameInv
<1> HIDE DEF answer
<1>11. Carried(P, B)'
  <2>1. \A p \in P : TruePart(p)'
    BY <1>2, <1>5 DEF Carried, TruePart
  <2>2. \A x \in B : Fitting(x.id, x.data)'
    BY <1>2, <1>9
  <2>3. toWorker' \in [Nodes -> Seq(P)]
    BY <1>1, <1>6, <1>7
  <2>4. toCoord' \in [Nodes -> Seq(B)]
    <3>1. Seq(A) \subseteq Seq(B)
      BY <1>8, SeqWidens
    <3>2. toCoord \in [Nodes -> Seq(B)]
      BY <1>5, <3>1 DEF Carried
    <3>3. \A s \in Seq(B) : Append(s, answer) \in Seq(B)
      BY <1>8
    <3> QED
      BY <1>1, <3>2, <3>3
  <2>5. ring' \in [Nodes -> Seq(P)]
    BY <1>1, <1>5 DEF Carried
  <2> QED
    BY <2>1, <2>2, <2>3, <2>4, <2>5 DEF Carried
<1> QED
  BY <1>3, <1>4, <1>10, <1>11 DEF AnswerInv

LEMMA ResetAnswerInv ==
    ASSUME AnswerInv, HookInv', NEW w \in Nodes, Reset(w)
    PROVE  AnswerInv'
<1>1. /\ phase' = phase
      /\ UNCHANGED <<tiles, nextId, next, collected, ring, results, handler>>
      /\ link' = [link EXCEPT ![w] = "reset"]
      /\ toWorker' = [toWorker EXCEPT ![w] = <<>>]
      /\ toCoord' = [toCoord EXCEPT ![w] = <<>>]
  BY DEF Reset, coordVars, callVars, cutVars, workerVars
<1>2. \A id, data : Fitting(id, data) => Fitting(id, data)'
  BY <1>1, FittingStays
<1>3. IdInv'
  BY <1>1 DEF AnswerInv, IdInv
<1>4. FiledInv'
  BY <1>1, <1>2, FiledStays DEF AnswerInv
<1>5. PICK P, A : Carried(P, A)
  BY DEF AnswerInv
<1>6. link \in [Nodes -> {"up", "reset"}] /\ toWorker \in [Nodes -> Seq(P)]
  BY <1>5 DEF AnswerInv, FrameInv, Carried
<1>7. FrameInv'
  <2>1. link' \in [Nodes -> {"up", "reset"}]
    BY <1>1, <1>6
  <2>2. \A n \in Nodes : IF n = w THEN link'[n] = "reset" /\ toWorker'[n] = <<>>
                         ELSE link'[n] = link[n] /\ toWorker'[n] = toWorker[n]
    BY <1>1, <1>6
  <2> QED
    BY <1>1, <2>1, <2>2 DEF AnswerInv, FrameInv
<1>8. Carried(P, A)'
  <2>1. \A p \in P : TruePart(p)'
    BY <1>2, <1>5 DEF Carried, TruePart
  <2>2. \A x \in A : Fitting(x.id, x.data)'
    BY <1>2, <1>5 DEF Carried
  <2>3. /\ ring' \in [Nodes -> Seq(P)] /\ toWorker' \in [Nodes -> Seq(P)]
        /\ toCoord' \in [Nodes -> Seq(A)]
    BY <1>1, <1>5 DEF Carried
  <2> QED
    BY <2>1, <2>2, <2>3 DEF Carried
<1> QED
  BY <1>3, <1>4, <1>7, <1>8 DEF AnswerInv

LEMMA NextAnswerInv ==
    ASSUME TileNetAssumption, EngineAssumption, AnswerInv, [Next]_vars
    PROVE  AnswerInv'
<1>1. HookInv'
  BY NextHookInv DEF AnswerInv
<1>2. CASE Connect
  BY <1>1, <1>2, ConnectAnswerInv
<1>3. CASE Decompose
  BY <1>1, <1>3, DecomposeAnswerInv
<1>4. CASE NextCall
  BY <1>1, <1>4, NextCallAnswerInv
<1>5. CASE InCall
  <2>1. CASE DispatchTile
    BY <1>1, <2>1, DispatchTileAnswerInv
  <2>2. CASE \E n \in Nodes : \E id \in remaining : Poll(n, id)
    BY <1>1, <2>2, PollAnswerInv
  <2>3. CASE \E n \in Nodes : PushShutdown(n)
    BY <1>1, <2>3, PushShutdownAnswerInv
  <2>4. CASE DispatchDone \/ Reassemble \/ Closed \/ \E n \in Nodes : ClearAlive(n)
    <3>1. /\ UNCHANGED <<tiles, nextId, next, collected, ring, results, link,
                         toWorker, toCoord, handler>>
          /\ phase' # "start"
      BY <2>4 DEF DispatchDone, Reassemble, Closed, ClearAlive, callVars, cutVars,
         connVars, wireVars, workerVars
    <3> QED
      BY <1>1, <3>1, QuietAnswerInv
  <2> QED
    BY <1>5, <2>1, <2>2, <2>3, <2>4 DEF InCall
<1>6. CASE CollectDone \/ Drop
  <2>1. /\ UNCHANGED <<tiles, nextId, next, collected, ring, results, link,
                       toWorker, toCoord, handler>>
        /\ phase' # "start"
    BY <1>6 DEF CollectDone, Drop, callVars, cutVars, connVars, wireVars, workerVars
  <2> QED
    BY <1>1, <2>1, QuietAnswerInv
<1>7. ASSUME NEW n \in Nodes, Sender(n) \/ Receiver(n)
      PROVE  AnswerInv'
  <2>1. CASE SenderWrite(n)
    BY <1>1, <2>1, SenderWriteAnswerInv
  <2>2. CASE ReceiverAnswer(n)
    BY <1>1, <2>2, ReceiverAnswerAnswerInv
  <2>3. CASE SenderIdle(n) \/ ReceiverCheck(n) \/ ReceiverEnd(n)
    <3>1. UNCHANGED <<tiles, nextId, next, collected, ring, results, link,
                      toWorker, toCoord, handler, phase>>
      BY <2>3 DEF SenderIdle, ReceiverCheck, ReceiverEnd, coordVars, callVars, cutVars,
         wireVars, workerVars
    <3> QED
      BY <1>1, <3>1, QuietAnswerInv
  <2> QED
    BY <1>7, <2>1, <2>2, <2>3 DEF Sender, Receiver
<1>8. ASSUME NEW n \in Nodes, Handler(n)
      PROVE  AnswerInv'
  <2>1. CASE ReadTag(n)
    BY <1>1, <2>1, ReadTagAnswerInv
  <2>2. CASE ProcessTile(n)
    BY <1>1, <2>2, ProcessTileAnswerInv
  <2>3. CASE Accept(n) \/ HandlerEnds(n) \/ HandlerDrops(n) \/ HandlerFrees(n)
    <3>1. /\ UNCHANGED <<tiles, nextId, next, collected, ring, results, link,
                         toWorker, toCoord, phase>>
          /\ \E h \in {"tag", "drop", "free", "done"} : handler' = [handler EXCEPT ![n] = h]
      BY <2>3 DEF Accept, HandlerEnds, HandlerDrops, HandlerFrees, coordVars, callVars,
         cutVars, wireVars
    <3>2. \A m \in Nodes : handler'[m] = "payload" => handler[m] = "payload"
      BY <3>1 DEF AnswerInv, HookInv
    <3> QED
      BY <1>1, <3>1, <3>2, QuietAnswerInv
  <2> QED
    BY <1>8, <2>1, <2>2, <2>3 DEF Handler
<1>9. CASE \E n \in Nodes : Reset(n)
  BY <1>1, <1>9, ResetAnswerInv
<1>10. CASE UNCHANGED vars
  <2>1. UNCHANGED <<tiles, nextId, next, collected, ring, results, link,
                    toWorker, toCoord, handler, phase>>
    BY <1>10 DEF vars, coordVars, callVars, cutVars, connVars, wireVars, workerVars
  <2> QED
    BY <1>1, <2>1, QuietAnswerInv
<1> QED
  BY <1>2, <1>3, <1>4, <1>5, <1>6, <1>7, <1>8, <1>9, <1>10 DEF Next, Coordinator

\* An answer that collect has is the answer to the tile of that id in the call
\* that runs, however late it came (network.rs: the ids of TILE_ID_CTR, the
\* results map that outlives the call that fills it, poll_result).
THEOREM AnswersAreOwn == Spec => []OwnAnswers
<1>1. AnswerInv => OwnAnswers
  <2> SUFFICES ASSUME AnswerInv, NEW i \in 1..Len(tiles), tiles[i].id \in DOMAIN collected
               PROVE  collected[tiles[i].id] = Echo(tiles[i])
    BY DEF OwnAnswers
  <2>1. Fitting(tiles[i].id, collected[tiles[i].id])
    BY DEF AnswerInv, FiledInv
  <2> QED
    BY <2>1 DEF Fitting
<1>2. Init => AnswerInv
  BY InitAnswerInv, TileNetAssumption
<1>3. AnswerInv /\ [Next]_vars => AnswerInv'
  BY NextAnswerInv, TileNetAssumption, EngineAssumption
<1> QED
  BY <1>1, <1>2, <1>3, PTL DEF Spec

-----------------------------------------------------------------------------
(***************************************************************************)
(* Cutting a graph into tiles and putting the answers together again.      *)
(***************************************************************************)

(* Where the tiles start, and what they hold. *)

\* Every part has a natural size.
LEMMA PartCountType ==
    ASSUME NEW s \in Nat, NEW parts \in Nat \ {0}
    PROVE  \A i \in Int : PartCount(s, parts, i) \in Nat
BY DEF PartCount

\* What Starts is: the function its recursive definition describes.
LEMMA StartsRecursion ==
    ASSUME NEW s \in Nat, NEW parts \in Nat \ {0}
    PROVE  Starts(s, parts) =
              [i \in 1..parts |->
                  IF i = 1 THEN 0 ELSE Starts(s, parts)[i - 1] + PartCount(s, parts, i - 1)]
<1> DEFINE Equation(f) ==
              f = [i \in 1..parts |->
                      IF i = 1 THEN 0 ELSE f[i - 1] + PartCount(s, parts, i - 1)]
<1>1. PICK G : G = [p \in Nat \X (1..parts) |-> p[1] + PartCount(s, parts, p[2] - 1)]
  OBVIOUS
<1>2. G \in [Nat \X (1..parts) -> Nat]
  <2>1. \A p \in Nat \X (1..parts) : p[1] \in Nat /\ p[2] - 1 \in Int
    OBVIOUS
  <2>2. \A p \in Nat \X (1..parts) : PartCount(s, parts, p[2] - 1) \in Nat
    BY <2>1, PartCountType, Zenon
  <2> QED
    BY <1>1, <2>1, <2>2
<1>3. PICK f \in [1..parts -> Nat] : Recursive(f, 0, 1, parts, G)
  <2>1. 0 \in Nat /\ 1 \in Int /\ parts \in Int
    OBVIOUS
  <2> QED
    BY <1>2, <2>1, RecursionExists, Zenon
<1>4. Equation(f)
  <2>1. f = [i \in 1..parts |-> IF i = 1 THEN 0 ELSE G[<<f[i - 1], i>>]]
    BY <1>3 DEF Recursive
  <2>2. \A i \in 2..parts : G[<<f[i - 1], i>>] = f[i - 1] + PartCount(s, parts, i - 1)
    BY <1>1
  <2>3. \A i \in 1..parts :
           f[i] = IF i = 1 THEN 0 ELSE f[i - 1] + PartCount(s, parts, i - 1)
    <3>1. \A i \in 1..parts : i # 1 => i \in 2..parts
      OBVIOUS
    <3> QED
      BY <2>1, <2>2, <3>1
  <2> QED
    BY <2>3
<1>5. Starts(s, parts) = CHOOSE g : Equation(g)
  BY DEF Starts
<1>6. Equation(Starts(s, parts))
  <2> HIDE DEF Equation
  <2> QED
    BY <1>4, <1>5
<1> QED
  BY <1>6

\* The tiles lie side by side, none is empty, and the last ends with the graph.
LEMMA StartsAdjacent ==
    ASSUME NEW s \in Nat, NEW parts \in 1..s
    PROVE  /\ \A i \in 1..parts : /\ Starts(s, parts)[i] \in Nat
                                  /\ PartCount(s, parts, i) \in Nat \ {0}
           /\ Starts(s, parts)[1] = 0
           /\ \A i \in 2..parts :
                 Starts(s, parts)[i] = Starts(s, parts)[i - 1] + PartCount(s, parts, i - 1)
           /\ Starts(s, parts)[parts] + PartCount(s, parts, parts) = s
<1> DEFINE S(i) == Starts(s, parts)[i]
           C(i) == PartCount(s, parts, i)
           base == s \div parts
           over == s % parts
           Before(i) == (i - 1) * base + Smaller(i - 1, over)
<1>1. parts \in Nat \ {0}
  OBVIOUS
<1>2. base \in Nat \ {0} /\ over \in 0..(parts - 1) /\ s = parts * base + over
  OBVIOUS
<1>3. \A i \in Int : C(i) = base + (IF i <= over THEN 1 ELSE 0)
  BY DEF PartCount
<1>4. \A i \in 1..parts : S(i) = IF i = 1 THEN 0 ELSE S(i - 1) + C(i - 1)
  BY <1>1, StartsRecursion
<1> HIDE DEF S, C, base, over
<1> DEFINE T == {i \in 1..parts : S(i) = Before(i)}
<1>5. \A i \in 1..parts : i \in T
  <2>1. 1 \in T
    BY <1>1, <1>2, <1>4 DEF Smaller
  <2>2. ASSUME NEW i \in (1 + 1)..parts, i - 1 \in T PROVE i \in T
    <3>1. S(i) = Before(i - 1) + C(i - 1)
      BY <1>4, <2>2
    <3>2. C(i - 1) = base + (IF i - 1 <= over THEN 1 ELSE 0)
      BY <1>3
    <3>3. (i - 2) * base + base = (i - 1) * base
      BY <1>2
    <3>4. (i - 1) - 1 = i - 2
      OBVIOUS
    <3>5. S(i) = Before(i)
      <4>1. (i - 2) * base \in Int /\ (i - 1) * base \in Int
        BY <1>2
      <4> QED
        BY <1>2, <3>1, <3>2, <3>3, <3>4, <4>1 DEF Smaller
    <3> QED
      BY <3>5
  <2>3. 1 \in Int /\ parts \in Int
    OBVIOUS
  <2> HIDE DEF T
  <2> QED
    BY <2>1, <2>2, <2>3, IntervalInduction, Zenon
<1>6. \A i \in 1..parts : S(i) = Before(i)
  BY <1>5
<1>7. \A i \in 1..parts : S(i) \in Nat /\ C(i) \in Nat \ {0}
  <2> SUFFICES ASSUME NEW i \in 1..parts PROVE S(i) \in Nat /\ C(i) \in Nat \ {0}
    OBVIOUS
  <2>1. (i - 1) * base \in Nat /\ Smaller(i - 1, over) \in Nat
    BY <1>2 DEF Smaller
  <2> QED
    BY <1>2, <1>3, <1>6, <2>1
<1>8. S(parts) + C(parts) = s
  <2>1. S(parts) = (parts - 1) * base + over
    BY <1>2, <1>6 DEF Smaller
  <2>2. C(parts) = base
    BY <1>2, <1>3
  <2>3. (parts - 1) * base + base = parts * base
    BY <1>2
  <2>4. (parts - 1) * base \in Int /\ parts * base \in Int
    BY <1>2
  <2> QED
    BY <1>2, <2>1, <2>2, <2>3, <2>4
<1> QED
  BY <1>1, <1>4, <1>7, <1>8 DEF S, C

-----------------------------------------------------------------------------
(* The data of a tile, and what a worker makes of it. *)

\* What is made of a tile is as long as the tile.
LEMMA EchoType ==
    ASSUME NEW t \in Tile
    PROVE  Echo(t) \in Data /\ Len(Echo(t)) = t.count
<1>1. t.count \in Nat /\ t.data \in Seq(Element \cup {Zero})
  BY DEF Tile, Data
<1>2. \A k \in 1..t.count :
         (IF k <= Len(t.data) THEN t.data[k] ELSE Zero) \in Element \cup {Zero}
  BY <1>1
<1> HIDE DEF Zero, Element
<1> QED
  BY <1>1, <1>2 DEF Echo, Data

\* The part of the buffer behind a tile.
LEMMA SubSliceType ==
    ASSUME TileNetAssumption, NEW r \in Nat, NEW start \in Nat, NEW count \in Nat
    PROVE  /\ SubSlice(Input(r), start, count) \in Data
           /\ Len(SubSlice(Input(r), start, count)) \in Nat
           /\ \A k \in 1..count :
                 (IF k <= Len(SubSlice(Input(r), start, count))
                  THEN SubSlice(Input(r), start, count)[k] ELSE Zero) = At(r, start + k)
<1> DEFINE buf == Input(r)
           end == Smaller(start + count, Len(buf))
<1>1. InputLen \in Nat
  BY DEF TileNetAssumption
<1>2. /\ buf \in Data /\ Len(buf) = InputLen
      /\ \A k \in 1..InputLen : buf[k] = <<r, k>> /\ buf[k] \in Element \cup {Zero}
  BY <1>1 DEF Input, Data, Element
<1> HIDE DEF buf
<1>3. CASE start < Len(buf)
  <2>1. end \in Nat /\ start + 1 <= end + 1 /\ end <= Len(buf) /\ end <= start + count
    BY <1>1, <1>2, <1>3 DEF Smaller
  <2>2. \A k \in (start + 1)..end : buf[k] \in Element \cup {Zero}
    BY <1>2, <2>1
  <2> DEFINE sub == SubSeq(buf, start + 1, end)
  <2>3. /\ sub \in Data /\ Len(sub) = end - start
        /\ \A k \in 1..(end - start) : sub[k] = buf[start + k]
    <3>1. start + 1 \in Int /\ end \in Int
      BY <2>1
    <3>2. sub \in Seq(Element \cup {Zero})
      BY <2>2, <3>1, SubSeqProperties
    <3> QED
      BY <1>1, <1>2, <2>1, <3>2 DEF Data
  <2>4. SubSlice(buf, start, count) = sub
    BY <1>3 DEF SubSlice
  <2>5. ASSUME NEW k \in 1..count
        PROVE  (IF k <= Len(sub) THEN sub[k] ELSE Zero) = At(r, start + k)
    <3>1. k <= Len(sub) <=> start + k <= InputLen
      BY <1>1, <1>2, <1>3, <2>1, <2>3 DEF Smaller
    <3>2. ASSUME k <= Len(sub) PROVE sub[k] = <<r, start + k>>
      <4>1. k \in 1..(end - start) /\ start + k \in 1..InputLen
        BY <1>1, <1>2, <2>1, <2>3, <3>1, <3>2
      <4> HIDE DEF sub, end
      <4> QED
        BY <1>2, <2>3, <4>1
    <3> QED
      BY <3>1, <3>2 DEF At
  <2> HIDE DEF sub, end
  <2> QED
    BY <2>1, <2>3, <2>4, <2>5 DEF buf
<1>4. CASE ~(start < Len(buf))
  <2>1. SubSlice(buf, start, count) = [k \in 1..count |-> Zero]
    BY <1>4 DEF SubSlice
  <2>2. \A k \in 1..count : At(r, start + k) = Zero
    BY <1>1, <1>2, <1>4 DEF At
  <2>3. /\ [k \in 1..count |-> Zero] \in Data
        /\ Len([k \in 1..count |-> Zero]) = count
    BY DEF Data
  <2> QED
    BY <2>1, <2>2, <2>3 DEF buf
<1> QED
  BY <1>3, <1>4

(***************************************************************************)
(* Tiles that lie side by side over a graph of s elements, none of them    *)
(* empty, each answered with its part of the r-th buffer.                  *)
(***************************************************************************)
Covers(ts, r, s) ==
    /\ ts \in Seq(Tile) /\ Len(ts) > 0
    /\ ts[1].start = 0
    /\ \A i \in 2..Len(ts) : ts[i].start = ts[i - 1].start + ts[i - 1].count
    /\ ts[Len(ts)].start + ts[Len(ts)].count = s
    /\ \A i \in 1..Len(ts) :
          /\ ts[i].count > 0
          /\ \A k \in 1..ts[i].count : Echo(ts[i])[k] = At(r, ts[i].start + k)

\* The tiles that decompose cuts lie side by side and cover the graph.
LEMMA TilesCover ==
    ASSUME TileNetAssumption, NEW r \in Nat, NEW s \in Nat, NEW parts \in 1..s,
           NEW first \in Nat
    PROVE  Covers(TilesOf(r, s, parts, first), r, s)
<1> DEFINE ts == TilesOf(r, s, parts, first)
           S(i) == Starts(s, parts)[i]
           C(i) == PartCount(s, parts, i)
           D(i) == SubSlice(Input(r), S(i), C(i))
<1>1. /\ \A i \in 1..parts : S(i) \in Nat /\ C(i) \in Nat \ {0}
      /\ S(1) = 0 /\ S(parts) + C(parts) = s
      /\ \A i \in 2..parts : S(i) = S(i - 1) + C(i - 1)
  BY StartsAdjacent
<1>2. /\ ts = [i \in 1..parts |->
                 [id |-> first + i - 1, start |-> S(i), count |-> C(i), data |-> D(i)]]
  BY DEF TilesOf
<1> HIDE DEF S, C, ts
<1>3. \A i \in 1..parts :
         /\ D(i) \in Data
         /\ \A k \in 1..C(i) :
               (IF k <= Len(D(i)) THEN D(i)[k] ELSE Zero) = At(r, S(i) + k)
  BY <1>1, SubSliceType
<1> HIDE DEF D
<1>4. \A i \in 1..parts : first + i - 1 \in Nat
  OBVIOUS
<1>5. \A i \in 1..parts : ts[i] \in Tile
  BY <1>1, <1>2, <1>3, <1>4 DEF Tile
<1>6. ts \in Seq(Tile) /\ Len(ts) = parts
  BY <1>2, <1>5
<1>7. \A i \in 1..parts : ts[i].start = S(i) /\ ts[i].count = C(i) /\ ts[i].data = D(i)
  BY <1>2
<1>8. \A i \in 1..parts : \A k \in 1..ts[i].count : Echo(ts[i])[k] = At(r, ts[i].start + k)
  <2> SUFFICES ASSUME NEW i \in 1..parts, NEW k \in 1..C(i)
               PROVE  Echo(ts[i])[k] = At(r, S(i) + k)
    BY <1>7
  <2>1. (IF k <= Len(D(i)) THEN D(i)[k] ELSE Zero) = At(r, S(i) + k)
    BY <1>3
  <2>2. Echo(ts[i])[k] = IF k <= Len(D(i)) THEN D(i)[k] ELSE Zero
    BY <1>7 DEF Echo
  <2> QED
    BY <2>1, <2>2
<1>9. parts \in 1..parts /\ 1 \in 1..parts /\ \A i \in 2..parts : i \in 1..parts /\ i - 1 \in 1..parts
  OBVIOUS
<1>10. /\ ts[1].start = 0 /\ ts[parts].start + ts[parts].count = s
       /\ \A i \in 2..parts : ts[i].start = ts[i - 1].start + ts[i - 1].count
       /\ \A i \in 1..parts : ts[i].count > 0
  BY <1>1, <1>7, <1>9
<1>11. Covers(ts, r, s)
  BY <1>6, <1>8, <1>9, <1>10 DEF Covers
<1> QED
  BY <1>11 DEF ts

-----------------------------------------------------------------------------
(* Putting the answers together. *)

\* The answer to a tile, if it is there.
Answered(done, i) == tiles[i].id \in DOMAIN done

\* What Joined is: the function its recursive definition describes.
LEMMA JoinedRecursion ==
    ASSUME tiles \in Seq(Tile), Len(tiles) > 0, NEW done,
           \A i \in 1..Len(tiles) : Answered(done, i) => done[tiles[i].id] \in Data
    PROVE  /\ Joined(done)[1] = Echo(tiles[1])
           /\ \A i \in 2..Len(tiles) :
                 Joined(done)[i] = IF Answered(done, i)
                                   THEN Joined(done)[i - 1] \o done[tiles[i].id]
                                   ELSE Joined(done)[i - 1]
           /\ \A i \in 1..Len(tiles) : Joined(done)[i] \in Data
<1> DEFINE last == Len(tiles)
           Step(d, i) == IF Answered(done, i) THEN d \o done[tiles[i].id] ELSE d
           Equation(f) ==
              f = [i \in 1..last |-> IF i = 1 THEN Echo(tiles[1]) ELSE Step(f[i - 1], i)]
<1>1. last \in Nat \ {0} /\ Echo(tiles[1]) \in Data
  <2>1. tiles[1] \in Tile
    OBVIOUS
  <2> QED
    BY <2>1, EchoType
<1>2. \A d \in Data : \A i \in 1..last : Step(d, i) \in Data
  BY DEF Data
<1> HIDE DEF Step
<1>3. PICK G : G = [p \in Data \X (1..last) |-> Step(p[1], p[2])]
  OBVIOUS
<1>4. G \in [Data \X (1..last) -> Data]
  BY <1>2, <1>3
<1>5. PICK f \in [1..last -> Data] : Recursive(f, Echo(tiles[1]), 1, last, G)
  <2>1. 1 \in Int /\ last \in Int
    BY <1>1
  <2> QED
    BY <1>1, <1>4, <2>1, RecursionExists, Zenon
<1>6. Equation(f)
  <2>1. f = [i \in 1..last |-> IF i = 1 THEN Echo(tiles[1]) ELSE G[<<f[i - 1], i>>]]
    BY <1>5 DEF Recursive
  <2>2. \A i \in 2..last : G[<<f[i - 1], i>>] = Step(f[i - 1], i)
    BY <1>3
  <2>3. \A i \in 1..last : f[i] = IF i = 1 THEN Echo(tiles[1]) ELSE Step(f[i - 1], i)
    <3>1. \A i \in 1..last : i # 1 => i \in 2..last
      OBVIOUS
    <3> QED
      BY <2>1, <2>2, <3>1
  <2> QED
    BY <2>3
<1>7. Joined(done) = CHOOSE g : Equation(g)
  BY DEF Joined, Step, Answered
<1>8. Equation(Joined(done))
  <2> HIDE DEF Equation
  <2> QED
    BY <1>6, <1>7
<1>9. /\ Joined(done)[1] = Echo(tiles[1])
      /\ \A i \in 2..last : Joined(done)[i] = Step(Joined(done)[i - 1], i)
  BY <1>1, <1>8
<1> DEFINE T == {i \in 1..last : Joined(done)[i] \in Data}
<1>10. \A i \in 1..last : i \in T
  <2>1. 1 \in T
    BY <1>1, <1>9
  <2>2. ASSUME NEW i \in (1 + 1)..last, i - 1 \in T PROVE i \in T
    BY <1>2, <1>9, <2>2
  <2>3. 1 \in Int /\ last \in Int
    BY <1>1
  <2> HIDE DEF T
  <2> QED
    BY <2>1, <2>2, <2>3, IntervalInduction, Zenon
<1> QED
  BY <1>9, <1>10 DEF Step

\* The elements of two pieces of data put together.
LEMMA DataConcat ==
    ASSUME NEW d \in Data, NEW e \in Data
    PROVE  /\ Len(d) \in Nat /\ Len(e) \in Nat /\ Len(d \o e) = Len(d) + Len(e)
           /\ \A k \in 1..(Len(d) + Len(e)) :
                 (d \o e)[k] = IF k <= Len(d) THEN d[k] ELSE e[k - Len(d)]
BY ConcatProperties DEF Data

\* What reassemble can count on when it is called with the answers in done.
Joinable(done) ==
    /\ Covers(tiles, rounds, size) /\ size \in Nat
    /\ \A i, j \in 1..Len(tiles) : tiles[i].id = tiles[j].id => i = j
    /\ \A i \in 1..Len(tiles) : Answered(done, i) => done[tiles[i].id] = Echo(tiles[i])

\* One tile after the other.
LEMMA JoinedStep ==
    ASSUME NEW done, Joinable(done)
    PROVE  /\ Len(tiles) \in Nat \ {0}
           /\ \A i \in 1..Len(tiles) :
                 /\ tiles[i] \in Tile /\ tiles[i].start \in Nat
                 /\ tiles[i].count \in Nat \ {0}
                 /\ Joined(done)[i] \in Data /\ Len(Joined(done)[i]) \in Nat
           /\ Len(Joined(done)[1]) = tiles[1].count
           /\ \A k \in 1..tiles[1].count : Joined(done)[1][k] = At(rounds, k)
           /\ \A i \in 2..Len(tiles) :
                 IF Answered(done, i)
                 THEN /\ Len(Joined(done)[i]) = Len(Joined(done)[i - 1]) + tiles[i].count
                      /\ \A k \in 1..(Len(Joined(done)[i - 1]) + tiles[i].count) :
                            Joined(done)[i][k] =
                               IF k <= Len(Joined(done)[i - 1]) THEN Joined(done)[i - 1][k]
                               ELSE At(rounds, tiles[i].start + (k - Len(Joined(done)[i - 1])))
                 ELSE Joined(done)[i] = Joined(done)[i - 1]
<1> DEFINE last == Len(tiles)
           J(i) == Joined(done)[i]
<1>1. tiles \in Seq(Tile) /\ last \in Nat \ {0}
  BY DEF Joinable, Covers
<1>2. \A i \in 1..last : /\ tiles[i] \in Tile /\ tiles[i].start \in Nat
                         /\ tiles[i].count \in Nat \ {0}
  <2>1. \A i \in 1..last : tiles[i] \in Tile /\ tiles[i].count > 0
    BY <1>1 DEF Joinable, Covers
  <2>2. \A t \in Tile : t.start \in Nat /\ t.count \in Nat
    BY DEF Tile
  <2> QED
    BY <2>1, <2>2
<1>3. \A i \in 1..last : Echo(tiles[i]) \in Data /\ Len(Echo(tiles[i])) = tiles[i].count
  BY <1>2, EchoType
<1>4. \A i \in 1..last : Answered(done, i) => done[tiles[i].id] = Echo(tiles[i])
  BY DEF Joinable
<1>5. \A i \in 1..last : \A k \in 1..tiles[i].count :
         Echo(tiles[i])[k] = At(rounds, tiles[i].start + k)
  BY DEF Joinable, Covers
<1>6. /\ J(1) = Echo(tiles[1])
      /\ \A i \in 2..last : J(i) = IF Answered(done, i) THEN J(i - 1) \o done[tiles[i].id]
                                    ELSE J(i - 1)
      /\ \A i \in 1..last : J(i) \in Data
  <2>1. \A i \in 1..last : Answered(done, i) => done[tiles[i].id] \in Data
    BY <1>3, <1>4
  <2>2. Len(tiles) > 0
    BY <1>1
  <2> QED
    BY <1>1, <2>1, <2>2, JoinedRecursion
<1> HIDE DEF J
<1>7. \A i \in 1..last : Len(J(i)) \in Nat
  BY <1>6 DEF Data
<1>8. tiles[1].start = 0 /\ 1 \in 1..last
  BY <1>1 DEF Joinable, Covers
<1>9. /\ Len(J(1)) = tiles[1].count
      /\ \A k \in 1..tiles[1].count : J(1)[k] = At(rounds, k)
  <2>1. \A k \in 1..tiles[1].count : 0 + k = k
    BY <1>2, <1>8
  <2> QED
    BY <1>3, <1>5, <1>6, <1>8, <2>1
<1>10. ASSUME NEW i \in 2..last, Answered(done, i)
       PROVE  /\ Len(J(i)) = Len(J(i - 1)) + tiles[i].count
              /\ \A k \in 1..(Len(J(i - 1)) + tiles[i].count) :
                    J(i)[k] = IF k <= Len(J(i - 1)) THEN J(i - 1)[k]
                              ELSE At(rounds, tiles[i].start + (k - Len(J(i - 1))))
  <2>1. i \in 1..last /\ i - 1 \in 1..last
    OBVIOUS
  <2>2. PICK d \in Data : d = J(i - 1)
    BY <1>6, <2>1
  <2>3. PICK e \in Data : e = Echo(tiles[i])
    BY <1>3, <2>1
  <2>4. J(i) = d \o e
    BY <1>4, <1>6, <1>10, <2>1, <2>2, <2>3
  <2>5. Len(e) = tiles[i].count /\ tiles[i].count \in Nat /\ Len(d) \in Nat
    BY <1>2, <1>3, <1>7, <2>1, <2>2, <2>3
  <2>6. /\ Len(d \o e) = Len(d) + Len(e)
        /\ \A k \in 1..(Len(d) + Len(e)) :
              (d \o e)[k] = IF k <= Len(d) THEN d[k] ELSE e[k - Len(d)]
    BY DataConcat
  <2>7. \A k \in 1..(Len(d) + Len(e)) :
           ~(k <= Len(d)) => e[k - Len(d)] = At(rounds, tiles[i].start + (k - Len(d)))
    <3> SUFFICES ASSUME NEW k \in 1..(Len(d) + Len(e)), ~(k <= Len(d))
                 PROVE  e[k - Len(d)] = At(rounds, tiles[i].start + (k - Len(d)))
      OBVIOUS
    <3>1. k - Len(d) \in 1..tiles[i].count
      BY <2>5
    <3> QED
      BY <1>5, <2>1, <2>3, <3>1
  <2> QED
    BY <2>2, <2>4, <2>5, <2>6, <2>7
<1>11. \A i \in 2..last : ~Answered(done, i) => J(i) = J(i - 1)
  BY <1>6
<1> QED
  BY <1>1, <1>2, <1>6, <1>7, <1>9, <1>10, <1>11 DEF J

\* Where a tile ends.
End(i) == tiles[i].start + tiles[i].count

\* Each tile begins where the one before ends, and the last ends with the graph.
LEMMA EndsAdjacent ==
    ASSUME NEW done, Joinable(done)
    PROVE  /\ \A i \in 1..Len(tiles) : End(i) \in Nat /\ tiles[i].count <= End(i)
           /\ End(1) = tiles[1].count
           /\ \A i \in 2..Len(tiles) :
                 tiles[i].start = End(i - 1) /\ End(i) = End(i - 1) + tiles[i].count
           /\ End(Len(tiles)) = size
<1>1. /\ Len(tiles) \in Nat \ {0}
      /\ \A i \in 1..Len(tiles) : tiles[i].start \in Nat /\ tiles[i].count \in Nat \ {0}
  BY JoinedStep
<1>2. /\ tiles[1].start = 0
      /\ \A i \in 2..Len(tiles) : tiles[i].start = tiles[i - 1].start + tiles[i - 1].count
      /\ tiles[Len(tiles)].start + tiles[Len(tiles)].count = size
  BY DEF Joinable, Covers
<1> QED
  BY <1>1, <1>2 DEF End

\* As far as no answer is missing, what is joined is the beginning of the whole
\* result.
LEMMA JoinedSoFar ==
    ASSUME NEW done, Joinable(done)
    PROVE  \A i \in 1..Len(tiles) :
              (\A j \in 2..i : Answered(done, j)) =>
                    /\ Len(Joined(done)[i]) = End(i)
                    /\ \A k \in 1..End(i) : Joined(done)[i][k] = At(rounds, k)
<1> DEFINE last == Len(tiles)
           J(i) == Joined(done)[i]
           All(i) == \A j \in 2..i : Answered(done, j)
           Good(i) == All(i) => /\ Len(J(i)) = End(i)
                                /\ \A k \in 1..End(i) : J(i)[k] = At(rounds, k)
           T == {i \in 1..last : Good(i)}
<1>1. /\ last \in Nat \ {0}
      /\ \A i \in 1..last : /\ tiles[i].count \in Nat \ {0} /\ Len(J(i)) \in Nat
                             /\ End(i) \in Nat
      /\ \A i \in 2..last : /\ tiles[i].start = End(i - 1)
                             /\ End(i) = End(i - 1) + tiles[i].count
  BY JoinedStep, EndsAdjacent
<1>2. 1 \in T
  <2>1. /\ Len(J(1)) = End(1)
        /\ \A k \in 1..End(1) : J(1)[k] = At(rounds, k)
    BY JoinedStep, EndsAdjacent
  <2> HIDE DEF J
  <2> QED
    BY <1>1, <2>1
<1>3. ASSUME NEW i \in (1 + 1)..last, i - 1 \in T PROVE i \in T
  <2>1. i \in 2..last /\ i \in 1..last /\ i - 1 \in 1..last /\ Good(i - 1)
    BY <1>3
  <2>2. All(i) <=> All(i - 1) /\ Answered(done, i)
    <3>1. \A j : j \in 2..i <=> j \in 2..(i - 1) \/ j = i
      OBVIOUS
    <3> QED
      BY <3>1
  <2> HIDE DEF All
  <2>3. CASE Answered(done, i)
    <3>1. /\ Len(J(i)) = Len(J(i - 1)) + tiles[i].count
          /\ \A k \in 1..(Len(J(i - 1)) + tiles[i].count) :
                J(i)[k] = IF k <= Len(J(i - 1)) THEN J(i - 1)[k]
                          ELSE At(rounds, tiles[i].start + (k - Len(J(i - 1))))
      BY <2>1, <2>3, JoinedStep
    <3> HIDE DEF J
    <3>2. ASSUME All(i)
          PROVE  Len(J(i)) = End(i) /\ \A k \in 1..End(i) : J(i)[k] = At(rounds, k)
      <4>1. Len(J(i - 1)) = End(i - 1) /\ \A k \in 1..End(i - 1) : J(i - 1)[k] = At(rounds, k)
        BY <2>1, <2>2, <3>2
      <4>2. Len(J(i)) = End(i)
        BY <1>1, <2>1, <3>1, <4>1
      <4>3. ASSUME NEW k \in 1..End(i) PROVE J(i)[k] = At(rounds, k)
        <5>1. J(i)[k] = IF k <= End(i - 1) THEN J(i - 1)[k]
                        ELSE At(rounds, End(i - 1) + (k - End(i - 1)))
          BY <1>1, <2>1, <3>1, <4>1
        <5>2. End(i - 1) + (k - End(i - 1)) = k
          BY <1>1, <2>1
        <5>3. k <= End(i - 1) => k \in 1..End(i - 1)
          BY <1>1, <2>1
        <5> QED
          BY <4>1, <5>1, <5>2, <5>3
      <4> QED
        BY <4>2, <4>3
    <3> QED
      BY <2>1, <3>2
  <2>4. CASE ~Answered(done, i)
    BY <2>1, <2>2, <2>4
  <2> QED
    BY <2>3, <2>4
<1>4. \A i \in 1..last : i \in T
  <2>1. 1 \in Int /\ last \in Int
    BY <1>1
  <2> HIDE DEF T
  <2> QED
    BY <1>2, <1>3, <2>1, IntervalInduction, Zenon
<1> QED
  BY <1>4

\* What reassemble makes of it: the whole result, if no answer is missing.
LEMMA JoinWhole ==
    ASSUME NEW done, Joinable(done)
    PROVE  /\ Join(done) \in Data
           /\ (\A i \in 2..Len(tiles) : Answered(done, i)) => Join(done) = Whole
<1> DEFINE last == Len(tiles)
           All == \A i \in 2..last : Answered(done, i)
<1>1. last \in Nat \ {0} /\ last \in 1..last /\ size \in Nat /\ End(last) = size
  <2>1. last \in Nat \ {0} /\ size \in Nat
    BY JoinedStep DEF Joinable
  <2> QED
    BY <2>1, EndsAdjacent
<1>2. Join(done) \in Data /\ Len(Join(done)) \in Nat
  BY <1>1, JoinedStep DEF Join
<1>3. Whole = [k \in 1..size |-> At(rounds, k)]
  BY DEF Whole, At
<1>4. All => /\ Len(Join(done)) = size
             /\ \A k \in 1..size : Join(done)[k] = At(rounds, k)
  BY <1>1, JoinedSoFar DEF Join
<1> HIDE DEF All
<1>5. All => Join(done) = Whole
  BY <1>1, <1>2, <1>3, <1>4 DEF Data
<1> QED
  BY <1>2, <1>5 DEF All

-----------------------------------------------------------------------------
(* The invariant. *)

\* Where a call has its tiles.
InTheCall == {"dispatch", "collect", "reassemble", "joined"}

(***************************************************************************)
(* The coordinator's side: its tiles cover the graph for as long as it     *)
(* needs them, ids are passed on within one call only, and what it hands   *)
(* out is what WholeWhenComplete says.                                      *)
(***************************************************************************)
CallInv ==
    /\ phase \in {"start", "ready", "closing", "closing_push", "closed"} \cup InTheCall
    /\ rounds \in Nat /\ nextId \in Nat /\ rounds <= nextId /\ nextId <= MaxIds
    /\ size \in Nat
    /\ tiles \in Seq(Tile)
    /\ dispatched \subseteq Nat /\ remaining \subseteq dispatched
    /\ remaining # {} => phase = "collect"
    /\ dispatched # {} => phase \in InTheCall
    /\ \A id \in DOMAIN collected : collected[id] \in Data
    /\ out \in Data
    /\ phase \in InTheCall => Covers(tiles, rounds, size)
    /\ WholeWhenComplete

\* The connections' side.
ConnInv ==
    /\ workers \in Seq(Nodes)
    /\ phase = "closing_push" => workers # <<>>
    /\ alive \in [Nodes -> BOOLEAN]
    /\ ring \in [Nodes -> Seq(Part)]
    /\ \A n \in Nodes : Len(ring[n]) <= RingCap
    /\ \A n \in Nodes : \A id \in DOMAIN results[n] : results[n][id] \in Data
    /\ sender \in [Nodes -> {"drain", "done"}]
    /\ receiver \in [Nodes -> {"check", "read", "done"}]
    /\ toWorker \in [Nodes -> Seq(Part)]
    /\ toCoord \in [Nodes -> Seq(Answer)]

TypeInv == AnswerInv /\ CallInv /\ ConnInv

\* No connection and no call at the start.
LEMMA InitTypeInv == TileNetAssumption /\ Init => TypeInv
<1> SUFFICES ASSUME TileNetAssumption, Init PROVE TypeInv
  OBVIOUS
<1>1. AnswerInv
  BY InitAnswerInv
<1>2. CallInv
  BY DEF Init, CallInv, InTheCall, WholeWhenComplete, NoAnswers, Data, TileNetAssumption
<1>3. ConnInv
  BY DEF Init, ConnInv, NoAnswers, TileNetAssumption
<1> QED
  BY <1>1, <1>2, <1>3 DEF TypeInv

\* Steps of the connections.
LEMMA CallStays ==
    ASSUME CallInv, UNCHANGED coordVars
    PROVE  CallInv'
BY DEF CallInv, WholeWhenComplete, Whole, coordVars, callVars, cutVars

\* Steps of the coordinator that touch no connection.
LEMMA ConnStays ==
    ASSUME ConnInv, UNCHANGED <<workers, connVars>>, phase' = phase \/ phase' # "closing_push"
    PROVE  ConnInv'
BY DEF ConnInv, connVars, wireVars

\* A new call: its tiles cover the new graph.
LEMMA DecomposeCallInv ==
    ASSUME TileNetAssumption, CallInv, Decompose
    PROVE  CallInv'
<1>1. PICK s \in Sizes, n \in 1..NumNodes :
         /\ nextId + Smaller(n + 1, s) <= MaxIds
         /\ size' = s
         /\ tiles' = TilesOf(rounds + 1, s, Smaller(n + 1, s), nextId)
         /\ nextId' = nextId + Smaller(n + 1, s)
  BY DEF Decompose
<1>2. /\ phase = "ready" /\ phase' = "dispatch" /\ rounds' = rounds + 1
      /\ UNCHANGED <<dispatched, remaining, collected, out>>
  BY DEF Decompose
<1>3. PICK parts \in 1..s : parts = Smaller(n + 1, s)
  BY DEF TileNetAssumption, Smaller
<1>4. rounds + 1 \in Nat /\ s \in Nat /\ nextId \in Nat
  BY DEF CallInv, TileNetAssumption
<1>5. Covers(tiles', rounds', size')
  <2>1. Covers(TilesOf(rounds + 1, s, parts, nextId), rounds + 1, s)
    BY <1>4, TilesCover
  <2> QED
    BY <1>1, <1>2, <1>3, <2>1
<1>6. tiles' \in Seq(Tile)
  BY <1>5 DEF Covers
<1>7. remaining = {} /\ dispatched = {}
  BY <1>2 DEF CallInv, InTheCall
<1>8. rounds' <= nextId' /\ nextId' \in Nat /\ nextId' <= MaxIds
  BY <1>1, <1>2, <1>3, <1>4 DEF CallInv
<1>9. WholeWhenComplete'
  BY <1>2 DEF WholeWhenComplete
<1> QED
  BY <1>1, <1>2, <1>4, <1>5, <1>6, <1>7, <1>8, <1>9 DEF CallInv, InTheCall

\* What is collected can be put together.
LEMMA CollectedJoinable ==
    ASSUME AnswerInv, CallInv, phase \in InTheCall
    PROVE  Joinable(collected)
<1>1. Covers(tiles, rounds, size) /\ size \in Nat
  BY DEF CallInv
<1>2. \A i, j \in 1..Len(tiles) : tiles[i].id = tiles[j].id => i = j
  BY DEF AnswerInv, IdInv
<1>3. ASSUME NEW i \in 1..Len(tiles), Answered(collected, i)
      PROVE  collected[tiles[i].id] = Echo(tiles[i])
  <2>1. Fitting(tiles[i].id, collected[tiles[i].id])
    BY <1>3 DEF AnswerInv, FiledInv, Answered
  <2> QED
    BY <2>1 DEF Fitting
<1> QED
  BY <1>1, <1>2, <1>3 DEF Joinable

\* What is put together is whole if nothing is missing, which is JoinWhole.
LEMMA ReassembleCallInv ==
    ASSUME AnswerInv, CallInv, Reassemble
    PROVE  CallInv'
<1>1. /\ phase = "reassemble" /\ phase' = "joined" /\ out' = Join(collected)
      /\ UNCHANGED <<rounds, size, tiles, nextId, dispatched, remaining, collected>>
  BY DEF Reassemble, cutVars
<1>2. Joinable(collected)
  BY <1>1, CollectedJoinable DEF InTheCall
<1>3. /\ Join(collected) \in Data
      /\ (\A i \in 2..Len(tiles) : Answered(collected, i)) => Join(collected) = Whole
  BY <1>2, JoinWhole
<1>4. Whole' = Whole
  BY <1>1 DEF Whole
<1>5. WholeWhenComplete'
  BY <1>1, <1>3, <1>4 DEF WholeWhenComplete, Answered
<1> QED
  BY <1>1, <1>3, <1>5 DEF CallInv, InTheCall

\* The rest of the coordinator's steps, once it has connected.
LEMMA CoordinatorCallInv ==
    ASSUME AnswerInv, CallInv, ConnInv,
           \/ Connect \/ DispatchTile \/ DispatchDone \/ CollectDone \/ NextCall \/ Drop
           \/ \E n \in Nodes : \E id \in remaining : Poll(n, id)
           \/ \E n \in Nodes : ClearAlive(n) \/ PushShutdown(n)
           \/ Closed
    PROVE  CallInv'
<1>1. /\ phase' # "joined"
      /\ UNCHANGED <<rounds, size, nextId>>
      /\ UNCHANGED <<tiles, out>> \/ (tiles' = <<>> /\ out' = <<>>)
      /\ phase' \in InTheCall => phase \in InTheCall /\ UNCHANGED tiles
  BY DEF Connect, DispatchTile, DispatchDone, CollectDone, NextCall, Drop, Poll,
     ClearAlive, PushShutdown, Closed, callVars, cutVars, InTheCall
<1>2. /\ phase' \in {"start", "ready", "closing", "closing_push", "closed"} \cup InTheCall
      /\ rounds' \in Nat /\ nextId' \in Nat /\ rounds' <= nextId' /\ nextId' <= MaxIds
      /\ size' \in Nat
  <2>1. phase' \in {"ready", "collect", "reassemble", "closing", "closing_push", "closed"}
            \/ (phase' = phase /\ phase \in InTheCall)
    BY DEF Connect, DispatchTile, DispatchDone, CollectDone, NextCall, Drop, Poll,
       ClearAlive, PushShutdown, Closed, InTheCall
  <2>2. phase' \in {"start", "ready", "closing", "closing_push", "closed"} \cup InTheCall
    BY <2>1 DEF InTheCall
  <2> QED
    BY <1>1, <2>2 DEF CallInv
<1>3. tiles' \in Seq(Tile) /\ out' \in Data
  <2>1. tiles \in Seq(Tile) /\ out \in Data
    BY DEF CallInv
  <2>2. <<>> \in Seq(Tile) /\ <<>> \in Data
    BY DEF Data
  <2> QED
    BY <1>1, <2>1, <2>2
<1>4. /\ dispatched' \subseteq Nat /\ remaining' \subseteq dispatched'
      /\ remaining' # {} => phase' = "collect"
      /\ dispatched' # {} => phase' \in InTheCall
  <2>1. CASE DispatchTile
    <3>1. tiles[next].id \in Nat
      BY <2>1 DEF DispatchTile, AnswerInv, IdInv
    <3> QED
      BY <2>1, <3>1 DEF DispatchTile, CallInv, InTheCall
  <2>2. CASE ~DispatchTile
    BY <2>2 DEF Connect, DispatchDone, CollectDone, NextCall, Drop, Poll,
       ClearAlive, PushShutdown, Closed, callVars, InTheCall, CallInv
  <2> QED
    BY <2>1, <2>2
<1>5. \A id \in DOMAIN collected' : collected'[id] \in Data
  <2>1. CASE \E n \in Nodes : \E id \in remaining : Poll(n, id)
    <3>1. PICK n \in Nodes : \E id \in DOMAIN results[n] :
             collected' = Insert(collected, [id |-> id, data |-> results[n][id]])
      BY <2>1 DEF Poll
    <3>2. \A id \in DOMAIN results[n] : results[n][id] \in Data
      BY DEF ConnInv
    <3> QED
      BY <3>1, <3>2 DEF Insert, CallInv
  <2>2. CASE collected' = collected \/ collected' = NoAnswers
    BY <2>2 DEF CallInv, NoAnswers
  <2>3. \/ \E n \in Nodes : \E id \in remaining : Poll(n, id)
        \/ collected' = collected \/ collected' = NoAnswers
    BY DEF Connect, DispatchTile, DispatchDone, CollectDone, NextCall, Drop,
       ClearAlive, PushShutdown, Closed, callVars
  <2> QED
    BY <2>1, <2>2, <2>3
<1>6. phase' \in InTheCall => Covers(tiles, rounds, size)'
  BY <1>1 DEF CallInv
<1>7. WholeWhenComplete'
  BY <1>1 DEF WholeWhenComplete
<1> QED
  BY <1>2, <1>3, <1>4, <1>5, <1>6, <1>7 DEF CallInv

\* The nodes that could be reached make the list of workers.
LEMMA ConnectConnInv ==
    ASSUME TileNetAssumption, ConnInv, Connect
    PROVE  ConnInv'
<1>1. PICK ok \in SUBSET Nodes :
         /\ workers' \in [1..Cardinality(ok) -> ok]
         /\ alive' = [n \in Nodes |-> IF n \in ok THEN TRUE ELSE alive[n]]
         /\ sender' = [n \in Nodes |-> IF n \in ok THEN "drain" ELSE sender[n]]
         /\ receiver' = [n \in Nodes |-> IF n \in ok THEN "check" ELSE receiver[n]]
  BY DEF Connect
<1>2. phase' = "ready" /\ UNCHANGED <<ring, results, toWorker, toCoord>>
  BY DEF Connect
<1>3. Cardinality(ok) \in Nat
  <2>1. IsFiniteSet(Nodes)
    <3>1. 1 \in Int /\ NumNodes \in Int
      BY DEF TileNetAssumption
    <3> QED
      BY <3>1, FS_Interval DEF Nodes
  <2> QED
    BY <2>1, FS_Subset, FS_CardinalityType
<1>4. workers' \in Seq(Nodes)
  <2>1. workers' \in Seq(ok)
    BY <1>1, <1>3
  <2>2. Seq(ok) \subseteq Seq(Nodes)
    BY SeqWidens
  <2> QED
    BY <2>1, <2>2
<1>5. alive' \in [Nodes -> BOOLEAN]
  <2>1. \A n \in Nodes : alive[n] \in BOOLEAN
    BY DEF ConnInv
  <2> QED
    BY <1>1, <2>1, Zenon
<1>6. sender' \in [Nodes -> {"drain", "done"}] /\ receiver' \in [Nodes -> {"check", "read", "done"}]
  BY <1>1 DEF ConnInv
<1> QED
  BY <1>2, <1>4, <1>5, <1>6 DEF ConnInv

\* A request is a tag and the tile behind it.
LEMMA RequestParts ==
    ASSUME NEW t \in Tile
    PROVE  /\ Request(t) \in Seq(Part) /\ Len(Request(t)) = 2
           /\ Request(t)[1] \in Part /\ Request(t)[1].tag = "TILE_REQ"
           /\ Request(t)[2] \in Part /\ Request(t)[2].tag = "payload" /\ Request(t)[2].tile = t
<1>1. PICK a, b \in Part : a = [tag |-> "TILE_REQ"] /\ b = [tag |-> "payload", tile |-> t]
  BY DEF Part
<1>2. <<a, b>> \in Seq(Part) /\ Request(t) = <<a, b>>
  BY <1>1 DEF Request
<1> QED
  BY <1>1, <1>2

\* A push that is accepted fits into the ring.
LEMMA DispatchTileConnInv ==
    ASSUME TileNetAssumption, IdInv, CallInv, ConnInv, DispatchTile
    PROVE  ConnInv'
<1> DEFINE w == WorkerOf(next)
           q == Request(tiles[next])
<1>1. /\ phase' = phase /\ phase = "dispatch" /\ next <= Len(tiles)
      /\ UNCHANGED <<workers, alive, results, sender, receiver, toWorker, toCoord>>
      /\ \/ ring' = ring
         \/ ring' = [ring EXCEPT ![w] = @ \o q] /\ Fits(w, q)
  BY DEF DispatchTile, Accepted, wireVars
<1>2. q \in Seq(Part)
  <2>1. tiles[next] \in Tile
    BY <1>1 DEF CallInv, IdInv
  <2> QED
    BY <2>1, RequestParts
<1> HIDE DEF w, q
<1>3. /\ ring' \in [Nodes -> Seq(Part)]
      /\ \A n \in Nodes : Len(ring'[n]) <= RingCap
  <2>1. CASE ring' = ring
    BY <2>1 DEF ConnInv
  <2>2. CASE ring' = [ring EXCEPT ![w] = @ \o q] /\ Fits(w, q)
    <3>1. \A s \in Seq(Part) : s \o q \in Seq(Part) /\ Len(s \o q) = Len(s) + Len(q)
      BY <1>2, ConcatProperties
    <3>2. ring \in [Nodes -> Seq(Part)]
      BY DEF ConnInv
    <3>3. ring' \in [Nodes -> Seq(Part)]
      BY <2>2, <3>1, <3>2
    <3>4. ASSUME NEW n \in Nodes PROVE Len(ring'[n]) <= RingCap
      <4>1. CASE n = w
        BY <2>2, <3>1, <3>2, <4>1 DEF Fits
      <4>2. CASE n # w
        <5>1. ring'[n] = ring[n]
          BY <2>2, <3>2, <4>2
        <5> QED
          BY <5>1 DEF ConnInv
      <4> QED
        BY <4>1, <4>2
    <3> QED
      BY <3>3, <3>4
  <2> QED
    BY <1>1, <2>1, <2>2
<1> QED
  BY <1>1, <1>3 DEF ConnInv

\* So does a SHUTDOWN.
LEMMA PushShutdownConnInv ==
    ASSUME TileNetAssumption, ConnInv, NEW w \in Nodes, PushShutdown(w)
    PROVE  ConnInv'
<1> DEFINE p == [tag |-> "SHUTDOWN"]
<1>1. /\ phase' = "closing" /\ workers' = Tail(workers) /\ workers # <<>>
      /\ UNCHANGED <<alive, results, sender, receiver, toWorker, toCoord>>
      /\ \/ ring' = [ring EXCEPT ![w] = @]
         \/ ring' = [ring EXCEPT ![w] = Append(@, p)] /\ Fits(w, <<1>>)
  BY DEF PushShutdown, ConnInv, wireVars
<1>2. workers' \in Seq(Nodes)
  BY <1>1 DEF ConnInv
<1>3. p \in Part
  BY DEF Part
<1> HIDE DEF p
<1>4. /\ ring' \in [Nodes -> Seq(Part)]
      /\ \A n \in Nodes : Len(ring'[n]) <= RingCap
  <2>1. ring \in [Nodes -> Seq(Part)] /\ \A n \in Nodes : Len(ring[n]) <= RingCap
    BY DEF ConnInv
  <2>2. CASE ring' = [ring EXCEPT ![w] = @]
    BY <2>1, <2>2
  <2>3. CASE ring' = [ring EXCEPT ![w] = Append(@, p)] /\ Fits(w, <<1>>)
    <3>1. \A s \in Seq(Part) : Append(s, p) \in Seq(Part) /\ Len(Append(s, p)) = Len(s) + 1
      BY <1>3
    <3>2. ring' \in [Nodes -> Seq(Part)]
      BY <2>1, <2>3, <3>1
    <3>3. ASSUME NEW n \in Nodes PROVE Len(ring'[n]) <= RingCap
      <4>1. CASE n = w
        BY <2>1, <2>3, <3>1, <4>1 DEF Fits
      <4>2. CASE n # w
        BY <2>1, <2>3, <4>2
      <4> QED
        BY <4>1, <4>2
    <3> QED
      BY <3>2, <3>3
  <2> QED
    BY <1>1, <2>2, <2>3
<1> QED
  BY <1>1, <1>2, <1>4 DEF ConnInv

\* The sender moves a chunk from the ring to the wire.
LEMMA SenderWriteConnInv ==
    ASSUME TileNetAssumption, ConnInv, NEW w \in Nodes, SenderWrite(w)
    PROVE  ConnInv'
<1>1. PICK k \in 1..Len(ring[w]) :
         /\ ring' = [ring EXCEPT ![w] = SubSeq(ring[w], k + 1, Len(ring[w]))]
         /\ toWorker' = [toWorker EXCEPT ![w] =
                            IF link[w] = "up" THEN @ \o SubSeq(ring[w], 1, k) ELSE @]
  BY DEF SenderWrite
<1>2. /\ UNCHANGED <<phase, workers, alive, results, receiver, toCoord>>
      /\ sender' = [sender EXCEPT ![w] = IF link[w] = "up" THEN NextTurn(w) ELSE "done"]
  BY DEF SenderWrite, coordVars
<1>3. ring[w] \in Seq(Part) /\ toWorker[w] \in Seq(Part) /\ Len(ring[w]) \in Nat
  BY DEF ConnInv
<1>4. PICK a, b \in Seq(Part) : a = SubSeq(ring[w], 1, k) /\ b = SubSeq(ring[w], k + 1, Len(ring[w]))
  <2>1. Chunked(Part, toWorker[w], ring[w], k)
    BY <1>3, ChunkMoves, Zenon
  <2> QED
    BY <2>1, Zenon DEF Chunked
<1>5. Len(b) <= Len(ring[w])
  <2>1. k + 1 \in Int /\ Len(ring[w]) \in Int /\ k + 1 <= Len(ring[w]) + 1
    BY <1>3
  <2>2. Len(b) = Len(ring[w]) - k
    BY <1>3, <1>4, <2>1
  <2> QED
    BY <1>3, <2>2
<1>6. /\ ring' \in [Nodes -> Seq(Part)]
      /\ \A n \in Nodes : Len(ring'[n]) <= RingCap
  <2>1. ring \in [Nodes -> Seq(Part)] /\ \A n \in Nodes : Len(ring[n]) <= RingCap
    BY DEF ConnInv
  <2>2. ring' = [ring EXCEPT ![w] = b]
    BY <1>1, <1>4
  <2>3. Len(b) <= RingCap
    BY <1>3, <1>4, <1>5, <2>1 DEF TileNetAssumption
  <2> QED
    BY <2>1, <2>2, <2>3
<1>7. toWorker' \in [Nodes -> Seq(Part)]
  <2>1. toWorker \in [Nodes -> Seq(Part)]
    BY DEF ConnInv
  <2>2. toWorker[w] \o a \in Seq(Part)
    BY <1>3
  <2>3. toWorker' = [toWorker EXCEPT ![w] = IF link[w] = "up" THEN @ \o a ELSE @]
    BY <1>1, <1>4
  <2> QED
    BY <2>1, <2>2, <2>3
<1>8. sender' \in [Nodes -> {"drain", "done"}]
  BY <1>2 DEF ConnInv, NextTurn
<1> QED
  BY <1>2, <1>6, <1>7, <1>8 DEF ConnInv

\* The receiver files data under an id.
LEMMA ReceiverConnInv ==
    ASSUME ConnInv, NEW w \in Nodes, Receiver(w)
    PROVE  ConnInv'
<1>1. CASE ReceiverCheck(w)
  <2>1. receiver' \in [Nodes -> {"check", "read", "done"}]
    BY <1>1 DEF ReceiverCheck, ConnInv
  <2>2. UNCHANGED <<phase, workers, alive, ring, results, sender, toWorker, toCoord>>
    BY <1>1 DEF ReceiverCheck, coordVars, wireVars
  <2> QED
    BY <2>1, <2>2 DEF ConnInv
<1>2. CASE ReceiverEnd(w)
  <2>1. receiver' \in [Nodes -> {"check", "read", "done"}] /\ alive' \in [Nodes -> BOOLEAN]
    BY <1>2 DEF ReceiverEnd, ConnInv
  <2>2. UNCHANGED <<phase, workers, ring, results, sender, toWorker, toCoord>>
    BY <1>2 DEF ReceiverEnd, coordVars, wireVars
  <2> QED
    BY <2>1, <2>2 DEF ConnInv
<1>3. CASE ReceiverAnswer(w)
  <2>1. /\ UNCHANGED <<phase, workers, alive, ring, sender, toWorker>>
        /\ toCoord[w] # <<>>
        /\ results' = [results EXCEPT ![w] = Insert(@, Head(toCoord[w]))]
        /\ toCoord' = [toCoord EXCEPT ![w] = Tail(@)]
    BY <1>3 DEF ReceiverAnswer, coordVars
  <2>2. receiver' \in [Nodes -> {"check", "read", "done"}]
    BY <1>3 DEF ReceiverAnswer, ConnInv
  <2>3. Head(toCoord[w]) \in Answer /\ Tail(toCoord[w]) \in Seq(Answer)
    BY <2>1 DEF ConnInv
  <2>4. toCoord' \in [Nodes -> Seq(Answer)]
    BY <2>1, <2>3 DEF ConnInv
  <2>5. ASSUME NEW n \in Nodes, NEW id \in DOMAIN results'[n]
        PROVE  results'[n][id] \in Data
    <3>1. Head(toCoord[w]).data \in Data
      BY <2>3 DEF Answer
    <3>2. \/ results'[n] = Insert(results[n], Head(toCoord[w]))
          \/ results'[n] = results[n]
      BY <2>1
    <3>3. \A i \in DOMAIN results[n] : results[n][i] \in Data
      BY DEF ConnInv
    <3>4. \/ id \in DOMAIN results[n] /\ results'[n][id] = results[n][id]
          \/ results'[n][id] = Head(toCoord[w]).data
      BY <3>2 DEF Insert
    <3> QED
      BY <3>1, <3>3, <3>4
  <2> QED
    BY <2>1, <2>2, <2>4, <2>5 DEF ConnInv
<1> QED
  BY <1>1, <1>2, <1>3 DEF Receiver

\* The handler at the node takes parts and sends answers.
LEMMA HandlerConnInv ==
    ASSUME AnswerInv, ConnInv, NEW w \in Nodes, Handler(w)
    PROVE  ConnInv'
<1>1. /\ UNCHANGED <<phase, workers, alive, ring, results, sender, receiver>>
      /\ \/ toWorker' = toWorker
         \/ toWorker[w] # <<>> /\ toWorker' = [toWorker EXCEPT ![w] = Tail(@)]
  BY DEF Handler, Accept, ReadTag, ProcessTile, HandlerEnds, HandlerDrops, HandlerFrees,
         coordVars, wireVars
<1>2. toWorker' \in [Nodes -> Seq(Part)]
  <2>1. toWorker[w] # <<>> => Tail(toWorker[w]) \in Seq(Part)
    BY DEF ConnInv
  <2> QED
    BY <1>1, <2>1 DEF ConnInv
<1>3. toCoord' \in [Nodes -> Seq(Answer)]
  <2>1. CASE ProcessTile(w)
    <3> DEFINE t == Head(toWorker[w]).tile
    <3>1. /\ toWorker[w] # <<>> /\ handler[w] = "payload"
          /\ toCoord' = [toCoord EXCEPT ![w] = Append(@, [id |-> t.id, data |-> Echo(t)])]
      BY <2>1 DEF ProcessTile
    <3>2. Head(toWorker[w]) \in Part /\ Head(toWorker[w]).tag = "payload"
      <4>1. PICK P, A : Carried(P, A)
        BY DEF AnswerInv
      <4>2. Head(toWorker[w]).tag = "payload"
        BY <3>1, <4>1, HandlerTakes
      <4>3. toWorker[w] \in Seq(Part)
        BY DEF ConnInv
      <4> QED
        BY <3>1, <4>2, <4>3
    <3>3. t \in Tile
      BY <3>2 DEF Part
    <3>4. [id |-> t.id, data |-> Echo(t)] \in Answer
      <4>1. t.id \in Nat
        BY <3>3 DEF Tile
      <4>2. Echo(t) \in Data
        BY <3>3, EchoType
      <4> HIDE DEF t
      <4> QED
        BY <4>1, <4>2 DEF Answer
    <3>5. \A s \in Seq(Answer) : Append(s, [id |-> t.id, data |-> Echo(t)]) \in Seq(Answer)
      BY <3>4
    <3> QED
      BY <3>1, <3>5 DEF ConnInv
  <2>2. CASE toCoord' = toCoord
    BY <2>2 DEF ConnInv
  <2> QED
    BY <2>1, <2>2 DEF Handler, Accept, ReadTag, HandlerEnds, HandlerDrops, HandlerFrees, wireVars
<1> QED
  BY <1>1, <1>2, <1>3 DEF ConnInv

\* Polling takes an answer away.
LEMMA PollConnInv ==
    ASSUME ConnInv, NEW n \in Nodes, NEW id, Poll(n, id)
    PROVE  ConnInv'
<1>1. /\ UNCHANGED <<phase, workers, alive, ring, sender, receiver, toWorker, toCoord>>
      /\ results' = [results EXCEPT ![n] = Remove(@, id)]
  BY DEF Poll, wireVars
<1>2. ASSUME NEW m \in Nodes, NEW i \in DOMAIN results'[m]
      PROVE  results'[m][i] \in Data
  <2>1. results'[m] = Remove(results[m], id) \/ results'[m] = results[m]
    BY <1>1
  <2> QED
    BY <2>1 DEF Remove, ConnInv
<1> QED
  BY <1>1, <1>2 DEF ConnInv

\* Every step keeps the invariant.
LEMMA NextTypeInv ==
    ASSUME TileNetAssumption, EngineAssumption, TypeInv, [Next]_vars
    PROVE  TypeInv'
<1>1. AnswerInv /\ CallInv /\ ConnInv /\ IdInv
  BY DEF TypeInv, AnswerInv
<1>2. AnswerInv'
  BY <1>1, NextAnswerInv
<1>3. CASE Decompose
  <2>1. CallInv'
    BY <1>1, <1>3, DecomposeCallInv
  <2>2. ConnInv'
    BY <1>1, <1>3, ConnStays DEF Decompose
  <2> QED
    BY <1>2, <2>1, <2>2 DEF TypeInv
<1>4. CASE Reassemble
  <2>1. CallInv'
    BY <1>1, <1>4, ReassembleCallInv
  <2>2. ConnInv'
    BY <1>1, <1>4, ConnStays DEF Reassemble
  <2> QED
    BY <1>2, <2>1, <2>2 DEF TypeInv
<1>5. CASE \/ Connect \/ DispatchTile \/ DispatchDone \/ CollectDone \/ NextCall \/ Drop
           \/ \E n \in Nodes : \E id \in remaining : Poll(n, id)
           \/ \E n \in Nodes : ClearAlive(n) \/ PushShutdown(n)
           \/ Closed
  <2>1. CallInv'
    BY <1>1, <1>5, CoordinatorCallInv
  <2>2. ConnInv'
    <3>1. CASE Connect
      BY <1>1, <3>1, ConnectConnInv
    <3>2. CASE DispatchTile
      BY <1>1, <3>2, DispatchTileConnInv
    <3>3. CASE \E n \in Nodes : PushShutdown(n)
      BY <1>1, <3>3, PushShutdownConnInv
    <3>4. CASE \E n \in Nodes : \E id \in remaining : Poll(n, id)
      BY <1>1, <3>4, PollConnInv
    <3>5. CASE DispatchDone \/ CollectDone \/ NextCall \/ Drop \/ Closed
      <4>1. UNCHANGED <<workers, connVars>> /\ phase' # "closing_push"
        BY <3>5 DEF DispatchDone, CollectDone, NextCall, Drop, Closed
      <4> QED
        BY <1>1, <4>1, ConnStays
    <3>6. CASE \E n \in Nodes : ClearAlive(n)
      <4>1. PICK n \in Nodes : ClearAlive(n)
        BY <3>6
      <4>2. /\ UNCHANGED <<workers, ring, results, sender, receiver, toWorker, toCoord>>
            /\ workers # <<>> /\ alive' = [alive EXCEPT ![n] = FALSE]
        BY <4>1 DEF ClearAlive, wireVars
      <4>3. alive' \in [Nodes -> BOOLEAN]
        BY <1>1, <4>2 DEF ConnInv
      <4> QED
        BY <1>1, <4>2, <4>3 DEF ConnInv
    <3> QED
      BY <1>5, <3>1, <3>2, <3>3, <3>4, <3>5, <3>6
  <2> QED
    BY <1>2, <2>1, <2>2 DEF TypeInv
<1>6. ASSUME NEW n \in Nodes, Sender(n) \/ Receiver(n) \/ Handler(n) \/ Reset(n)
      PROVE  TypeInv'
  <2>1. UNCHANGED coordVars
    BY <1>6 DEF Sender, Receiver, Handler, Reset, SenderIdle, SenderWrite, ReceiverCheck,
       ReceiverAnswer, ReceiverEnd, Accept, ReadTag, ProcessTile, HandlerEnds, HandlerDrops,
       HandlerFrees
  <2>2. CallInv'
    BY <1>1, <2>1, CallStays
  <2>3. ConnInv'
    <3>1. CASE SenderIdle(n)
      <4>1. /\ UNCHANGED <<phase, workers, alive, ring, results, receiver, toWorker, toCoord>>
            /\ sender' = [sender EXCEPT ![n] = NextTurn(n)]
        BY <3>1 DEF SenderIdle, coordVars, wireVars
      <4>2. sender' \in [Nodes -> {"drain", "done"}]
        BY <1>1, <4>1 DEF ConnInv, NextTurn
      <4> QED
        BY <1>1, <4>1, <4>2 DEF ConnInv
    <3>2. CASE SenderWrite(n)
      BY <1>1, <3>2, SenderWriteConnInv
    <3>3. CASE Receiver(n)
      BY <1>1, <3>3, ReceiverConnInv
    <3>4. CASE Handler(n)
      BY <1>1, <3>4, HandlerConnInv
    <3>5. CASE Reset(n)
      BY <1>1, <3>5 DEF Reset, ConnInv, coordVars
    <3> QED
      BY <1>6, <3>1, <3>2, <3>3, <3>4, <3>5 DEF Sender
  <2> QED
    BY <1>2, <2>2, <2>3 DEF TypeInv
<1>7. CASE UNCHANGED vars
  <2>1. UNCHANGED <<coordVars, connVars>>
    BY <1>7 DEF vars
  <2>2. CallInv'
    BY <1>1, <2>1, CallStays
  <2>3. ConnInv'
    BY <1>1, <2>1, ConnStays DEF coordVars
  <2> QED
    BY <1>2, <2>2, <2>3 DEF TypeInv
<1> QED
  BY <1>3, <1>4, <1>5, <1>6, <1>7 DEF Next, Coordinator, InCall

\* The invariant holds in every state that can be reached.
LEMMA SpecTypeInv == Spec => []TypeInv
<1>1. Init => TypeInv
  BY InitTypeInv, TileNetAssumption
<1>2. TypeInv /\ [Next]_vars => TypeInv'
  BY NextTypeInv, TileNetAssumption, EngineAssumption
<1> QED
  BY <1>1, <1>2, PTL DEF Spec

\* Every part on the way is a tag, a tile or a SHUTDOWN, a ring never holds more
\* than its capacity, and what is polled was dispatched (network.rs: Tile,
\* RingBuffer::push, collect).
THEOREM TileNetTypeCorrect == Spec => []TileNetTypeOK
<1>1. TileNetAssumption /\ TypeInv => TileNetTypeOK
  <2> SUFFICES ASSUME TileNetAssumption, TypeInv PROVE TileNetTypeOK
    OBVIOUS
  <2>1. HookInv /\ IdInv /\ FiledInv /\ FrameInv /\ CallInv /\ ConnInv
    BY DEF TypeInv, AnswerInv
  <2>2. EngineTypeOK
    BY <2>1 DEF HookInv, EngineTypeOK, TileNetAssumption
  <2>3. rounds \in 0..MaxIds
    BY <2>1 DEF CallInv, TileNetAssumption
  <2>4. DOMAIN collected \subseteq Nat
    BY <2>1 DEF FiledInv, Fitting
  <2>5. handler \in [Nodes -> {"backlog", "tag", "payload", "drop", "free", "done"}]
    BY <2>1 DEF HookInv, Holding
  <2>6. next \in Nat /\ link \in [Nodes -> {"up", "reset"}]
    BY <2>1 DEF IdInv, FrameInv
  <2>7. phase \in {"start", "ready", "dispatch", "collect", "reassemble",
                   "joined", "closing", "closing_push", "closed"}
    BY <2>1 DEF CallInv, InTheCall
  <2> QED
    BY <2>1, <2>2, <2>3, <2>4, <2>5, <2>6, <2>7 DEF TileNetTypeOK, CallInv, ConnInv
<1> QED
  BY <1>1, SpecTypeInv, TileNetAssumption, PTL

\* What reassemble returns is the whole result if no answer is missing
\* (network.rs: decompose, reassemble).
THEOREM ReassembledWhole == Spec => []WholeWhenComplete
<1>1. TypeInv => WholeWhenComplete
  BY DEF TypeInv, CallInv
<1> QED
  BY <1>1, SpecTypeInv, PTL

-----------------------------------------------------------------------------
(* The tiles as shares of the service, and what is joined of them. *)

\* Tiles that cover a graph lie apart, in the order of their elements.
LEMMA TilesApart ==
    ASSUME NEW ts, NEW r, NEW s \in Nat, Covers(ts, r, s)
    PROVE  /\ Len(ts) \in Nat \ {0} /\ ts[1].start = 0
           /\ ts[Len(ts)].start + ts[Len(ts)].count = s
           /\ \A i \in 1..Len(ts) : /\ ts[i].start \in Nat /\ ts[i].count \in Nat \ {0}
                                    /\ ts[i].start + ts[i].count \in Nat
           /\ \A i \in 2..Len(ts) : ts[i].start = ts[i - 1].start + ts[i - 1].count
           /\ \A i, j \in 1..Len(ts) : i < j => ts[i].start + ts[i].count <= ts[j].start
<1> DEFINE last == Len(ts)
           T == {j \in 1..last :
                   \A i \in 1..last : i < j => ts[i].start + ts[i].count <= ts[j].start}
<1>1. ts \in Seq(Tile) /\ last \in Nat \ {0}
  BY DEF Covers
<1>2. \A i \in 1..last : /\ ts[i].start \in Nat /\ ts[i].count \in Nat \ {0}
                         /\ ts[i].start + ts[i].count \in Nat
  <2>1. \A t \in Tile : t.start \in Nat /\ t.count \in Nat
    BY DEF Tile
  <2>2. \A i \in 1..last : ts[i] \in Tile /\ ts[i].count > 0
    BY <1>1 DEF Covers
  <2>3. \A i \in 1..last : ts[i].start \in Nat /\ ts[i].count \in Nat \ {0}
    BY <2>1, <2>2
  <2> QED
    BY <2>3
<1>3. /\ ts[1].start = 0
      /\ ts[last].start + ts[last].count = s
      /\ \A i \in 2..last : ts[i].start = ts[i - 1].start + ts[i - 1].count
  BY DEF Covers
<1>4. 1 \in T
  BY <1>1
<1>5. ASSUME NEW j \in (1 + 1)..last, j - 1 \in T PROVE j \in T
  <2>1. j \in 2..last /\ j \in 1..last /\ j - 1 \in 1..last
    BY <1>5
  <2>2. \A i \in 1..last : i < j - 1 => ts[i].start + ts[i].count <= ts[j - 1].start
    BY <1>5
  <2>3. /\ ts[j].start = ts[j - 1].start + ts[j - 1].count
        /\ ts[j - 1].start \in Nat /\ ts[j - 1].count \in Nat
    BY <1>2, <1>3, <2>1
  <2>4. ASSUME NEW i \in 1..last, i < j PROVE ts[i].start + ts[i].count <= ts[j].start
    <3>1. CASE i = j - 1
      BY <2>3, <3>1
    <3>2. CASE i # j - 1
      <4>1. i < j - 1
        BY <2>1, <2>4, <3>2
      <4>2. ts[i].start + ts[i].count <= ts[j - 1].start /\ ts[i].start + ts[i].count \in Nat
        BY <1>2, <2>2, <4>1
      <4> QED
        BY <2>3, <4>2
    <3> QED
      BY <3>1, <3>2
  <2> QED
    BY <2>1, <2>4
<1>6. \A j \in 1..last : j \in T
  <2>1. 1 \in Int /\ last \in Int
    BY <1>1
  <2> HIDE DEF T
  <2> QED
    BY <1>4, <1>5, <2>1, IntervalInduction, Zenon
<1> QED
  BY <1>1, <1>2, <1>3, <1>6

\* They are a division of the elements, and the first element is in the first.
LEMMA TilesDivide ==
    ASSUME NEW ts, NEW r, NEW s \in Nat, Covers(ts, r, s)
    PROVE  /\ Service!IsDivision({Share(ts[i]) : i \in 1..Len(ts)}, s)
           /\ \A i \in 1..Len(ts) : 1 \in Share(ts[i]) <=> i = 1
           /\ \A i, j \in 1..Len(ts) : Share(ts[i]) = Share(ts[j]) => i = j
<1> DEFINE last == Len(ts)
           B(i) == ts[i].start
           E(i) == ts[i].start + ts[i].count
           S(i) == (B(i) + 1)..E(i)
           P == {S(i) : i \in 1..last}
           T == {i \in 1..last : \A k \in 1..E(i) : \E j \in 1..last : k \in S(j)}
<1>1. /\ last \in Nat \ {0} /\ B(1) = 0 /\ E(last) = s
      /\ \A i \in 1..last : B(i) \in Nat /\ E(i) \in Nat /\ B(i) < E(i)
      /\ \A i \in 2..last : B(i) = E(i - 1)
      /\ \A i, j \in 1..last : i < j => E(i) <= B(j)
  <2>1. /\ last \in Nat \ {0} /\ B(1) = 0 /\ E(last) = s
        /\ \A i \in 1..last : ts[i].start \in Nat /\ ts[i].count \in Nat \ {0}
        /\ \A i \in 2..last : B(i) = E(i - 1)
        /\ \A i, j \in 1..last : i < j => E(i) <= B(j)
    BY TilesApart
  <2>2. \A i \in 1..last : B(i) \in Nat /\ E(i) \in Nat /\ B(i) < E(i)
    BY <2>1
  <2> QED
    BY <2>1, <2>2
<1>2. /\ \A i \in 1..last : Share(ts[i]) = S(i)
      /\ {Share(ts[i]) : i \in 1..last} = P
  BY DEF Share
<1> HIDE DEF B, E
<1>3. \A i, j \in 1..last : i # j => S(i) \cap S(j) = {}
  <2> SUFFICES ASSUME NEW i \in 1..last, NEW j \in 1..last, i # j, NEW k \in Int,
                      k \in S(i), k \in S(j)
               PROVE  FALSE
    BY <1>1
  <2>1. i < j \/ j < i
    BY <1>1
  <2>2. B(i) < k /\ k <= E(i) /\ B(j) < k /\ k <= E(j)
    BY <1>1
  <2>3. E(i) <= B(j) \/ E(j) <= B(i)
    BY <1>1, <2>1
  <2> QED
    BY <1>1, <2>2, <2>3
<1>4. \A i \in 1..last : S(i) # {} /\ S(i) \subseteq 1..s
  <2> SUFFICES ASSUME NEW i \in 1..last PROVE S(i) # {} /\ S(i) \subseteq 1..s
    OBVIOUS
  <2>1. E(i) <= s
    <3>1. CASE i = last
      BY <1>1, <3>1
    <3>2. CASE i # last
      <4>1. i < last /\ last \in 1..last
        BY <1>1, <3>2
      <4>2. E(i) <= B(last) /\ B(last) < E(last)
        BY <1>1, <4>1
      <4> QED
        BY <1>1, <4>1, <4>2
    <3> QED
      BY <3>1, <3>2
  <2>2. B(i) + 1 \in S(i)
    BY <1>1
  <2> QED
    BY <1>1, <2>1, <2>2
<1>5. \A i \in 1..last : 1 \in S(i) <=> i = 1
  <2>1. 1 \in 1..last /\ 1 \in S(1)
    BY <1>1
  <2> QED
    BY <1>3, <2>1
<1>6. \A i, j \in 1..last : S(i) = S(j) => i = j
  BY <1>3, <1>4
<1>7. \A k \in 1..s : \E j \in 1..last : k \in S(j)
  <2>1. 1 \in T
    BY <1>1
  <2>2. ASSUME NEW i \in (1 + 1)..last, i - 1 \in T PROVE i \in T
    <3>1. i \in 2..last /\ i \in 1..last /\ B(i) = E(i - 1) /\ i - 1 \in 1..last
      BY <1>1, <2>2
    <3>2. ASSUME NEW k \in 1..E(i) PROVE \E j \in 1..last : k \in S(j)
      <4>1. k \in 1..E(i - 1) \/ k \in S(i)
        BY <1>1, <3>1
      <4> QED
        BY <2>2, <3>1, <4>1
    <3> QED
      BY <3>1, <3>2
  <2>3. \A i \in 1..last : i \in T
    <3>1. 1 \in Int /\ last \in Int
      BY <1>1
    <3> HIDE DEF T
    <3> QED
      BY <2>1, <2>2, <3>1, IntervalInduction, Zenon
  <2>4. last \in 1..last
    BY <1>1
  <2> QED
    BY <1>1, <2>3, <2>4
<1>8. Service!IsDivision(P, s)
  <2>1. UNION P = 1..s
    BY <1>4, <1>7
  <2>2. \A x \in P : \E a \in 1..s : \E b \in a..s : x = a..b
    <3> SUFFICES ASSUME NEW i \in 1..last
                 PROVE  \E a \in 1..s : \E b \in a..s : S(i) = a..b
      OBVIOUS
    <3>1. B(i) + 1 \in S(i) /\ E(i) \in S(i)
      BY <1>1
    <3>2. B(i) + 1 \in 1..s /\ E(i) \in (B(i) + 1)..s
      BY <1>1, <1>4, <3>1
    <3> QED
      BY <3>2
  <2>3. \A x, y \in P : x # y => x \cap y = {}
    <3> SUFFICES ASSUME NEW i \in 1..last, NEW j \in 1..last, S(i) # S(j)
                 PROVE  S(i) \cap S(j) = {}
      OBVIOUS
    <3>1. i # j
      OBVIOUS
    <3> HIDE DEF S
    <3> QED
      BY <1>3, <3>1
  <2> HIDE DEF P
  <2> QED
    BY <2>1, <2>2, <2>3 DEF Service!IsDivision
<1> HIDE DEF S, P
<1> QED
  BY <1>2, <1>5, <1>6, <1>8

\* The elements of a sequence of numbers, in order, one of which is behind the
\* others.
LEMMA OrderExtends ==
    ASSUME NEW K, NEW L, NEW r, NEW u, NEW v, NEW e \in Nat, NEW c \in Nat,
           K \subseteq 1..e, L = K \cup ((e + 1)..(e + c)),
           Len(u) \in Nat, Len(v) = Len(u) + c,
           Service!InOrder(K, r, u),
           \A k \in 1..(Len(u) + c) :
               v[k] = IF k <= Len(u) THEN u[k] ELSE At(r, e + (k - Len(u)))
    PROVE  Service!InOrder(L, r, v)
<1>1. PICK m \in Nat : m = Len(u)
  OBVIOUS
<1>2. PICK f \in [1..m -> K] :
         /\ \A i, j \in 1..m : i < j => f[i] < f[j]
         /\ \A k \in K : \E i \in 1..m : f[i] = k
         /\ \A i \in 1..m : u[i] = At(r, f[i])
  BY <1>1 DEF Service!InOrder
<1>3. PICK g : g = [k \in 1..(m + c) |-> IF k <= m THEN f[k] ELSE e + (k - m)]
  OBVIOUS
<1>4. \A k \in 1..m : k \in 1..(m + c) /\ g[k] = f[k] /\ f[k] \in K /\ f[k] \in 1..e
  <2> SUFFICES ASSUME NEW k \in 1..m
               PROVE  k \in 1..(m + c) /\ g[k] = f[k] /\ f[k] \in K /\ f[k] \in 1..e
    OBVIOUS
  <2>1. k \in 1..(m + c) /\ k <= m
    OBVIOUS
  <2>2. f[k] \in K
    BY <1>2
  <2> QED
    BY <1>3, <2>1, <2>2
<1>5. \A k \in 1..(m + c) : ~(k <= m) =>
         /\ g[k] = e + (k - m) /\ k - m \in 1..c /\ g[k] \in (e + 1)..(e + c)
  BY <1>3
<1>6. g \in [1..(m + c) -> L]
  <2>1. \A k \in 1..(m + c) : g[k] \in L
    <3> SUFFICES ASSUME NEW k \in 1..(m + c) PROVE g[k] \in L
      OBVIOUS
    <3>1. CASE k <= m
      <4>1. k \in 1..m
        BY <3>1
      <4> QED
        BY <1>4, <4>1
    <3>2. CASE ~(k <= m)
      BY <1>5, <3>2
    <3> QED
      BY <3>1, <3>2
  <2> QED
    BY <1>3, <2>1
<1>7. \A i, j \in 1..(m + c) : i < j => g[i] < g[j]
  <2> SUFFICES ASSUME NEW i \in 1..(m + c), NEW j \in 1..(m + c), i < j PROVE g[i] < g[j]
    OBVIOUS
  <2>1. CASE j <= m
    <3>1. i \in 1..m /\ j \in 1..m
      BY <2>1
    <3> QED
      BY <1>2, <1>4, <3>1
  <2>2. CASE ~(j <= m) /\ i <= m
    <3>1. i \in 1..m
      BY <2>2
    <3>2. g[i] \in 1..e /\ g[j] \in (e + 1)..(e + c)
      BY <1>4, <1>5, <2>2, <3>1
    <3> QED
      BY <3>2
  <2>3. CASE ~(j <= m) /\ ~(i <= m)
    <3>1. g[i] = e + (i - m) /\ g[j] = e + (j - m)
      BY <1>5, <2>3
    <3> QED
      BY <3>1
  <2> QED
    BY <2>1, <2>2, <2>3
<1>8. \A k \in L : \E i \in 1..(m + c) : g[i] = k
  <2> SUFFICES ASSUME NEW k \in L PROVE \E i \in 1..(m + c) : g[i] = k
    OBVIOUS
  <2>1. CASE k \in K
    BY <1>2, <1>4, <2>1
  <2>2. CASE k \in (e + 1)..(e + c)
    <3>1. m + (k - e) \in 1..(m + c) /\ ~(m + (k - e) <= m) /\ e + ((m + (k - e)) - m) = k
      BY <2>2
    <3> QED
      BY <1>5, <3>1
  <2> QED
    BY <2>1, <2>2
<1>9. \A i \in 1..(m + c) : v[i] = At(r, g[i])
  <2> SUFFICES ASSUME NEW i \in 1..(m + c) PROVE v[i] = At(r, g[i])
    OBVIOUS
  <2>1. CASE i <= m
    <3>1. i \in 1..m /\ v[i] = u[i]
      BY <1>1, <2>1
    <3> QED
      BY <1>2, <1>4, <3>1
  <2>2. CASE ~(i <= m)
    BY <1>1, <1>5, <2>2
  <2> QED
    BY <2>1, <2>2
<1> QED
  <2>1. 1..Len(v) = 1..(m + c)
    BY <1>1
  <2>2. /\ g \in [1..Len(v) -> L]
        /\ \A i, j \in 1..Len(v) : i < j => g[i] < g[j]
        /\ \A k \in L : \E i \in 1..Len(v) : g[i] = k
        /\ \A i \in 1..Len(v) : v[i] = At(r, g[i])
    BY <1>6, <1>7, <1>8, <1>9, <2>1, Zenon
  <2> QED
    BY <2>2, Zenon DEF Service!InOrder

\* What reassemble returns is the answered tiles' elements, in order.
LEMMA JoinedInOrder ==
    ASSUME NEW done, Joinable(done)
    PROVE  Service!InOrder(UNION {x \in {Share(tiles[i]) : i \in 1..Len(tiles)} :
                                     1 \in x \/ x \in Shares(DOMAIN done)},
                           rounds, Join(done))
<1> DEFINE last == Len(tiles)
           J(i) == Joined(done)[i]
           S(i) == Share(tiles[i])
           Got(j) == j = 1 \/ Answered(done, j)
           K(i) == {k \in 1..End(i) : \E j \in 1..i : Got(j) /\ k \in S(j)}
           T == {i \in 1..last : Service!InOrder(K(i), rounds, J(i))}
<1>1. /\ last \in Nat \ {0} /\ End(1) = tiles[1].count
      /\ \A i \in 1..last : /\ tiles[i].count \in Nat \ {0} /\ Len(J(i)) \in Nat
                             /\ End(i) \in Nat
      /\ \A i \in 2..last : /\ tiles[i].start = End(i - 1)
                             /\ End(i) = End(i - 1) + tiles[i].count
  BY JoinedStep, EndsAdjacent
<1>2. \A i, j \in 1..last : i < j => End(i) <= tiles[j].start
  BY TilesApart DEF Joinable, End
<1>3. /\ S(1) = 1..End(1)
      /\ \A i \in 2..last : S(i) = (End(i - 1) + 1)..End(i)
  <2>1. tiles[1].start = 0
    BY DEF Joinable, Covers
  <2> QED
    BY <1>1, <2>1 DEF Share, End
<1> HIDE DEF S
<1>4. /\ K(1) = 1..End(1)
      /\ \A i \in 2..last :
            /\ K(i - 1) \subseteq 1..End(i - 1)
            /\ K(i) = IF Got(i) THEN K(i - 1) \cup ((End(i - 1) + 1)..End(i)) ELSE K(i - 1)
  <2>1. K(1) = 1..End(1)
    <3>1. \A j : j \in 1..1 <=> j = 1
      OBVIOUS
    <3>2. Got(1) /\ S(1) = 1..End(1)
      BY <1>3
    <3> HIDE DEF Got
    <3> QED
      BY <3>1, <3>2
  <2>2. ASSUME NEW i \in 2..last
        PROVE  K(i) = IF Got(i) THEN K(i - 1) \cup ((End(i - 1) + 1)..End(i)) ELSE K(i - 1)
    <3>1. i - 1 \in 1..last /\ i \in 1..last /\ End(i - 1) \in Nat /\ End(i) \in Nat
          /\ End(i - 1) < End(i)
      BY <1>1
    <3>2. ASSUME NEW j \in 1..(i - 1), NEW k \in S(j) PROVE k \in 1..End(i - 1)
      <4>1. j \in 1..last /\ k \in Int /\ 1 <= k /\ k <= End(j) /\ End(j) \in Nat
        <5>1. j = 1 \/ j \in 2..last
          BY <3>1
        <5>2. CASE j = 1
          BY <1>1, <1>3, <3>1, <5>2
        <5>3. CASE j \in 2..last
          <6>1. End(j - 1) \in Nat /\ End(j) \in Nat
            BY <1>1, <5>3
          <6> QED
            BY <1>3, <5>3, <6>1
        <5> QED
          BY <5>1, <5>2, <5>3
      <4>2. CASE j = i - 1
        BY <3>1, <4>1, <4>2
      <4>3. CASE j # i - 1
        <5>1. j < i - 1 /\ tiles[i - 1].start \in Nat /\ tiles[i - 1].start <= End(i - 1)
          <6>1. j < i - 1 /\ i - 1 \in 2..last
            BY <3>1, <4>3
          <6>2. tiles[i - 1].start = End(i - 2) /\ End(i - 1) = End(i - 2) + tiles[i - 1].count
                /\ End(i - 2) \in Nat /\ tiles[i - 1].count \in Nat
            <7>1. (i - 1) - 1 = i - 2 /\ i - 2 \in 1..last
              BY <6>1
            <7> QED
              BY <1>1, <3>1, <6>1, <7>1
          <6> QED
            BY <6>1, <6>2
        <5>2. End(j) <= tiles[i - 1].start
          BY <1>2, <3>1, <4>1, <5>1
        <5> QED
          BY <3>1, <4>1, <5>1, <5>2
      <4> QED
        BY <4>2, <4>3
    <3>3. S(i) = (End(i - 1) + 1)..End(i)
      BY <1>3
    <3>4. \A j : j \in 1..i <=> j \in 1..(i - 1) \/ j = i
      OBVIOUS
    <3> HIDE DEF Got
    <3>5. \A k : k \in K(i - 1) <=> \E j \in 1..(i - 1) : Got(j) /\ k \in S(j)
      BY <3>2
    <3>6. \A k \in S(i) : k \in 1..End(i)
      BY <3>1, <3>3
    <3>7. \A k \in 1..End(i - 1) : k \in 1..End(i)
      BY <3>1
    <3>8. \A k : k \in K(i) <=> \E j \in 1..i : Got(j) /\ k \in S(j)
      BY <3>2, <3>4, <3>6, <3>7
    <3> HIDE DEF K
    <3>9. \A k : k \in K(i) <=> k \in K(i - 1) \/ (Got(i) /\ k \in S(i))
      BY <3>4, <3>5, <3>8
    <3> QED
      BY <3>3, <3>9
  <2>3. \A i \in 2..last : K(i - 1) \subseteq 1..End(i - 1)
    OBVIOUS
  <2> QED
    BY <2>1, <2>2, <2>3
<1> HIDE DEF K
<1>5. 1 \in T
  <2>1. PICK n \in Nat : n = End(1) /\ n = Len(J(1))
    BY <1>1, JoinedStep
  <2>2. \A k \in 1..n : J(1)[k] = At(rounds, k)
    BY <1>1, <2>1, JoinedStep
  <2>3. PICK f : f = [k \in 1..n |-> k]
    OBVIOUS
  <2>4. f \in [1..n -> K(1)] /\ \A k \in 1..n : f[k] = k
    BY <1>4, <2>1, <2>3
  <2> HIDE DEF J
  <2>5. Service!InOrder(K(1), rounds, J(1))
    BY <1>4, <2>1, <2>2, <2>4 DEF Service!InOrder
  <2> QED
    BY <1>1, <2>5
<1>6. ASSUME NEW i \in (1 + 1)..last, i - 1 \in T PROVE i \in T
  <2>1. i \in 2..last /\ i \in 1..last /\ i - 1 \in 1..last /\ i # 1
    BY <1>6
  <2>2. Service!InOrder(K(i - 1), rounds, J(i - 1))
    BY <1>6
  <2>3. CASE Answered(done, i)
    <3>1. /\ Len(J(i)) = Len(J(i - 1)) + tiles[i].count
          /\ \A k \in 1..(Len(J(i - 1)) + tiles[i].count) :
                J(i)[k] = IF k <= Len(J(i - 1)) THEN J(i - 1)[k]
                          ELSE At(rounds, tiles[i].start + (k - Len(J(i - 1))))
      BY <2>1, <2>3, JoinedStep
    <3> HIDE DEF J
    <3>2. PICK e \in Nat, c \in Nat : e = End(i - 1) /\ c = tiles[i].count
      BY <1>1, <2>1
    <3>3. e = tiles[i].start /\ End(i) = e + c /\ Len(J(i - 1)) \in Nat
      BY <1>1, <2>1, <3>2
    <3>4. K(i - 1) \subseteq 1..e /\ K(i) = K(i - 1) \cup ((e + 1)..(e + c))
      BY <1>4, <2>1, <2>3, <3>2, <3>3
    <3>5. PICK u, v, A, B : u = J(i - 1) /\ v = J(i) /\ A = K(i - 1) /\ B = K(i)
      OBVIOUS
    <3>6. /\ A \subseteq 1..e /\ B = A \cup ((e + 1)..(e + c))
          /\ Len(u) \in Nat /\ Len(v) = Len(u) + c
          /\ Service!InOrder(A, rounds, u)
          /\ \A k \in 1..(Len(u) + c) :
                v[k] = IF k <= Len(u) THEN u[k] ELSE At(rounds, e + (k - Len(u)))
      BY <2>2, <3>1, <3>2, <3>3, <3>4, <3>5
    <3>7. Service!InOrder(B, rounds, v)
      BY <3>6, OrderExtends, Zenon
    <3> QED
      BY <2>1, <3>5, <3>7
  <2>4. CASE ~Answered(done, i)
    <3>1. J(i) = J(i - 1)
      BY <2>1, <2>4, JoinedStep
    <3>2. K(i) = K(i - 1)
      BY <1>4, <2>1, <2>4
    <3> HIDE DEF J
    <3> QED
      BY <2>1, <2>2, <3>1, <3>2
  <2> QED
    BY <2>3, <2>4
<1>7. \A i \in 1..last : i \in T
  <2>1. 1 \in Int /\ last \in Int
    BY <1>1
  <2> HIDE DEF T
  <2> QED
    BY <1>5, <1>6, <2>1, IntervalInduction, Zenon
<1>8. Service!InOrder(K(last), rounds, Join(done))
  <2>1. last \in T
    BY <1>1, <1>7
  <2> QED
    BY <2>1 DEF Join
<1>9. K(last) = UNION {x \in {S(i) : i \in 1..last} : 1 \in x \/ x \in Shares(DOMAIN done)}
  <2>1. /\ Service!IsDivision({S(i) : i \in 1..last}, size)
        /\ \A i \in 1..last : 1 \in S(i) <=> i = 1
        /\ \A i, j \in 1..last : S(i) = S(j) => i = j
    BY TilesDivide DEF Joinable, S
  <2>2. End(last) = size
    BY EndsAdjacent
  <2>3. \A i \in 1..last : S(i) \subseteq 1..End(last)
    BY <2>1, <2>2 DEF Service!IsDivision
  <2>4. \A i \in 1..last : S(i) \in Shares(DOMAIN done) <=> Answered(done, i)
    <3>1. Shares(DOMAIN done) = {S(i) : i \in {j \in 1..last : Answered(done, j)}}
      BY DEF Shares, Answered, S
    <3> QED
      BY <2>1, <3>1
  <2>5. \A i \in 1..last : (1 \in S(i) \/ S(i) \in Shares(DOMAIN done)) <=> Got(i)
    BY <2>1, <2>4
  <2> HIDE DEF Got
  <2>6. K(last) = {k \in 1..End(last) : \E j \in 1..last : Got(j) /\ k \in S(j)}
    BY DEF K
  <2> QED
    BY <2>3, <2>5, <2>6
<1> QED
  BY <1>8, <1>9 DEF S

=============================================================================
