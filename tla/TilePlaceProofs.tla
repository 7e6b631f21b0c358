-------------------------- MODULE TilePlaceProofs --------------------------
(***************************************************************************)
(* Where a tile is on its way from dispatch to collect: in one place, and  *)
(* not lost while its connection stands; and that the network layer        *)
(* implements the service of module TileService.                           *)
(***************************************************************************)
EXTENDS TileNetProofs

-----------------------------------------------------------------------------
(* Message parts and answers by the ids of their tiles. *)

\* The tile of that id waits in a sequence of parts.
Carries(s, id) == \E k \in 1..Len(s) : s[k].tag = "payload" /\ s[k].tile.id = id

\* No two payloads in it are for the same tile.
Once(s) ==
    \A j, k \in 1..Len(s) :
        s[j].tag = "payload" /\ s[k].tag = "payload" /\ s[j].tile.id = s[k].tile.id => j = k

\* The answer for that id waits in a sequence of answers.
Holds(a, id) == \E k \in 1..Len(a) : a[k].id = id

\* No two answers in it are for the same tile.
Distinct(a) == \A j, k \in 1..Len(a) : a[j].id = a[k].id => j = k

(***************************************************************************)
(* A payload comes right behind the tag of its request, or first, if its   *)
(* tag has just been read.  The counterpart of Framed.                     *)
(***************************************************************************)
Paired(s, begun) ==
    \A k \in 1..Len(s) :
        s[k].tag = "payload" => IF k = 1 THEN begun ELSE s[k - 1].tag = "TILE_REQ"

\* It has no SHUTDOWN in it.
Open(s) == \A k \in 1..Len(s) : s[k].tag # "SHUTDOWN"

\* Reading the first part takes at most its own tile away.
LEMMA TailParts ==
    ASSUME NEW P, NEW s \in Seq(P), s # <<>>
    PROVE  /\ Once(s) => Once(Tail(s))
           /\ Open(s) => Open(Tail(s))
           /\ \A id : Carries(Tail(s), id) => Carries(s, id)
           /\ s[1].tag # "payload" => \A id : Carries(s, id) => Carries(Tail(s), id)
           /\ s[1].tag = "payload" =>
                 /\ Carries(s, s[1].tile.id)
                 /\ Once(s) => ~Carries(Tail(s), s[1].tile.id)
                 /\ \A id : Carries(s, id) => id = s[1].tile.id \/ Carries(Tail(s), id)
           /\ \A b : Paired(s, b) => Paired(Tail(s), s[1].tag = "TILE_REQ")
<1>1. /\ Tail(s) \in Seq(P) /\ Len(s) \in Nat \ {0} /\ Len(Tail(s)) = Len(s) - 1
      /\ \A k \in 1..(Len(s) - 1) : Tail(s)[k] = s[k + 1]
  OBVIOUS
<1> DEFINE t == Tail(s)
<1> HIDE DEF t
<1>2. /\ Len(t) = Len(s) - 1 /\ Len(t) \in Nat
      /\ \A k \in 1..Len(t) : k + 1 \in 1..Len(s) /\ t[k] = s[k + 1]
      /\ \A k \in 1..Len(s) : k # 1 => k - 1 \in 1..Len(t) /\ s[k] = t[k - 1]
      /\ 1 \in 1..Len(s)
  BY <1>1 DEF t
<1>3. Once(s) => Once(t)
  <2> SUFFICES ASSUME Once(s), NEW j \in 1..Len(t), NEW k \in 1..Len(t),
                      t[j].tag = "payload", t[k].tag = "payload", t[j].tile.id = t[k].tile.id
               PROVE  j = k
    BY DEF Once
  <2>1. j + 1 = k + 1
    BY <1>2 DEF Once
  <2> QED
    BY <2>1
<1>4. Open(s) => Open(t)
  BY <1>2 DEF Open
<1>5. \A id : Carries(t, id) => Carries(s, id)
  BY <1>2 DEF Carries
<1>6. \A id : Carries(s, id) => (s[1].tag = "payload" /\ id = s[1].tile.id) \/ Carries(t, id)
  BY <1>2 DEF Carries
<1>7. s[1].tag = "payload" => Carries(s, s[1].tile.id)
  BY <1>2 DEF Carries
<1>8. s[1].tag = "payload" /\ Once(s) => ~Carries(t, s[1].tile.id)
  BY <1>2 DEF Carries, Once
<1>9. \A b : Paired(s, b) => Paired(t, s[1].tag = "TILE_REQ")
  <2> SUFFICES ASSUME NEW b, Paired(s, b), NEW k \in 1..Len(t), t[k].tag = "payload"
               PROVE  IF k = 1 THEN s[1].tag = "TILE_REQ" ELSE t[k - 1].tag = "TILE_REQ"
    BY DEF Paired
  <2>1. s[(k + 1) - 1].tag = "TILE_REQ"
    BY <1>2 DEF Paired
  <2>2. (k + 1) - 1 = k /\ (k # 1 => s[k] = t[k - 1])
    BY <1>2
  <2> QED
    BY <2>1, <2>2
<1> QED
  BY <1>3, <1>4, <1>5, <1>6, <1>7, <1>8, <1>9 DEF t

\* A request behind a sequence adds the tile of that request and no other.
LEMMA RequestAdds ==
    ASSUME NEW P, NEW s \in Seq(P), NEW q \in Seq(P), NEW t,
           Len(q) = 2, q[1].tag = "TILE_REQ", q[2].tag = "payload", q[2].tile = t
    PROVE  /\ Once(s) /\ ~Carries(s, t.id) => Once(s \o q)
           /\ Open(s) => Open(s \o q)
           /\ \A id : Carries(s \o q, id) <=> Carries(s, id) \/ id = t.id
           /\ \A b : Paired(s, b) => Paired(s \o q, b)
<1> DEFINE u == s \o q
           n == Len(s)
<1>1. n \in Nat /\ Len(u) = n + 2 /\ \A k \in 1..(n + 2) : u[k] = IF k <= n THEN s[k] ELSE q[k - n]
  <2>1. /\ Len(u) = Len(s) + Len(q)
        /\ \A k \in 1..Len(s) + Len(q) : u[k] = IF k <= Len(s) THEN s[k] ELSE q[k - Len(s)]
    BY ConcatProperties, Zenon
  <2>2. Len(s) \in Nat
    OBVIOUS
  <2> HIDE DEF u
  <2> QED
    BY <2>1, <2>2
<1> HIDE DEF u
<1>2. /\ \A k \in 1..n : u[k] = s[k]
      /\ u[n + 1].tag = "TILE_REQ" /\ u[n + 2].tag = "payload" /\ u[n + 2].tile = t
      /\ \A k \in 1..(n + 2) : k \in 1..n \/ k = n + 1 \/ k = n + 2
      /\ \A k \in 1..n : k \in 1..(n + 2)
      /\ n + 1 \in 1..(n + 2) /\ n + 2 \in 1..(n + 2) /\ "TILE_REQ" # "payload"
  <2> HIDE DEF n
  <2>1. u[n + 1] = q[1] /\ u[n + 2] = q[2]
    BY <1>1
  <2> QED
    BY <1>1, <2>1
<1>3. \A id : Carries(u, id) <=> Carries(s, id) \/ id = t.id
  BY <1>1, <1>2 DEF Carries
<1>4. Once(s) /\ ~Carries(s, t.id) => Once(u)
  <2> SUFFICES ASSUME Once(s), ~Carries(s, t.id), NEW j \in 1..(n + 2), NEW k \in 1..(n + 2),
                      u[j].tag = "payload", u[k].tag = "payload", u[j].tile.id = u[k].tile.id
               PROVE  j = k
    BY <1>1 DEF Once
  <2>1. \A i \in 1..n : u[i].tag = "payload" => u[i].tile.id # t.id
    BY <1>2 DEF Carries
  <2>2. (j \in 1..n \/ j = n + 2) /\ (k \in 1..n \/ k = n + 2)
    BY <1>2
  <2>3. j \in 1..n /\ k \in 1..n => j = k
    BY <1>2 DEF Once
  <2> QED
    BY <1>2, <2>1, <2>2, <2>3
<1>5. Open(s) => Open(u)
  BY <1>1, <1>2 DEF Open
<1>6. \A b : Paired(s, b) => Paired(u, b)
  <2> SUFFICES ASSUME NEW b, Paired(s, b), NEW k \in 1..(n + 2), u[k].tag = "payload"
               PROVE  IF k = 1 THEN b ELSE u[k - 1].tag = "TILE_REQ"
    BY <1>1 DEF Paired
  <2>1. CASE k \in 1..n
    <3>1. IF k = 1 THEN b ELSE s[k - 1].tag = "TILE_REQ"
      BY <1>2, <2>1 DEF Paired
    <3>2. k # 1 => k - 1 \in 1..n
      BY <1>1, <2>1
    <3> QED
      BY <1>2, <3>1, <3>2
  <2>2. CASE k = n + 2
    <3>1. k # 1 /\ k - 1 = n + 1
      BY <1>1, <2>2
    <3> QED
      BY <1>2, <3>1
  <2> QED
    BY <1>2, <2>1, <2>2
<1> QED
  BY <1>3, <1>4, <1>5, <1>6 DEF u

\* A SHUTDOWN carries no tile.
LEMMA ShutdownAdds ==
    ASSUME NEW P, NEW s \in Seq(P), NEW p \in P, p.tag = "SHUTDOWN"
    PROVE  /\ Once(s) => Once(Append(s, p))
           /\ \A id : Carries(Append(s, p), id) <=> Carries(s, id)
<1> DEFINE u == Append(s, p)
<1>1. /\ Len(s) \in Nat /\ Len(u) = Len(s) + 1
      /\ \A k \in 1..Len(s) : u[k] = s[k] /\ k \in 1..(Len(s) + 1)
      /\ u[Len(s) + 1] = p
      /\ \A k \in 1..(Len(s) + 1) : k \in 1..Len(s) \/ k = Len(s) + 1
  OBVIOUS
<1> HIDE DEF u
<1>2. \A k \in 1..(Len(s) + 1) : u[k].tag = "payload" => k \in 1..Len(s)
  BY <1>1
<1> QED
  BY <1>1, <1>2 DEF Once, Carries, u

\* What is left of a ring after a chunk.
LEMMA SuffixParts ==
    ASSUME NEW P, NEW s \in Seq(P), NEW k \in 1..Len(s)
    PROVE  /\ Once(s) => Once(SubSeq(s, k + 1, Len(s)))
           /\ \A id : Carries(SubSeq(s, k + 1, Len(s)), id) => Carries(s, id)
<1> DEFINE u == SubSeq(s, k + 1, Len(s))
<1>1. /\ Len(s) \in Nat /\ k \in Nat /\ Len(u) = Len(s) - k
      /\ \A i \in 1..(Len(s) - k) : u[i] = s[k + i] /\ k + i \in 1..Len(s)
  <2>1. k + 1 \in Int /\ Len(s) \in Int /\ k + 1 <= Len(s) + 1
    OBVIOUS
  <2>2. \A i \in (k + 1)..Len(s) : s[i] \in P
    OBVIOUS
  <2>3. u \in Seq(P)
    BY <2>1, <2>2, SubSeqProperties
  <2> QED
    BY <2>1, <2>3
<1> HIDE DEF u
<1>2. Once(s) => Once(u)
  BY <1>1 DEF Once
<1>3. \A id : Carries(u, id) => Carries(s, id)
  BY <1>1 DEF Carries
<1> QED
  BY <1>2, <1>3 DEF u

\* Parts that follow each other.
LEMMA ConcatCarries ==
    ASSUME NEW P, NEW q \in Seq(P), NEW r \in Seq(P)
    PROVE  \A id : Carries(q \o r, id) <=> Carries(q, id) \/ Carries(r, id)
<1> DEFINE u == q \o r
<1>1. /\ Len(q) \in Nat /\ Len(r) \in Nat /\ Len(u) = Len(q) + Len(r)
      /\ \A k \in 1..(Len(q) + Len(r)) : u[k] = IF k <= Len(q) THEN q[k] ELSE r[k - Len(q)]
  BY ConcatProperties
<1> HIDE DEF u
<1>2. \A k \in 1..Len(q) : k \in 1..Len(u) /\ u[k] = q[k]
  BY <1>1
<1>3. \A k \in 1..Len(r) : Len(q) + k \in 1..Len(u) /\ u[Len(q) + k] = r[k]
  <2> SUFFICES ASSUME NEW k \in 1..Len(r)
               PROVE  Len(q) + k \in 1..Len(u) /\ u[Len(q) + k] = r[k]
    OBVIOUS
  <2>1. /\ Len(q) + k \in 1..(Len(q) + Len(r)) /\ ~(Len(q) + k <= Len(q))
        /\ (Len(q) + k) - Len(q) = k
    BY <1>1
  <2> QED
    BY <1>1, <2>1
<1>4. \A k \in 1..Len(u) : k \in 1..Len(q) \/ (k - Len(q) \in 1..Len(r) /\ u[k] = r[k - Len(q)])
  <2> SUFFICES ASSUME NEW k \in 1..Len(u), ~(k <= Len(q))
               PROVE  k - Len(q) \in 1..Len(r) /\ u[k] = r[k - Len(q)]
    BY <1>1
  <2>1. k \in 1..(Len(q) + Len(r)) /\ k - Len(q) \in 1..Len(r)
    BY <1>1
  <2> QED
    BY <1>1, <2>1
<1> QED
  BY <1>2, <1>3, <1>4 DEF Carries, u

\* What is behind in a sequence without repetitions has none either.
LEMMA ConcatOnce ==
    ASSUME NEW P, NEW q \in Seq(P), NEW r \in Seq(P), Once(q \o r)
    PROVE  Once(r)
<1> DEFINE u == q \o r
<1>1. /\ Len(q) \in Nat /\ Len(r) \in Nat /\ Len(u) = Len(q) + Len(r)
      /\ \A k \in 1..(Len(q) + Len(r)) : u[k] = IF k <= Len(q) THEN q[k] ELSE r[k - Len(q)]
  BY ConcatProperties
<1>2. Once(u)
  OBVIOUS
<1> HIDE DEF u
<1>3. \A k \in 1..Len(r) : Len(q) + k \in 1..Len(u) /\ u[Len(q) + k] = r[k]
  <2> SUFFICES ASSUME NEW k \in 1..Len(r)
               PROVE  Len(q) + k \in 1..Len(u) /\ u[Len(q) + k] = r[k]
    OBVIOUS
  <2>1. /\ Len(q) + k \in 1..(Len(q) + Len(r)) /\ ~(Len(q) + k <= Len(q))
        /\ (Len(q) + k) - Len(q) = k
    BY <1>1
  <2>2. u[Len(q) + k] = r[(Len(q) + k) - Len(q)]
    BY <1>1, <2>1
  <2> QED
    BY <1>1, <2>1, <2>2
<1> SUFFICES ASSUME NEW j \in 1..Len(r), NEW k \in 1..Len(r),
                    r[j].tag = "payload", r[k].tag = "payload", r[j].tile.id = r[k].tile.id
             PROVE  j = k
  BY DEF Once
<1>4. Len(q) + j = Len(q) + k
  BY <1>2, <1>3 DEF Once
<1> QED
  BY <1>1, <1>4

\* Reading an answer takes away just its id.
LEMMA TailAnswers ==
    ASSUME NEW A, NEW a \in Seq(A), a # <<>>, Distinct(a)
    PROVE  /\ Distinct(Tail(a)) /\ ~Holds(Tail(a), a[1].id)
           /\ \A id : Holds(a, id) <=> id = a[1].id \/ Holds(Tail(a), id)
<1> DEFINE t == Tail(a)
<1>1. /\ Len(a) \in Nat \ {0} /\ Len(t) = Len(a) - 1
      /\ \A k \in 1..Len(t) : t[k] = a[k + 1]
  OBVIOUS
<1> HIDE DEF t
<1>2. /\ \A k \in 1..Len(t) : k + 1 \in 1..Len(a) /\ k + 1 # 1 /\ t[k] = a[k + 1]
      /\ \A k \in 1..Len(a) : k # 1 => k - 1 \in 1..Len(t) /\ a[k] = t[k - 1]
      /\ 1 \in 1..Len(a)
  BY <1>1
<1>3. Distinct(t)
  BY <1>1, <1>2 DEF Distinct
<1>4. ~Holds(t, a[1].id)
  BY <1>2 DEF Distinct, Holds
<1>5. \A id : Holds(a, id) <=> id = a[1].id \/ Holds(t, id)
  <2>1. \A id : Holds(a, id) => id = a[1].id \/ Holds(t, id)
    BY <1>2 DEF Holds
  <2>2. Holds(a, a[1].id)
    BY <1>2 DEF Holds
  <2>3. \A id : Holds(t, id) => Holds(a, id)
    BY <1>2 DEF Holds
  <2> QED
    BY <2>1, <2>2, <2>3
<1> QED
  BY <1>3, <1>4, <1>5 DEF t

\* An answer for a tile that is not answered yet adds just its id.
LEMMA AnswerAdds ==
    ASSUME NEW A, NEW a \in Seq(A), NEW x \in A, Distinct(a), ~Holds(a, x.id)
    PROVE  /\ Distinct(Append(a, x))
           /\ \A id : Holds(Append(a, x), id) <=> id = x.id \/ Holds(a, id)
<1> DEFINE u == Append(a, x)
<1>1. /\ Len(a) \in Nat /\ Len(u) = Len(a) + 1
      /\ \A k \in 1..Len(a) : u[k] = a[k] /\ k \in 1..(Len(a) + 1)
      /\ u[Len(a) + 1] = x
      /\ \A k \in 1..(Len(a) + 1) : k \in 1..Len(a) \/ k = Len(a) + 1
  OBVIOUS
<1> HIDE DEF u
<1>2. Distinct(u)
  BY <1>1 DEF Distinct, Holds
<1>3. \A id : Holds(u, id) <=> id = x.id \/ Holds(a, id)
  BY <1>1 DEF Holds
<1> QED
  BY <1>2, <1>3 DEF u

-----------------------------------------------------------------------------
(* The invariant. *)

\* What has left the coordinator for a node and has not been read there.
Stream(n) == toWorker[n] \o ring[n]

\* Requests q, answers a and filed results r of one node: no two of them are for
\* the same tile.
OneEach(q, a, r) ==
    /\ Once(q) /\ Distinct(a)
    /\ \A id : /\ ~(Carries(q, id) /\ Holds(a, id))
               /\ ~(Carries(q, id) /\ id \in DOMAIN r)
               /\ ~(Holds(a, id) /\ id \in DOMAIN r)

Has(q, a, r, id) == Carries(q, id) \/ Holds(a, id) \/ id \in DOMAIN r

Waits(n, id) == Has(Stream(n), toCoord[n], results[n], id)

(***************************************************************************)
(* A tile waits at most once, at most at one node, and not if it is        *)
(* collected; the tiles that dispatch has not come to wait nowhere.        *)
(***************************************************************************)
PlaceInv ==
    /\ \A n \in Nodes : OneEach(Stream(n), toCoord[n], results[n])
    /\ \A m, n \in Nodes : \A id : Waits(m, id) /\ Waits(n, id) => m = n
    /\ \A n \in Nodes : \A id \in DOMAIN collected : ~Waits(n, id)
    /\ phase = "dispatch" =>
          \A i \in next..Len(tiles) :
              /\ tiles[i].id \notin DOMAIN collected
              /\ \A n \in Nodes : ~Waits(n, tiles[i].id)

\* A connection that stands, of a layer that is not being dropped.
Live(n) == n \in Connected /\ link[n] = "up" /\ phase \in {"ready"} \cup InTheCall

(***************************************************************************)
(* Its threads and its handler go on, and the handler never reads the rest *)
(* of a request for a tag, which would make it give up.                    *)
(***************************************************************************)
Going(n) ==
    /\ alive[n] /\ sender[n] = "drain" /\ receiver[n] # "done"
    /\ handler[n] \in {"backlog", "tag", "payload"}
    /\ Open(Stream(n)) /\ Paired(Stream(n), handler[n] = "payload")

LiveInv == \A n \in Nodes : Live(n) => Going(n)

\* While dispatch or collect runs and all connections stand, nothing accepted is
\* lost.
KeptInv ==
    phase \in {"dispatch", "collect"} /\ (\A n \in Connected : link[n] = "up") =>
        \A id \in dispatched :
            id \in DOMAIN collected \/ \E n \in Connected : Waits(n, id)

TileInv == TypeInv /\ PlaceInv /\ LiveInv /\ KeptInv

-----------------------------------------------------------------------------
(* What the steps of a node do to what waits there. *)

\* A part is read that is not a tile's.
LEMMA ReadOneEach ==
    ASSUME NEW P, NEW q \in Seq(P), NEW a, NEW r, q # <<>>, OneEach(q, a, r)
    PROVE  /\ OneEach(Tail(q), a, r)
           /\ \A id : Has(Tail(q), a, r, id) => Has(q, a, r, id)
           /\ q[1].tag # "payload" => \A id : Has(q, a, r, id) => Has(Tail(q), a, r, id)
<1>1. /\ Once(q) => Once(Tail(q))
      /\ \A id : Carries(Tail(q), id) => Carries(q, id)
      /\ q[1].tag # "payload" => \A id : Carries(q, id) => Carries(Tail(q), id)
  BY TailParts
<1> QED
  BY <1>1 DEF OneEach, Has

\* A tile is read and answered.
LEMMA AnswerOneEach ==
    ASSUME NEW P, NEW q \in Seq(P), NEW A, NEW a \in Seq(A), NEW r, NEW x \in A,
           q # <<>>, OneEach(q, a, r), q[1].tag = "payload", x.id = q[1].tile.id
    PROVE  /\ OneEach(Tail(q), Append(a, x), r)
           /\ \A id : Has(Tail(q), Append(a, x), r, id) <=> Has(q, a, r, id)
<1>1. /\ Once(Tail(q)) /\ Carries(q, x.id) /\ ~Carries(Tail(q), x.id)
      /\ \A id : Carries(Tail(q), id) => Carries(q, id)
      /\ \A id : Carries(q, id) => id = x.id \/ Carries(Tail(q), id)
  BY TailParts DEF OneEach
<1>2. Distinct(a) /\ ~Holds(a, x.id) /\ x.id \notin DOMAIN r
  BY <1>1 DEF OneEach
<1>3. /\ Distinct(Append(a, x))
      /\ \A id : Holds(Append(a, x), id) <=> id = x.id \/ Holds(a, id)
  BY <1>2, AnswerAdds
<1> QED
  BY <1>1, <1>2, <1>3 DEF OneEach, Has

\* An answer is filed.
LEMMA FileOneEach ==
    ASSUME NEW q, NEW A, NEW a \in Seq(A), NEW r, a # <<>>, OneEach(q, a, r)
    PROVE  /\ OneEach(q, Tail(a), Insert(r, Head(a)))
           /\ \A id : Has(q, Tail(a), Insert(r, Head(a)), id) <=> Has(q, a, r, id)
<1>1. Head(a) = a[1] /\ Distinct(a)
  BY DEF OneEach
<1>2. /\ Distinct(Tail(a)) /\ ~Holds(Tail(a), a[1].id)
      /\ \A id : Holds(a, id) <=> id = a[1].id \/ Holds(Tail(a), id)
  BY <1>1, TailAnswers
<1>3. \A id : id \in DOMAIN Insert(r, Head(a)) <=> id = a[1].id \/ id \in DOMAIN r
  BY <1>1 DEF Insert
<1> QED
  BY <1>2, <1>3 DEF OneEach, Has

\* A result is taken out.
LEMMA PollOneEach ==
    ASSUME NEW q, NEW a, NEW r, NEW x \in DOMAIN r, OneEach(q, a, r)
    PROVE  /\ OneEach(q, a, Remove(r, x))
           /\ \A id : Has(q, a, Remove(r, x), id) <=> Has(q, a, r, id) /\ id # x
<1>1. \A id : id \in DOMAIN Remove(r, x) <=> id \in DOMAIN r /\ id # x
  BY DEF Remove
<1> QED
  BY <1>1 DEF OneEach, Has

\* A request is pushed for a tile that does not wait.
LEMMA RequestOneEach ==
    ASSUME NEW q \in Seq(Part), NEW a, NEW r, NEW t \in Tile, OneEach(q, a, r),
           ~Has(q, a, r, t.id)
    PROVE  /\ OneEach(q \o Request(t), a, r)
           /\ \A id : Has(q \o Request(t), a, r, id) <=> Has(q, a, r, id) \/ id = t.id
<1>1. /\ Request(t) \in Seq(Part) /\ Len(Request(t)) = 2
      /\ Request(t)[1].tag = "TILE_REQ"
      /\ Request(t)[2].tag = "payload" /\ Request(t)[2].tile = t
  BY RequestParts
<1>2. /\ Once(q) /\ ~Carries(q, t.id) => Once(q \o Request(t))
      /\ \A id : Carries(q \o Request(t), id) <=> Carries(q, id) \/ id = t.id
  BY <1>1, RequestAdds
<1> QED
  BY <1>2 DEF OneEach, Has

\* The front of a stream is lost, or of a stream and the answers.
LEMMA LossOneEach ==
    ASSUME NEW q, NEW a, NEW r, NEW p, NEW b, OneEach(q, a, r), Once(p), Distinct(b),
           \A id : Carries(p, id) => Carries(q, id),
           \A id : Holds(b, id) => Holds(a, id)
    PROVE  /\ OneEach(p, b, r)
           /\ \A id : Has(p, b, r, id) => Has(q, a, r, id)
BY DEF OneEach, Has

-----------------------------------------------------------------------------
\* What waits at a node after a step waited there before; and the other way
\* round.
Moves(n) ==
    /\ OneEach(Stream(n), toCoord[n], results[n])'
    /\ \A id : Waits(n, id)' => Waits(n, id)

Keeps(n) == \A id : Waits(n, id) => Waits(n, id)'

\* A node whose buffers do not change keeps what it has.
LEMMA UntouchedMoves ==
    ASSUME PlaceInv, NEW n \in Nodes, Stream(n)' = Stream(n), toCoord'[n] = toCoord[n],
           results'[n] = results[n]
    PROVE  Moves(n) /\ Keeps(n)
BY DEF PlaceInv, Moves, Keeps, Waits

\* Steps that bring nothing new to any node.
LEMMA PlaceStays ==
    ASSUME PlaceInv, \A n \in Nodes : Moves(n), UNCHANGED <<collected, tiles, next>>,
           phase' = "dispatch" => phase = "dispatch"
    PROVE  PlaceInv'
BY DEF PlaceInv, Moves

\* Nothing is lost if every connection that stands keeps what it has.
LEMMA KeptStays ==
    ASSUME KeptInv, UNCHANGED <<workers, dispatched, collected>>,
           phase' \in {"dispatch", "collect"} => phase \in {"dispatch", "collect"},
           \A n \in Connected : phase \in {"dispatch", "collect"} /\ link'[n] = "up" =>
               link[n] = "up" /\ Keeps(n)
    PROVE  KeptInv'
BY DEF KeptInv, Keeps, Connected, Elements

\* A connection that nobody touches goes on.
LEMMA LiveStays ==
    ASSUME LiveInv, NEW n \in Nodes, Live(n)' => Live(n), alive'[n] = alive[n],
           sender'[n] = sender[n], receiver'[n] = receiver[n], handler'[n] = handler[n],
           Stream(n)' = Stream(n)
    PROVE  Live(n)' => Going(n)'
BY DEF LiveInv, Going

\* The types of the buffers of a node.
LEMMA StreamParts ==
    ASSUME ConnInv, NEW n \in Nodes
    PROVE  /\ toWorker[n] \in Seq(Part) /\ ring[n] \in Seq(Part) /\ Stream(n) \in Seq(Part)
           /\ toCoord[n] \in Seq(Answer)
<1>1. toWorker[n] \in Seq(Part) /\ ring[n] \in Seq(Part) /\ toCoord[n] \in Seq(Answer)
  BY DEF ConnInv
<1>2. toWorker[n] \o ring[n] \in Seq(Part)
  BY <1>1
<1> QED
  BY <1>1, <1>2 DEF Stream

\* What waits has an id that was handed out.
LEMMA WaitingIds ==
    ASSUME AnswerInv
    PROVE  \A n \in Nodes : \A id : Waits(n, id) => id \in Nat /\ id < nextId
<1> SUFFICES ASSUME NEW n \in Nodes, NEW id, Waits(n, id)
             PROVE  id \in Nat /\ id < nextId
  OBVIOUS
<1>1. PICK P, A : Carried(P, A)
  BY DEF AnswerInv
<1>2. CASE Carries(Stream(n), id)
  <2>1. Stream(n) \in Seq(P)
    <3>1. toWorker[n] \in Seq(P) /\ ring[n] \in Seq(P)
      BY <1>1 DEF Carried
    <3> QED
      BY <3>1 DEF Stream
  <2>2. PICK p \in P : p.tag = "payload" /\ p.tile.id = id
    BY <1>2, <2>1 DEF Carries
  <2> QED
    BY <1>1, <2>2 DEF Carried, TruePart, Fitting
<1>3. CASE Holds(toCoord[n], id)
  <2>1. toCoord[n] \in Seq(A)
    BY <1>1 DEF Carried
  <2>2. PICK a \in A : a.id = id
    BY <1>3, <2>1 DEF Holds
  <2> QED
    BY <1>1, <2>2 DEF Carried, Fitting
<1>4. CASE id \in DOMAIN results[n]
  BY <1>4 DEF AnswerInv, FiledInv, Fitting
<1> QED
  BY <1>2, <1>3, <1>4 DEF Waits, Has

\* All buffers are empty at the start.
LEMMA InitTileInv == TileNetAssumption /\ Init => TileInv
<1> SUFFICES ASSUME TileNetAssumption, Init PROVE TileInv
  OBVIOUS
<1>1. TypeInv
  BY InitTypeInv
<1>2. \A n \in Nodes : Stream(n) = <<>> /\ toCoord[n] = <<>> /\ DOMAIN results[n] = {}
  <2>1. <<>> \o <<>> = <<>>
    OBVIOUS
  <2> QED
    BY <2>1 DEF Init, Stream, NoAnswers
<1>3. \A id : ~Carries(<<>>, id) /\ ~Holds(<<>>, id)
  BY DEF Carries, Holds
<1>4. Once(<<>>) /\ Distinct(<<>>)
  BY DEF Once, Distinct
<1>5. PlaceInv
  <2>1. \A n \in Nodes : \A id : ~Waits(n, id)
    BY <1>2, <1>3 DEF Waits, Has
  <2>2. \A n \in Nodes : OneEach(Stream(n), toCoord[n], results[n])
    BY <1>2, <1>3, <1>4 DEF OneEach
  <2>3. phase # "dispatch"
    BY DEF Init
  <2> QED
    BY <2>1, <2>2, <2>3 DEF PlaceInv
<1>6. LiveInv /\ KeptInv
  BY DEF Init, LiveInv, Live, KeptInv, InTheCall
<1> QED
  BY <1>1, <1>5, <1>6 DEF TileInv

\* Steps that move no part and no answer.
LEMMA QuietStreams ==
    ASSUME UNCHANGED <<ring, results, toWorker, toCoord>>
    PROVE  \A n \in Nodes : /\ Stream(n)' = Stream(n) /\ toCoord'[n] = toCoord[n]
                            /\ results'[n] = results[n]
                            /\ \A id : Waits(n, id)' <=> Waits(n, id)
BY DEF Stream, Waits

\* A step that moves no tile keeps the invariants, if the threads go on.
LEMMA QuietTileInv ==
    ASSUME PlaceInv, LiveInv, KeptInv, UNCHANGED <<ring, results, toWorker, toCoord>>,
           UNCHANGED <<tiles, next, dispatched, collected, link>>,
           phase' = "dispatch" => phase = "dispatch",
           phase' \in {"dispatch", "collect"} =>
               phase \in {"dispatch", "collect"} /\ UNCHANGED workers,
           \A n \in Nodes : Live(n)' =>
               /\ Live(n)
               /\ UNCHANGED <<alive[n], sender[n]>>
               /\ receiver'[n] = receiver[n] \/ receiver'[n] # "done"
               /\ handler'[n] = handler[n] \/ (handler[n] # "payload" /\ handler'[n] = "tag")
    PROVE  PlaceInv' /\ LiveInv' /\ KeptInv'
<1>1. \A n \in Nodes : /\ Stream(n)' = Stream(n) /\ toCoord'[n] = toCoord[n]
                       /\ results'[n] = results[n]
                       /\ \A id : Waits(n, id)' <=> Waits(n, id)
  BY QuietStreams
<1>2. \A n \in Nodes : Moves(n) /\ Keeps(n)
  BY <1>1, UntouchedMoves
<1>3. PlaceInv'
  BY <1>2, PlaceStays
<1>4. LiveInv'
  <2> SUFFICES ASSUME NEW n \in Nodes, Live(n)' PROVE Going(n)'
    BY DEF LiveInv
  <2>1. Going(n)
    BY DEF LiveInv
  <2>2. CASE handler'[n] = handler[n]
    BY <1>1, <2>1, <2>2 DEF Going
  <2>3. CASE handler[n] # "payload" /\ handler'[n] = "tag"
    BY <1>1, <2>1, <2>3 DEF Going
  <2> QED
    BY <2>2, <2>3
<1>5. KeptInv'
  <2>1. CASE phase' \in {"dispatch", "collect"}
    <3>1. \A id : (\E n \in Connected : Waits(n, id)) => (\E n \in Connected : Waits(n, id))'
      BY <1>1, <2>1 DEF Connected, Elements, Waits, Stream
    <3>2. Connected' = Connected
      BY <2>1 DEF Connected, Elements
    <3> QED
      BY <2>1, <3>1, <3>2 DEF KeptInv
  <2>2. CASE phase' \notin {"dispatch", "collect"}
    BY <2>2 DEF KeptInv
  <2> QED
    BY <2>1, <2>2
<1> QED
  BY <1>3, <1>4, <1>5

-----------------------------------------------------------------------------
(* The steps, one after the other. *)

\* The steps of the coordinator that move no tile.
LEMMA CoordinatorQuiet ==
    ASSUME PlaceInv, LiveInv, KeptInv,
           \/ DispatchDone \/ CollectDone \/ Reassemble \/ Drop \/ Closed
           \/ \E n \in Nodes : ClearAlive(n)
           \/ UNCHANGED vars
    PROVE  PlaceInv' /\ LiveInv' /\ KeptInv'
<1>1. /\ UNCHANGED <<ring, results, toWorker, toCoord, workers>>
      /\ UNCHANGED <<tiles, next, dispatched, collected, link>>
      /\ UNCHANGED <<sender, receiver, handler>>
  BY DEF DispatchDone, CollectDone, Reassemble, Drop, Closed, ClearAlive, vars, coordVars,
     callVars, cutVars, connVars, wireVars, workerVars
<1>2. /\ phase' = "dispatch" => phase = "dispatch"
      /\ phase' \in {"dispatch", "collect"} => phase \in {"dispatch", "collect"}
      /\ phase' \in {"ready"} \cup InTheCall =>
            phase \in {"ready"} \cup InTheCall /\ UNCHANGED alive
  BY DEF DispatchDone, CollectDone, Reassemble, Drop, Closed, ClearAlive, vars, coordVars,
     connVars, InTheCall
<1>3. ASSUME NEW n \in Nodes, Live(n)'
      PROVE  Live(n) /\ UNCHANGED <<alive[n], sender[n], receiver[n], handler[n]>>
  BY <1>1, <1>2, <1>3 DEF Live, Connected, Elements
<1> QED
  BY <1>1, <1>2, <1>3, QuietTileInv

\* The steps of the threads and the handlers that move no tile.
LEMMA NodeQuiet ==
    ASSUME TypeInv, PlaceInv, LiveInv, KeptInv, NEW w \in Nodes,
           \/ SenderIdle(w) \/ ReceiverCheck(w) \/ ReceiverEnd(w)
           \/ Accept(w) \/ HandlerEnds(w) \/ HandlerDrops(w) \/ HandlerFrees(w)
    PROVE  PlaceInv' /\ LiveInv' /\ KeptInv'
<1>1. /\ UNCHANGED <<ring, results, toWorker, toCoord, workers, phase>>
      /\ UNCHANGED <<tiles, next, dispatched, collected, link>>
  BY DEF SenderIdle, ReceiverCheck, ReceiverEnd, Accept, HandlerEnds, HandlerDrops,
     HandlerFrees, coordVars, callVars, cutVars, wireVars
<1>2. ConnInv /\ handler = [n \in Nodes |-> handler[n]]
  BY DEF TypeInv, AnswerInv, HookInv
<1>3. ASSUME NEW n \in Nodes, Live(n)'
      PROVE  /\ Live(n)
             /\ UNCHANGED <<alive[n], sender[n]>>
             /\ receiver'[n] = receiver[n] \/ receiver'[n] # "done"
             /\ handler'[n] = handler[n] \/ (handler[n] # "payload" /\ handler'[n] = "tag")
  <2>1. Live(n) /\ Going(n) /\ link[n] = "up"
    BY <1>1, <1>3 DEF Live, Connected, Elements, LiveInv
  <2>2. CASE n # w
    <3>1. UNCHANGED <<alive[n], sender[n], receiver[n], handler[n]>>
      BY <1>2, <2>2 DEF SenderIdle, ReceiverCheck, ReceiverEnd, Accept, HandlerEnds,
         HandlerDrops, HandlerFrees, workerVars, ConnInv
    <3> QED
      BY <2>1, <3>1
  <2>3. CASE n = w
    <3>1. CASE SenderIdle(w)
      BY <1>2, <2>1, <2>3, <3>1 DEF SenderIdle, NextTurn, Going, workerVars, ConnInv
    <3>2. CASE ReceiverCheck(w)
      BY <1>2, <2>1, <2>3, <3>2 DEF ReceiverCheck, Going, workerVars, ConnInv
    <3>3. ~ReceiverEnd(w)
      BY <2>1, <2>3 DEF ReceiverEnd, ReadFails, Going
    <3>4. CASE Accept(w)
      BY <1>2, <2>1, <2>3, <3>4 DEF Accept
    <3>5. ~HandlerEnds(w) /\ ~HandlerDrops(w) /\ ~HandlerFrees(w)
      BY <2>1, <2>3 DEF HandlerEnds, CoordGone, HandlerDrops, HandlerFrees, Going
    <3> QED
      BY <2>1, <3>1, <3>2, <3>3, <3>4, <3>5
  <2> QED
    BY <2>2, <2>3
<1> QED
  BY <1>1, <1>3, QuietTileInv

\* A new connection has nothing in its buffers.
LEMMA ConnectTileInv ==
    ASSUME TileNetAssumption, TypeInv, PlaceInv, LiveInv, KeptInv, Connect
    PROVE  PlaceInv' /\ LiveInv' /\ KeptInv'
<1>1. phase = "start" /\ phase' = "ready"
  BY DEF Connect
<1>2. UNCHANGED <<tiles, next, collected, ring, results, toWorker, toCoord>>
  BY DEF Connect, callVars, cutVars
<1>3. PICK ok \in SUBSET Nodes :
         /\ workers' \in [1..Cardinality(ok) -> ok]
         /\ alive' = [n \in Nodes |-> IF n \in ok THEN TRUE ELSE alive[n]]
         /\ sender' = [n \in Nodes |-> IF n \in ok THEN "drain" ELSE sender[n]]
         /\ receiver' = [n \in Nodes |-> IF n \in ok THEN "check" ELSE receiver[n]]
         /\ handler' = [n \in Nodes |-> IF n \in ok THEN "backlog" ELSE handler[n]]
  BY DEF Connect
<1>4. \A n \in Nodes : Stream(n)' = Stream(n) /\ Stream(n) = <<>>
  <2>1. \A n \in Nodes : ring[n] = <<>> /\ toWorker[n] = <<>>
    BY <1>1 DEF TypeInv, AnswerInv, FrameInv
  <2>2. <<>> \o <<>> = <<>>
    OBVIOUS
  <2> QED
    BY <1>2, <2>1, <2>2 DEF Stream
<1>5. PlaceInv'
  <2>1. \A n \in Nodes : Moves(n)
    BY <1>2, <1>4, UntouchedMoves
  <2> QED
    BY <1>1, <1>2, <2>1, PlaceStays
<1>6. LiveInv'
  <2> SUFFICES ASSUME NEW n \in Nodes, Live(n)' PROVE Going(n)'
    BY DEF LiveInv
  <2>1. n \in ok
    BY <1>3 DEF Live, Connected, Elements
  <2>2. Open(<<>>) /\ \A b : Paired(<<>>, b)
    BY DEF Open, Paired
  <2> QED
    BY <1>3, <1>4, <2>1, <2>2 DEF Going
<1>7. KeptInv'
  BY <1>1 DEF KeptInv
<1> QED
  BY <1>5, <1>6, <1>7

\* The new tiles have new ids, and so wait nowhere.
LEMMA DecomposeTileInv ==
    ASSUME TileNetAssumption, TypeInv, PlaceInv, LiveInv, KeptInv, Decompose
    PROVE  PlaceInv' /\ LiveInv' /\ KeptInv'
<1>1. /\ phase = "ready" /\ phase' = "dispatch" /\ next' = 2
      /\ UNCHANGED <<workers, dispatched, collected, alive, ring, results, sender, receiver>>
      /\ UNCHANGED <<link, toWorker, toCoord, handler>>
  BY DEF Decompose, connVars, wireVars, workerVars
<1>2. PICK s \in Sizes, n \in 1..NumNodes :
         tiles' = TilesOf(rounds + 1, s, Smaller(n + 1, s), nextId)
  BY DEF Decompose
<1>3. Smaller(n + 1, s) \in Nat /\ nextId \in Nat
  BY DEF TileNetAssumption, Smaller, TypeInv, AnswerInv, IdInv
<1>4. \A i \in 1..Len(tiles') : tiles'[i].id = nextId + i - 1 /\ ~(tiles'[i].id < nextId)
  BY <1>2, <1>3, TileIds
<1>5. \A m \in Nodes : /\ Stream(m)' = Stream(m) /\ toCoord'[m] = toCoord[m]
                       /\ results'[m] = results[m]
                       /\ \A id : Waits(m, id)' <=> Waits(m, id)
  BY <1>1, QuietStreams
<1>6. PlaceInv'
  <2>1. \A i \in 2..Len(tiles') :
           /\ tiles'[i].id \notin DOMAIN collected
           /\ \A m \in Nodes : ~Waits(m, tiles'[i].id)
    <3>1. \A id \in DOMAIN collected : id < nextId
      BY DEF TypeInv, AnswerInv, FiledInv, Fitting
    <3>2. \A m \in Nodes : \A id : Waits(m, id) => id < nextId
      BY WaitingIds DEF TypeInv
    <3>3. \A i \in 2..Len(tiles') : i \in 1..Len(tiles')
      BY <1>2, <1>3, TileIds
    <3> QED
      BY <1>4, <3>1, <3>2, <3>3
  <2> QED
    BY <1>1, <1>5, <2>1 DEF PlaceInv
<1>7. LiveInv'
  BY <1>1, <1>5, LiveStays DEF LiveInv, Live, Connected, Elements
<1>8. KeptInv'
  <2>1. dispatched = {}
    BY <1>1 DEF TypeInv, CallInv, InTheCall
  <2> QED
    BY <1>1, <2>1 DEF KeptInv
<1> QED
  BY <1>6, <1>7, <1>8

\* A new call dispatches nothing yet.
LEMMA NextCallTileInv ==
    ASSUME PlaceInv, LiveInv, KeptInv, NextCall
    PROVE  PlaceInv' /\ LiveInv' /\ KeptInv'
<1>1. /\ phase = "joined" /\ phase' = "ready" /\ collected' = NoAnswers
      /\ UNCHANGED <<workers, alive, ring, results, sender, receiver>>
      /\ UNCHANGED <<link, toWorker, toCoord, handler>>
  BY DEF NextCall, connVars, wireVars, workerVars
<1>2. \A m \in Nodes : /\ Stream(m)' = Stream(m) /\ toCoord'[m] = toCoord[m]
                       /\ results'[m] = results[m]
                       /\ \A id : Waits(m, id)' <=> Waits(m, id)
  BY <1>1, QuietStreams
<1>3. PlaceInv'
  BY <1>1, <1>2 DEF PlaceInv, NoAnswers
<1>4. LiveInv'
  BY <1>1, <1>2, LiveStays DEF LiveInv, Live, Connected, Elements, InTheCall
<1>5. KeptInv'
  BY <1>1 DEF KeptInv
<1> QED
  BY <1>3, <1>4, <1>5

\* An answer moves from the map of a node to what is collected.
LEMMA PollTileInv ==
    ASSUME TypeInv, PlaceInv, LiveInv, KeptInv, NEW w \in Nodes, NEW x, Poll(w, x)
    PROVE  PlaceInv' /\ LiveInv' /\ KeptInv'
<1>1. /\ x \in DOMAIN results[w] /\ phase = "collect" /\ phase' = phase
      /\ UNCHANGED <<workers, dispatched, alive, ring, sender, receiver>>
      /\ UNCHANGED <<link, toWorker, toCoord, handler>>
      /\ results' = [results EXCEPT ![w] = Remove(@, x)]
      /\ DOMAIN collected' = DOMAIN collected \cup {x}
  BY DEF Poll, wireVars, workerVars, Insert
<1>2. results = [n \in Nodes |-> results[n]]
  BY DEF TypeInv, AnswerInv, FiledInv
<1>3. \A n \in Nodes : Stream(n)' = Stream(n) /\ toCoord'[n] = toCoord[n]
  BY <1>1 DEF Stream
<1>4. \A n \in Nodes : results'[n] = IF n = w THEN Remove(results[n], x) ELSE results[n]
  BY <1>1, <1>2
<1>5. \A n \in Nodes :
         /\ OneEach(Stream(n), toCoord[n], results[n])'
         /\ \A id : Waits(n, id)' <=> Waits(n, id) /\ ~(n = w /\ id = x)
  <2> SUFFICES ASSUME NEW n \in Nodes
               PROVE  /\ OneEach(Stream(n), toCoord[n], results[n])'
                      /\ \A id : Waits(n, id)' <=> Waits(n, id) /\ ~(n = w /\ id = x)
    OBVIOUS
  <2>1. OneEach(Stream(n), toCoord[n], results[n])
    BY DEF PlaceInv
  <2>2. CASE n = w
    <3>1. /\ OneEach(Stream(n), toCoord[n], Remove(results[n], x))
          /\ \A id : Has(Stream(n), toCoord[n], Remove(results[n], x), id)
                        <=> Has(Stream(n), toCoord[n], results[n], id) /\ id # x
      <4>1. x \in DOMAIN results[n]
        BY <1>1, <2>2
      <4>2. PICK q, a, r : q = Stream(n) /\ a = toCoord[n] /\ r = results[n]
        OBVIOUS
      <4>3. /\ OneEach(q, a, Remove(r, x))
            /\ \A id : Has(q, a, Remove(r, x), id) <=> Has(q, a, r, id) /\ id # x
        BY <2>1, <4>1, <4>2, PollOneEach
      <4> QED
        BY <4>2, <4>3
    <3> QED
      BY <1>3, <1>4, <2>2, <3>1 DEF Waits
  <2>3. CASE n # w
    BY <1>3, <1>4, <2>1, <2>3 DEF Waits
  <2> QED
    BY <2>2, <2>3
<1>6. PlaceInv'
  <2>1. Waits(w, x)
    BY <1>1 DEF Waits, Has
  <2>2. \A n \in Nodes : n # w => ~Waits(n, x)
    BY <2>1 DEF PlaceInv
  <2>3. \A n \in Nodes : \A id \in DOMAIN collected' : ~Waits(n, id)'
    BY <1>1, <1>5, <2>2 DEF PlaceInv
  <2>4. \A m, n \in Nodes : \A id : Waits(m, id)' /\ Waits(n, id)' => m = n
    BY <1>5 DEF PlaceInv
  <2> QED
    BY <1>1, <1>5, <2>3, <2>4 DEF PlaceInv
<1>7. LiveInv'
  BY <1>1, <1>3, LiveStays DEF LiveInv, Live, Connected, Elements
<1>8. KeptInv'
  <2> SUFFICES ASSUME \A n \in Connected : link[n] = "up", NEW id \in dispatched
               PROVE  id \in DOMAIN collected' \/ \E n \in Connected : Waits(n, id)'
    BY <1>1 DEF KeptInv, Connected, Elements
  <2>1. id \in DOMAIN collected \/ \E n \in Connected : Waits(n, id)
    BY <1>1 DEF KeptInv
  <2>2. Connected \subseteq Nodes
    BY DEF TypeInv, ConnInv, Connected, Elements
  <2> QED
    BY <1>1, <1>5, <2>1, <2>2
<1> QED
  BY <1>6, <1>7, <1>8

\* A layer that is being dropped owes nobody an answer.
LEMMA PushShutdownTileInv ==
    ASSUME TypeInv, PlaceInv, LiveInv, KeptInv, NEW w \in Nodes, PushShutdown(w)
    PROVE  PlaceInv' /\ LiveInv' /\ KeptInv'
<1>1. /\ phase' = "closing"
      /\ UNCHANGED <<tiles, next, collected, results, toWorker, toCoord>>
      /\ \/ ring' = [ring EXCEPT ![w] = Append(@, [tag |-> "SHUTDOWN"])]
         \/ ring' = [ring EXCEPT ![w] = @]
  BY DEF PushShutdown, callVars, cutVars, wireVars
<1>2. ConnInv
  BY DEF TypeInv
<1>3. ASSUME NEW n \in Nodes PROVE Moves(n)
  <2>1. CASE ring'[n] = ring[n]
    BY <1>1, <2>1, UntouchedMoves DEF Stream
  <2>2. CASE ring'[n] = Append(ring[n], [tag |-> "SHUTDOWN"])
    <3>1. PICK x, y \in Seq(Part) : x = toWorker[n] /\ y = ring[n]
      BY <1>2, StreamParts
    <3>2. PICK p \in Part : p = [tag |-> "SHUTDOWN"]
      BY DEF Part
    <3>3. x \o y \in Seq(Part) /\ x \o Append(y, p) = Append(x \o y, p)
      BY ONLY x \in Seq(Part), y \in Seq(Part), p \in Part
    <3>4. PICK u \in Seq(Part) : u = x \o y
      BY <3>3
    <3>5. /\ Once(u) => Once(Append(u, p))
          /\ \A id : Carries(Append(u, p), id) <=> Carries(u, id)
      BY <3>2, ShutdownAdds
    <3>6. Stream(n)' = Append(u, p) /\ Stream(n) = u
      BY <1>1, <2>2, <3>1, <3>2, <3>3, <3>4 DEF Stream
    <3>7. OneEach(u, toCoord[n], results[n])
      BY <3>6 DEF PlaceInv
    <3>8. /\ OneEach(Append(u, p), toCoord[n], results[n])
          /\ \A id : Has(Append(u, p), toCoord[n], results[n], id)
                        => Has(u, toCoord[n], results[n], id)
      BY <3>5, <3>7 DEF OneEach, Has
    <3> QED
      BY <1>1, <3>6, <3>8 DEF Moves, Waits
  <2>3. ring = [m \in Nodes |-> ring[m]]
    BY <1>2 DEF ConnInv
  <2> QED
    BY <1>1, <2>1, <2>2, <2>3
<1>4. PlaceInv'
  BY <1>1, <1>3, PlaceStays
<1>5. LiveInv' /\ KeptInv'
  BY <1>1 DEF LiveInv, Live, KeptInv, InTheCall
<1> QED
  BY <1>4, <1>5

\* A step of the threads or of the handler of one node.
LEMMA OneNodeTileInv ==
    ASSUME TypeInv, PlaceInv, LiveInv, KeptInv, NEW w \in Nodes, UNCHANGED coordVars,
           \A n \in Nodes : n # w =>
               /\ UNCHANGED <<alive[n], ring[n], results[n], sender[n], receiver[n]>>
               /\ UNCHANGED <<link[n], toWorker[n], toCoord[n], handler[n]>>,
           Moves(w),
           Live(w)' => link[w] = "up" /\ Keeps(w) /\ Going(w)'
    PROVE  PlaceInv' /\ LiveInv' /\ KeptInv'
<1>1. UNCHANGED <<workers, phase, tiles, next, dispatched, collected>>
  BY DEF coordVars, callVars, cutVars
<1>2. ASSUME NEW n \in Nodes, n # w
      PROVE  /\ Moves(n) /\ Keeps(n) /\ Stream(n)' = Stream(n) /\ link'[n] = link[n]
             /\ Live(n)' => Going(n)'
  <2>1. Stream(n)' = Stream(n) /\ toCoord'[n] = toCoord[n] /\ results'[n] = results[n]
    BY <1>2 DEF Stream
  <2>2. Moves(n) /\ Keeps(n)
    BY <2>1, UntouchedMoves
  <2>3. Live(n)' => Live(n)
    BY <1>1, <1>2 DEF Live, Connected, Elements
  <2>4. Live(n)' => Going(n)'
    BY <1>2, <2>1, <2>3, LiveStays
  <2> QED
    BY <1>2, <2>1, <2>2, <2>4
<1>3. PlaceInv'
  <2>1. \A n \in Nodes : Moves(n)
    BY <1>2
  <2> QED
    BY <1>1, <2>1, PlaceStays
<1>4. LiveInv'
  BY <1>2 DEF LiveInv
<1>5. KeptInv'
  <2>1. ASSUME NEW n \in Connected, phase \in {"dispatch", "collect"}, link'[n] = "up"
        PROVE  link[n] = "up" /\ Keeps(n)
    <3>1. n \in Nodes
      BY DEF TypeInv, ConnInv, Connected, Elements
    <3>2. n = w => Live(w)'
      BY <1>1, <2>1 DEF Live, Connected, Elements, InTheCall
    <3> QED
      BY <1>2, <2>1, <3>1, <3>2
  <2> QED
    BY <1>1, <2>1, KeptStays
<1> QED
  BY <1>3, <1>4, <1>5

\* A chunk moves within the stream of a node.
LEMMA SenderWriteTileInv ==
    ASSUME TypeInv, PlaceInv, LiveInv, KeptInv, NEW w \in Nodes, SenderWrite(w)
    PROVE  PlaceInv' /\ LiveInv' /\ KeptInv'
<1>1. /\ UNCHANGED coordVars
      /\ UNCHANGED <<alive, results, receiver, link, toCoord, handler>>
      /\ sender' = [sender EXCEPT ![w] = IF link[w] = "up" THEN NextTurn(w) ELSE "done"]
  BY DEF SenderWrite, workerVars
<1>2. PICK k \in 1..Len(ring[w]) :
         /\ ring' = [ring EXCEPT ![w] = SubSeq(ring[w], k + 1, Len(ring[w]))]
         /\ toWorker' = [toWorker EXCEPT ![w] =
                            IF link[w] = "up" THEN @ \o SubSeq(ring[w], 1, k) ELSE @]
  BY DEF SenderWrite
<1>3. /\ ring \in [Nodes -> Seq(Part)] /\ toWorker \in [Nodes -> Seq(Part)]
      /\ sender \in [Nodes -> {"drain", "done"}]
  BY DEF TypeInv, ConnInv
<1>4. PICK q, r \in Seq(Part) : q = toWorker[w] /\ r = ring[w]
  BY <1>3
<1>5. PICK a, b \in Seq(Part) : /\ a = SubSeq(r, 1, k) /\ b = SubSeq(r, k + 1, Len(r))
                                /\ (q \o a) \o b = q \o r
  <2>1. k \in 1..Len(r)
    BY <1>4
  <2>2. Chunked(Part, q, r, k)
    BY <2>1, ChunkMoves, Zenon
  <2> QED
    BY <2>2, Zenon DEF Chunked
<1>6. ring'[w] = b /\ toWorker'[w] = IF link[w] = "up" THEN q \o a ELSE q
  BY <1>2, <1>3, <1>4, <1>5
<1>7. \A n \in Nodes : n # w => ring'[n] = ring[n] /\ toWorker'[n] = toWorker[n]
                                /\ sender'[n] = sender[n]
  BY <1>1, <1>2, <1>3
<1>8. CASE link[w] = "up"
  <2>1. Stream(w)' = Stream(w)
    BY <1>4, <1>5, <1>6, <1>8 DEF Stream
  <2>2. Moves(w) /\ Keeps(w)
    BY <1>1, <2>1, UntouchedMoves
  <2>3. Live(w)' => Going(w)'
    <3> SUFFICES ASSUME Live(w)' PROVE Going(w)'
      OBVIOUS
    <3>1. Live(w)
      BY <1>1 DEF Live, Connected, Elements, coordVars
    <3>2. Going(w)
      BY <3>1 DEF LiveInv
    <3>3. sender'[w] = "drain"
      BY <1>1, <1>3, <1>8, <3>2 DEF NextTurn, Going
    <3> QED
      BY <1>1, <2>1, <3>2, <3>3 DEF Going
  <2> QED
    BY <1>1, <1>7, <1>8, <2>2, <2>3, OneNodeTileInv
<1>9. CASE link[w] # "up"
  <2>1. q = <<>>
    BY <1>4, <1>9 DEF TypeInv, AnswerInv, FrameInv
  <2>2. Stream(w) = r /\ Stream(w)' = b
    <3>1. <<>> \o r = r /\ <<>> \o b = b
      BY ConcatEmptySeq
    <3> QED
      BY <1>4, <1>6, <1>9, <2>1, <3>1 DEF Stream
  <2>3. k \in 1..Len(r)
    BY <1>4
  <2>4. /\ Once(r) => Once(b)
        /\ \A id : Carries(b, id) => Carries(r, id)
    BY <1>5, <2>3, SuffixParts
  <2>5. OneEach(r, toCoord[w], results[w])
    BY <2>2 DEF PlaceInv
  <2>6. /\ OneEach(b, toCoord[w], results[w])
        /\ \A id : Has(b, toCoord[w], results[w], id) => Has(r, toCoord[w], results[w], id)
    BY <2>4, <2>5 DEF OneEach, Has
  <2>7. Moves(w)
    BY <1>1, <2>2, <2>6 DEF Moves, Waits
  <2>8. ~Live(w)'
    BY <1>1, <1>9 DEF Live
  <2> QED
    BY <1>1, <1>7, <2>7, <2>8, OneNodeTileInv
<1> QED
  BY <1>8, <1>9

\* An answer moves from the wire to the map.
LEMMA ReceiverAnswerTileInv ==
    ASSUME TypeInv, PlaceInv, LiveInv, KeptInv, NEW w \in Nodes, ReceiverAnswer(w)
    PROVE  PlaceInv' /\ LiveInv' /\ KeptInv'
<1>1. /\ UNCHANGED coordVars /\ toCoord[w] # <<>>
      /\ UNCHANGED <<alive, ring, sender, link, toWorker, handler>>
      /\ results' = [results EXCEPT ![w] = Insert(@, Head(toCoord[w]))]
      /\ toCoord' = [toCoord EXCEPT ![w] = Tail(@)]
      /\ receiver' = [receiver EXCEPT ![w] = IF alive[w] THEN "read" ELSE "done"]
  BY DEF ReceiverAnswer, workerVars
<1>2. /\ toCoord \in [Nodes -> Seq(Answer)] /\ results = [n \in Nodes |-> results[n]]
      /\ receiver \in [Nodes -> {"check", "read", "done"}]
  BY DEF TypeInv, ConnInv, AnswerInv, FiledInv
<1>3. \A n \in Nodes : Stream(n)' = Stream(n)
  BY <1>1 DEF Stream
<1>4. /\ toCoord'[w] = Tail(toCoord[w])
      /\ results'[w] = Insert(results[w], Head(toCoord[w]))
      /\ \A n \in Nodes : n # w => UNCHANGED <<toCoord[n], results[n], receiver[n]>>
  BY <1>1, <1>2
<1>5. /\ OneEach(Stream(w), toCoord[w], results[w])'
      /\ \A id : Waits(w, id)' <=> Waits(w, id)
  <2>1. PICK q, a, r : q = Stream(w) /\ a = toCoord[w] /\ r = results[w]
    OBVIOUS
  <2>2. a \in Seq(Answer) /\ a # <<>> /\ OneEach(q, a, r)
    BY <1>1, <1>2, <2>1 DEF PlaceInv
  <2>3. /\ OneEach(q, Tail(a), Insert(r, Head(a)))
        /\ \A id : Has(q, Tail(a), Insert(r, Head(a)), id) <=> Has(q, a, r, id)
    BY <2>2, FileOneEach
  <2> QED
    BY <1>3, <1>4, <2>1, <2>3 DEF Waits
<1>6. Moves(w) /\ Keeps(w)
  BY <1>5 DEF Moves, Keeps
<1>7. Live(w)' => link[w] = "up" /\ Going(w)'
  <2> SUFFICES ASSUME Live(w)' PROVE link[w] = "up" /\ Going(w)'
    OBVIOUS
  <2>1. Live(w)
    BY <1>1 DEF Live, Connected, Elements, coordVars
  <2>2. Going(w) /\ link[w] = "up"
    BY <2>1 DEF LiveInv, Live
  <2>3. receiver'[w] # "done"
    BY <1>1, <1>2, <2>2 DEF Going
  <2> QED
    BY <1>1, <1>3, <2>2, <2>3 DEF Going
<1> QED
  BY <1>1, <1>4, <1>6, <1>7, OneNodeTileInv

\* What is on the wire of a lost connection is lost, and nothing else.
LEMMA ResetTileInv ==
    ASSUME TypeInv, PlaceInv, LiveInv, KeptInv, NEW w \in Nodes, Reset(w)
    PROVE  PlaceInv' /\ LiveInv' /\ KeptInv'
<1>1. /\ UNCHANGED coordVars
      /\ UNCHANGED <<alive, ring, results, sender, receiver, handler>>
      /\ link' = [link EXCEPT ![w] = "reset"]
      /\ toWorker' = [toWorker EXCEPT ![w] = <<>>]
      /\ toCoord' = [toCoord EXCEPT ![w] = <<>>]
  BY DEF Reset, workerVars
<1>2. /\ ring \in [Nodes -> Seq(Part)] /\ toWorker \in [Nodes -> Seq(Part)]
      /\ toCoord \in [Nodes -> Seq(Answer)] /\ link \in [Nodes -> {"up", "reset"}]
  BY DEF TypeInv, ConnInv, AnswerInv, FrameInv
<1>3. /\ toWorker'[w] = <<>> /\ toCoord'[w] = <<>> /\ link'[w] = "reset"
      /\ \A n \in Nodes : n # w => UNCHANGED <<link[n], toWorker[n], toCoord[n]>>
  BY <1>1, <1>2
<1>4. Moves(w)
  <2>1. PICK q, r \in Seq(Part) : q = toWorker[w] /\ r = ring[w]
    BY <1>2
  <2>2. Stream(w) = q \o r /\ Stream(w)' = r
    <3>1. <<>> \o r = r
      BY ConcatEmptySeq
    <3> QED
      BY <1>1, <1>3, <2>1, <3>1 DEF Stream
  <2>3. OneEach(q \o r, toCoord[w], results[w])
    BY <2>2 DEF PlaceInv
  <2>4. Once(r)
    BY <2>3, ConcatOnce DEF OneEach
  <2>5. \A id : Carries(r, id) => Carries(q \o r, id)
    BY ConcatCarries
  <2>6. Distinct(<<>>) /\ \A id : ~Holds(<<>>, id)
    BY DEF Distinct, Holds
  <2>7. /\ OneEach(r, <<>>, results[w])
        /\ \A id : Has(r, <<>>, results[w], id) => Has(q \o r, toCoord[w], results[w], id)
    BY <2>3, <2>4, <2>5, <2>6 DEF OneEach, Has
  <2> QED
    BY <1>1, <1>3, <2>2, <2>7 DEF Moves, Waits
<1>5. ~Live(w)'
  BY <1>3 DEF Live
<1> QED
  BY <1>1, <1>3, <1>4, <1>5, OneNodeTileInv

\* The handler takes the first part off the stream.
LEMMA StreamTakes ==
    ASSUME TypeInv, NEW w \in Nodes, toWorker[w] # <<>>,
           toWorker'[w] = Tail(toWorker[w]), ring'[w] = ring[w]
    PROVE  /\ Stream(w) # <<>> /\ Stream(w)[1] = Head(toWorker[w])
           /\ Stream(w)' = Tail(Stream(w))
           /\ link[w] = "up"
<1>1. PICK q, r \in Seq(Part) : q = toWorker[w] /\ r = ring[w]
  BY StreamParts DEF TypeInv
<1>2. q # <<>>
  BY <1>1
<1>3. q \o r # <<>> /\ (q \o r)[1] = Head(q) /\ Tail(q \o r) = Tail(q) \o r
  BY ONLY <1>2, q \in Seq(Part), r \in Seq(Part)
<1>4. link[w] = "up"
  BY DEF TypeInv, AnswerInv, FrameInv
<1> QED
  BY <1>1, <1>3, <1>4 DEF Stream

\* A tag is read; its tile is the next to be read.
LEMMA ReadTagTileInv ==
    ASSUME TypeInv, PlaceInv, LiveInv, KeptInv, NEW w \in Nodes, ReadTag(w)
    PROVE  PlaceInv' /\ LiveInv' /\ KeptInv'
<1>1. /\ UNCHANGED coordVars /\ toWorker[w] # <<>> /\ handler[w] = "tag"
      /\ UNCHANGED <<alive, ring, results, sender, receiver, link, toCoord>>
      /\ toWorker' = [toWorker EXCEPT ![w] = Tail(@)]
      /\ handler' = [handler EXCEPT ![w] =
                        IF Head(toWorker[w]).tag = "TILE_REQ" THEN "payload" ELSE "drop"]
  BY DEF ReadTag
<1>2. toWorker \in [Nodes -> Seq(Part)] /\ handler = [n \in Nodes |-> handler[n]]
  BY DEF TypeInv, ConnInv, AnswerInv, HookInv
<1>3. /\ toWorker'[w] = Tail(toWorker[w])
      /\ \A n \in Nodes : n # w => UNCHANGED <<toWorker[n], handler[n]>>
  BY <1>1, <1>2
<1>4. PICK s \in Seq(Part) : s = Stream(w)
  BY StreamParts DEF TypeInv
<1>5. s # <<>> /\ s[1] = Head(toWorker[w]) /\ Stream(w)' = Tail(s) /\ link[w] = "up"
  BY <1>1, <1>3, <1>4, StreamTakes
<1>6. OneEach(s, toCoord[w], results[w])
  BY <1>4 DEF PlaceInv
<1>7. /\ OneEach(Tail(s), toCoord[w], results[w])
      /\ \A id : Has(Tail(s), toCoord[w], results[w], id) => Has(s, toCoord[w], results[w], id)
      /\ s[1].tag # "payload" => \A id : Has(s, toCoord[w], results[w], id)
                                            => Has(Tail(s), toCoord[w], results[w], id)
  BY <1>5, <1>6, ReadOneEach
<1>8. Moves(w)
  BY <1>1, <1>4, <1>5, <1>7 DEF Moves, Waits
<1>9. ASSUME Live(w)' PROVE Keeps(w) /\ Going(w)'
  <2>1. Live(w)
    BY <1>1, <1>9 DEF Live, Connected, Elements, coordVars
  <2>2. Going(w)
    BY <2>1 DEF LiveInv
  <2>3. Open(s) /\ Paired(s, FALSE)
    BY <1>1, <1>4, <2>2 DEF Going
  <2>4. 1 \in 1..Len(s) /\ s[1] \in Part
    BY <1>5
  <2>5. s[1].tag = "TILE_REQ"
    <3>1. s[1].tag # "payload" /\ s[1].tag # "SHUTDOWN"
      BY <2>3, <2>4 DEF Open, Paired
    <3> QED
      BY <2>4, <3>1 DEF Part
  <2>6. Open(Tail(s)) /\ Paired(Tail(s), TRUE)
    BY <1>5, <2>3, <2>5, TailParts
  <2>7. handler'[w] = "payload"
    BY <1>1, <1>2, <1>5, <2>5
  <2>8. Keeps(w)
    BY <1>1, <1>4, <1>5, <1>7, <2>5 DEF Keeps, Waits
  <2>9. Going(w)'
    BY <1>1, <1>5, <2>2, <2>6, <2>7 DEF Going
  <2> QED
    BY <2>8, <2>9
<1> QED
  BY <1>1, <1>3, <1>5, <1>8, <1>9, OneNodeTileInv

\* A request becomes the answer to it.
LEMMA ProcessTileTileInv ==
    ASSUME TypeInv, PlaceInv, LiveInv, KeptInv, NEW w \in Nodes, ProcessTile(w)
    PROVE  PlaceInv' /\ LiveInv' /\ KeptInv'
<1> DEFINE t == Head(toWorker[w]).tile
           x == [id |-> t.id, data |-> Echo(t)]
<1>1. /\ UNCHANGED coordVars /\ toWorker[w] # <<>> /\ handler[w] = "payload"
      /\ UNCHANGED <<alive, ring, results, sender, receiver, link>>
      /\ toWorker' = [toWorker EXCEPT ![w] = Tail(@)]
      /\ toCoord' = [toCoord EXCEPT ![w] = Append(@, x)]
      /\ handler' = [handler EXCEPT ![w] = "tag"]
  BY DEF ProcessTile
<1>2. /\ toWorker \in [Nodes -> Seq(Part)] /\ toCoord \in [Nodes -> Seq(Answer)]
      /\ handler = [n \in Nodes |-> handler[n]]
  BY DEF TypeInv, ConnInv, AnswerInv, HookInv
<1>3. PICK s \in Seq(Part) : s = Stream(w)
  BY StreamParts DEF TypeInv
<1>4. toWorker'[w] = Tail(toWorker[w]) /\ handler'[w] = "tag"
  BY <1>1, <1>2
<1>5. s # <<>> /\ s[1] = Head(toWorker[w]) /\ Stream(w)' = Tail(s) /\ link[w] = "up"
  BY <1>1, <1>3, <1>4, StreamTakes
<1>6. s[1].tag = "payload"
  <2>1. PICK P, A : Carried(P, A)
    BY DEF TypeInv, AnswerInv
  <2> QED
    BY <1>1, <1>5, <2>1, HandlerTakes DEF TypeInv
<1>7. x \in Answer /\ x.id = s[1].tile.id
  <2>1. s[1] \in Part
    BY <1>5
  <2>2. t \in Tile /\ t = s[1].tile
    BY <1>5, <1>6, <2>1 DEF Part
  <2>3. t.id \in Nat /\ Echo(t) \in Data
    BY <2>2, EchoType DEF Tile
  <2> HIDE DEF t
  <2> QED
    BY <2>2, <2>3 DEF Answer
<1> HIDE DEF t, x
<1>8. /\ toCoord'[w] = Append(toCoord[w], x)
      /\ \A n \in Nodes : n # w => UNCHANGED <<toWorker[n], toCoord[n], handler[n]>>
  BY <1>1, <1>2
<1>9. PICK a \in Seq(Answer) : a = toCoord[w]
  BY <1>2
<1>10. OneEach(s, a, results[w])
  BY <1>3, <1>9 DEF PlaceInv
<1>11. /\ OneEach(Tail(s), Append(a, x), results[w])
       /\ \A id : Has(Tail(s), Append(a, x), results[w], id) <=> Has(s, a, results[w], id)
  BY <1>5, <1>6, <1>7, <1>10, AnswerOneEach
<1>12. Moves(w) /\ Keeps(w)
  BY <1>1, <1>3, <1>5, <1>8, <1>9, <1>11 DEF Moves, Keeps, Waits
<1>13. ASSUME Live(w)' PROVE Going(w)'
  <2>1. Live(w)
    BY <1>1, <1>13 DEF Live, Connected, Elements, coordVars
  <2>2. Going(w)
    BY <2>1 DEF LiveInv
  <2>3. Open(s) /\ Paired(s, TRUE)
    BY <1>1, <1>3, <2>2 DEF Going
  <2>4. Open(Tail(s)) /\ Paired(Tail(s), FALSE)
    BY <1>5, <1>6, <2>3, TailParts
  <2> QED
    BY <1>1, <1>4, <1>5, <2>2, <2>4 DEF Going
<1> QED
  BY <1>1, <1>5, <1>8, <1>12, <1>13, OneNodeTileInv

\* Round robin stays among the connected nodes.
LEMMA WorkerIsConnected ==
    ASSUME workers \in Seq(Nodes), workers # <<>>, next \in Nat
    PROVE  WorkerOf(next) \in Connected /\ WorkerOf(next) \in Nodes
<1>1. Len(workers) \in Nat \ {0}
  OBVIOUS
<1>2. PICK k \in Int : k = next - 2
  OBVIOUS
<1>3. (k % Len(workers)) + 1 \in 1..Len(workers)
  BY <1>1
<1>4. workers[(k % Len(workers)) + 1] \in Nodes
  BY <1>3
<1> QED
  BY <1>2, <1>3, <1>4 DEF WorkerOf, Connected, Elements

\* A tile that is refused goes nowhere.
LEMMA RefusedTileInv ==
    ASSUME TypeInv, PlaceInv, LiveInv, KeptInv, DispatchTile,
           UNCHANGED <<ring, dispatched>>
    PROVE  PlaceInv' /\ LiveInv' /\ KeptInv'
<1>1. /\ phase' = phase /\ next' = next + 1
      /\ UNCHANGED <<workers, tiles, collected, alive, ring, results, sender, receiver>>
      /\ UNCHANGED <<link, toWorker, toCoord, handler>>
  BY DEF DispatchTile, cutVars, wireVars, workerVars
<1>2. \A n \in Nodes : /\ Stream(n)' = Stream(n) /\ toCoord'[n] = toCoord[n]
                       /\ results'[n] = results[n]
                       /\ \A id : Waits(n, id)' <=> Waits(n, id)
  BY <1>1, QuietStreams
<1>3. \A i \in next'..Len(tiles) : i \in next..Len(tiles)
  BY <1>1 DEF TypeInv, AnswerInv, IdInv
<1>4. PlaceInv'
  BY <1>1, <1>2, <1>3 DEF PlaceInv
<1>5. LiveInv'
  BY <1>1, <1>2, LiveStays DEF LiveInv, Live, Connected, Elements
<1>6. KeptInv'
  <2>1. Connected \subseteq Nodes
    BY DEF TypeInv, ConnInv, Connected, Elements
  <2>2. Connected' = Connected
    BY <1>1 DEF Connected, Elements
  <2> QED
    BY <1>1, <1>2, <2>1, <2>2 DEF KeptInv
<1> QED
  BY <1>4, <1>5, <1>6

\* The tile that is pushed waits nowhere else.
LEMMA AcceptedTileInv ==
    ASSUME TypeInv, PlaceInv, LiveInv, KeptInv, DispatchTile, Accepted(next)
    PROVE  PlaceInv' /\ LiveInv' /\ KeptInv'
<1>0. PICK w, t, q : w = WorkerOf(next) /\ t = tiles[next] /\ q = Request(t)
  OBVIOUS
<1>1. /\ phase = "dispatch" /\ phase' = phase /\ next' = next + 1
      /\ workers # <<>> /\ next <= Len(tiles)
      /\ UNCHANGED <<workers, tiles, collected, alive, results, sender, receiver>>
      /\ UNCHANGED <<link, toWorker, toCoord, handler>>
      /\ ring' = [ring EXCEPT ![w] = @ \o q]
      /\ dispatched' = dispatched \cup {t.id}
  BY <1>0 DEF DispatchTile, cutVars, wireVars, workerVars
<1>2. w \in Connected /\ w \in Nodes
  BY <1>0, <1>1, WorkerIsConnected DEF TypeInv, ConnInv, AnswerInv, IdInv
<1>3. next \in 1..Len(tiles) /\ t \in Tile
  BY <1>0, <1>1 DEF TypeInv, AnswerInv, IdInv, CallInv
<1>4. t.id \notin DOMAIN collected /\ \A n \in Nodes : ~Waits(n, t.id)
  <2>1. next \in next..Len(tiles)
    BY <1>3
  <2> QED
    BY <1>0, <1>1, <2>1 DEF PlaceInv
<1>5. /\ q \in Seq(Part) /\ Len(q) = 2 /\ q[1].tag = "TILE_REQ"
      /\ q[2].tag = "payload" /\ q[2].tile = t
  BY <1>0, <1>3, RequestParts
<1>6. Stream(w)' = Stream(w) \o q
  <2>1. PICK x, y \in Seq(Part) : x = toWorker[w] /\ y = ring[w]
    BY <1>2, StreamParts DEF TypeInv
  <2>2. ring'[w] = ring[w] \o q
    BY <1>1, <1>2 DEF TypeInv, ConnInv
  <2>3. Regrouped(x, y, q)
    BY <1>5, Regroup, Zenon
  <2> QED
    BY <1>1, <2>1, <2>2, <2>3 DEF Stream, Regrouped
<1>7. \A n \in Nodes : n # w => Stream(n)' = Stream(n)
  BY <1>1 DEF Stream, TypeInv, ConnInv
<1>8. PICK s \in Seq(Part) : s = Stream(w)
  BY <1>2, StreamParts DEF TypeInv
<1>9. \A n \in Nodes :
         /\ OneEach(Stream(n), toCoord[n], results[n])'
         /\ \A id : Waits(n, id)' <=> Waits(n, id) \/ (n = w /\ id = t.id)
  <2> SUFFICES ASSUME NEW n \in Nodes
               PROVE  /\ OneEach(Stream(n), toCoord[n], results[n])'
                      /\ \A id : Waits(n, id)' <=> Waits(n, id) \/ (n = w /\ id = t.id)
    OBVIOUS
  <2>1. OneEach(Stream(n), toCoord[n], results[n])
    BY DEF PlaceInv
  <2>2. CASE n # w
    BY <1>1, <1>7, <2>1, <2>2 DEF Waits
  <2>3. CASE n = w
    <3>1. PICK a, r : a = toCoord[w] /\ r = results[w]
      OBVIOUS
    <3>2. OneEach(s, a, r) /\ ~Has(s, a, r, t.id)
      BY <1>4, <1>8, <2>1, <2>3, <3>1 DEF Waits
    <3>3. /\ OneEach(s \o q, a, r)
          /\ \A id : Has(s \o q, a, r, id) <=> Has(s, a, r, id) \/ id = t.id
      BY <1>0, <1>3, <3>2, RequestOneEach
    <3> QED
      BY <1>1, <1>6, <1>8, <2>3, <3>1, <3>3 DEF Waits
  <2> QED
    BY <2>2, <2>3
<1>10. PlaceInv'
  <2>1. \A m, n \in Nodes : \A id : Waits(m, id)' /\ Waits(n, id)' => m = n
    BY <1>4, <1>9 DEF PlaceInv
  <2>2. \A n \in Nodes : \A id \in DOMAIN collected : ~Waits(n, id)'
    BY <1>4, <1>9 DEF PlaceInv
  <2>3. \A i \in next'..Len(tiles) : i \in next..Len(tiles) /\ tiles[i].id # t.id
    BY <1>0, <1>1, <1>3 DEF TypeInv, AnswerInv, IdInv
  <2>4. \A i \in next'..Len(tiles) :
           /\ tiles[i].id \notin DOMAIN collected
           /\ \A n \in Nodes : ~Waits(n, tiles[i].id)'
    BY <1>1, <1>9, <2>3 DEF PlaceInv
  <2> QED
    BY <1>1, <1>9, <2>1, <2>2, <2>4 DEF PlaceInv
<1>11. LiveInv'
  <2> SUFFICES ASSUME NEW n \in Nodes, Live(n)' PROVE Going(n)'
    BY DEF LiveInv
  <2>1. Live(n)
    BY <1>1 DEF Live, Connected, Elements
  <2>2. CASE n # w
    BY <1>1, <1>7, <2>1, <2>2, LiveStays
  <2>3. CASE n = w
    <3>1. Going(w)
      BY <2>1, <2>3 DEF LiveInv
    <3>2. /\ Open(s) => Open(s \o q)
          /\ \A b : Paired(s, b) => Paired(s \o q, b)
      BY <1>5, RequestAdds
    <3> QED
      BY <1>1, <1>6, <1>8, <2>3, <3>1, <3>2 DEF Going
  <2> QED
    BY <2>2, <2>3
<1>12. KeptInv'
  <2> SUFFICES ASSUME \A n \in Connected : link[n] = "up", NEW id \in dispatched \cup {t.id}
               PROVE  id \in DOMAIN collected \/ \E n \in Connected : Waits(n, id)'
    BY <1>1 DEF KeptInv, Connected, Elements
  <2>1. CASE id \in dispatched
    <3>1. id \in DOMAIN collected \/ \E n \in Connected : Waits(n, id)
      BY <1>1, <2>1 DEF KeptInv
    <3>2. Connected \subseteq Nodes
      BY DEF TypeInv, ConnInv, Connected, Elements
    <3> QED
      BY <1>9, <3>1, <3>2
  <2>2. CASE id = t.id
    BY <1>2, <1>9, <2>2
  <2> QED
    BY <2>1, <2>2
<1> QED
  BY <1>10, <1>11, <1>12

\* Every step keeps the invariant.
LEMMA NextTileInv ==
    ASSUME TileNetAssumption, EngineAssumption, TileInv, [Next]_vars
    PROVE  TileInv'
<1>1. TypeInv /\ PlaceInv /\ LiveInv /\ KeptInv
  BY DEF TileInv
<1>2. TypeInv'
  BY <1>1, NextTypeInv
<1>3. PlaceInv' /\ LiveInv' /\ KeptInv'
  <2>1. CASE \/ DispatchDone \/ CollectDone \/ Reassemble \/ Drop \/ Closed
             \/ \E n \in Nodes : ClearAlive(n)
             \/ UNCHANGED vars
    BY <1>1, <2>1, CoordinatorQuiet
  <2>2. CASE Connect
    BY <1>1, <2>2, ConnectTileInv
  <2>3. CASE Decompose
    BY <1>1, <2>3, DecomposeTileInv
  <2>4. CASE DispatchTile
    <3>1. Accepted(next) \/ UNCHANGED <<ring, dispatched>>
      BY <2>4 DEF DispatchTile
    <3> QED
      BY <1>1, <2>4, <3>1, AcceptedTileInv, RefusedTileInv
  <2>5. CASE \E n \in Nodes : \E id \in remaining : Poll(n, id)
    BY <1>1, <2>5, PollTileInv
  <2>6. CASE NextCall
    BY <1>1, <2>6, NextCallTileInv
  <2>7. CASE \E n \in Nodes : PushShutdown(n)
    BY <1>1, <2>7, PushShutdownTileInv
  <2>8. ASSUME NEW n \in Nodes, Sender(n) \/ Receiver(n) \/ Handler(n) \/ Reset(n)
        PROVE  PlaceInv' /\ LiveInv' /\ KeptInv'
    <3>1. CASE SenderWrite(n)
      BY <1>1, <3>1, SenderWriteTileInv
    <3>2. CASE ReceiverAnswer(n)
      BY <1>1, <3>2, ReceiverAnswerTileInv
    <3>3. CASE ReadTag(n)
      BY <1>1, <3>3, ReadTagTileInv
    <3>4. CASE ProcessTile(n)
      BY <1>1, <3>4, ProcessTileTileInv
    <3>5. CASE Reset(n)
      BY <1>1, <3>5, ResetTileInv
    <3>6. CASE \/ SenderIdle(n) \/ ReceiverCheck(n) \/ ReceiverEnd(n)
               \/ Accept(n) \/ HandlerEnds(n) \/ HandlerDrops(n) \/ HandlerFrees(n)
      BY <1>1, <3>6, NodeQuiet
    <3> QED
      BY <2>8, <3>1, <3>2, <3>3, <3>4, <3>5, <3>6 DEF Sender, Receiver, Handler
  <2> QED
    BY <2>1, <2>2, <2>3, <2>4, <2>5, <2>6, <2>7, <2>8 DEF Next, Coordinator, InCall
<1> QED
  BY <1>1, <1>2, <1>3 DEF TileInv

-----------------------------------------------------------------------------
\* What the property calls pending is what waits.
LEMMA PendingWaits ==
    ASSUME ConnInv, NEW n \in Nodes, NEW id
    PROVE  Pending(n, id) <=> Waits(n, id)
<1>1. PICK q, r \in Seq(Part) : q = toWorker[n] /\ r = ring[n]
  BY StreamParts
<1>2. toCoord[n] \in Seq(Answer)
  BY StreamParts
<1>3. ASSUME NEW s \in Seq(Part)
      PROVE  (\E t \in Payloads(s) : t.id = id) <=> Carries(s, id)
  <2>1. DOMAIN s = 1..Len(s)
    OBVIOUS
  <2> QED
    BY <2>1 DEF Payloads, Carries
<1>4. (\E k \in DOMAIN toCoord[n] : toCoord[n][k].id = id) <=> Holds(toCoord[n], id)
  BY <1>2 DEF Holds
<1>5. Carries(Stream(n), id) <=> Carries(q, id) \/ Carries(r, id)
  BY <1>1, ConcatCarries DEF Stream
<1>6. Owed(n, id) <=> Carries(Stream(n), id) \/ Holds(toCoord[n], id)
  BY <1>1, <1>3, <1>4, <1>5 DEF Owed
<1> QED
  BY <1>6 DEF Pending, Waits, Has

\* An accepted tile is at one node at most, as a request or as an answer, or
\* collected; while every connection stands it is somewhere (network.rs:
\* dispatch, the two threads of a connection, process_tile_request, collect).
THEOREM TilesKeepTheirPlace == Spec => []TileInOnePlace
<1>1. TileInv => TileInOnePlace
  <2> SUFFICES ASSUME TileInv, NEW id \in dispatched
               PROVE  /\ id \in DOMAIN collected => \A n \in Nodes : ~Pending(n, id)
                      /\ Cardinality({n \in Nodes : Pending(n, id)}) <= 1
                      /\ (/\ phase \in {"dispatch", "collect"} /\ id \notin DOMAIN collected
                          /\ \A n \in Nodes : link[n] = "up" \/ n \notin Connected)
                            => \E n \in Nodes : Pending(n, id)
    BY DEF TileInOnePlace
  <2>1. PlaceInv /\ KeptInv /\ ConnInv
    BY DEF TileInv, TypeInv
  <2>2. \A n \in Nodes : Pending(n, id) <=> Waits(n, id)
    BY <2>1, PendingWaits
  <2>3. id \in DOMAIN collected => \A n \in Nodes : ~Pending(n, id)
    BY <2>1, <2>2 DEF PlaceInv
  <2>4. Cardinality({n \in Nodes : Pending(n, id)}) <= 1
    <3> DEFINE Where == {n \in Nodes : Pending(n, id)}
    <3>1. \A m, n \in Where : m = n
      BY <2>1, <2>2 DEF PlaceInv
    <3>2. Where = {} \/ \E m \in Where : Where = {m}
      BY <3>1
    <3> HIDE DEF Where
    <3>3. Cardinality(Where) = 0 \/ Cardinality(Where) = 1
      BY <3>2, FS_EmptySet, FS_Singleton
    <3> QED
      BY <3>3 DEF Where
  <2>5. ASSUME phase \in {"dispatch", "collect"}, id \notin DOMAIN collected,
               \A n \in Nodes : link[n] = "up" \/ n \notin Connected
        PROVE  \E n \in Nodes : Pending(n, id)
    <3>1. Connected \subseteq Nodes
      BY <2>1 DEF ConnInv, Connected, Elements
    <3>2. \E n \in Connected : Waits(n, id)
      BY <2>1, <2>5, <3>1 DEF KeptInv
    <3> QED
      BY <2>2, <3>1, <3>2
  <2> QED
    BY <2>3, <2>4, <2>5
<1>2. Init => TileInv
  BY InitTileInv, TileNetAssumption
<1>3. TileInv /\ [Next]_vars => TileInv'
  BY NextTileInv, TileNetAssumption, EngineAssumption
<1> QED
  BY <1>1, <1>2, <1>3, PTL DEF Spec

-----------------------------------------------------------------------------
(* The network layer as a service. *)

(***************************************************************************)
(* The tiles that dispatch has not come to have not been given out, the    *)
(* first is not for giving out, and there are none between two calls.      *)
(***************************************************************************)
OfferInv ==
    /\ phase = "dispatch" =>
          next >= 2 /\ \A i \in next..Len(tiles) : tiles[i].id \notin dispatched
    /\ phase \in {"start", "ready"} => tiles = <<>>

\* Dispatch takes the tiles in turn; a call starts with none given out.
LEMMA NextOfferInv ==
    ASSUME TypeInv, OfferInv, [Next]_vars
    PROVE  OfferInv'
<1>1. CASE Decompose
  <2>1. /\ next' = 2 /\ phase = "ready" /\ phase' = "dispatch" /\ dispatched' = dispatched
    BY <1>1 DEF Decompose
  <2>2. dispatched = {}
    BY <2>1 DEF TypeInv, CallInv, InTheCall
  <2> QED
    BY <2>1, <2>2 DEF OfferInv
<1>2. CASE DispatchTile
  <2>1. /\ phase = "dispatch" /\ phase' = "dispatch" /\ next' = next + 1 /\ next <= Len(tiles)
        /\ tiles' = tiles
        /\ dispatched' \subseteq dispatched \cup {tiles[next].id}
    BY <1>2 DEF DispatchTile, cutVars
  <2>2. /\ next \in Nat /\ Len(tiles) \in Nat
        /\ \A i, j \in 1..Len(tiles) : tiles[i].id = tiles[j].id => i = j
    BY DEF TypeInv, AnswerInv, IdInv
  <2>3. next >= 2 /\ \A i \in next..Len(tiles) : tiles[i].id \notin dispatched
    BY <2>1 DEF OfferInv
  <2>4. \A i \in next'..Len(tiles) : i \in next..Len(tiles) /\ i \in 1..Len(tiles) /\ i # next
    BY <2>1, <2>2, <2>3
  <2>5. next \in 1..Len(tiles)
    BY <2>1, <2>2, <2>3
  <2>6. \A i \in next'..Len(tiles) : tiles[i].id # tiles[next].id
    BY <2>2, <2>4, <2>5
  <2>7. \A i \in next'..Len(tiles) : tiles[i].id \notin dispatched'
    BY <2>1, <2>3, <2>4, <2>6
  <2> QED
    BY <2>1, <2>2, <2>3, <2>7 DEF OfferInv
<1>3. CASE NextCall
  BY <1>3 DEF NextCall, OfferInv
<1>4. CASE \/ Connect \/ DispatchDone \/ CollectDone \/ Reassemble \/ Drop \/ Closed
           \/ UNCHANGED vars
           \/ \E n \in Nodes : \/ \E id \in remaining : Poll(n, id)
                               \/ ClearAlive(n) \/ PushShutdown(n)
  <2>1. UNCHANGED <<tiles, next, dispatched>>
    BY <1>4 DEF Connect, DispatchDone, CollectDone, Reassemble, Drop, Closed, Poll,
       ClearAlive, PushShutdown, vars, coordVars, callVars, cutVars
  <2>2. /\ phase' = "dispatch" => phase = "dispatch"
        /\ phase' \in {"start", "ready"} => phase \in {"start", "ready"}
    BY <1>4 DEF Connect, DispatchDone, CollectDone, Reassemble, Drop, Closed, Poll,
       ClearAlive, PushShutdown, vars, coordVars
  <2> QED
    BY <2>1, <2>2 DEF OfferInv
<1>5. CASE \E n \in Nodes : Sender(n) \/ Receiver(n) \/ Handler(n) \/ Reset(n)
  <2>1. UNCHANGED coordVars
    BY <1>5 DEF Sender, Receiver, Handler, SenderIdle, SenderWrite, ReceiverCheck,
       ReceiverAnswer, ReceiverEnd, Accept, ReadTag, ProcessTile, HandlerEnds,
       HandlerDrops, HandlerFrees, Reset
  <2> QED
    BY <2>1 DEF OfferInv, coordVars, callVars, cutVars
<1> QED
  BY <1>1, <1>2, <1>3, <1>4, <1>5 DEF Next, Coordinator, InCall

-----------------------------------------------------------------------------
(* Each step of the network layer is one of the service or none. *)

\* While a call runs, its tiles divide the elements, each with a share of its own.
LEMMA SharesApart ==
    ASSUME TypeInv, phase \in InTheCall
    PROVE  /\ \A i \in 1..Len(tiles) : 1 \in Share(tiles[i]) <=> i = 1
           /\ \A i, j \in 1..Len(tiles) : Share(tiles[i]) = Share(tiles[j]) => i = j
           /\ \A i, j \in 1..Len(tiles) : tiles[i].id = tiles[j].id => i = j
<1>1. Covers(tiles, rounds, size) /\ size \in Nat
  BY DEF TypeInv, CallInv
<1>2. \A i, j \in 1..Len(tiles) : tiles[i].id = tiles[j].id => i = j
  BY DEF TypeInv, AnswerInv, IdInv
<1> QED
  BY <1>1, <1>2, TilesDivide

\* The shares of some ids and those of one more.
LEMMA OneMoreShare ==
    ASSUME TypeInv, phase \in InTheCall, NEW ids, NEW i \in 1..Len(tiles), tiles[i].id \notin ids
    PROVE  /\ Share(tiles[i]) \notin Shares(ids)
           /\ Shares(ids \cup {tiles[i].id}) = Shares(ids) \cup {Share(tiles[i])}
<1>1. /\ \A j, k \in 1..Len(tiles) : Share(tiles[j]) = Share(tiles[k]) => j = k
      /\ \A j, k \in 1..Len(tiles) : tiles[j].id = tiles[k].id => j = k
  BY SharesApart
<1>2. Share(tiles[i]) \notin Shares(ids)
  BY <1>1 DEF Shares
<1>3. {j \in 1..Len(tiles) : tiles[j].id \in ids \cup {tiles[i].id}}
         = {j \in 1..Len(tiles) : tiles[j].id \in ids} \cup {i}
  BY <1>1
<1> QED
  BY <1>2, <1>3 DEF Shares

\* Steps that the caller of the layer does not notice.
LEMMA Unnoticed ==
    ASSUME UNCHANGED <<tiles, rounds, dispatched, collected, out>>, Stage' = Stage
    PROVE  UNCHANGED Service!serviceVars
BY DEF Service!serviceVars, Shares

\* decompose cuts: none of the new tiles is given out or answered yet.
LEMMA DecomposeCuts ==
    ASSUME TileNetAssumption, TypeInv, OfferInv, Decompose
    PROVE  Service!Cut
<1>1. /\ phase = "ready" /\ phase' = "dispatch" /\ rounds' = rounds + 1
      /\ UNCHANGED <<dispatched, collected, out>>
  BY DEF Decompose, connVars
<1>2. PICK s \in Sizes, n \in 1..NumNodes :
         size' = s /\ tiles' = TilesOf(rounds + 1, s, Smaller(n + 1, s), nextId)
  BY DEF Decompose
<1>3. CallInv'
  BY DecomposeCallInv DEF TypeInv
<1>4. Covers(tiles', rounds', size') /\ size' \in Nat
  BY <1>1, <1>3 DEF CallInv, InTheCall
<1>5. Service!IsDivision({Share(tiles'[i]) : i \in 1..Len(tiles')}, size')
  BY <1>4, TilesDivide
<1>6. Shares(dispatched) = {} /\ Shares(DOMAIN collected) = {}
  BY <1>1 DEF OfferInv, Shares
<1>7. Shares(dispatched)' = {} /\ Shares(DOMAIN collected)' = {}
  <2>1. dispatched = {}
    BY <1>1 DEF TypeInv, CallInv, InTheCall
  <2>2. \A id \in DOMAIN collected : id < nextId
    BY DEF TypeInv, AnswerInv, FiledInv, Fitting
  <2>3. Smaller(n + 1, s) \in Nat /\ nextId \in Nat
    BY DEF TileNetAssumption, Smaller, TypeInv, AnswerInv, IdInv
  <2>4. \A i \in 1..Len(tiles') : ~(tiles'[i].id < nextId)
    BY <1>2, <2>3, TileIds
  <2> QED
    BY <1>1, <2>1, <2>2, <2>4 DEF Shares
<1>8. Stage = "idle" /\ Stage' = "offering"
  BY <1>1 DEF Stage
<1> QED
  BY <1>1, <1>2, <1>5, <1>6, <1>7, <1>8 DEF Service!Cut

\* A tile that is accepted is a share that is taken; one that is refused is not
\* noticed.
LEMMA DispatchTakes ==
    ASSUME TypeInv, OfferInv, DispatchTile
    PROVE  Service!ServiceNext \/ UNCHANGED Service!serviceVars
<1>1. /\ phase = "dispatch" /\ phase' = phase /\ next <= Len(tiles)
      /\ UNCHANGED <<tiles, rounds, collected, out>>
      /\ dispatched' = dispatched \cup {tiles[next].id} \/ dispatched' = dispatched
  BY DEF DispatchTile, cutVars
<1>2. Stage = "offering" /\ Stage' = "offering"
  BY <1>1 DEF Stage
<1>3. CASE dispatched' = dispatched
  BY <1>1, <1>2, <1>3, Unnoticed
<1>4. CASE dispatched' = dispatched \cup {tiles[next].id}
  <2>1. next \in 1..Len(tiles) /\ next # 1 /\ tiles[next].id \notin dispatched
    BY <1>1 DEF OfferInv, TypeInv, AnswerInv, IdInv
  <2>2. PICK x : x = Share(tiles[next])
    OBVIOUS
  <2>3. x \notin Shares(dispatched) /\ Shares(dispatched') = Shares(dispatched) \cup {x}
    BY <1>1, <1>4, <2>1, <2>2, OneMoreShare DEF InTheCall
  <2>4. 1 \notin x /\ x \in {Share(tiles[i]) : i \in 1..Len(tiles)}
    BY <1>1, <2>1, <2>2, SharesApart DEF InTheCall
  <2>5. Shares(dispatched)' = Shares(dispatched) \cup {x}
    BY <1>1, <2>3 DEF Shares
  <2>6. Shares(DOMAIN collected)' = Shares(DOMAIN collected)
    BY <1>1 DEF Shares
  <2>7. Service!Take(x)
    BY <1>1, <1>2, <2>3, <2>4, <2>5, <2>6 DEF Service!Take
  <2> QED
    BY <2>4, <2>7 DEF Service!ServiceNext
<1> QED
  BY <1>1, <1>3, <1>4

\* An answer that collect takes is one that was not there, for a share that is
\* taken.
LEMMA PollReceives ==
    ASSUME TypeInv, PlaceInv, NEW w \in Nodes, NEW id \in remaining, Poll(w, id)
    PROVE  Service!ServiceNext \/ UNCHANGED Service!serviceVars
<1>1. /\ phase = "collect" /\ phase' = phase /\ id \in DOMAIN results[w]
      /\ UNCHANGED <<tiles, rounds, dispatched, out>>
      /\ DOMAIN collected' = DOMAIN collected \cup {id}
  BY DEF Poll, cutVars, Insert
<1>2. Stage = "waiting" /\ Stage' = "waiting"
  BY <1>1 DEF Stage
<1>3. id \in dispatched /\ id \notin DOMAIN collected
  BY <1>1 DEF TypeInv, CallInv, PlaceInv, Waits, Has
<1>4. Shares(dispatched)' = Shares(dispatched)
  BY <1>1 DEF Shares
<1>5. Shares(DOMAIN collected)' = Shares(DOMAIN collected \cup {id})
  BY <1>1 DEF Shares
<1>6. CASE \A i \in 1..Len(tiles) : tiles[i].id # id
  <2>1. Shares(DOMAIN collected \cup {id}) = Shares(DOMAIN collected)
    <3>1. {j \in 1..Len(tiles) : tiles[j].id \in DOMAIN collected \cup {id}}
             = {j \in 1..Len(tiles) : tiles[j].id \in DOMAIN collected}
      BY <1>6
    <3> QED
      BY <3>1 DEF Shares
  <2> QED
    BY <1>1, <1>2, <1>4, <1>5, <2>1 DEF Service!serviceVars
<1>7. ASSUME NEW i \in 1..Len(tiles), tiles[i].id = id
      PROVE  Service!ServiceNext
  <2>1. PICK x : x = Share(tiles[i])
    OBVIOUS
  <2>2. /\ x \notin Shares(DOMAIN collected)
        /\ Shares(DOMAIN collected \cup {id}) = Shares(DOMAIN collected) \cup {x}
    BY <1>1, <1>3, <1>7, <2>1, OneMoreShare DEF InTheCall
  <2>3. x \in Shares(dispatched) /\ x \in {Share(tiles[j]) : j \in 1..Len(tiles)}
    BY <1>3, <1>7, <2>1 DEF Shares
  <2>4. Service!Receive(x)
    BY <1>1, <1>2, <1>4, <1>5, <2>2, <2>3 DEF Service!Receive
  <2> QED
    BY <2>3, <2>4 DEF Service!ServiceNext
<1> QED
  BY <1>6, <1>7

\* reassemble returns the elements of the shares that are there; the others it
\* leaves out.
LEMMA ReassembleReturns ==
    ASSUME TypeInv, Reassemble
    PROVE  Service!Return
<1>1. /\ phase = "reassemble" /\ phase' = "joined" /\ out' = Join(collected)
      /\ UNCHANGED <<rounds, size, tiles, dispatched, collected>>
  BY DEF Reassemble, cutVars
<1>2. Joinable(collected)
  BY <1>1, CollectedJoinable DEF TypeInv, InTheCall
<1>3. Service!InOrder(UNION {x \in {Share(tiles[i]) : i \in 1..Len(tiles)} :
                                1 \in x \/ x \in Shares(DOMAIN collected)},
                      rounds, out')
  BY <1>1, <1>2, JoinedInOrder
<1>4. Stage = "waiting" /\ Stage' = "done"
  BY <1>1 DEF Stage
<1>5. Shares(dispatched)' = Shares(dispatched)
      /\ Shares(DOMAIN collected)' = Shares(DOMAIN collected)
  BY <1>1 DEF Shares
<1> QED
  BY <1>1, <1>3, <1>4, <1>5 DEF Service!Return, Service!There

\* The caller goes on.
LEMMA NextCallLeaves ==
    ASSUME NextCall
    PROVE  Service!Leave
<1>1. /\ phase = "joined" /\ phase' = "ready"
      /\ tiles' = <<>> /\ dispatched' = {} /\ collected' = NoAnswers /\ out' = <<>>
      /\ rounds' = rounds
  BY DEF NextCall
<1>2. Stage = "done" /\ Stage' = "idle"
  BY <1>1 DEF Stage
<1>3. /\ Shares(dispatched)' = {} /\ Shares(DOMAIN collected)' = {}
      /\ {Share(tiles'[i]) : i \in 1..Len(tiles')} = {}
  BY <1>1 DEF Shares
<1> QED
  BY <1>1, <1>2, <1>3 DEF Service!Leave

\* Every step is one of the service or is not noticed.
LEMMA NextService ==
    ASSUME TileNetAssumption, TypeInv, PlaceInv, OfferInv, [Next]_vars
    PROVE  Service!ServiceNext \/ UNCHANGED Service!serviceVars
<1>1. CASE Decompose
  BY <1>1, DecomposeCuts DEF Service!ServiceNext
<1>2. CASE DispatchTile
  BY <1>2, DispatchTakes
<1>3. CASE DispatchDone
  <2>1. /\ phase = "dispatch" /\ phase' = "collect"
        /\ UNCHANGED <<tiles, rounds, dispatched, collected, out>>
    BY <1>3 DEF DispatchDone, cutVars
  <2>2. Stage = "offering" /\ Stage' = "waiting"
    BY <2>1 DEF Stage
  <2>3. Service!Wait
    BY <2>1, <2>2 DEF Service!Wait, Shares
  <2> QED
    BY <2>3 DEF Service!ServiceNext
<1>4. CASE \E n \in Nodes : \E id \in remaining : Poll(n, id)
  BY <1>4, PollReceives
<1>5. CASE Reassemble
  BY <1>5, ReassembleReturns DEF Service!ServiceNext
<1>6. CASE NextCall
  BY <1>6, NextCallLeaves DEF Service!ServiceNext
<1>7. CASE Drop
  <2>1. /\ phase = "ready" /\ phase' = "closing"
        /\ UNCHANGED <<tiles, rounds, dispatched, collected, out>>
    BY <1>7 DEF Drop, callVars, cutVars
  <2>2. Stage = "idle" /\ Stage' = "closed"
    BY <2>1 DEF Stage
  <2>3. Service!Close
    BY <2>1, <2>2 DEF Service!Close, Shares
  <2> QED
    BY <2>3 DEF Service!ServiceNext
<1>8. CASE \/ Connect \/ CollectDone \/ Closed \/ UNCHANGED vars
           \/ \E n \in Nodes : ClearAlive(n) \/ PushShutdown(n)
  <2>1. UNCHANGED <<tiles, rounds, dispatched, collected, out>>
    BY <1>8 DEF Connect, CollectDone, Closed, ClearAlive, PushShutdown, vars, coordVars,
       callVars, cutVars
  <2>2. \/ phase' = phase
        \/ phase = "start" /\ phase' = "ready"
        \/ phase = "collect" /\ phase' = "reassemble"
        \/ phase \in {"closing", "closing_push"} /\ phase' \in {"closing", "closing_push", "closed"}
    BY <1>8 DEF Connect, CollectDone, Closed, ClearAlive, PushShutdown, vars, coordVars
  <2>3. Stage' = Stage
    BY <2>2 DEF Stage
  <2> QED
    BY <2>1, <2>3, Unnoticed
<1>9. CASE \E n \in Nodes : Sender(n) \/ Receiver(n) \/ Handler(n) \/ Reset(n)
  <2>1. UNCHANGED coordVars
    BY <1>9 DEF Sender, Receiver, Handler, SenderIdle, SenderWrite, ReceiverCheck,
       ReceiverAnswer, ReceiverEnd, Accept, ReadTag, ProcessTile, HandlerEnds,
       HandlerDrops, HandlerFrees, Reset
  <2>2. UNCHANGED <<phase, tiles, rounds, dispatched, collected, out>>
    BY <2>1 DEF coordVars, callVars, cutVars
  <2>3. Stage' = Stage
    BY <2>2 DEF Stage
  <2> QED
    BY <2>2, <2>3, Unnoticed
<1> QED
  BY <1>1, <1>2, <1>3, <1>4, <1>5, <1>6, <1>7, <1>8, <1>9 DEF Next, Coordinator, InCall

\* Every behaviour of the network layer is one of the service (network.rs:
\* decompose, dispatch, collect, reassemble, shutdown).
THEOREM NetworkService == Spec => NetworkImplementsService
<1>1. Init => Service!ServiceInit
  BY DEF Init, Service!ServiceInit, Stage, Shares, NoAnswers
<1>2. Init => TileInv /\ OfferInv
  <2>1. Init => OfferInv
    BY DEF Init, OfferInv
  <2> QED
    BY <2>1, InitTileInv, TileNetAssumption
<1>3. TileInv /\ OfferInv /\ [Next]_vars => (TileInv /\ OfferInv)'
  BY NextTileInv, NextOfferInv, TileNetAssumption, EngineAssumption DEF TileInv
<1>4. TileInv /\ OfferInv /\ [Next]_vars => [Service!ServiceNext]_(Service!serviceVars)
  BY NextService, TileNetAssumption DEF TileInv
<1> QED
  BY <1>1, <1>2, <1>3, <1>4, PTL DEF Spec, NetworkImplementsService, Service!ServiceSpec

=============================================================================
