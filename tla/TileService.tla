---------------------------- MODULE TileService ----------------------------
(***************************************************************************)
(* What the network layer promises whoever gives it one graph after the    *)
(* other, with no rings, no connections and no ids.  A graph is divided    *)
(* into shares.  The share with its first element is computed here; each   *)
(* of the others is taken by some node at most once, and answered at most  *)
(* once if it was taken.  The result has all that has been answered by the *)
(* time it is put together, in the order of the elements, and of no other  *)
(* graph.  What stands for a share that has not been answered is left      *)
(* open: the code and the comment in it differ there (TileNet,             *)
(* MissingTilesLeaveZeros).  TileNet implements the service.               *)
(***************************************************************************)
EXTENDS Integers, Sequences

CONSTANTS
    Sizes,            \* how many elements a graph may have
    ResultAt(_, _),   \* the k-th element of the result of the r-th graph
    Blank             \* an element that is not there

VARIABLES
    stage,      \* where the call is
    graph,      \* the graph of the call, counted from the first
    shares,     \* its shares, as sets of elements
    accepted,   \* the shares that a node has taken
    answered,   \* the shares that have come back
    result      \* what is returned

serviceVars == <<stage, graph, shares, accepted, answered, result>>

ServiceInit ==
    /\ stage = "idle"
    /\ graph = 0
    /\ shares = {} /\ accepted = {} /\ answered = {}
    /\ result = <<>>

\* Consecutive stretches of the elements 1..s, none of them empty.
IsDivision(P, s) ==
    /\ UNION P = 1..s
    /\ \A x \in P : \E a \in 1..s : \E b \in a..s : x = a..b
    /\ \A x, y \in P : x # y => x \cap y = {}

\* What is there of the r-th graph if just the elements K are: those, in order.
InOrder(K, r, seq) ==
    \E f \in [1..Len(seq) -> K] :
        /\ \A i, j \in 1..Len(seq) : i < j => f[i] < f[j]
        /\ \A k \in K : \E i \in 1..Len(seq) : f[i] = k
        /\ \A i \in 1..Len(seq) : seq[i] = ResultAt(r, f[i])

Cut ==
    /\ stage = "idle"
    /\ \E s \in Sizes : IsDivision(shares', s)
    /\ graph' = graph + 1
    /\ stage' = "offering"
    /\ UNCHANGED <<accepted, answered, result>>

\* A node takes a share.  It may take none: nobody promises that one does.
Take(x) ==
    /\ stage = "offering"
    /\ x \in shares \ accepted /\ 1 \notin x
    /\ accepted' = accepted \cup {x}
    /\ UNCHANGED <<stage, graph, shares, answered, result>>

Wait ==
    /\ stage = "offering"
    /\ stage' = "waiting"
    /\ UNCHANGED <<graph, shares, accepted, answered, result>>

Receive(x) ==
    /\ stage = "waiting"
    /\ x \in accepted \ answered
    /\ answered' = answered \cup {x}
    /\ UNCHANGED <<stage, graph, shares, accepted, result>>

\* The elements that are there.
There == UNION {x \in shares : 1 \in x \/ x \in answered}

\* All there, or too late: then the rest is left out or is blank.
Return ==
    /\ stage = "waiting"
    /\ \/ InOrder(There, graph, result')
       \/ result' = [k \in UNION shares |->
                        IF k \in There THEN ResultAt(graph, k) ELSE Blank]
    /\ stage' = "done"
    /\ UNCHANGED <<graph, shares, accepted, answered>>

Leave ==
    /\ stage = "done"
    /\ stage' = "idle"
    /\ shares' = {} /\ accepted' = {} /\ answered' = {} /\ result' = <<>>
    /\ UNCHANGED graph

Close ==
    /\ stage = "idle"
    /\ stage' = "closed"
    /\ UNCHANGED <<graph, shares, accepted, answered, result>>

ServiceNext ==
    \/ Cut \/ Wait \/ Return \/ Leave \/ Close
    \/ \E x \in shares : Take(x) \/ Receive(x)

ServiceSpec == ServiceInit /\ [][ServiceNext]_serviceVars

=============================================================================
