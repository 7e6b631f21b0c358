---------------------------- MODULE KernelService ----------------------------
(***************************************************************************)
(* What execute_expr_on_device promises its callers, with no queues and no *)
(* workers: a table from cache keys to compiled kernels that only ever     *)
(* fills up, and calls that end by running a kernel of that table, or by a *)
(* panic for a graph the compiler refuses.  KernelPool implements it.      *)
(***************************************************************************)
CONSTANTS Threads, Graphs, Hashes, HashOf, Outcome, NoKernel, Panicked

VARIABLES
    calling,   \* the threads inside a call
    graphOf,   \* per thread: the graph of its last call
    ran,       \* per thread: what its last call ran
    table      \* the kernels compiled so far, by key

serviceVars == <<calling, graphOf, ran, table>>

ServiceInit ==
    /\ calling = {}
    /\ graphOf \in [Threads -> Graphs]
    /\ ran = [t \in Threads |-> NoKernel]
    /\ table = [h \in Hashes |-> NoKernel]

Ask(t, g) ==
    /\ t \notin calling
    /\ calling' = calling \cup {t}
    /\ graphOf' = [graphOf EXCEPT ![t] = g]
    /\ ran' = [ran EXCEPT ![t] = NoKernel]
    /\ UNCHANGED table

\* Some kernel is compiled.  Another graph with the same key may replace it,
\* but a key never loses its kernel.
Publish(g) ==
    /\ Outcome[g] = "kernel"
    /\ table' = [table EXCEPT ![HashOf[g]] = g]
    /\ UNCHANGED <<calling, graphOf, ran>>

Finish(t, r) ==
    /\ t \in calling
    /\ calling' = calling \ {t}
    /\ ran' = [ran EXCEPT ![t] = r]
    /\ UNCHANGED graphOf

\* The call runs the kernel it finds under its key ...
Answer(t) ==
    /\ table[HashOf[graphOf[t]]] # NoKernel
    /\ Finish(t, table[HashOf[graphOf[t]]])
    /\ UNCHANGED table

\* ... or the one it has just compiled itself ...
CompileAndAnswer(t) ==
    /\ Outcome[graphOf[t]] = "kernel"
    /\ Finish(t, graphOf[t])
    /\ table' = [table EXCEPT ![HashOf[graphOf[t]]] = graphOf[t]]

\* ... or panics, if its graph does not compile.
Refuse(t) ==
    /\ Outcome[graphOf[t]] # "kernel"
    /\ Finish(t, Panicked)
    /\ UNCHANGED table

ServiceNext ==
    \/ \E t \in Threads, g \in Graphs : Ask(t, g)
    \/ \E g \in Graphs : Publish(g)
    \/ \E t \in Threads : Answer(t) \/ CompileAndAnswer(t) \/ Refuse(t)

ServiceSpec == ServiceInit /\ [][ServiceNext]_serviceVars
=============================================================================
