----------------------------- MODULE MCKernelKey -----------------------------
(***************************************************************************)
(* The pool with real graphs for elements of Graphs: x[0:2] + y and        *)
(* x[2:4] + y, eight-bit integers, for x of four elements and y of two.    *)
(***************************************************************************)
EXTENDS KernelPool, KernelKey

Int8(id, n) == FromPacked(id, "Int8", 8, <<>>, n, <<n>>, 0, FALSE)
Slice(start, stop) ==
    SliceAndDice(Int8(1, 4), <<[start |-> start, stop |-> stop, step |-> 1]>>)

SliceGraphs == {BinaryGraph("Add", Slice(0, 2), Int8(2, 2)),
                BinaryGraph("Add", Slice(2, 4), Int8(2, 2))}
SliceHashes == {HashGraph(g) : g \in SliceGraphs}
SliceHashOf == [g \in SliceGraphs |-> HashGraph(g)]
SliceOutcome == [g \in SliceGraphs |-> "kernel"]

(***************************************************************************)
(* The kernel a call runs is the code its own graph compiles to: "sliced   *)
(* views of the same data compile separate kernels" (cache.rs:40).         *)
(***************************************************************************)
KernelFitsCall ==
    \A t \in Threads :
        result[t] \in Graphs => BakedIn(result[t]) = BakedIn(arg[t])

=============================================================================
