---------------------------- MODULE MCKernelPool ----------------------------
(***************************************************************************)
(* Model-checking instances of KernelPool on opaque graphs.  g1 and g2     *)
(* have keys of their own; in some runs g2 makes the compiler panic, as a  *)
(* dequantize_matmul of an expression that is not materialised does.       *)
(***************************************************************************)
EXTENDS KernelPool, TLC

CONSTANTS g1, g2, h1, h2

OwnHash == [g \in {g1, g2} |-> IF g = g1 THEN h1 ELSE h2]
AllCompile == [g \in {g1, g2} |-> "kernel"]
G2Panics == [g \in {g1, g2} |-> IF g = g1 THEN "kernel" ELSE "panic"]

ThreadSymmetry == Permutations(Threads)

=============================================================================
