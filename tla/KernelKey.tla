----------------------------- MODULE KernelKey -----------------------------
(***************************************************************************)
(* The key under which a kernel is cached, and what the kernel depends on. *)
(*                                                                         *)
(* A graph is an arena (graph.rs): nodes in post-order, children named by  *)
(* index, the root last.  hash_graph (cache.rs) feeds a blake3 hasher;     *)
(* blake3 is taken to be collision free, so the key is the sequence fed.   *)
(***************************************************************************)
EXTENDS TensorView

\* ArenaGraph::from_expr of "x op y" for two materialised arrays: what array
\* arithmetic builds, align_broadcast having executed any other operand.
BinaryGraph(op, x, y) ==
    [nodes |-> <<x.expr, y.expr, [op |-> op, left |-> 1, right |-> 2]>>,
     root |-> 3]

\* hash_node.  A variable contributes its id, type, size, shape and strides,
\* a constant its value alone, a matmul its operands alone.
HashNode(nodes) ==
    LET hash[i \in DOMAIN nodes] ==
            LET n == nodes[i] IN
            CASE n.op = "Var" ->
                   <<"Var", n.id, n.dtype, n.size>> \o n.shape \o n.bit_strides
              [] n.op = "Const" -> <<"Const", n.val>>
              [] OTHER -> <<n.op>> \o hash[n.left] \o hash[n.right]
    IN hash

HashGraph(g) == HashNode(g.nodes)[g.root]

(***************************************************************************)
(* compile_packed_kernel, on the Cranelift path every integer graph takes, *)
(* bakes constants into the code it emits: the type, scale and             *)
(* sign-stealing of every variable, and the layout of its last view in the *)
(* graph (the layout tables are keyed by variable id).                     *)
(***************************************************************************)
LastView(nodes, id) ==
    nodes[CHOOSE i \in DOMAIN nodes :
            /\ nodes[i].op = "Var" /\ nodes[i].id = id
            /\ \A j \in DOMAIN nodes :
                 (nodes[j].op = "Var" /\ nodes[j].id = id) => j <= i]

BakedIn(g) ==
    [i \in DOMAIN g.nodes |->
        LET n == g.nodes[i] IN
        IF n.op # "Var" THEN n
        ELSE LET v == LastView(g.nodes, n.id) IN
             [op |-> "Var", id |-> n.id, dtype |-> n.dtype, scale |-> n.scale,
              steal_sign |-> n.steal_sign, shape |-> v.shape,
              bit_strides |-> v.bit_strides, bit_offset |-> v.bit_offset]]

=============================================================================
