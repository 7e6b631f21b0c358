----------------------------- MODULE PackedLoop -----------------------------
(***************************************************************************)
(* The kernels that Cranelift compiles (fuser.rs): a loop over the         *)
(* elements, unrolled by eight, that decodes each operand from its packed  *)
(* buffer, computes, and packs the result.  What the compiler bakes into   *)
(* the code is computed from the graph here.                               *)
(*                                                                         *)
(* A graph of integers computes on words, or on two limbs when the result  *)
(* is wider than a word, any other on doubles.                             *)
(***************************************************************************)
EXTENDS TensorOps

\* A ScalableInt result is widened to a word of Int.
TargetType(e) ==
    IF DataType(e).kind = "ScalableInt"
    THEN [kind |-> "Int", bits |-> WordBits, exp |-> 0] ELSE DataType(e)

FloatMode(target) == IsFloat(target)
Wide(target) == ~FloatMode(target) /\ BitWidth(target) > WordBits

\* The inputs in the order of their slots: one for each id, as it first occurs.
RECURSIVE InputSlots(_)
InputSlots(nodes) ==
    IF nodes = <<>> THEN <<>>
    ELSE LET before == InputSlots(Front(nodes))
             n == Last(nodes)
         IN IF n.op = "Var" /\ \A k \in DOMAIN before : before[k].id # n.id
            THEN Append(before, n) ELSE before

SlotOf(nodes, id) ==
    CHOOSE k \in DOMAIN InputSlots(nodes) : InputSlots(nodes)[k].id = id

\* The operand buffer that a variable reads: the pointer at its slot.
Buffer(nodes, v) == InputSlots(nodes)[SlotOf(nodes, v.id)].packed_data

Load(nodes, v, index, limb) ==
    LoadWord(Buffer(nodes, v), BitOffset(LastView(nodes, v.id), index),
             BitWidth(LastView(nodes, v.id).dtype), limb)

\* helper_decode_to_f64 of one or two limbs, as wide as the last view says.
Decoded(nodes, v, index) ==
    LET bits == BitWidth(LastView(nodes, v.id).dtype)
    IN ToDouble([k \in 1..LimbsPerElement(bits) |-> Load(nodes, v, index, k - 1)],
                [v.dtype EXCEPT !.bits = bits], ScaleOr(v.scale, 0), v.steal_sign)

FloatOp(op, l, r) ==
    CASE op = "Add" -> Plus(l, r)
      [] op = "Sub" -> Minus(l, r)
      [] op = "Mul" -> Times(l, r)
      [] op = "Div" -> Over(l, r)

\* Division of words truncates.
Quotient(l, r) == IF r = 0 THEN 0 ELSE Truncate(Over(Whole(l), Whole(r)))

WordOp(op, l, r) ==
    SignExtend(CASE op = "Add" -> l + r
                 [] op = "Sub" -> l - r
                 [] op = "Mul" -> l * r
                 [] op = "Div" -> Quotient(l, r), WordBits)

\* helper_add_i128 and its siblings, on the unsigned number of both limbs.
\* The product is put together so that no step exceeds two limbs.
Base == 2^WordBits
WideTimes(l, r) ==
    LET low == (l % Base) * (r % Base)
        cross == ((l % Base) * (r \div Base) + (l \div Base) * (r % Base)) % Base
    IN (low + cross * Base) % (Base * Base)

WideOp(op, l, r) ==
    CASE op = "Add" -> (l + r) % (Base * Base)
      [] op = "Sub" -> (l - r) % (Base * Base)
      [] op = "Mul" -> WideTimes(l, r)
      [] op = "Div" -> IF r = 0 THEN 0 ELSE l \div r

Apply(target, op, l, r) ==
    IF FloatMode(target) THEN FloatOp(op, l, r)
    ELSE IF Wide(target) THEN WideOp(op, l, r) ELSE WordOp(op, l, r)

\* What an operand is loaded as.  The words of a narrow one are extended to
\* their sign, the two limbs of a wide computation are taken as they are.
Operand(nodes, target, v, index) ==
    CASE FloatMode(target) -> Decoded(nodes, v, index)
      [] Wide(target) ->
           Load(nodes, v, index, 0) + Base * Load(nodes, v, index, 1)
      [] OTHER ->
           SignExtend(Load(nodes, v, index, 0), Least(BitWidth(v.dtype), WordBits))

Constant(target, c) ==
    CASE FloatMode(target) -> c.val
      [] Wide(target) -> Truncate(c.val) % (Base * Base)
      [] OTHER -> SignExtend(Truncate(c.val), WordBits)

\* compile_arena_op: the value of every node for the element at index.
EvalNodes(nodes, target, index) ==
    LET eval[k \in DOMAIN nodes] ==
            LET n == nodes[k] IN
            CASE n.op = "Var" -> Operand(nodes, target, n, index)
              [] n.op = "Const" -> Constant(target, n)
              [] n.op \in BinOps -> Apply(target, n.op, eval[n.left], eval[n.right])
    IN eval

\* The division instruction of words traps on 0 and on an overflow.
Traps(nodes, target, index) ==
    LET eval == EvalNodes(nodes, target, index)
        traps(l, r) == r = 0 \/ (r = -1 /\ l = -(Base \div 2))
    IN /\ ~FloatMode(target) /\ ~Wide(target)
       /\ \E k \in DOMAIN nodes : /\ nodes[k].op = "Div"
                                  /\ traps(eval[nodes[k].left], eval[nodes[k].right])

\* store_result of the element at index.
StoreResult(buf, target, scale, steal, index, value) ==
    LET bits == BitWidth(target)
        word == CASE FloatMode(target) -> ToLimbs(target, scale, value, steal)[1]
                  [] OTHER -> value % Base
        store(b, limb, w) == StoreWord(b, index * bits, bits, limb, w)
    IN IF Wide(target) THEN store(store(buf, 0, word), 1, value \div Base)
       ELSE store(buf, 0, word)

\* The bits of the buffers that the element at index touches.
Limbs(target, v) ==
    IF Wide(target) \/ (FloatMode(target) /\ BitWidth(v.dtype) > WordBits)
    THEN {0, 1} ELSE {0}

Touches(nodes, target, v, index) ==
    LET view == LastView(nodes, v.id)
    IN UNION {Field(BitOffset(view, index), BitWidth(view.dtype), limb)
                : limb \in Limbs(target, v)}

Outside(nodes, target, index, out) ==
    \/ \E k \in DOMAIN nodes :
          /\ nodes[k].op = "Var"
          /\ ~(Touches(nodes, target, nodes[k], index)
                 \subseteq DOMAIN Buffer(nodes, nodes[k]))
    \/ LET bits == BitWidth(target)
           limbs == IF Wide(target) THEN {0, 1} ELSE {0}
       IN ~(UNION {Field(index * bits, bits, limb) : limb \in limbs}
              \subseteq DOMAIN out)

-----------------------------------------------------------------------------
VARIABLES
    graph,      \* the nodes of the graph, root last; <<>> between two calls
    target,     \* the type of the result
    scale,      \* and its scale
    steal,      \* and its sign flag
    count,      \* how many elements the caller asks for
    idx,        \* the loop's index
    lane,       \* which of the eight copies of the body is next
    out,        \* the output buffer
    wild,       \* an access went outside of its buffer
    trapped     \* a division trapped, which ends the process

loopVars == <<graph, target, scale, steal, count, idx, lane, out, wild, trapped>>

Unroll == 8

\* Slip: the last byte of the output is only counted when it is full.
OutputBufferCut(size, bits) ==
    [b \in 0..(((size * bits) \div ByteBits) * ByteBits - 1) |-> 0]

\* execute_expr_on_device: the output buffer, whole bytes of zeros.
OutputBuffer(size, bits) ==
    [b \in 0..(CeilDiv(size * bits, ByteBits) * ByteBits - 1) |-> 0]

StartCall(e) ==
    /\ graph' = FromExpr(e)
    /\ target' = TargetType(e)
    /\ scale' = GetScale(e)
    /\ steal' = StealSign(e)
    /\ count' = Size(e)
    /\ idx' = 0 /\ lane' = 0
    /\ out' = OutputBuffer(Size(e), BitWidth(TargetType(e)))
    /\ wild' = FALSE /\ trapped' = FALSE

\* One copy of the loop's body.
Element(index) ==
    /\ trapped' = Traps(graph, target, index)
    /\ out' = IF trapped' THEN out
              ELSE StoreResult(out, target, ScaleOr(scale, 0), steal, index,
                               EvalNodes(graph, target, index)[Len(graph)])
    /\ wild' = (wild \/ Outside(graph, target, index, out))
    /\ UNCHANGED <<graph, target, scale, steal, count>>

\* Slip: the unrolled body runs while seven elements are left.
EightLeftOrSeven == idx + Unroll - 1 <= count

EightLeft == idx + Unroll <= count

UnrolledBody ==
    /\ lane > 0 \/ EightLeft
    /\ Element(idx + lane)
    /\ lane' = (lane + 1) % Unroll
    /\ idx' = IF lane + 1 = Unroll THEN idx + Unroll ELSE idx

CleanupBody ==
    /\ lane = 0 /\ ~EightLeft /\ idx < count
    /\ Element(idx)
    /\ idx' = idx + 1
    /\ UNCHANGED lane

LoopDone == lane = 0 /\ idx >= count

=============================================================================
