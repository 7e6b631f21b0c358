----------------------------- MODULE TensorOps -----------------------------
(***************************************************************************)
(* What the tensor API does before a kernel runs (lib.rs, array.rs), and   *)
(* the expressions it builds (ir.rs, graph.rs).                            *)
(*                                                                         *)
(* An expression is a variable (TensorView!NewVar), a constant or an       *)
(* operation with left and right.  4 * ByteBits and WordBits are the       *)
(* widths the code knows as 32 and 64.                                     *)
(***************************************************************************)
EXTENDS KernelKey, Codec

Float32 == [kind |-> "Float", bits |-> 4 * ByteBits, exp |-> 0]
DynamicFloat == [kind |-> "DynamicFloat", bits |-> WordBits, exp |-> 0]

\* A constant takes part in everything as a scalar without scale or sign flag.
NewConst(p, dtype) == [op |-> "Const", val |-> p, dtype |-> dtype, size |-> 1,
                       scale |-> NoScale, steal_sign |-> FALSE]

BinOps == {"Add", "Sub", "Mul", "Div"}
Binary(op, l, r) == [op |-> op, left |-> l, right |-> r]

\* The leaf that an expression takes its type and its sign flag from.
RECURSIVE Leftmost(_)
Leftmost(e) == IF e.op \in BinOps THEN Leftmost(e.left) ELSE e

DataType(e) == Leftmost(e).dtype

StealSign(e) == Leftmost(e).steal_sign

RECURSIVE Size(_)
Size(e) ==
    IF e.op \notin BinOps THEN e.size
    ELSE IF Size(e.left) > Size(e.right) THEN Size(e.left) ELSE Size(e.right)

RECURSIVE GetScale(_)
GetScale(e) == IF e.op \notin BinOps THEN e.scale
               ELSE ScaleOr(GetScale(e.left), GetScale(e.right))

ProductRule(l, dl, r, dr) == Binary("Add", Binary("Mul", dl, r), Binary("Mul", l, dr))

QuotientRule(l, dl, r, dr) ==
    Binary("Div", Binary("Sub", Binary("Mul", dl, r), Binary("Mul", l, dr)),
                  Binary("Mul", r, r))

\* Expr::grad: the derivative, as an expression, unsimplified.
RECURSIVE GradOf(_, _)
GradOf(e, id) ==
    CASE e.op = "Var" -> NewConst(Whole(IF e.id = id THEN 1 ELSE 0), Float32)
      [] e.op = "Const" -> NewConst(Whole(0), Float32)
      [] e.op \in {"Add", "Sub"} ->
           Binary(e.op, GradOf(e.left, id), GradOf(e.right, id))
      [] e.op = "Mul" ->
           ProductRule(e.left, GradOf(e.left, id), e.right, GradOf(e.right, id))
      [] e.op = "Div" ->
           QuotientRule(e.left, GradOf(e.left, id), e.right, GradOf(e.right, id))

\* ArenaGraph::from_expr: the nodes in post-order, the root last.
RECURSIVE FromExpr(_)
FromExpr(e) ==
    IF e.op \notin BinOps THEN <<e>>
    ELSE LET l == FromExpr(e.left)
             r == FromExpr(e.right)
             moved == [k \in DOMAIN r |->
                         IF r[k].op \notin BinOps THEN r[k]
                         ELSE Binary(r[k].op, r[k].left + Len(l), r[k].right + Len(l))]
         IN l \o moved \o <<Binary(e.op, Len(l), Len(l) + Len(r))>>

-----------------------------------------------------------------------------
Packed(dtype, scale, values, steal) ==
    PackBits(FlattenSeq([k \in DOMAIN values |->
                           ToLimbs(dtype, scale, values[k], steal)]),
             BitWidth(dtype))

NonNegative(values) == \A k \in DOMAIN values : Leq(Whole(0), values[k])

\* should_steal_sign
ShouldSteal(dtype, values) == IsFloat(dtype) /\ NonNegative(values)

\* The type of the array: a scalable one is as wide as its values need.
Adapt(kind, bits, values) ==
    LET steal == NonNegative(values)
        configs == {ScalableFloatConfig(values[k], steal) : k \in DOMAIN values}
        e == Max({4} \cup {c.exp : c \in configs})
        b == Max({8, e + (IF steal THEN 1 ELSE 2)} \cup {c.bits : c \in configs})
        widths == {ScalableIntBits(Round(values[k])) : k \in DOMAIN values}
    IN CASE kind = "ScalableInt" ->
              [kind |-> kind, bits |-> Max({2} \cup widths), exp |-> 0]
         [] kind = "ScalableFloat" ->
              [kind |-> kind, bits |-> Least(b, WordBits), exp |-> e]
         [] OTHER -> [kind |-> kind, bits |-> bits, exp |-> 0]

\* PyTensor::from_values
FromValues(id, values, shape, kind, bits, scale) ==
    LET dtype == Adapt(kind, bits, values)
        steal == ShouldSteal(dtype, values)
    IN FromPacked(id, dtype, BitWidth(dtype), Packed(dtype, scale, values, steal),
                  Len(values), shape, scale, steal)

\* PyExpr::new_var: the same variable without an array around it.
ExprVar(id, values, kind, bits, scale) ==
    FromValues(id, values, <<Len(values)>>, kind, bits, scale).expr

\* nt_expr_new_var: likewise, and there always is a scale.
CExprVar(id, values, kind, bits, scale) ==
    ExprVar(id, values, kind, bits, ScaleOr(scale, 0))

\* PyTensor::from_mmap: the bytes of a file as they are, however many.  A
\* scalable float is taken to have four exponent bits, and a sign.
FileType(kind, bits) ==
    [kind |-> kind, bits |-> bits, exp |-> IF kind = "ScalableFloat" THEN 4 ELSE 0]

FromMmap(id, bytes, count, shape, kind, bits, scale) ==
    LET dtype == FileType(kind, bits)
    IN FromPacked(id, dtype, BitWidth(dtype), bytes, count, shape, scale, FALSE)

\* PyExpr::new_const
ConstExpr(p) == NewConst(p, DynamicFloat)

-----------------------------------------------------------------------------
IsVar(a) == a.expr.op = "Var"

\* NumToyArray::element_bits
ElementBits(a) == BitWidth(DataType(a.expr))

\* to_flat_f64 unpacks the buffer of the variable from its start, whatever
\* its offset and its strides.
ToFlat(a) ==
    LET v == a.expr
        k == LimbsPerElement(BitWidth(v.dtype))
        raw == UnpackBits(v.packed_data, v.size, BitWidth(v.dtype))
    IN [n \in 1..v.size |->
          ToDouble(SubSeq(raw, (n - 1) * k + 1, n * k), v.dtype, v.scale, v.steal_sign)]

\* The dimensions of a and b from the last one backwards, one padding the
\* shorter of the two.
Padded(shape, rank) == [d \in 1..rank |->
                          IF d > rank - Len(shape) THEN shape[d - (rank - Len(shape))]
                                                   ELSE 1]
Rank(a, b) == IF Len(a) > Len(b) THEN Len(a) ELSE Len(b)

Compatible(a, b) ==
    LET r == Rank(a, b)
    IN \A d \in 1..r : \/ Padded(a, r)[d] = Padded(b, r)[d]
                       \/ 1 \in {Padded(a, r)[d], Padded(b, r)[d]}

\* broadcast_shape, of compatible shapes: it panics on others.
BroadcastShape(a, b) ==
    LET r == Rank(a, b)
    IN [d \in 1..r |-> IF Padded(a, r)[d] = 1 THEN Padded(b, r)[d] ELSE Padded(a, r)[d]]

\* The element at a flat position of the target comes from this flat position
\* of the source, where a dimension of size one has stride 0.
SourceStrides(source) ==
    LET strides == RowMajorBitStrides(source, 1)
    IN [d \in DOMAIN source |-> IF source[d] = 1 THEN 0 ELSE strides[d]]

SourceIndex(from, to, flat) ==
    LET strides == SourceStrides(Padded(from, Len(to)))
        coordinate(d) == (flat \div RowMajorBitStrides(to, 1)[d]) % to[d]
    IN Total([d \in DOMAIN to |-> coordinate(d) * strides[d]])

\* broadcast_to another shape: the values are decoded, spread and packed
\* again, under a fresh id.
BroadcastTo(a, shape, id) ==
    LET flat == ToFlat(a)
        last == Len(flat)
        values == [n \in 1..Product(shape) |->
                     flat[Least(SourceIndex(a.shape, shape, n - 1) + 1, last)]]
        dtype == DataType(a.expr)
        scale == GetScale(a.expr)
        steal == ShouldSteal(dtype, values)
        bits == BitWidth(dtype)
    IN Array(NewVar(id, dtype, bits, Packed(dtype, scale, values, steal), shape,
                    scale, steal),
             shape, RowMajorBitStrides(shape, bits))

\* What broadcast_to asserts of the shapes.
Spreadable(from, to) ==
    /\ Len(from) <= Len(to)
    /\ \A d \in DOMAIN to : Padded(from, Len(to))[d] \in {1, to[d]}

\* add, sub, mul and div of two aligned arrays.
Combined(op, a, b) ==
    Array(Binary(op, a.expr, b.expr), a.shape,
          RowMajorBitStrides(a.shape, ElementBits(a)))

(***************************************************************************)
(* __array_interface__: an array of a native type, on byte boundaries, is  *)
(* shown to other libraries in place, with the strides of the array and    *)
(* the offset of its variable.  The bits of its element at coordinates c.  *)
(***************************************************************************)
Exportable(a) ==
    LET whole(bits) == bits % ByteBits = 0
    IN /\ IsVar(a) /\ ~a.expr.steal_sign
       /\ \/ a.expr.dtype.kind = "Float" /\ a.expr.dtype.bits \in {4 * ByteBits, WordBits}
          \/ a.expr.dtype.kind = "Int" /\ a.expr.dtype.bits \in NativeWidths
       /\ whole(a.expr.bit_offset)
       /\ \A d \in DOMAIN a.bit_strides : whole(a.bit_strides[d])

=============================================================================
