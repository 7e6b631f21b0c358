----------------------------- MODULE TensorView -----------------------------
(***************************************************************************)
(* Tensors and their views.  A tensor is a materialised variable (ir.rs,   *)
(* Expr::Variable) wrapped with a shape and strides (array.rs); a slice or *)
(* a transpose is a variable over the same packed buffer, under the same   *)
(* id, whose shape, bit_strides and bit_offset differ.                     *)
(***************************************************************************)
EXTENDS Integers, Sequences, SequencesExt, Functions

\* The sums of the first numbers of a sequence, and of all of them.
RunningTotal(s) ==
    LET total[d \in 0..Len(s)] == IF d = 0 THEN 0 ELSE total[d - 1] + s[d]
    IN total

Total(s) == RunningTotal(s)[Len(s)]

\* How many elements lie inside each dimension, and in all of them.
Inner(shape) ==
    LET n == Len(shape)
        inner[d \in 0..n] == IF d = n THEN 1 ELSE inner[d + 1] * shape[d + 1]
    IN inner

Product(shape) == Inner(shape)[0]

\* Slip: the dimension itself is counted, too.
RowMajorOuter(shape, bits) == [d \in DOMAIN shape |-> Inner(shape)[d - 1] * bits]

\* Slip: the loop leaves out the first dimension.
RowMajorButFirst(shape, bits) ==
    [d \in DOMAIN shape |-> IF d = 1 THEN bits ELSE Inner(shape)[d] * bits]

RowMajorBitStrides(shape, bits) == [d \in DOMAIN shape |-> Inner(shape)[d] * bits]

\* The element at a flat position, row by row, and the position of an element.
Coordinates(shape, k) == [d \in DOMAIN shape |-> (k \div Inner(shape)[d]) % shape[d]]

Position(shape, c) == Total([d \in DOMAIN shape |-> c[d] * Inner(shape)[d]])

\* The bit where the element at coordinates c begins.
Place(strides, offset, c) == offset + Total([d \in DOMAIN strides |-> c[d] * strides[d]])

Array(expr, shape, strides) ==
    [expr |-> expr, shape |-> shape, bit_strides |-> strides]

\* Expr::new_var of elements packed one behind the other.
NewVar(id, dtype, bits, data, shape, scale, steal) ==
    [op |-> "Var", id |-> id, dtype |-> dtype, size |-> Product(shape),
     packed_data |-> data, shape |-> shape,
     bit_strides |-> RowMajorBitStrides(shape, bits), bit_offset |-> 0,
     scale |-> scale, steal_sign |-> steal]

\* from_values and from_mmap: the variable is a list of so many elements,
\* whatever the shape the array around it is given; nothing compares the two.
FromPacked(id, dtype, bits, data, count, shape, scale, steal) ==
    Array(NewVar(id, dtype, bits, data, <<count>>, scale, steal),
          shape, RowMajorBitStrides(shape, bits))

\* One dimension of a slice: how many of its d elements start:stop:step keeps.
Least(a, b) == IF a < b THEN a ELSE b

\* Slip: the subtraction does not stop at zero.
SpanSigned(r, d) == Least(r.stop, d) - r.start

Span(r, d) == LET s == Least(r.stop, d) - r.start IN IF s > 0 THEN s ELSE 0
Extent(r, d) == (Span(r, d) + r.step - 1) \div r.step

\* slice_and_dice: the leading dimensions are sliced, the others kept.  An
\* empty slice moves neither the stride nor the offset.
SliceAndDice(a, ranges) ==
    LET sliced(i) == i \in DOMAIN ranges
        nonempty(i) == sliced(i) /\ Span(ranges[i], a.shape[i]) > 0
        shape == [i \in DOMAIN a.shape |->
                    IF sliced(i) THEN Extent(ranges[i], a.shape[i]) ELSE a.shape[i]]
        strides == [i \in DOMAIN a.shape |->
                      IF nonempty(i) THEN a.bit_strides[i] * ranges[i].step
                                     ELSE a.bit_strides[i]]
        moved == [i \in DOMAIN a.shape |->
                    IF nonempty(i) THEN ranges[i].start * a.bit_strides[i] ELSE 0]
    IN Array([a.expr EXCEPT !.size = Product(shape), !.shape = shape,
                            !.bit_strides = strides, !.bit_offset = @ + Total(moved)],
             shape, strides)

\* Slip: the strides stay as they are.
TransposeShape(a) ==
    LET shape == Reverse(a.shape)
    IN Array([a.expr EXCEPT !.shape = shape], shape, a.bit_strides)

Transpose(a) ==
    LET shape == Reverse(a.shape)
        strides == Reverse(a.bit_strides)
    IN Array([a.expr EXCEPT !.shape = shape, !.bit_strides = strides],
             shape, strides)

\* reshape: another shape around the same variable.
Reshape(a, shape, bits) == Array(a.expr, shape, RowMajorBitStrides(shape, bits))

\* Slip: the array starts where its buffer does.
ExportedFromStart(a, c) == Place(a.bit_strides, 0, c)

\* __array_interface__: other libraries are told where the array's elements
\* are by its own strides and the offset of its variable.
ExportedAt(a, c) == Place(a.bit_strides, a.expr.bit_offset, c)

\* Slip: every dimension takes its coordinate from the whole index.
BitOffsetOfWhole(view, index) ==
    Place(view.bit_strides, view.bit_offset,
          [d \in 1..Len(view.shape) |-> index \div Inner(view.shape)[d]])

\* Slip: the base offset is left out.
BitOffsetFromStart(view, index) ==
    Place(view.bit_strides, 0, Coordinates(view.shape, index))

\* emit_compute_bit_offset: the dimensions from the first to the last, each
\* taking its coordinate from what is left of the index.  Where at most one
\* element lies inside a dimension, all of the rest is its coordinate; the
\* divisions that count them make nothing of nothing.
BitOffset(view, index) ==
    LET n == Len(view.shape)
        inner == IF Product(view.shape) = 0 THEN [d \in 0..n |-> 0] ELSE Inner(view.shape)
        rest[d \in 0..n] ==
            IF d = 0 THEN index
            ELSE IF inner[d] > 1 THEN rest[d - 1] % inner[d] ELSE rest[d - 1]
        coordinate == [d \in 1..n |-> IF inner[d] > 1 THEN rest[d - 1] \div inner[d]
                                                     ELSE rest[d - 1]]
    IN Place(view.bit_strides, view.bit_offset, coordinate)

=============================================================================
