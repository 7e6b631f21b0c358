----------------------------- MODULE ViewChain -----------------------------
(***************************************************************************)
(* The views of one array: a program makes an array of packed elements and *)
(* then slices, transposes and reshapes what it has, in any order and as   *)
(* often as it likes.  Other libraries read and write the elements in place*)
(* (__array_interface__, which gives them the address as writable), and    *)
(* compiled kernels read them by the layout of the variable.               *)
(*                                                                         *)
(* What the bits are does not matter here: a buffer is the set of its bit  *)
(* positions.                                                              *)
(***************************************************************************)
EXTENDS TensorView, BitPack

CONSTANTS
    Widths,     \* how wide an element may be
    Shapes,     \* the shapes that arrays are made in and reshaped to
    Slices,     \* the ranges that arrays are sliced with
    Spare,      \* how many more elements may be mapped than the shape has
    MaxBits     \* a bound on strides and offsets: usize in the code

\* A step of zero panics, in the division that counts the elements.
Ranges == [start : Nat, stop : Nat, step : Nat \ {0}]

ASSUME ViewChainAssumption ==
    /\ Widths \subseteq Nat \ {0}
    /\ Shapes \subseteq Seq(Nat)
    /\ Slices \subseteq Seq(Ranges)
    /\ Spare \subseteq Nat

VARIABLES
    array,      \* the array at the end of the chain
    shown,      \* which of the values each of its elements should be
    stale       \* a reshape took the array for a list that it was not

vars == <<array, shown, stale>>

-----------------------------------------------------------------------------
\* The coordinates of the elements of a shape.
Box(shape) ==
    {c \in [DOMAIN shape -> UNION {0..(shape[d] - 1) : d \in DOMAIN shape}] :
        \A d \in DOMAIN shape : c[d] \in 0..(shape[d] - 1)}

Width(a) == a.expr.dtype.bits

\* The bytes that hold so many elements.
BufferOf(count, width) == 0..(CeilDiv(count * width, ByteBits) * ByteBits - 1)

\* from_values takes as many values as the shape has elements and from_mmap at
\* least as many: the Python classes ask for it.
Made(width, count, shape) ==
    FromPacked(1, [kind |-> "Int", bits |-> width], width,
               BufferOf(count, width), count, shape, 0, FALSE)

\* The elements of the array lie one behind the other.
IsList(a) ==
    \A k \in 0..(Product(a.shape) - 1) :
        ExportedAt(a, Coordinates(a.shape, k)) = a.expr.bit_offset + k * Width(a)

Init ==
    \E width \in Widths, shape \in Shapes, spare \in Spare :
        /\ array = Made(width, Product(shape) + spare, shape)
        /\ shown = [c \in Box(shape) |-> Position(shape, c)]
        /\ stale = FALSE

\* The elements of the array are those of the one before; of a stale one
\* nothing is said.
Shows(source(_)) ==
    shown' = [c \in Box(array'.shape) |-> IF stale' THEN 0 ELSE shown[source(c)]]

\* slice_and_dice; of more ranges than there are dimensions it panics.  Slices
\* of dimensions of one element multiply their strides, and those of arrays
\* without elements move their offsets, without end.
Chosen(ranges, c) ==
    [d \in DOMAIN c |-> IF d \in DOMAIN ranges
                        THEN ranges[d].start + c[d] * ranges[d].step ELSE c[d]]

Slice(ranges) ==
    /\ Len(ranges) <= Len(array.shape)
    /\ array' = SliceAndDice(array, ranges)
    /\ \A d \in DOMAIN array'.bit_strides : array'.bit_strides[d] <= MaxBits
    /\ array'.expr.bit_offset <= MaxBits
    /\ UNCHANGED stale
    /\ Shows(LAMBDA c : Chosen(ranges, c))

Turn ==
    /\ array' = Transpose(array)
    /\ UNCHANGED stale
    /\ Shows(LAMBDA c : Reverse(c))

\* Of another number of elements, reshape panics.
Reshaped(shape) ==
    /\ Product(shape) = Product(array.shape)
    /\ array' = Reshape(array, shape, Width(array))
    /\ stale' = (stale \/ ~IsList(array))
    /\ Shows(LAMBDA c : Coordinates(array.shape, Position(shape, c)))

Next ==
    \/ \E ranges \in Slices : Slice(ranges)
    \/ Turn
    \/ \E shape \in Shapes : Reshaped(shape)

Spec == Init /\ [][Next]_vars

-----------------------------------------------------------------------------
\* Shapes have a stride for each dimension (ir.rs, Expr::Variable; array.rs,
\* numel).  A variable has at least the elements of the array; its own shape
\* has all of them, or those of the array only: transpose keeps the size of
\* what was mapped and replaces the shape.
ViewTypeOK ==
    LET v == array.expr
    IN /\ array.shape \in Seq(Nat) /\ array.bit_strides \in [DOMAIN array.shape -> Nat]
       /\ v.shape \in Seq(Nat) /\ v.bit_strides \in [DOMAIN v.shape -> Nat]
       /\ v.bit_offset \in Nat /\ v.dtype.bits \in Nat \ {0}
       /\ v.size \in Nat /\ Product(array.shape) <= v.size
       /\ Product(v.shape) \in {v.size, Product(array.shape)}
       /\ shown \in [Box(array.shape) -> Nat] /\ stale \in BOOLEAN

BitsAt(a, c) == ExportedAt(a, c)..(ExportedAt(a, c) + Width(a) - 1)

(***************************************************************************)
(* Every element that an array shows to other libraries in place lies      *)
(* inside of its buffer (lib.rs, __array_interface__), whatever was sliced,*)
(* transposed and reshaped: also where a view that is no list was reshaped *)
(* and the elements shown are the wrong ones.                              *)
(***************************************************************************)
ElementsInside ==
    \A c \in Box(array.shape) : BitsAt(array, c) \subseteq array.expr.packed_data

(***************************************************************************)
(* No two elements of an array share a bit, so that what another library   *)
(* writes to one in place leaves the others alone.                         *)
(***************************************************************************)
ElementsApart ==
    \A b, c \in Box(array.shape) : b # c => BitsAt(array, b) \cap BitsAt(array, c) = {}

(***************************************************************************)
(* An array shows the values that its slices, transpositions and reshapes  *)
(* chose (lib.rs, slice_and_dice; array.rs, transpose and reshape), unless *)
(* a view was reshaped that is no list: reshape lays the new strides over  *)
(* the old buffer without asking.                                          *)
(***************************************************************************)
ElementsShown ==
    ~stale => \A c \in Box(array.shape) : ExportedAt(array, c) = shown[c] * Width(array)

\* emit_compute_bit_offset counts the rest of the index once for every
\* trailing dimension of size one.
TrailingOne(v) == Len(v.shape) > 1 /\ v.shape[Len(v.shape)] = 1

\* A file of which the shape shows nothing was turned around: the divisions
\* that count the coordinates of its elements have no dimension to count in.
NothingToCount(v) == Product(v.shape) = 0 /\ v.size > 0

Limbs == {0, 1}

(***************************************************************************)
(* A compiled kernel that reads the elements of the variable by its layout *)
(* (fuser.rs, emit_compute_bit_offset) touches no bit outside of the       *)
(* buffer, which it has as a raw pointer.  It counts to the variable's size*)
(* and so goes past the shape where more was mapped.                       *)
(***************************************************************************)
KernelInside ==
    LET v == array.expr
    IN ~TrailingOne(v) /\ ~NothingToCount(v) =>
         \A k \in 0..(v.size - 1), limb \in Limbs :
            Field(BitOffset(v, k), Width(array), limb) \subseteq v.packed_data

(***************************************************************************)
(* The element that a compiled kernel reads at an index is the one that    *)
(* the array should have there, row by row.                                *)
(***************************************************************************)
KernelReads ==
    LET v == array.expr
    IN ~TrailingOne(v) /\ ~stale =>
         \A k \in 0..(Product(array.shape) - 1) :
            BitOffset(v, k) = shown[Coordinates(array.shape, k)] * Width(array)

=============================================================================
