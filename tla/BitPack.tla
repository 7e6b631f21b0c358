------------------------------ MODULE BitPack ------------------------------
(***************************************************************************)
(* The packed buffers: elements of any width, one behind the other, least  *)
(* significant bit first.  A buffer is a function from bit positions to    *)
(* bits, as long as its bytes; a word is a number of WordBits bits, and an *)
(* element wider than a word takes several, its limbs.                     *)
(*                                                                         *)
(* A byte has eight bits and a word 64 in the code.  The definitions only  *)
(* depend on which widths the code treats as native: one, two, and four    *)
(* bytes, and a word.                                                      *)
(***************************************************************************)
EXTENDS Integers, Sequences

CONSTANTS ByteBits, WordBits

ASSUME BitPackAssumption ==
    /\ ByteBits \in Nat \ {0}
    /\ WordBits \in Nat \ {0} /\ WordBits % ByteBits = 0
    /\ 4 * ByteBits <= WordBits

\* 2^k for the bits of a word.
Pow2[k \in 0..WordBits] == IF k = 0 THEN 1 ELSE 2 * Pow2[k - 1]

Bit(v, k) == (v \div Pow2[k]) % 2

\* The number whose n bits are bit[0], bit[1], ...
Number(n, bit) ==
    LET sum[k \in 0..n] == IF k = 0 THEN 0 ELSE sum[k - 1] + bit[k - 1] * Pow2[k - 1]
    IN sum[n]

CeilDiv(a, b) == (a + b - 1) \div b

LimbsPerElement(width) == CeilDiv(width, WordBits)

NativeWidths == {ByteBits, 2 * ByteBits, 4 * ByteBits, WordBits}

\* Bit b of an element whose limbs begin behind the first k words of src.
LimbBit(src, k, b) == Bit(src[k + b \div WordBits + 1], b % WordBits)

\* pack_bits: the batches of 16, the tail and the byte-wise loops of the
\* native widths put every bit where the general loop does.
PackBits(src, width) ==
    LET k == LimbsPerElement(width)
        bits == (Len(src) \div k) * width
    IN [j \in 0..(CeilDiv(bits, ByteBits) * ByteBits - 1) |->
          IF j < bits THEN LimbBit(src, (j \div width) * k, j % width) ELSE 0]

\* unpack_bits: the limbs of count elements; a bit behind the buffer is 0.
UnpackBits(buf, count, width) ==
    LET k == LimbsPerElement(width)
    IN [n \in 1..(count * k) |->
          LET element == (n - 1) \div k
              low == ((n - 1) % k) * WordBits
              at(b) == element * width + low + b
          IN Number(WordBits, [b \in 0..(WordBits - 1) |->
                                  IF low + b < width /\ at(b) \in DOMAIN buf
                                  THEN buf[at(b)] ELSE 0])]

(***************************************************************************)
(* The load and store helpers that compiled kernels call for one limb of   *)
(* the element at a bit offset.  Field is the bits they touch: for a       *)
(* native width, and for whole words, the bytes from the one the offset is *)
(* in, and for a native width whatever the limb.                           *)
(***************************************************************************)
FieldStart(offset, width, limb) ==
    CASE width \in NativeWidths -> (offset \div ByteBits) * ByteBits
      [] width \notin NativeWidths /\ width % WordBits = 0 ->
           ((offset + limb * WordBits) \div ByteBits) * ByteBits
      [] OTHER -> offset + limb * WordBits

FieldWidth(width, limb) ==
    CASE width \in NativeWidths -> width
      [] width \notin NativeWidths /\ width - limb * WordBits < WordBits ->
           IF width > limb * WordBits THEN width - limb * WordBits ELSE 0
      [] OTHER -> WordBits

Field(offset, width, limb) ==
    FieldStart(offset, width, limb) ..
        (FieldStart(offset, width, limb) + FieldWidth(width, limb) - 1)

\* helper_load_u64.  What is read outside of the buffer is taken to be 0; the
\* kernel that does so is marked (PackedLoop!wild).
LoadWord(buf, offset, width, limb) ==
    LET start == FieldStart(offset, width, limb)
        bits == FieldWidth(width, limb)
    IN Number(bits, [b \in 0..(bits - 1) |->
                        IF start + b \in DOMAIN buf THEN buf[start + b] ELSE 0])

\* helper_store_u64
StoreWord(buf, offset, width, limb, val) ==
    [j \in DOMAIN buf |->
        IF j \in Field(offset, width, limb)
        THEN Bit(val, j - FieldStart(offset, width, limb)) ELSE buf[j]]

=============================================================================
