------------------------------- MODULE Codec -------------------------------
(***************************************************************************)
(* The element types (types.rs) and the words their values are packed as.  *)
(*                                                                         *)
(* A double is a fraction <<n, d>> in lowest terms; d = 0 is an infinity,  *)
(* or NaN when n = 0 too.  Arithmetic on fractions is exact where that on  *)
(* doubles rounds to 53 bits; the packed types of the instances keep far   *)
(* fewer.  A type is a record: its kind, its width, and exp, the exponent  *)
(* bits of a ScalableFloat.                                                *)
(***************************************************************************)
EXTENDS BitPack

Abs(n) == IF n < 0 THEN -n ELSE n

RECURSIVE Gcd(_, _)
Gcd(a, b) == IF b = 0 THEN a ELSE Gcd(b, a % b)

Fraction(n, d) ==
    LET g == Gcd(Abs(n), Abs(d))
        s == IF d < 0 THEN -1 ELSE 1
    IN IF g = 0 THEN <<0, 0>> ELSE <<s * (n \div g), s * (d \div g)>>

Whole(n) == <<n, 1>>
Inf == <<1, 0>>
Plus(p, q) == IF p[2] = 0 /\ p = q THEN p
              ELSE Fraction(p[1] * q[2] + q[1] * p[2], p[2] * q[2])
Negated(p) == <<-p[1], p[2]>>
Minus(p, q) == Plus(p, Negated(q))
Times(p, q) == Fraction(p[1] * q[1], p[2] * q[2])
Over(p, q) == Fraction(p[1] * q[2], p[2] * q[1])
Leq(p, q) == p[1] * q[2] <= q[1] * p[2]
Power2(e) == IF e >= 0 THEN <<2^e, 1>> ELSE <<1, 2^(-e)>>

\* f64::round: to the nearest integer, halves away from zero.
Round(p) ==
    LET r == (2 * Abs(p[1]) + p[2]) \div (2 * p[2])
    IN IF p[1] < 0 THEN -r ELSE r

Truncate(p) ==
    LET t == Abs(p[1]) \div p[2] IN IF p[1] < 0 THEN -t ELSE t

-----------------------------------------------------------------------------
\* DataType::bit_width
BitWidth(dtype) ==
    IF dtype.kind \in {"FloatingInt", "DynamicFloat"} THEN WordBits ELSE dtype.bits

IsFloat(dtype) == dtype.kind \in {"Float", "ScalableFloat", "DynamicFloat"}

ExponentBits(dtype) ==
    IF dtype.kind = "ScalableFloat" THEN dtype.exp
    ELSE LET bits == BitWidth(dtype)
         IN IF bits <= 16 THEN 5 ELSE IF bits <= 32 THEN 8 ELSE 11

\* scale_float: the e with 2^e <= p < 2^(e + 1).
MaxExponent == 14
Exponent(p) ==
    CHOOSE e \in -MaxExponent..MaxExponent :
        Leq(Power2(e), p) /\ ~Leq(Power2(e + 1), p)

Mantissa(p) == Over(p, Power2(Exponent(p)))

MantissaBits(bits, e, steal) == IF steal THEN bits - e ELSE bits - e - 1

Bias(e) == 2^(e - 1) - 1

\* encode_custom_float_with_e.  The mantissa is rounded, and cut off where
\* rounding would carry into the exponent; what is too small becomes 0.
EncodeFloat(p, bits, e, steal) ==
    LET m == MantissaBits(bits, e, steal)
        sign == IF ~steal /\ p[1] < 0 THEN 2^(bits - 1) ELSE 0
        magnitude == <<Abs(p[1]), p[2]>>
        exponent == IF p[2] = 0 THEN 2^e - 1 ELSE Exponent(magnitude) + Bias(e)
        fraction == Minus(Mantissa(magnitude), Whole(1))
        rounded == Round(Times(fraction, Whole(2^m)))
        mantissa == IF rounded < 2^m THEN rounded ELSE 2^m - 1
    IN CASE p[1] = 0 /\ p[2] # 0 -> 0
         [] p[2] = 0 \/ (p[1] # 0 /\ exponent >= 2^e - 1) -> sign + (2^e - 1) * 2^m
         [] p[1] # 0 /\ p[2] # 0 /\ exponent <= 0 -> 0
         [] OTHER -> sign + exponent * 2^m + mantissa

\* decode_custom_float_with_e
DecodeFloat(w, bits, e, steal) ==
    LET m == MantissaBits(bits, e, steal)
        exponent == (w \div 2^m) % 2^e
        mantissa == Plus(Whole(1), Fraction(w % 2^m, 2^m))
        magnitude == IF exponent = 2^e - 1 THEN Inf
                     ELSE Times(mantissa, Power2(exponent - Bias(e)))
        negative == ~steal /\ Bit(w, bits - 1) = 1
    IN CASE w = 0 -> Whole(0)
         [] w # 0 /\ negative -> Negated(magnitude)
         [] OTHER -> magnitude

\* Two's complement over several limbs, carry by carry: the loop that
\* encode_custom_int_limbs and decode_custom_int_limbs_to_double share.
NegateLimbs(limbs) ==
    LET flipped(i) == 2^WordBits - 1 - limbs[i]
        carry[i \in 0..Len(limbs)] ==
            IF i = 0 THEN 1 ELSE (flipped(i) + carry[i - 1]) \div 2^WordBits
    IN [i \in 1..Len(limbs) |-> (flipped(i) + carry[i - 1]) % 2^WordBits]

MaskTop(limbs, bits) ==
    IF bits % WordBits = 0 THEN limbs
    ELSE [limbs EXCEPT ![Len(limbs)] = @ % 2^(bits % WordBits)]

\* encode_custom_int_limbs
EncodeInt(v, bits) ==
    LET lowOnly == [i \in 1..LimbsPerElement(bits) |-> IF i = 1 THEN Abs(v) ELSE 0]
    IN MaskTop(IF v >= 0 THEN lowOnly ELSE NegateLimbs(lowOnly), bits)

NegativeLimbs(limbs, bits) ==
    Bit(limbs[(bits - 1) \div WordBits + 1], (bits - 1) % WordBits) = 1

LimbsToNumber(limbs) ==
    LET sum[i \in 0..Len(limbs)] ==
            IF i = 0 THEN 0 ELSE sum[i - 1] + limbs[i] * 2^(WordBits * (i - 1))
    IN sum[Len(limbs)]

\* decode_custom_int_limbs_to_double
DecodeInt(limbs, bits) ==
    IF ~NegativeLimbs(limbs, bits) THEN LimbsToNumber(limbs)
    ELSE -LimbsToNumber(MaskTop(NegateLimbs(limbs), bits))

\* Slip: the low bits are taken for the value.
ZeroExtend(w, bits) == w % 2^bits

\* The signed value of the low bits of a word.
SignExtend(w, bits) ==
    LET low == w % 2^bits
    IN IF Bit(low, bits - 1) = 1 THEN low - 2^bits ELSE low

\* A variable may have no scale: scale.unwrap_or(default).
NoScale == -1
ScaleOr(scale, default) == IF scale = NoScale THEN default ELSE scale

\* Scalar::to_limbs of the scalar that from_values makes of the double p.
ToLimbs(dtype, scale, p, steal) ==
    CASE IsFloat(dtype) ->
           <<EncodeFloat(p, BitWidth(dtype), ExponentBits(dtype), steal)>>
      [] dtype.kind = "FloatingInt" ->
           <<Round(Times(p, Whole(10^ScaleOr(scale, 1)))) % 2^WordBits>>
      [] ~IsFloat(dtype) /\ BitWidth(dtype) <= WordBits /\ dtype.kind # "FloatingInt" ->
           <<Round(p) % 2^WordBits>>
      [] OTHER -> EncodeInt(Round(p), dtype.bits)

\* Scalar::from_limbs, then to_double.
ToDouble(limbs, dtype, scale, steal) ==
    CASE IsFloat(dtype) ->
           DecodeFloat(limbs[1], BitWidth(dtype), ExponentBits(dtype), steal)
      [] dtype.kind = "FloatingInt" ->
           Fraction(SignExtend(limbs[1], WordBits), 10^ScaleOr(scale, 1))
      [] ~IsFloat(dtype) /\ BitWidth(dtype) <= WordBits /\ dtype.kind # "FloatingInt" ->
           Whole(SignExtend(limbs[1], dtype.bits))
      [] OTHER -> Whole(DecodeInt(limbs, dtype.bits))

-----------------------------------------------------------------------------
\* compute_scalable_int_bits: the magnitude's bits and a sign.
ScalableIntBits(v) ==
    IF v = 0 THEN 2 ELSE Exponent(Whole(Abs(v))) + 2

\* compute_scalable_float_config: width and exponent bits for one value.
ScalableFloatConfig(p, steal) ==
    LET x == Exponent(<<Abs(p[1]), p[2]>>)
        fits(e) == 1 - Bias(e) <= x /\ x <= 2^e - 2 - Bias(e)
        e == CHOOSE k \in 2..15 : /\ k = 15 \/ fits(k)
                                  /\ \A j \in 2..(k - 1) : ~fits(j)
        m == CASE Abs(x) <= 4 -> 8
               [] Abs(x) > 4 /\ Abs(x) <= 10 -> 16
               [] Abs(x) > 10 /\ Abs(x) <= 20 -> 24
               [] Abs(x) > 20 /\ Abs(x) <= 40 -> 32
               [] OTHER -> 40
        b == e + m + (IF steal THEN 0 ELSE 1)
    IN IF p[1] = 0 THEN [bits |-> 8, exp |-> 4]
       ELSE [bits |-> IF b < 8 THEN 8 ELSE b, exp |-> e]

=============================================================================
