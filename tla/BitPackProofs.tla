--------------------------- MODULE BitPackProofs ---------------------------
(***************************************************************************)
(* Proofs about the packed buffers, for every width of an element, a byte  *)
(* and a word: what the engine packs is what it unpacks and what compiled  *)
(* kernels load; and a kernel's store is what is loaded later and leaves   *)
(* the elements around it alone, whose bits may be in the same byte.       *)
(***************************************************************************)
EXTENDS BitPack, Recursion

-----------------------------------------------------------------------------
(* Arithmetic. *)

\* Quotient and remainder are the only ones.
LEMMA Quotient ==
    ASSUME NEW p \in Nat \ {0}, NEW q \in Int, NEW r \in 0..(p - 1), NEW v \in Int,
           v = q * p + r
    PROVE  v \div p = q /\ v % p = r
BY SMTT(30)

\* A number below the divisor is its own remainder.
LEMMA Below ==
    ASSUME NEW p \in Nat \ {0}, NEW v \in Nat, v < p
    PROVE  v % p = v
BY SMTT(30)

\* Every number is a multiple of the divisor and a remainder.
LEMMA DivMod ==
    ASSUME NEW p \in Nat \ {0}, NEW v \in Nat
    PROVE  /\ v \div p \in Nat /\ v % p \in 0..(p - 1)
           /\ v = (v \div p) * p + (v % p)
BY SMTT(30)

\* A product is a number, and grows with its factors.
LEMMA Products ==
    ASSUME NEW a \in Nat, NEW b \in Nat, NEW c \in Nat
    PROVE  /\ a * c \in Nat /\ (a + 1) * c = a * c + c
           /\ a <= b => a * c <= b * c
           /\ a < b => a * c + c <= b * c
<1>1. a * c \in Nat /\ b * c \in Nat /\ (a + 1) * c = a * c + c
  OBVIOUS
<1>2. a <= b => a * c <= b * c
  BY SMTT(30)
<1>3. a < b => (a + 1) * c <= b * c
  BY SMTT(30)
<1> QED
  BY <1>1, <1>2, <1>3

\* As many pieces of size b as it takes for a.
LEMMA Ceiling ==
    ASSUME NEW a \in Nat, NEW b \in Nat \ {0}
    PROVE  /\ CeilDiv(a, b) \in Nat /\ a <= CeilDiv(a, b) * b
           /\ a > 0 => CeilDiv(a, b) >= 1 /\ (CeilDiv(a, b) - 1) * b < a
<1> DEFINE v == a + b - 1
           q == v \div b
           r == v % b
<1>1. v \in Nat
  OBVIOUS
<1>2. q \in Nat /\ r \in 0..(b - 1) /\ v = q * b + r
  BY <1>1, DivMod
<1>3. PICK m \in Nat : m = q * b
  BY <1>2
<1>4. a + b - 1 = m + r /\ (q - 1) * b = m - b
  BY <1>2, <1>3
<1>5. a <= q * b /\ (q - 1) * b < a
  BY <1>2, <1>3, <1>4
<1>6. a > 0 => q >= 1
  BY <1>2, <1>5, SMTT(30)
<1> QED
  BY <1>2, <1>5, <1>6 DEF CeilDiv

\* The powers of two are: a recursive definition has what it says.
LEMMA Powers ==
    /\ Pow2[0] = 1
    /\ \A k \in 1..WordBits : Pow2[k] = 2 * Pow2[k - 1]
    /\ \A k \in 0..WordBits : Pow2[k] \in Nat \ {0}
<1> DEFINE Equation(f) == f = [k \in 0..WordBits |-> IF k = 0 THEN 1 ELSE 2 * f[k - 1]]
           T == {k \in 0..WordBits : Pow2[k] \in Nat \ {0}}
<1>1. WordBits \in Nat
  BY BitPackAssumption DEF BitPackAssumption
<1>2. PICK G : G = [p \in Nat \X (0..WordBits) |-> 2 * p[1]]
  OBVIOUS
<1>3. PICK f \in [0..WordBits -> Nat] : Recursive(f, 1, 0, WordBits, G)
  <2>1. G \in [Nat \X (0..WordBits) -> Nat]
    BY <1>2
  <2>2. 1 \in Nat /\ 0 \in Int /\ WordBits \in Int
    BY <1>1
  <2> QED
    BY <2>1, <2>2, RecursionExists, Zenon
<1>4. Equation(f)
  <2>1. \A k \in 0..WordBits : f[k] = IF k = 0 THEN 1 ELSE G[<<f[k - 1], k>>]
    BY <1>3 DEF Recursive
  <2>2. \A k \in 0..WordBits : k # 0 => G[<<f[k - 1], k>>] = 2 * f[k - 1]
    BY <1>1, <1>2
  <2> QED
    BY <2>1, <2>2
<1>5. Pow2 = CHOOSE g : Equation(g)
  BY DEF Pow2
<1>6. Equation(Pow2)
  <2> HIDE DEF Equation
  <2> QED
    BY <1>4, <1>5
<1>7. Pow2[0] = 1 /\ \A k \in 1..WordBits : Pow2[k] = 2 * Pow2[k - 1]
  BY <1>1, <1>6
<1>8. \A k \in 0..WordBits : k \in T
  <2>1. 0 \in T
    BY <1>1, <1>7
  <2>2. ASSUME NEW k \in (0 + 1)..WordBits, k - 1 \in T PROVE k \in T
    BY <1>1, <1>7, <2>2
  <2>3. 0 \in Int /\ WordBits \in Int
    BY <1>1
  <2> HIDE DEF T
  <2> QED
    BY <2>1, <2>2, <2>3, IntervalInduction, Zenon
<1> QED
  BY <1>7, <1>8

\* One more bit.
LEMMA BitStep ==
    ASSUME NEW v \in Nat, NEW k \in 1..WordBits
    PROVE  /\ Bit(v, k - 1) \in 0..1
           /\ v % Pow2[k] = (v % Pow2[k - 1]) + Bit(v, k - 1) * Pow2[k - 1]
<1>1. WordBits \in Nat
  BY BitPackAssumption DEF BitPackAssumption
<1>2. PICK p \in Nat \ {0} : p = Pow2[k - 1]
  BY <1>1, Powers
<1>3. Pow2[k] = 2 * p
  BY <1>2, Powers
<1>4. PICK q \in Nat, r \in 0..(p - 1) : q = v \div p /\ r = v % p /\ v = q * p + r
  BY DivMod
<1>5. PICK h \in Nat, b \in 0..1 : h = q \div 2 /\ b = q % 2 /\ q = h * 2 + b
  OBVIOUS
<1>6. v = h * (2 * p) + (b * p + r)
  <2>1. q * p = (h * 2) * p + b * p
    BY <1>5
  <2>2. (h * 2) * p = h * (2 * p)
    OBVIOUS
  <2>3. PICK x \in Int, y \in Int : x = h * (2 * p) /\ y = b * p
    OBVIOUS
  <2> QED
    BY <1>4, <2>1, <2>2, <2>3
<1>7. b * p + r \in 0..(2 * p - 1) /\ 2 * p \in Nat \ {0}
  <2>1. b = 0 \/ b = 1
    OBVIOUS
  <2> QED
    BY <2>1
<1>8. v % (2 * p) = b * p + r
  <2>1. PICK z, c : z = 2 * p /\ c = b * p + r
    OBVIOUS
  <2>2. z \in Nat \ {0} /\ c \in 0..(z - 1) /\ v = h * z + c
    BY <1>6, <1>7, <2>1
  <2>3. h \in Int /\ v \in Int
    OBVIOUS
  <2>4. v % z = c
    BY <2>2, <2>3, Quotient
  <2> QED
    BY <2>1, <2>4
<1>9. Bit(v, k - 1) = b
  BY <1>2, <1>4, <1>5 DEF Bit
<1>10. v % Pow2[k] = r + b * p
  <2>1. PICK y \in Int : y = b * p
    OBVIOUS
  <2> QED
    BY <1>3, <1>8, <2>1
<1> QED
  BY <1>2, <1>4, <1>9, <1>10

(***************************************************************************)
(* The number whose bits are the lowest w bits of v, with zeros behind     *)
(* them, is v without what does not fit.                                   *)
(***************************************************************************)
LEMMA NumberOfBits ==
    ASSUME NEW n \in 0..WordBits, NEW w \in 0..n, NEW v \in Nat, NEW bit,
           \A b \in 0..(n - 1) : bit[b] = IF b < w THEN Bit(v, b) ELSE 0
    PROVE  Number(n, bit) = v % Pow2[w]
<1> DEFINE M(k) == v % Pow2[IF k <= w THEN k ELSE w]
           Equation(f) == f = [k \in 0..n |-> IF k = 0 THEN 0
                                              ELSE f[k - 1] + bit[k - 1] * Pow2[k - 1]]
           g == [k \in 0..n |-> M(k)]
           s == CHOOSE f : Equation(f)
           T == {k \in 0..n : s[k] = M(k)}
<1>1. WordBits \in Nat /\ n \in Nat /\ w \in Nat
  BY BitPackAssumption DEF BitPackAssumption
<1>2. \A k \in 0..n : M(k) \in Nat
  <2> SUFFICES ASSUME NEW k \in 0..n PROVE M(k) \in Nat
    OBVIOUS
  <2>1. PICK j \in 0..WordBits : j = IF k <= w THEN k ELSE w
    BY <1>1
  <2>2. Pow2[j] \in Nat \ {0}
    BY Powers
  <2>3. v % Pow2[j] \in Nat
    BY <2>2, DivMod
  <2> QED
    BY <2>1, <2>3
<1>3. M(0) = 0
  <2>1. Pow2[0] = 1 /\ 0 <= w
    BY <1>1, Powers
  <2>2. v % 1 = 0
    OBVIOUS
  <2> QED
    BY <2>1, <2>2
<1>4. \A k \in 1..n : M(k) = M(k - 1) + bit[k - 1] * Pow2[k - 1]
  <2> SUFFICES ASSUME NEW k \in 1..n PROVE M(k) = M(k - 1) + bit[k - 1] * Pow2[k - 1]
    OBVIOUS
  <2>1. k \in 1..WordBits /\ k - 1 \in 0..(n - 1) /\ k - 1 \in 0..WordBits
    BY <1>1
  <2>2. bit[k - 1] = IF k - 1 < w THEN Bit(v, k - 1) ELSE 0
    BY <2>1
  <2>3. CASE k <= w
    <3>1. v % Pow2[k] = (v % Pow2[k - 1]) + Bit(v, k - 1) * Pow2[k - 1]
      BY <2>1, BitStep
    <3>2. k - 1 < w /\ k - 1 <= w
      BY <2>3, <1>1
    <3> QED
      BY <2>2, <2>3, <3>1, <3>2
  <2>4. CASE ~(k <= w)
    <3>1. ~(k - 1 < w) /\ (k - 1 <= w => k - 1 = w)
      BY <2>4, <1>1
    <3>2. M(k) = v % Pow2[w] /\ M(k - 1) = v % Pow2[w] /\ bit[k - 1] = 0
      BY <2>2, <2>4, <3>1
    <3>3. M(k) \in Nat /\ Pow2[k - 1] \in Nat
      BY <1>2, <2>1, Powers
    <3> HIDE DEF M
    <3> QED
      BY <3>2, <3>3
  <2> QED
    BY <2>3, <2>4
<1> HIDE DEF M
<1>5. Equation(g)
  <2>1. \A k \in 0..n : g[k] = IF k = 0 THEN 0 ELSE g[k - 1] + bit[k - 1] * Pow2[k - 1]
    <3> SUFFICES ASSUME NEW k \in 0..n
                 PROVE  g[k] = IF k = 0 THEN 0 ELSE g[k - 1] + bit[k - 1] * Pow2[k - 1]
      OBVIOUS
    <3>1. CASE k = 0
      BY <1>3, <3>1
    <3>2. CASE k # 0
      <4>1. k \in 1..n /\ k - 1 \in 0..n
        BY <1>1, <3>2
      <4>2. g[k] = M(k) /\ g[k - 1] = M(k - 1)
        BY <4>1
      <4> QED
        BY <1>4, <3>2, <4>1, <4>2
    <3> QED
      BY <3>1, <3>2
  <2> QED
    BY <2>1
<1>6. Equation(s)
  <2> HIDE DEF Equation, g
  <2> QED
    BY <1>5
<1> HIDE DEF s
<1>7. s[0] = 0 /\ \A k \in 1..n : s[k] = s[k - 1] + bit[k - 1] * Pow2[k - 1]
  BY <1>1, <1>6
<1>8. \A k \in 0..n : k \in T
  <2>1. 0 \in T
    BY <1>1, <1>3, <1>7
  <2>2. ASSUME NEW k \in (0 + 1)..n, k - 1 \in T PROVE k \in T
    <3>1. k \in 1..n /\ k \in 0..n /\ s[k - 1] = M(k - 1)
      BY <2>2
    <3> QED
      BY <1>4, <1>7, <3>1
  <2>3. 0 \in Int /\ n \in Int
    BY <1>1
  <2> HIDE DEF T
  <2> QED
    BY <2>1, <2>2, <2>3, IntervalInduction, Zenon
<1>9. Number(n, bit) = s[n]
  BY DEF Number, s
<1>10. s[n] = M(n)
  BY <1>1, <1>8
<1>11. M(n) = v % Pow2[w]
  BY <1>1 DEF M
<1> QED
  BY <1>9, <1>10, <1>11

-----------------------------------------------------------------------------
(* Where the limbs of an element are. *)

\* A limb of an element holds some of its bits, a native width all of them.
LEMMA LimbBits ==
    ASSUME NEW width \in Nat \ {0}, NEW limb \in 0..(LimbsPerElement(width) - 1)
    PROVE  /\ WordBits \in Nat \ {0} /\ ByteBits \in Nat \ {0}
           /\ LimbsPerElement(width) \in Nat \ {0}
           /\ limb * WordBits \in Nat /\ limb * WordBits < width
           /\ FieldWidth(width, limb) \in 1..WordBits
           /\ FieldWidth(width, limb) =
                 IF width - limb * WordBits < WordBits THEN width - limb * WordBits ELSE WordBits
           /\ width \in NativeWidths => limb = 0
<1>1. /\ WordBits \in Nat \ {0} /\ ByteBits \in Nat \ {0} /\ 4 * ByteBits <= WordBits
  BY BitPackAssumption DEF BitPackAssumption
<1>2. PICK k \in Nat : k = LimbsPerElement(width) /\ k >= 1 /\ (k - 1) * WordBits < width
  BY <1>1, Ceiling DEF LimbsPerElement
<1>3. PICK m \in Nat : m = limb * WordBits
  BY <1>1, <1>2, Products
<1>4. m < width
  <2>1. limb \in Nat /\ k - 1 \in Nat /\ limb <= k - 1
    BY <1>2
  <2>2. limb * WordBits <= (k - 1) * WordBits
    BY <1>1, <2>1, Products
  <2>3. (k - 1) * WordBits \in Nat
    BY <1>1, <2>1, Products
  <2> QED
    BY <1>2, <1>3, <2>2, <2>3
<1>5. width \in NativeWidths => limb = 0 /\ width <= WordBits /\ m = 0
  <2> SUFFICES ASSUME width \in NativeWidths PROVE limb = 0 /\ width <= WordBits /\ m = 0
    OBVIOUS
  <2>1. width <= WordBits
    BY <1>1 DEF NativeWidths
  <2>2. limb = 0
    <3>1. limb \in Nat /\ (1 <= limb => 1 * WordBits <= limb * WordBits)
      BY <1>1, <1>2, Products
    <3> QED
      BY <1>1, <1>3, <1>4, <2>1, <3>1
  <2> QED
    BY <1>1, <1>3, <2>1, <2>2
<1>6. FieldWidth(width, limb) = IF width - m < WordBits THEN width - m ELSE WordBits
  BY <1>1, <1>3, <1>4, <1>5 DEF FieldWidth
<1> QED
  BY <1>1, <1>2, <1>3, <1>4, <1>5, <1>6

\* In a list the bits of a limb begin right behind those of the limbs before it,
\* for the native widths as well, which start at a byte.
LEMMA ListField ==
    ASSUME NEW width \in Nat \ {0}, NEW limb \in 0..(LimbsPerElement(width) - 1), NEW i \in Nat
    PROVE  FieldStart(i * width, width, limb) = i * width + limb * WordBits
<1>1. /\ WordBits \in Nat \ {0} /\ ByteBits \in Nat \ {0} /\ WordBits % ByteBits = 0
  BY BitPackAssumption DEF BitPackAssumption
<1>2. limb \in Nat /\ limb * WordBits \in Nat /\ (width \in NativeWidths => limb = 0)
  BY LimbBits
<1>3. PICK z \in Nat : WordBits = z * ByteBits
  <2>1. WordBits = (WordBits \div ByteBits) * ByteBits + (WordBits % ByteBits)
        /\ WordBits \div ByteBits \in Nat
    BY <1>1, DivMod
  <2>2. PICK z \in Nat : z = WordBits \div ByteBits
    BY <2>1
  <2>3. z * ByteBits \in Nat
    BY <1>1, Products
  <2> QED
    BY <1>1, <2>1, <2>2, <2>3
<1>4. ASSUME NEW c \in Nat, NEW v \in Nat, v = c * ByteBits
      PROVE  (v \div ByteBits) * ByteBits = v
  <2>1. 0 \in 0..(ByteBits - 1) /\ v \in Int /\ c \in Int /\ v = c * ByteBits + 0
    BY <1>1, <1>4
  <2>2. v \div ByteBits = c
    BY <1>1, <2>1, Quotient
  <2> QED
    BY <1>4, <2>2
<1>5. CASE width \in NativeWidths
  <2>1. PICK c \in Nat : width = c * ByteBits
    <3>1. ByteBits = 1 * ByteBits
      BY <1>1
    <3> QED
      BY <1>3, <1>5, <3>1 DEF NativeWidths
  <2>2. PICK v \in Nat : v = i * width
    BY Products
  <2>3. v = (i * c) * ByteBits /\ i * c \in Nat
    BY <1>1, <2>1, <2>2
  <2>4. (v \div ByteBits) * ByteBits = v
    BY <1>4, <2>3
  <2>5. limb * WordBits = 0
    BY <1>1, <1>2, <1>5
  <2> QED
    BY <1>5, <2>2, <2>4, <2>5 DEF FieldStart
<1>6. CASE width \notin NativeWidths /\ width % WordBits = 0
  <2>1. PICK c \in Nat : c = width \div WordBits
    BY <1>1, DivMod
  <2>2. width = c * WordBits
    <3>1. width = c * WordBits + (width % WordBits)
      BY <1>1, <2>1, DivMod
    <3>2. c * WordBits \in Nat
      BY <1>1, Products
    <3> QED
      BY <1>6, <3>1, <3>2
  <2>3. PICK v \in Nat : v = i * width + limb * WordBits
    <3>1. i * width \in Nat
      BY Products
    <3> QED
      BY <1>2, <3>1
  <2>4. v = ((i * c + limb) * z) * ByteBits /\ (i * c + limb) * z \in Nat
    <3>1. i * width = (i * c) * WordBits /\ i * c \in Nat
      BY <1>1, <2>2
    <3>2. v = (i * c + limb) * WordBits
      BY <1>1, <1>2, <2>3, <3>1
    <3>3. PICK y \in Nat : y = i * c + limb
      BY <1>2, <3>1
    <3>4. v = (y * z) * ByteBits /\ y * z \in Nat
      BY <1>1, <1>3, <3>2, <3>3
    <3> QED
      BY <3>3, <3>4
  <2>5. (v \div ByteBits) * ByteBits = v
    BY <1>4, <2>4
  <2> QED
    BY <1>6, <2>3, <2>5 DEF FieldStart
<1>7. CASE width \notin NativeWidths /\ width % WordBits # 0
  BY <1>7 DEF FieldStart
<1> QED
  BY <1>5, <1>6, <1>7

\* The buffer has bit b of v at this position.
BitAt(buf, at, v, b) == at \in DOMAIN buf /\ buf[at] = Bit(v, b)

\* The bits of a word in a packed buffer.
LEMMA PackedBit ==
    ASSUME NEW width \in Nat \ {0}, NEW n \in Nat, NEW src \in Seq(Nat),
           Len(src) = n * LimbsPerElement(width),
           NEW i \in 0..(n - 1), NEW limb \in 0..(LimbsPerElement(width) - 1),
           NEW b \in 0..(FieldWidth(width, limb) - 1)
    PROVE  BitAt(PackBits(src, width), i * width + limb * WordBits + b,
                 src[i * LimbsPerElement(width) + limb + 1], b)
<1>1. /\ WordBits \in Nat \ {0} /\ ByteBits \in Nat \ {0}
      /\ FieldWidth(width, limb) \in 1..WordBits
      /\ FieldWidth(width, limb) =
            IF width - limb * WordBits < WordBits THEN width - limb * WordBits ELSE WordBits
  BY LimbBits
<1>2. PICK k \in Nat \ {0} : k = LimbsPerElement(width)
  BY LimbBits
<1>3. PICK low \in Nat : low = limb * WordBits /\ low < width
  BY LimbBits
<1>4. PICK start \in Nat, bits \in Nat : start = i * width /\ bits = n * width
                                         /\ start + width <= bits
  <2>1. i \in Nat /\ i < n
    OBVIOUS
  <2> QED
    BY <2>1, Products
<1>5. b \in Nat /\ b < WordBits /\ low + b \in 0..(width - 1)
  BY <1>1, <1>3
<1>6. PICK j \in Nat : j = start + (low + b)
  BY <1>5
<1>7. j < bits /\ j \div width = i /\ j % width = low + b
  <2>1. PICK r \in 0..(width - 1) : r = low + b
    BY <1>5
  <2>2. j = i * width + r /\ i \in Int /\ j \in Int
    BY <1>4, <1>6, <2>1
  <2>3. j \div width = i /\ j % width = r
    BY <2>2, Quotient, Zenon
  <2>4. j < bits
    BY <1>4, <1>5, <1>6
  <2> QED
    BY <2>1, <2>3, <2>4
<1>8. (low + b) \div WordBits = limb /\ (low + b) % WordBits = b
  <2>1. PICK word \in Nat \ {0} : word = WordBits
    BY <1>1
  <2>2. PICK r \in 0..(word - 1), y \in Int, q \in Int :
           y = low + b /\ r = b /\ q = limb /\ y = q * word + r
    BY <1>1, <1>3, <1>5, <2>1
  <2>3. y = q * word + r
    BY <2>2
  <2>4. y \div word = q /\ y % word = r
    BY <2>3, Quotient, Zenon
  <2> QED
    BY <2>1, <2>2, <2>4
<1>9. Len(src) \div k = n
  <2>1. PICK y \in Nat : y = Len(src)
    OBVIOUS
  <2>2. y = n * k + 0 /\ 0 \in 0..(k - 1) /\ n \in Int /\ y \in Int
    BY <1>2, <2>1
  <2>3. y \div k = n
    BY <2>2, Quotient
  <2> QED
    BY <2>1, <2>3
<1>10. PICK total \in Nat : total = CeilDiv(bits, ByteBits) * ByteBits /\ bits <= total
  <2>1. CeilDiv(bits, ByteBits) \in Nat /\ bits <= CeilDiv(bits, ByteBits) * ByteBits
    BY <1>1, Ceiling
  <2>2. CeilDiv(bits, ByteBits) * ByteBits \in Nat
    BY <1>1, <2>1, Products
  <2> QED
    BY <2>1, <2>2
<1>11. PackBits(src, width) =
          [x \in 0..(total - 1) |->
             IF x < bits THEN LimbBit(src, (x \div width) * k, x % width) ELSE 0]
  BY <1>2, <1>4, <1>9, <1>10 DEF PackBits
<1>12. j \in 0..(total - 1)
  BY <1>7, <1>10
<1>13. PackBits(src, width)[j] = LimbBit(src, i * k, low + b)
  BY <1>7, <1>11, <1>12
<1>14. LimbBit(src, i * k, low + b) = Bit(src[i * k + limb + 1], b)
  BY <1>8 DEF LimbBit
<1>15. j = i * width + limb * WordBits + b
  BY <1>3, <1>4, <1>5, <1>6
<1> QED
  BY <1>2, <1>11, <1>12, <1>13, <1>14, <1>15 DEF BitAt

-----------------------------------------------------------------------------
(* The theorems. *)

(***************************************************************************)
(* pack_bits and unpack_bits of src/main.zig: the words that come out of a *)
(* packed buffer are those that went in, without the bits that a limb of   *)
(* the width has no room for.                                              *)
(***************************************************************************)
THEOREM UnpackedIsPacked ==
    ASSUME NEW width \in Nat \ {0}, NEW n \in Nat, NEW src \in Seq(Nat),
           Len(src) = n * LimbsPerElement(width)
    PROVE  UnpackBits(PackBits(src, width), n, width)
              = [m \in 1..Len(src) |->
                   src[m] % Pow2[FieldWidth(width, (m - 1) % LimbsPerElement(width))]]
<1>1. WordBits \in Nat \ {0}
  BY BitPackAssumption DEF BitPackAssumption
<1>2. PICK k \in Nat \ {0} : k = LimbsPerElement(width)
  <2>1. width \in Nat /\ width > 0
    OBVIOUS
  <2>2. CeilDiv(width, WordBits) \in Nat /\ CeilDiv(width, WordBits) >= 1
    BY <1>1, <2>1, Ceiling
  <2> QED
    BY <2>2 DEF LimbsPerElement
<1>3. PICK P : P = PackBits(src, width)
  OBVIOUS
<1> DEFINE bit(i, l) == [b \in 0..(WordBits - 1) |->
                           IF l * WordBits + b < width
                              /\ i * width + l * WordBits + b \in DOMAIN P
                           THEN P[i * width + l * WordBits + b] ELSE 0]
<1>4. UnpackBits(P, n, width)
         = [m \in 1..Len(src) |-> Number(WordBits, bit((m - 1) \div k, (m - 1) % k))]
  BY <1>2 DEF UnpackBits
<1>5. ASSUME NEW m \in 1..Len(src)
      PROVE  Number(WordBits, bit((m - 1) \div k, (m - 1) % k))
                = src[m] % Pow2[FieldWidth(width, (m - 1) % k)]
  <2>1. PICK i \in Nat, l \in 0..(k - 1) :
           i = (m - 1) \div k /\ l = (m - 1) % k /\ m - 1 = i * k + l
    <3>1. PICK v \in Nat : v = m - 1
      OBVIOUS
    <3>2. v \div k \in Nat /\ v % k \in 0..(k - 1) /\ v = (v \div k) * k + (v % k)
      BY DivMod, Zenon
    <3> QED
      BY <3>1, <3>2
  <2>2. i \in 0..(n - 1)
    <3>1. n <= i => n * k <= i * k
      BY Products
    <3>2. i * k \in Nat /\ n * k \in Nat
      BY Products
    <3>3. m <= n * k /\ m = i * k + l + 1
      BY <1>2, <2>1, <3>2
    <3> QED
      BY <3>1, <3>2, <3>3
  <2>3. PICK w \in 1..WordBits : w = FieldWidth(width, l)
    BY <1>2, LimbBits
  <2>4. PICK low \in Nat : low = l * WordBits /\ low < width
                           /\ w = (IF width - low < WordBits THEN width - low ELSE WordBits)
    BY <1>2, <2>3, LimbBits
  <2>5. src[m] \in Nat
    OBVIOUS
  <2>6. \A b \in 0..(WordBits - 1) : bit(i, l)[b] = IF b < w THEN Bit(src[m], b) ELSE 0
    <3> SUFFICES ASSUME NEW b \in 0..(WordBits - 1)
                 PROVE  bit(i, l)[b] = IF b < w THEN Bit(src[m], b) ELSE 0
      OBVIOUS
    <3>1. low + b < width <=> b < w
      BY <1>1, <2>4
    <3>2. bit(i, l)[b] = IF low + b < width /\ i * width + l * WordBits + b \in DOMAIN P
                         THEN P[i * width + l * WordBits + b] ELSE 0
      BY <2>4
    <3>3. CASE b < w
      <4>1. b \in 0..(FieldWidth(width, l) - 1) /\ l \in 0..(LimbsPerElement(width) - 1)
        BY <1>1, <1>2, <2>3, <3>3
      <4>2. BitAt(PackBits(src, width), i * width + l * WordBits + b,
                  src[i * LimbsPerElement(width) + l + 1], b)
        BY <2>2, <4>1, PackedBit, Zenon
      <4>3. m = i * LimbsPerElement(width) + l + 1
        BY <1>2, <2>1, Products
      <4>4. BitAt(P, i * width + l * WordBits + b, src[m], b)
        BY <1>3, <4>2, <4>3
      <4> QED
        BY <3>1, <3>2, <3>3, <4>4 DEF BitAt
    <3>4. CASE ~(b < w)
      BY <3>1, <3>2, <3>4
    <3> QED
      BY <3>3, <3>4
  <2>7. WordBits \in 0..WordBits /\ w \in 0..WordBits
    BY <1>1
  <2> HIDE DEF bit
  <2>8. Number(WordBits, bit(i, l)) = src[m] % Pow2[w]
    <3>1. PICK B : B = bit(i, l)
      OBVIOUS
    <3>2. \A b \in 0..(WordBits - 1) : B[b] = IF b < w THEN Bit(src[m], b) ELSE 0
      BY <2>6, <3>1
    <3>3. Number(WordBits, B) = src[m] % Pow2[w]
      <4>1. PICK v \in Nat : v = src[m]
        BY <2>5
      <4>2. \A b \in 0..(WordBits - 1) : B[b] = IF b < w THEN Bit(v, b) ELSE 0
        BY <3>2, <4>1
      <4>3. Number(WordBits, B) = v % Pow2[w]
        BY <2>7, <4>2, NumberOfBits
      <4> QED
        BY <4>1, <4>3
    <3> QED
      BY <3>1, <3>3
  <2> QED
    BY <2>1, <2>3, <2>8
<1> HIDE DEF bit
<1> QED
  BY <1>2, <1>3, <1>4, <1>5

\* A whole tensor survives: when every limb fits, unpacking restores the words.
COROLLARY PackingRestores ==
    ASSUME NEW width \in Nat \ {0}, NEW n \in Nat, NEW src \in Seq(Nat),
           Len(src) = n * LimbsPerElement(width),
           \A m \in 1..Len(src) :
              src[m] < Pow2[FieldWidth(width, (m - 1) % LimbsPerElement(width))]
    PROVE  UnpackBits(PackBits(src, width), n, width) = src
<1>1. WordBits \in Nat \ {0}
  BY BitPackAssumption DEF BitPackAssumption
<1>2. PICK k \in Nat \ {0} : k = LimbsPerElement(width)
  <2>1. width \in Nat /\ width > 0
    OBVIOUS
  <2>2. CeilDiv(width, WordBits) \in Nat /\ CeilDiv(width, WordBits) >= 1
    BY <1>1, <2>1, Ceiling
  <2> QED
    BY <2>2 DEF LimbsPerElement
<1>3. ASSUME NEW m \in 1..Len(src)
      PROVE  src[m] % Pow2[FieldWidth(width, (m - 1) % k)] = src[m]
  <2>1. m - 1 \in Nat
    OBVIOUS
  <2>2. (m - 1) % k \in 0..(k - 1)
    BY <2>1, DivMod
  <2>3. FieldWidth(width, (m - 1) % k) \in 1..WordBits
    BY <1>2, <2>2, LimbBits
  <2>4. PICK p \in Nat \ {0} : p = Pow2[FieldWidth(width, (m - 1) % k)]
    <3>1. PICK w \in 0..WordBits : w = FieldWidth(width, (m - 1) % k)
      BY <1>1, <2>3
    <3>2. Pow2[w] \in Nat \ {0}
      BY Powers
    <3> QED
      BY <3>1, <3>2
  <2>5. PICK v \in Nat : v = src[m] /\ v < p
    BY <1>2, <2>4
  <2>6. v % p = v
    BY <2>5, Below, Zenon
  <2> QED
    BY <2>4, <2>5, <2>6
<1>4. UnpackBits(PackBits(src, width), n, width)
         = [m \in 1..Len(src) |-> src[m] % Pow2[FieldWidth(width, (m - 1) % k)]]
  <2>1. UnpackBits(PackBits(src, width), n, width)
           = [m \in 1..Len(src) |->
                src[m] % Pow2[FieldWidth(width, (m - 1) % LimbsPerElement(width))]]
    BY UnpackedIsPacked, Zenon
  <2> QED
    BY <1>2, <2>1
<1>5. src = [m \in 1..Len(src) |-> src[m]]
  OBVIOUS
<1> QED
  BY <1>3, <1>4, <1>5

(***************************************************************************)
(* helper_load_u64 of src/numtoy-core/src/fuser.rs: a compiled kernel      *)
(* loads from a buffer that pack_bits filled the words that went in,       *)
(* without the bits that a limb has no room for.                           *)
(***************************************************************************)
THEOREM LoadReadsPacked ==
    ASSUME NEW width \in Nat \ {0}, NEW n \in Nat, NEW src \in Seq(Nat),
           Len(src) = n * LimbsPerElement(width),
           NEW i \in 0..(n - 1), NEW limb \in 0..(LimbsPerElement(width) - 1)
    PROVE  LoadWord(PackBits(src, width), i * width, width, limb)
              = src[i * LimbsPerElement(width) + limb + 1] % Pow2[FieldWidth(width, limb)]
<1>1. PICK k \in Nat \ {0} : k = LimbsPerElement(width)
  BY LimbBits
<1>2. PICK P : P = PackBits(src, width)
  OBVIOUS
<1>3. PICK w \in 1..WordBits : w = FieldWidth(width, limb)
  BY LimbBits
<1>4. PICK start : start = FieldStart(i * width, width, limb)
  OBVIOUS
<1>5. start = i * width + limb * WordBits
  BY <1>4, ListField
<1> DEFINE bit == [b \in 0..(w - 1) |-> IF start + b \in DOMAIN P THEN P[start + b] ELSE 0]
<1>6. PICK at \in 1..Len(src) : at = i * k + limb + 1
  <2>1. i \in Nat /\ i < n
    OBVIOUS
  <2>2. PICK x \in Nat, y \in Nat : x = i * k /\ y = n * k /\ x + k <= y
    <3>1. i * k \in Nat /\ n * k \in Nat /\ (i < n => i * k + k <= n * k)
      BY <2>1, Products, Zenon
    <3> QED
      BY <2>1, <3>1
  <2>3. i * k + limb + 1 = x + limb + 1
    BY <2>2
  <2>4. y = Len(src) /\ limb \in 0..(k - 1)
    BY <1>1, <2>2
  <2>5. x + limb + 1 \in 1..y
    BY <2>2, <2>4
  <2>6. PICK z \in 1..y : z = x + limb + 1
    BY <2>5, Zenon
  <2>7. z = i * k + limb + 1
    BY <2>3, <2>6, Zenon
  <2>8. z \in 1..Len(src)
    BY <2>4, Zenon
  <2> QED
    BY <2>7, <2>8, Zenon
<1>7. \A b \in 0..(w - 1) : bit[b] = IF b < w THEN Bit(src[at], b) ELSE 0
  <2> SUFFICES ASSUME NEW b \in 0..(w - 1) PROVE bit[b] = Bit(src[at], b)
    OBVIOUS
  <2>1. b \in 0..(FieldWidth(width, limb) - 1)
    BY <1>3
  <2>2. BitAt(PackBits(src, width), i * width + limb * WordBits + b,
              src[i * LimbsPerElement(width) + limb + 1], b)
    BY <2>1, PackedBit, Zenon
  <2>3. BitAt(P, start + b, src[at], b)
    BY <1>1, <1>2, <1>5, <1>6, <2>2
  <2> QED
    BY <2>3 DEF BitAt
<1>8. w \in 0..WordBits /\ w \in 0..w /\ src[at] \in Nat
  <2>1. WordBits \in Nat
    BY LimbBits
  <2> QED
    BY <2>1
<1>9. LoadWord(P, i * width, width, limb) = Number(w, bit)
  BY <1>3, <1>4 DEF LoadWord
<1>10. Number(w, bit) = src[at] % Pow2[w]
  <2> HIDE DEF bit
  <2> QED
    BY <1>7, <1>8, NumberOfBits
<1> QED
  BY <1>1, <1>2, <1>3, <1>6, <1>9, <1>10

\* The field of a limb begins at a bit position.
LEMMA FieldBegins ==
    ASSUME NEW width \in Nat \ {0}, NEW limb \in 0..(LimbsPerElement(width) - 1),
           NEW offset \in Nat
    PROVE  FieldStart(offset, width, limb) \in Nat
<1>1. ByteBits \in Nat \ {0} /\ limb * WordBits \in Nat
  BY LimbBits
<1>2. PICK x \in Nat : x = offset + limb * WordBits
  BY <1>1
<1>3. (offset \div ByteBits) * ByteBits \in Nat /\ (x \div ByteBits) * ByteBits \in Nat
  BY <1>1, DivMod, Products
<1> QED
  BY <1>2, <1>3 DEF FieldStart

(***************************************************************************)
(* helper_store_u64 and helper_load_u64 of src/numtoy-core/src/fuser.rs:   *)
(* what a kernel stores in a limb whose bits are all in the buffer is what *)
(* is loaded from it later, without the bits that do not fit; at any       *)
(* offset, also one inside of a byte.                                      *)
(***************************************************************************)
THEOREM StoreThenLoad ==
    ASSUME NEW width \in Nat \ {0}, NEW limb \in 0..(LimbsPerElement(width) - 1),
           NEW offset \in Nat, NEW val \in Nat, NEW buf,
           Field(offset, width, limb) \subseteq DOMAIN buf
    PROVE  LoadWord(StoreWord(buf, offset, width, limb, val), offset, width, limb)
              = val % Pow2[FieldWidth(width, limb)]
<1>1. PICK w \in 1..WordBits : w = FieldWidth(width, limb)
  BY LimbBits
<1>2. PICK start \in Nat : start = FieldStart(offset, width, limb)
  BY FieldBegins
<1>3. WordBits \in Nat
  BY LimbBits
<1>4. Field(offset, width, limb) = start..(start + w - 1)
  BY <1>1, <1>2 DEF Field
<1>5. PICK S : S = StoreWord(buf, offset, width, limb, val)
  OBVIOUS
<1>6. S = [j \in DOMAIN buf |-> IF j \in start..(start + w - 1) THEN Bit(val, j - start) ELSE buf[j]]
  BY <1>2, <1>4, <1>5 DEF StoreWord
<1> DEFINE bit == [b \in 0..(w - 1) |-> IF start + b \in DOMAIN S THEN S[start + b] ELSE 0]
<1>7. \A b \in 0..(w - 1) : bit[b] = IF b < w THEN Bit(val, b) ELSE 0
  <2> SUFFICES ASSUME NEW b \in 0..(w - 1) PROVE bit[b] = Bit(val, b)
    BY <1>3
  <2>1. PICK j \in Nat : j = start + b
    OBVIOUS
  <2>2. j \in start..(start + w - 1) /\ j - start = b
    BY <1>3, <2>1
  <2>3. j \in DOMAIN buf
    BY <1>4, <2>2
  <2>4. j \in DOMAIN S /\ S[j] = Bit(val, b)
    BY <1>6, <2>2, <2>3
  <2> QED
    BY <2>1, <2>4
<1>8. LoadWord(S, offset, width, limb) = Number(w, bit)
  BY <1>1, <1>2 DEF LoadWord
<1>9. w \in 0..WordBits /\ w \in 0..w
  BY <1>3
<1>10. Number(w, bit) = val % Pow2[w]
  <2> HIDE DEF bit
  <2> QED
    BY <1>7, <1>9, NumberOfBits
<1> QED
  BY <1>1, <1>5, <1>8, <1>10

\* The bits of two limbs of a list are different bits.
LEMMA FieldsApart ==
    ASSUME NEW width \in Nat \ {0}, NEW i \in Nat, NEW j \in Nat,
           NEW l \in 0..(LimbsPerElement(width) - 1), NEW m \in 0..(LimbsPerElement(width) - 1),
           i < j \/ (i = j /\ l < m)
    PROVE  FieldStart(i * width, width, l) + FieldWidth(width, l)
              <= FieldStart(j * width, width, m)
<1>1. WordBits \in Nat \ {0} /\ l \in Nat /\ m \in Nat
  BY LimbBits
<1>2. PICK x \in Nat, y \in Nat : /\ x = l * WordBits /\ y = m * WordBits
                                  /\ x < width
                                  /\ x + FieldWidth(width, l) <= width
                                  /\ FieldWidth(width, l) \in 1..WordBits
  <2>1. /\ l * WordBits \in Nat /\ l * WordBits < width
        /\ FieldWidth(width, l) \in 1..WordBits
        /\ FieldWidth(width, l) =
              IF width - l * WordBits < WordBits THEN width - l * WordBits ELSE WordBits
    BY LimbBits
  <2>2. m * WordBits \in Nat
    BY LimbBits
  <2>3. PICK x \in Nat : x = l * WordBits
    BY <2>1
  <2> QED
    BY <1>1, <2>1, <2>2, <2>3
<1>3. PICK p \in Nat, q \in Nat : p = i * width /\ q = j * width
                                  /\ (i < j => p + width <= q)
  BY Products
<1>4. FieldStart(i * width, width, l) = p + x /\ FieldStart(j * width, width, m) = q + y
  BY <1>2, <1>3, ListField
<1>5. l < m => x + WordBits <= y
  BY <1>1, <1>2, Products
<1>6. i = j => p = q
  BY <1>3
<1> QED
  BY <1>1, <1>2, <1>3, <1>4, <1>5, <1>6

(***************************************************************************)
(* helper_store_u64 of src/numtoy-core/src/fuser.rs, at the offsets of the *)
(* kernels' loops (index times width): a store to a limb of an element     *)
(* leaves every other limb of the list as it was, though bits of both may  *)
(* be in one byte, which the store reads and writes back.                  *)
(***************************************************************************)
THEOREM StoreKeepsNeighbours ==
    ASSUME NEW width \in Nat \ {0}, NEW i \in Nat, NEW j \in Nat,
           NEW l \in 0..(LimbsPerElement(width) - 1), NEW m \in 0..(LimbsPerElement(width) - 1),
           i # j \/ l # m, NEW val \in Nat, NEW buf
    PROVE  LoadWord(StoreWord(buf, i * width, width, l, val), j * width, width, m)
              = LoadWord(buf, j * width, width, m)
<1>1. PICK v \in 1..WordBits, w \in 1..WordBits :
         v = FieldWidth(width, l) /\ w = FieldWidth(width, m)
  BY LimbBits
<1>2. PICK here \in Nat, there \in Nat : /\ here = FieldStart(i * width, width, l)
                                         /\ there = FieldStart(j * width, width, m)
  <2>1. i * width \in Nat /\ j * width \in Nat
    BY Products
  <2>2. FieldStart(i * width, width, l) \in Nat
    BY <2>1, FieldBegins
  <2>3. FieldStart(j * width, width, m) \in Nat
    BY <2>1, FieldBegins
  <2> QED
    BY <2>2, <2>3
<1>3. here + v <= there \/ there + w <= here
  <2>1. (i < j \/ (i = j /\ l < m)) \/ (j < i \/ (j = i /\ m < l))
    OBVIOUS
  <2>2. i < j \/ (i = j /\ l < m) => here + v <= there
    BY <1>1, <1>2, FieldsApart
  <2>3. j < i \/ (j = i /\ m < l) => there + w <= here
    BY <1>1, <1>2, FieldsApart
  <2> QED
    BY <2>1, <2>2, <2>3
<1>4. PICK S : S = StoreWord(buf, i * width, width, l, val)
  OBVIOUS
<1>5. S = [x \in DOMAIN buf |-> IF x \in here..(here + v - 1) THEN Bit(val, x - here) ELSE buf[x]]
  BY <1>1, <1>2, <1>4 DEF StoreWord, Field
<1> DEFINE bit(f) == [b \in 0..(w - 1) |-> IF there + b \in DOMAIN f THEN f[there + b] ELSE 0]
<1>6. LoadWord(S, j * width, width, m) = Number(w, bit(S))
      /\ LoadWord(buf, j * width, width, m) = Number(w, bit(buf))
  BY <1>1, <1>2 DEF LoadWord
<1>7. bit(S) = bit(buf)
  <2>1. ASSUME NEW b \in 0..(w - 1) PROVE there + b \notin here..(here + v - 1)
    <3>1. WordBits \in Nat
      BY LimbBits
    <3> QED
      BY <1>3, <3>1
  <2>2. ASSUME NEW b \in 0..(w - 1) PROVE bit(S)[b] = bit(buf)[b]
    BY <1>5, <2>1
  <2>3. bit(S) = [b \in 0..(w - 1) |-> bit(S)[b]] /\ bit(buf) = [b \in 0..(w - 1) |-> bit(buf)[b]]
    OBVIOUS
  <2> HIDE DEF bit
  <2> QED
    BY <2>2, <2>3
<1> HIDE DEF bit
<1> QED
  BY <1>4, <1>6, <1>7

=============================================================================
