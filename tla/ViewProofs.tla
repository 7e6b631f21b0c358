----------------------------- MODULE ViewProofs -----------------------------
(***************************************************************************)
(* Proofs about the views of an array.                                     *)
(***************************************************************************)
EXTENDS ViewChain, BitPackProofs, SequenceTheorems

-----------------------------------------------------------------------------
(* Sums and products of sequences. *)

\* A multiple of a sum is the sum of the multiples.
LEMMA Distributes ==
    ASSUME NEW a \in Int, NEW b \in Int, NEW c \in Int
    PROVE  /\ a * b \in Int /\ a * c \in Int
           /\ a * (b + c) = a * b + a * c /\ a * (b - c) = a * b - a * c
OBVIOUS

\* A sequence of n numbers is n long.
LEMMA Lengths ==
    ASSUME NEW n \in Nat, NEW s \in [1..n -> Int]
    PROVE  Len(s) = n /\ DOMAIN s = 1..n /\ s \in Seq(Int)
<1>1. s \in Seq(Int)
  BY SeqDef
<1>2. DOMAIN s = 1..n /\ Len(s) \in Nat /\ DOMAIN s = 1..Len(s)
  BY <1>1
<1> QED
  BY <1>1, <1>2

\* Running totals begin at zero and grow by one number at a time.
LEMMA Totals ==
    ASSUME NEW n \in Nat, NEW s \in [1..n -> Int]
    PROVE  /\ RunningTotal(s)[0] = 0
           /\ \A d \in 1..n : RunningTotal(s)[d] = RunningTotal(s)[d - 1] + s[d]
           /\ \A d \in 0..n : RunningTotal(s)[d] \in Int
           /\ Total(s) = RunningTotal(s)[n] /\ Total(s) \in Int
<1> DEFINE Equation(f) == f = [d \in 0..Len(s) |-> IF d = 0 THEN 0 ELSE f[d - 1] + s[d]]
<1>1. Len(s) = n
  BY Lengths
<1>2. PICK G : G = [p \in Int \X (0..n) |-> IF p[2] = 0 THEN 0 ELSE p[1] + s[p[2]]]
  OBVIOUS
<1>3. PICK f \in [0..n -> Int] : Recursive(f, 0, 0, n, G)
  <2>1. G \in [Int \X (0..n) -> Int]
    BY <1>2
  <2>2. 0 \in Int /\ n \in Int
    OBVIOUS
  <2> QED
    BY <2>1, <2>2, RecursionExists, Zenon
<1>4. Equation(f)
  <2>1. \A d \in 0..n : f[d] = IF d = 0 THEN 0 ELSE G[<<f[d - 1], d>>]
    BY <1>3 DEF Recursive
  <2>2. \A d \in 0..n : d # 0 => G[<<f[d - 1], d>>] = f[d - 1] + s[d]
    BY <1>2
  <2> QED
    BY <1>1, <2>1, <2>2, ZenonT(30)
<1>5. RunningTotal(s) = CHOOSE g : Equation(g)
  BY DEF RunningTotal
<1>6. Equation(RunningTotal(s))
  <2> HIDE DEF Equation
  <2> QED
    BY <1>4, <1>5
<1>7. PICK r : r = RunningTotal(s)
  OBVIOUS
<1>8. r[0] = 0 /\ \A d \in 1..n : r[d] = r[d - 1] + s[d]
  BY <1>1, <1>6, <1>7
<1> DEFINE T == {d \in 0..n : r[d] \in Int}
<1>9. \A d \in 0..n : d \in T
  <2>1. 0 \in T
    BY <1>8
  <2>2. ASSUME NEW d \in (0 + 1)..n, d - 1 \in T PROVE d \in T
    BY <1>8, <2>2
  <2>3. 0 \in Int /\ n \in Int
    OBVIOUS
  <2> HIDE DEF T
  <2> QED
    BY <2>1, <2>2, <2>3, IntervalInduction, Zenon
<1>10. Total(s) = r[n] /\ Total(s) \in Int
  <2>1. Total(s) = r[n]
    BY <1>1, <1>7 DEF Total
  <2>2. n \in T
    BY <1>9
  <2> QED
    BY <2>1, <2>2
<1> QED
  BY <1>7, <1>8, <1>9, <1>10

\* The number of elements inside of a dimension, from the last one backwards.
LEMMA Inners ==
    ASSUME NEW n \in Nat, NEW shape \in [1..n -> Nat]
    PROVE  /\ Inner(shape)[n] = 1
           /\ \A d \in 1..n : Inner(shape)[d - 1] = Inner(shape)[d] * shape[d]
           /\ \A d \in 0..n : Inner(shape)[d] \in Nat
           /\ Product(shape) = Inner(shape)[0]
<1> DEFINE Equation(f) ==
             f = [d \in 0..Len(shape) |-> IF d = Len(shape) THEN 1 ELSE f[d + 1] * shape[d + 1]]
<1>1. Len(shape) = n
  <2>1. shape \in [1..n -> Int]
    OBVIOUS
  <2> QED
    BY <2>1, Lengths
<1>2. PICK G : G = [p \in Nat \X (0..n) |-> IF p[2] = 0 THEN 1 ELSE p[1] * shape[n - p[2] + 1]]
  OBVIOUS
<1>3. PICK f \in [0..n -> Nat] : Recursive(f, 1, 0, n, G)
  <2>1. G \in [Nat \X (0..n) -> Nat]
    <3>1. ASSUME NEW p \in Nat \X (0..n)
          PROVE  (IF p[2] = 0 THEN 1 ELSE p[1] * shape[n - p[2] + 1]) \in Nat
      <4>1. CASE p[2] = 0
        BY <4>1
      <4>2. CASE p[2] # 0
        <5>1. p[1] \in Nat /\ n - p[2] + 1 \in 1..n
          BY <4>2
        <5>2. shape[n - p[2] + 1] \in Nat
          BY <5>1
        <5> QED
          BY <4>2, <5>1, <5>2, Products
      <4> QED
        BY <4>1, <4>2
    <3> QED
      BY <1>2, <3>1
  <2>2. 1 \in Nat /\ 0 \in Int /\ n \in Int
    OBVIOUS
  <2> QED
    BY <2>1, <2>2, RecursionExists, Zenon
<1> DEFINE g == [d \in 0..n |-> f[n - d]]
<1>4. Equation(g)
  <2>1. \A d \in 0..n : f[d] = IF d = 0 THEN 1 ELSE G[<<f[d - 1], d>>]
    BY <1>3 DEF Recursive
  <2>2. ASSUME NEW d \in 0..n, d # 0
        PROVE  G[<<f[d - 1], d>>] = f[d - 1] * shape[n - d + 1]
    <3>1. f[d - 1] \in Nat
      BY <2>2
    <3>2. PICK p : p = <<f[d - 1], d>>
      OBVIOUS
    <3>3. p \in Nat \X (0..n) /\ p[1] = f[d - 1] /\ p[2] = d
      BY <3>1, <3>2
    <3>4. G[p] = p[1] * shape[n - p[2] + 1]
      BY <1>2, <2>2, <3>3
    <3> QED
      BY <3>2, <3>3, <3>4
  <2>3. ASSUME NEW d \in 0..n
        PROVE  g[d] = IF d = n THEN 1 ELSE g[d + 1] * shape[d + 1]
    <3>1. CASE d = n
      <4>1. n - d = 0 /\ 0 \in 0..n
        BY <3>1
      <4>2. f[0] = 1
        BY <2>1, <4>1
      <4>3. g[d] = f[n - d]
        OBVIOUS
      <4> HIDE DEF g
      <4> QED
        BY <3>1, <4>1, <4>2, <4>3
    <3>2. CASE d # n
      <4>1. n - d \in 0..n /\ n - d # 0 /\ d + 1 \in 0..n
        BY <3>2
      <4>2. f[n - d] = f[(n - d) - 1] * shape[n - (n - d) + 1]
        BY <2>1, <2>2, <4>1
      <4>3. n - (n - d) + 1 = d + 1 /\ (n - d) - 1 = n - (d + 1)
        OBVIOUS
      <4>4. g[d] = f[n - d] /\ g[d + 1] = f[n - (d + 1)]
        BY <4>1
      <4> HIDE DEF g
      <4> QED
        BY <3>2, <4>2, <4>3, <4>4
    <3> QED
      BY <3>1, <3>2
  <2> QED
    BY <1>1, <2>3
<1>5. Inner(shape) = CHOOSE h : Equation(h)
  BY DEF Inner
<1>6. Equation(Inner(shape))
  <2> HIDE DEF Equation, g
  <2> QED
    BY <1>4, <1>5
<1>7. PICK r : r = Inner(shape)
  OBVIOUS
<1>8. r[n] = 1 /\ \A d \in 0..n : d # n => r[d] = r[d + 1] * shape[d + 1]
  BY <1>1, <1>6, <1>7
<1>9. \A d \in 1..n : r[d - 1] = r[d] * shape[d]
  <2> SUFFICES ASSUME NEW d \in 1..n PROVE r[d - 1] = r[d] * shape[d]
    OBVIOUS
  <2>1. d - 1 \in 0..n /\ d - 1 # n /\ (d - 1) + 1 = d
    OBVIOUS
  <2>2. r[d - 1] = r[(d - 1) + 1] * shape[(d - 1) + 1]
    BY <1>8, <2>1
  <2> QED
    BY <2>1, <2>2
<1> DEFINE T == {j \in 0..n : r[n - j] \in Nat}
<1>10. \A j \in 0..n : j \in T
  <2>1. 0 \in T
    BY <1>8
  <2>2. ASSUME NEW j \in (0 + 1)..n, j - 1 \in T PROVE j \in T
    <3>1. n - j + 1 \in 1..n /\ n - (j - 1) = n - j + 1 /\ (n - j + 1) - 1 = n - j
      OBVIOUS
    <3>2. r[n - j] = r[n - j + 1] * shape[n - j + 1]
      BY <1>9, <3>1
    <3>3. r[n - j + 1] \in Nat /\ shape[n - j + 1] \in Nat
      BY <2>2, <3>1
    <3> QED
      BY <3>2, <3>3, Products
  <2>3. 0 \in Int /\ n \in Int
    OBVIOUS
  <2> HIDE DEF T
  <2> QED
    BY <2>1, <2>2, <2>3, IntervalInduction, Zenon
<1>11. \A d \in 0..n : r[d] \in Nat
  <2> SUFFICES ASSUME NEW d \in 0..n PROVE r[d] \in Nat
    OBVIOUS
  <2>1. n - d \in 0..n /\ n - (n - d) = d
    OBVIOUS
  <2>2. n - d \in T
    BY <1>10, <2>1
  <2> QED
    BY <2>1, <2>2
<1> QED
  BY <1>7, <1>8, <1>9, <1>11 DEF Product

\* Of two sequences, the one that is nowhere greater has the smaller totals,
\* from any place to any later one.
LEMMA TotalsGrow ==
    ASSUME NEW n \in Nat, NEW x \in [1..n -> Int], NEW y \in [1..n -> Int],
           NEW d \in 0..n, NEW e \in d..n,
           \A i \in (d + 1)..e : x[i] <= y[i]
    PROVE  RunningTotal(x)[e] - RunningTotal(x)[d] <= RunningTotal(y)[e] - RunningTotal(y)[d]
<1>1. PICK r, s : r = RunningTotal(x) /\ s = RunningTotal(y)
  OBVIOUS
<1>2. /\ \A i \in 1..n : r[i] = r[i - 1] + x[i] /\ x[i] \in Int
      /\ \A i \in 0..n : r[i] \in Int
  BY <1>1, Totals
<1>3. /\ \A i \in 1..n : s[i] = s[i - 1] + y[i] /\ y[i] \in Int
      /\ \A i \in 0..n : s[i] \in Int
  BY <1>1, Totals
<1> DEFINE T == {i \in d..e : r[i] - r[d] <= s[i] - s[d]}
<1>4. \A i \in d..e : i \in T
  <2>1. d <= e => d \in T
    BY <1>2, <1>3
  <2>2. ASSUME NEW i \in (d + 1)..e, i - 1 \in T PROVE i \in T
    <3>1. i \in 1..n /\ i - 1 \in 0..n /\ x[i] <= y[i]
      OBVIOUS
    <3>2. r[i] = r[i - 1] + x[i] /\ s[i] = s[i - 1] + y[i]
      BY <1>2, <1>3, <3>1
    <3>3. r[i - 1] \in Int /\ s[i - 1] \in Int /\ r[d] \in Int /\ s[d] \in Int
          /\ x[i] \in Int /\ y[i] \in Int
      BY <1>2, <1>3, <3>1
    <3> QED
      BY <2>2, <3>1, <3>2, <3>3, SMTT(20)
  <2>3. d \in Int /\ e \in Int
    OBVIOUS
  <2> HIDE DEF T
  <2> QED
    BY <2>1, <2>2, <2>3, IntervalInduction, Zenon
<1> QED
  BY <1>1, <1>4

\* The totals of sums and of multiples.
LEMMA TotalsAdd ==
    ASSUME NEW n \in Nat, NEW x \in [1..n -> Int], NEW y \in [1..n -> Int],
           NEW z \in [1..n -> Int], NEW w \in Int,
           \A i \in 1..n : z[i] = x[i] + w * y[i]
    PROVE  \A d \in 0..n : RunningTotal(z)[d] = RunningTotal(x)[d] + w * RunningTotal(y)[d]
<1>1. PICK r, s, t : r = RunningTotal(x) /\ s = RunningTotal(y) /\ t = RunningTotal(z)
  OBVIOUS
<1>2. /\ r[0] = 0 /\ \A i \in 1..n : r[i] = r[i - 1] + x[i]
      /\ \A i \in 0..n : r[i] \in Int
  BY <1>1, Totals
<1>3. /\ s[0] = 0 /\ \A i \in 1..n : s[i] = s[i - 1] + y[i]
      /\ \A i \in 0..n : s[i] \in Int
  BY <1>1, Totals
<1>4. /\ t[0] = 0 /\ \A i \in 1..n : t[i] = t[i - 1] + z[i]
  BY <1>1, Totals
<1> DEFINE T == {i \in 0..n : t[i] = r[i] + w * s[i]}
<1>5. \A i \in 0..n : i \in T
  <2>1. 0 <= n => 0 \in T
    BY <1>2, <1>3, <1>4
  <2>2. ASSUME NEW i \in (0 + 1)..n, i - 1 \in T PROVE i \in T
    <3>1. i \in 1..n /\ i - 1 \in 0..n
      OBVIOUS
    <3>2. r[i] = r[i - 1] + x[i] /\ s[i] = s[i - 1] + y[i] /\ t[i] = t[i - 1] + z[i]
      BY <1>2, <1>3, <1>4, <3>1
    <3>3. r[i - 1] \in Int /\ s[i - 1] \in Int /\ x[i] \in Int /\ y[i] \in Int
      BY <1>2, <1>3, <3>1
    <3>4. t[i - 1] = r[i - 1] + w * s[i - 1] /\ z[i] = x[i] + w * y[i]
      BY <2>2, <3>1
    <3>5. PICK b \in Int, c \in Int : b = s[i - 1] /\ c = y[i]
      BY <3>3
    <3>6. w * b \in Int /\ w * c \in Int /\ w * (b + c) = w * b + w * c
      BY Distributes
    <3>7. PICK p \in Int, q \in Int : p = w * b /\ q = w * c /\ w * s[i] = p + q
      BY <3>2, <3>5, <3>6
    <3>8. t[i - 1] = r[i - 1] + p /\ z[i] = x[i] + q
      BY <3>4, <3>5, <3>7
    <3>9. t[i] = r[i] + w * s[i]
      BY <3>2, <3>3, <3>7, <3>8
    <3> QED
      BY <3>9
  <2>3. 0 \in Int /\ n \in Int
    OBVIOUS
  <2> HIDE DEF T
  <2> QED
    BY <2>1, <2>2, <2>3, IntervalInduction, Zenon
<1> QED
  BY <1>1, <1>5

LEMMA TotalsZero ==
    ASSUME NEW n \in Nat, NEW z \in [1..n -> Int], \A i \in 1..n : z[i] = 0
    PROVE  \A d \in 0..n : RunningTotal(z)[d] = 0
<1>1. PICK one \in Int : one = 1
  OBVIOUS
<1>2. \A i \in 1..n : z[i] = z[i] + one * z[i]
  BY <1>1
<1>3. \A d \in 0..n : RunningTotal(z)[d] = RunningTotal(z)[d] + one * RunningTotal(z)[d]
  BY <1>2, TotalsAdd
<1>4. \A d \in 0..n : RunningTotal(z)[d] \in Int
  BY Totals
<1> QED
  BY <1>1, <1>3, <1>4

LEMMA TotalMultiple ==
    ASSUME NEW n \in Nat, NEW x \in [1..n -> Int], NEW y \in [1..n -> Int], NEW width \in Nat,
           \A i \in 1..n : y[i] = width * x[i]
    PROVE  Total(y) = width * Total(x)
<1>1. PICK z : z = [d \in 1..n |-> 0]
  OBVIOUS
<1>2. z \in [1..n -> Int] /\ \A d \in 1..n : z[d] = 0
  BY <1>1
<1>3. PICK w \in Int : w = width
  OBVIOUS
<1>4. \A i \in 1..n : y[i] = z[i] + w * x[i]
  <2> SUFFICES ASSUME NEW i \in 1..n PROVE y[i] = z[i] + w * x[i]
    OBVIOUS
  <2>1. w * x[i] \in Int
    OBVIOUS
  <2> QED
    BY <1>2, <1>3, <2>1
<1>5. \A d \in 0..n : RunningTotal(y)[d] = RunningTotal(z)[d] + w * RunningTotal(x)[d]
  BY <1>2, <1>4, TotalsAdd
<1>6. n \in 0..n /\ RunningTotal(z)[n] = 0
  <2>1. \A d \in 0..n : RunningTotal(z)[d] = 0
    BY <1>2, TotalsZero
  <2> QED
    BY <2>1
<1>7. Total(y) = RunningTotal(y)[n] /\ Total(x) = RunningTotal(x)[n] /\ Total(x) \in Int
  BY Totals
<1>8. PICK p \in Int : p = w * Total(x)
  BY <1>7
<1> QED
  BY <1>3, <1>5, <1>6, <1>7, <1>8

LEMMA TotalsSum ==
    ASSUME NEW n \in Nat, NEW x \in [1..n -> Int], NEW y \in [1..n -> Int],
           NEW z \in [1..n -> Int], \A i \in 1..n : z[i] = x[i] + y[i]
    PROVE  Total(z) = Total(x) + Total(y)
<1>1. PICK one \in Int : one = 1
  OBVIOUS
<1>2. \A i \in 1..n : z[i] = x[i] + one * y[i]
  BY <1>1
<1>3. \A d \in 0..n : RunningTotal(z)[d] = RunningTotal(x)[d] + one * RunningTotal(y)[d]
  BY <1>2, TotalsAdd
<1>4. /\ Total(z) = RunningTotal(z)[n] /\ Total(x) = RunningTotal(x)[n]
      /\ Total(y) = RunningTotal(y)[n] /\ Total(y) \in Int
  BY Totals
<1>5. n \in 0..n
  OBVIOUS
<1> QED
  BY <1>1, <1>3, <1>4, <1>5

\* From the other end the totals are what is left of the whole.
LEMMA TotalsReversed ==
    ASSUME NEW n \in Nat, NEW x \in [1..n -> Int], NEW y \in [1..n -> Int],
           \A i \in 1..n : y[i] = x[n - i + 1]
    PROVE  /\ \A d \in 0..n : RunningTotal(y)[d] = Total(x) - RunningTotal(x)[n - d]
           /\ Total(y) = Total(x)
<1>1. PICK r, s : r = RunningTotal(x) /\ s = RunningTotal(y)
  OBVIOUS
<1>2. /\ r[0] = 0 /\ \A i \in 1..n : r[i] = r[i - 1] + x[i] /\ x[i] \in Int
      /\ \A i \in 0..n : r[i] \in Int
      /\ Total(x) = r[n]
  BY <1>1, Totals
<1>3. /\ s[0] = 0 /\ \A i \in 1..n : s[i] = s[i - 1] + y[i]
      /\ \A i \in 0..n : s[i] \in Int
      /\ Total(y) = s[n]
  BY <1>1, Totals
<1> DEFINE T == {i \in 0..n : s[i] = r[n] - r[n - i]}
<1>4. \A i \in 0..n : i \in T
  <2>1. 0 <= n => 0 \in T
    BY <1>2, <1>3
  <2>2. ASSUME NEW i \in (0 + 1)..n, i - 1 \in T PROVE i \in T
    <3>1. i \in 1..n /\ n - i + 1 \in 1..n /\ (n - i + 1) - 1 = n - i
          /\ n - (i - 1) = n - i + 1
      OBVIOUS
    <3>2. r[n - i + 1] = r[n - i] + x[n - i + 1] /\ s[i] = s[i - 1] + x[n - i + 1]
      BY <1>2, <1>3, <3>1
    <3>3. r[n - i + 1] \in Int /\ r[n - i] \in Int /\ r[n] \in Int /\ x[n - i + 1] \in Int
      BY <1>2, <3>1
    <3>4. s[i - 1] = r[n] - r[n - i + 1]
      BY <2>2, <3>1
    <3>5. s[i] = r[n] - r[n - i]
      BY <3>2, <3>3, <3>4, SMTT(20)
    <3> QED
      BY <3>5
  <2>3. 0 \in Int /\ n \in Int
    OBVIOUS
  <2> HIDE DEF T
  <2> QED
    BY <2>1, <2>2, <2>3, IntervalInduction, Zenon
<1>5. s[n] = r[n]
  <2>1. n \in T /\ n - n = 0
    BY <1>4
  <2> QED
    BY <1>2, <2>1
<1> QED
  BY <1>1, <1>2, <1>3, <1>4, <1>5

\* Quotient and remainder by a product.
LEMMA Radix ==
    ASSUME NEW m \in Nat \ {0}, NEW s \in Nat \ {0}, NEW k \in Nat
    PROVE  /\ k % (m * s) = (((k \div m) % s) * m) + (k % m)
           /\ (k % (m * s)) \div m = (k \div m) % s
           /\ (k % (m * s)) % m = k % m
<1> PICK p \in Int : p = m * s
  OBVIOUS
<1>1. PICK q \in Nat, r \in 0..(m - 1) : q = k \div m /\ r = k % m /\ k = q * m + r
  BY DivMod
<1>2. PICK h \in Nat, e \in 0..(s - 1) : h = q \div s /\ e = q % s /\ q = h * s + e
  BY DivMod
<1>3. p \in Nat \ {0}
  BY SMTT(30)
<1>4. PICK c \in Int : c = e * m
  OBVIOUS
<1>5. k = h * p + (c + r)
  <2>1. q * m = (h * s) * m + e * m
    BY <1>2
  <2>2. (h * s) * m = h * p
    OBVIOUS
  <2>3. PICK x \in Int : x = h * p
    BY <1>3
  <2> QED
    BY <1>1, <1>4, <2>1, <2>2, <2>3
<1>6. c + r \in 0..(p - 1)
  <2>1. c \in Nat /\ c + m <= s * m
    <3>1. e \in Nat /\ e < s /\ m \in Nat /\ s \in Nat
      OBVIOUS
    <3>2. e * m \in Nat /\ e * m + m <= s * m
      BY <3>1, Products
    <3> QED
      BY <1>4, <3>2
  <2>2. s * m = p
    OBVIOUS
  <2>3. r \in Nat /\ r < m
    OBVIOUS
  <2> QED
    BY <1>3, <2>1, <2>2, <2>3
<1>7. k % p = c + r
  <2>1. PICK u \in 0..(p - 1) : u = c + r
    BY <1>6
  <2>2. k = h * p + u /\ h \in Int /\ k \in Int
    BY <1>5, <2>1
  <2>3. k % p = u
    BY <1>3, <2>2, Quotient, SMTT(20)
  <2> QED
    BY <2>1, <2>3
<1>8. (c + r) \div m = e /\ (c + r) % m = r
  <2>1. PICK u \in Int : u = c + r
    OBVIOUS
  <2>2. u = e * m + r /\ e \in Int
    BY <1>4, <2>1
  <2>3. u \div m = e /\ u % m = r
    BY <2>2, Quotient
  <2> QED
    BY <2>1, <2>3
<1> QED
  BY <1>1, <1>2, <1>3, <1>4, <1>7, <1>8

\* An array has elements exactly if no dimension is empty.
LEMMA Positive ==
    ASSUME NEW n \in Nat, NEW shape \in [1..n -> Nat]
    PROVE  /\ (\A d \in 1..n : shape[d] > 0) => (\A d \in 0..n : Inner(shape)[d] \in Nat \ {0})
           /\ (Product(shape) > 0) => (\A d \in 1..n : shape[d] > 0)
<1>1. PICK r : r = Inner(shape)
  OBVIOUS
<1>2. /\ r[n] = 1 /\ \A d \in 1..n : r[d - 1] = r[d] * shape[d]
      /\ \A d \in 0..n : r[d] \in Nat
      /\ Product(shape) = r[0]
  BY <1>1, Inners
<1>3. ASSUME \A d \in 1..n : shape[d] > 0
      PROVE  \A d \in 0..n : r[d] \in Nat \ {0}
  <2> DEFINE T == {j \in 0..n : r[n - j] > 0}
  <2>1. \A j \in 0..n : j \in T
    <3>1. 0 <= n => 0 \in T
      BY <1>2
    <3>2. ASSUME NEW j \in (0 + 1)..n, j - 1 \in T PROVE j \in T
      <4>1. n - j + 1 \in 1..n /\ (n - j + 1) - 1 = n - j /\ n - (j - 1) = n - j + 1
        OBVIOUS
      <4>2. r[n - j] = r[n - j + 1] * shape[n - j + 1]
        BY <1>2, <4>1
      <4>3. PICK a \in Nat, b \in Nat : a = r[n - j + 1] /\ b = shape[n - j + 1] /\ a > 0 /\ b > 0
        BY <1>2, <1>3, <3>2, <4>1
      <4>4. a * b > 0
        BY <4>3, SMTT(30)
      <4> QED
        BY <4>2, <4>3, <4>4
    <3>3. 0 \in Int /\ n \in Int
      OBVIOUS
    <3> HIDE DEF T
    <3> QED
      BY <3>1, <3>2, <3>3, IntervalInduction, Zenon
  <2> SUFFICES ASSUME NEW d \in 0..n PROVE r[d] \in Nat \ {0}
    OBVIOUS
  <2>2. n - d \in 0..n /\ n - (n - d) = d
    OBVIOUS
  <2>3. n - d \in T
    BY <2>1, <2>2
  <2> QED
    BY <1>2, <2>2, <2>3
<1>4. ASSUME NEW d \in 1..n, shape[d] = 0 PROVE r[0] = 0
  <2> DEFINE T == {j \in 1..d : r[d - j] = 0}
  <2>1. \A j \in 1..d : j \in T
    <3>1. 1 <= d => 1 \in T
      <4>1. r[d - 1] = r[d] * 0 /\ r[d] \in Nat
        BY <1>2, <1>4
      <4> QED
        BY <4>1
    <3>2. ASSUME NEW j \in (1 + 1)..d, j - 1 \in T PROVE j \in T
      <4>1. d - j + 1 \in 1..n /\ (d - j + 1) - 1 = d - j /\ d - (j - 1) = d - j + 1
        OBVIOUS
      <4>2. r[d - j] = r[d - j + 1] * shape[d - j + 1] /\ shape[d - j + 1] \in Nat
        BY <1>2, <4>1
      <4>3. r[d - j + 1] = 0
        BY <3>2, <4>1
      <4> QED
        BY <4>2, <4>3
    <3>3. 1 \in Int /\ d \in Int
      OBVIOUS
    <3> HIDE DEF T
    <3> QED
      BY <3>1, <3>2, <3>3, IntervalInduction, Zenon
  <2>2. d \in T /\ d - d = 0
    BY <2>1
  <2> QED
    BY <2>2
<1> QED
  BY <1>1, <1>2, <1>3, <1>4

\* A shape turned around has as many elements.
LEMMA ProductReversed ==
    ASSUME NEW n \in Nat, NEW shape \in [1..n -> Nat], NEW turned \in [1..n -> Nat],
           \A i \in 1..n : turned[i] = shape[n - i + 1]
    PROVE  Product(turned) = Product(shape)
<1>1. PICK r, s : r = Inner(shape) /\ s = Inner(turned)
  OBVIOUS
<1>2. /\ r[n] = 1 /\ \A d \in 1..n : r[d - 1] = r[d] * shape[d]
      /\ \A d \in 0..n : r[d] \in Nat
      /\ Product(shape) = r[0]
  BY <1>1, Inners
<1>3. /\ s[n] = 1 /\ \A d \in 1..n : s[d - 1] = s[d] * turned[d]
      /\ \A d \in 0..n : s[d] \in Nat
      /\ Product(turned) = s[0]
  BY <1>1, Inners
<1> DEFINE T == {d \in 0..n : s[n - d] * r[d] = r[0]}
<1>4. \A d \in 0..n : d \in T
  <2>1. 0 <= n => 0 \in T
    BY <1>2, <1>3
  <2>2. ASSUME NEW d \in (0 + 1)..n, d - 1 \in T PROVE d \in T
    <3>1. n - d + 1 \in 1..n /\ (n - d + 1) - 1 = n - d /\ n - (d - 1) = n - d + 1
          /\ n - (n - d + 1) + 1 = d /\ d \in 1..n
      OBVIOUS
    <3> s[n - d + 1] \in Nat /\ r[d] \in Nat /\ shape[d] \in Nat
      BY <1>2, <1>3, <3>1
    <3>2. PICK a \in Nat, b \in Nat, c \in Nat : a = s[n - d + 1] /\ b = r[d] /\ c = shape[d]
      OBVIOUS
    <3>3. s[n - d] = a * c /\ r[d - 1] = b * c
      BY <1>2, <1>3, <3>1, <3>2
    <3>4. a * (b * c) = r[0]
      BY <2>2, <3>1, <3>2, <3>3
    <3>5. (a * c) * b = a * (b * c)
      OBVIOUS
    <3> QED
      BY <3>2, <3>3, <3>4, <3>5
  <2>3. 0 \in Int /\ n \in Int
    OBVIOUS
  <2> HIDE DEF T
  <2> QED
    BY <2>1, <2>2, <2>3, IntervalInduction, Zenon
<1>5. s[0] * 1 = r[0]
  <2>1. n \in T /\ n - n = 0
    BY <1>4
  <2> QED
    BY <1>2, <2>1
<1> QED
  BY <1>2, <1>3, <1>5

-----------------------------------------------------------------------------
(* Layouts: shapes and strides. *)

\* How far the elements of each dimension reach from the first one.
Reach(shape, strides) == [d \in DOMAIN shape |-> (shape[d] - 1) * strides[d]]

\* Each stride steps over everything in the dimensions behind it, or over
\* everything in the dimensions in front of it.
Outward(shape, strides, width) ==
    \A d \in DOMAIN shape :
        strides[d] >= width + Total(Reach(shape, strides)) - RunningTotal(Reach(shape, strides))[d]

Inward(shape, strides, width) ==
    \A d \in DOMAIN shape :
        strides[d] >= width + RunningTotal(Reach(shape, strides))[d - 1]

Nested(shape, strides, width) ==
    Outward(shape, strides, width) \/ Inward(shape, strides, width)

\* The reach of every dimension is a number of bits, and so are its totals.
LEMMA Reaches ==
    ASSUME NEW n \in Nat, NEW shape \in [1..n -> Nat \ {0}], NEW strides \in [1..n -> Nat]
    PROVE  /\ Reach(shape, strides) \in [1..n -> Nat]
           /\ Reach(shape, strides) \in [1..n -> Int]
           /\ \A d \in 1..n : Reach(shape, strides)[d] = (shape[d] - 1) * strides[d]
           /\ \A d \in 0..n : /\ RunningTotal(Reach(shape, strides))[d] \in Nat
                              /\ Total(Reach(shape, strides))
                                   - RunningTotal(Reach(shape, strides))[d] \in Nat
<1>1. PICK x : x = Reach(shape, strides)
  OBVIOUS
<1>2. x = [d \in 1..n |-> (shape[d] - 1) * strides[d]]
  BY <1>1 DEF Reach
<1>3. ASSUME NEW d \in 1..n PROVE (shape[d] - 1) * strides[d] \in Nat
  <2>1. shape[d] - 1 \in Nat /\ strides[d] \in Nat
    OBVIOUS
  <2> QED
    BY <2>1, Products
<1>4. x \in [1..n -> Nat] /\ x \in [1..n -> Int]
  BY <1>2, <1>3
<1>5. PICK z : z = [d \in 1..n |-> 0]
  OBVIOUS
<1>6. z \in [1..n -> Int] /\ \A d \in 1..n : z[d] = 0 /\ z[d] <= x[d]
  BY <1>4, <1>5
<1>7. PICK r, s : r = RunningTotal(x) /\ s = RunningTotal(z)
  OBVIOUS
<1>8. /\ r[0] = 0 /\ \A i \in 1..n : r[i] = r[i - 1] + x[i]
      /\ \A i \in 0..n : r[i] \in Int
      /\ Total(x) = r[n]
  BY <1>4, <1>7, Totals
<1>9. \A d \in 0..n : s[d] = 0
  BY <1>6, <1>7, TotalsZero
<1>10. ASSUME NEW d \in 0..n, NEW e \in d..n PROVE s[e] - s[d] <= r[e] - r[d]
  <2>1. \A i \in (d + 1)..e : z[i] <= x[i]
    BY <1>6
  <2> QED
    BY <1>4, <1>6, <1>7, <2>1, TotalsGrow
<1>11. ASSUME NEW d \in 0..n PROVE r[d] \in Nat /\ r[n] - r[d] \in Nat
  <2>1. 0 \in 0..n /\ d \in 0..n /\ n \in d..n /\ n \in 0..n
    OBVIOUS
  <2>2. s[d] - s[0] <= r[d] - r[0] /\ s[n] - s[d] <= r[n] - r[d]
    BY <1>10, <2>1
  <2> QED
    BY <1>8, <1>9, <2>1, <2>2
<1> QED
  BY <1>1, <1>2, <1>4, <1>7, <1>8, <1>11

\* One more dimension around a part that takes at least width bits for each
\* of its elements.
LEMMA VolumeStep ==
    ASSUME NEW size \in Nat \ {0}, NEW stride \in Nat, NEW width \in Nat, NEW part \in Nat,
           NEW inside \in Nat, stride >= width + part, part + width >= width * inside
    PROVE  part + (size - 1) * stride + width >= width * (inside * size)
<1>1. PICK b \in Nat : b = part + width
  OBVIOUS
<1>2. (size - 1) * b <= (size - 1) * stride
  <2>1. b <= stride /\ size - 1 \in Nat /\ b \in Nat /\ stride \in Nat
    BY <1>1
  <2>2. b * (size - 1) <= stride * (size - 1)
    BY <2>1, Products
  <2> QED
    BY <2>2
<1>3. PICK v \in Nat : v = width * inside
  BY Products
<1>4. v * size <= b * size
  BY <1>1, <1>3, Products
<1>5. width * (inside * size) = v * size
  BY <1>3
<1>6. (size - 1) * b = b * size - b
  OBVIOUS
<1>7. PICK p \in Int, q \in Int : p = b * size /\ q = (size - 1) * stride
  OBVIOUS
<1> QED
  BY <1>1, <1>2, <1>4, <1>5, <1>6, <1>7

\* Where each stride steps over all that is behind it, the elements have room:
\* as many as there are, one behind the other, reach no further.
LEMMA OutwardVolume ==
    ASSUME NEW n \in Nat, NEW shape \in [1..n -> Nat \ {0}], NEW strides \in [1..n -> Nat],
           NEW width \in Nat, Outward(shape, strides, width)
    PROVE  width * Product(shape) <= Total(Reach(shape, strides)) + width
<1>1. PICK x, r, inner : /\ x = Reach(shape, strides) /\ r = RunningTotal(x)
                         /\ inner = Inner(shape)
  OBVIOUS
<1>2. /\ x \in [1..n -> Int] /\ \A d \in 1..n : x[d] = (shape[d] - 1) * strides[d]
      /\ \A d \in 0..n : r[d] \in Nat /\ Total(x) - r[d] \in Nat
  BY <1>1, Reaches
<1>3. /\ \A i \in 1..n : r[i] = r[i - 1] + x[i]
      /\ Total(x) = r[n]
  BY <1>1, <1>2, Totals
<1>4. /\ inner[n] = 1 /\ \A d \in 1..n : inner[d - 1] = inner[d] * shape[d]
      /\ \A d \in 0..n : inner[d] \in Nat
      /\ Product(shape) = inner[0]
  <2>1. shape \in [1..n -> Nat]
    OBVIOUS
  <2> QED
    BY <1>1, <2>1, Inners
<1>5. \A d \in 1..n : strides[d] >= width + Total(x) - r[d]
  BY <1>1 DEF Outward
<1> DEFINE T == {j \in 0..n : r[n] - r[n - j] + width >= width * inner[n - j]}
<1>6. \A j \in 0..n : j \in T
  <2>1. 0 <= n => 0 \in T
    BY <1>2, <1>4
  <2>2. ASSUME NEW j \in (0 + 1)..n, j - 1 \in T PROVE j \in T
    <3>1. PICK d \in 1..n : d = n - j + 1
      OBVIOUS
    <3>2. n - j = d - 1 /\ n - (j - 1) = d /\ d \in 0..n /\ d - 1 \in 0..n
      BY <3>1
    <3>3. PICK size \in Nat \ {0}, stride \in Nat : size = shape[d] /\ stride = strides[d]
      OBVIOUS
    <3>4. PICK part \in Nat : part = r[n] - r[d]
      BY <1>2, <1>3, <3>2
    <3>5. PICK inside \in Nat : inside = inner[d]
      BY <1>4, <3>2
    <3>6. stride >= width + part
      <4>1. r[d] \in Int /\ r[n] \in Int
        BY <1>2, <3>2
      <4> QED
        BY <1>3, <1>5, <3>3, <3>4, <4>1
    <3>7. part + width >= width * inside
      BY <2>2, <3>2, <3>4, <3>5
    <3>8. part + (size - 1) * stride + width >= width * (inside * size)
      BY <3>6, <3>7, VolumeStep
    <3>9. PICK y \in Int : y = (size - 1) * stride /\ r[d] = r[d - 1] + y
      BY <1>2, <1>3, <3>3
    <3>10. r[n] - r[d - 1] = part + y
      <4>1. r[d] \in Int /\ r[n] \in Int /\ r[d - 1] \in Int
        BY <1>2, <3>2
      <4> QED
        BY <3>4, <3>9, <4>1, SMTT(20)
    <3>11. inner[d - 1] = inside * size
      BY <1>4, <3>3, <3>5
    <3>12. PICK z \in Int : z = width * (inside * size)
      OBVIOUS
    <3>13. part + y + width >= z
      BY <3>8, <3>9, <3>12
    <3>14. r[n] \in Int /\ r[n - j] \in Int /\ r[n] - r[n - j] = part + y
      <4>1. n \in 0..n /\ n - j \in 0..n
        OBVIOUS
      <4>2. r[n] \in Nat /\ r[n - j] \in Nat
        BY <1>2, <4>1
      <4>3. r[n - j] = r[d - 1]
        BY <3>2
      <4> QED
        BY <3>10, <4>2, <4>3
    <3>15. width * inner[n - j] = z
      BY <3>2, <3>11, <3>12
    <3> QED
      BY <3>13, <3>14, <3>15
  <2>3. 0 \in Int /\ n \in Int
    OBVIOUS
  <2> HIDE DEF T
  <2> QED
    BY <2>1, <2>2, <2>3, IntervalInduction, Zenon
<1>7. r[n] - r[0] + width >= width * inner[0]
  <2>1. n \in T /\ n - n = 0
    BY <1>6
  <2> QED
    BY <2>1
<1>8. r[0] = 0 /\ r[n] \in Nat
  BY <1>1, <1>2, Totals
<1> QED
  <2>1. width * inner[0] \in Int
    BY <1>4
  <2> QED
    BY <1>1, <1>3, <1>4, <1>7, <1>8, <2>1

\* A layout turned around: what lay behind each dimension lies in front of it.
LEMMA Turned ==
    ASSUME NEW n \in Nat, NEW shape \in [1..n -> Nat \ {0}], NEW strides \in [1..n -> Nat],
           NEW tshape \in [1..n -> Nat \ {0}], NEW tstrides \in [1..n -> Nat],
           NEW width \in Nat,
           \A i \in 1..n : tshape[i] = shape[n - i + 1] /\ tstrides[i] = strides[n - i + 1]
    PROVE  /\ Total(Reach(tshape, tstrides)) = Total(Reach(shape, strides))
           /\ Outward(shape, strides, width) => Inward(tshape, tstrides, width)
           /\ Inward(shape, strides, width) => Outward(tshape, tstrides, width)
<1>1. PICK x, y : x = Reach(shape, strides) /\ y = Reach(tshape, tstrides)
  OBVIOUS
<1>2. PICK r, s : r = RunningTotal(x) /\ s = RunningTotal(y)
  OBVIOUS
<1>3. /\ x \in [1..n -> Int] /\ \A d \in 1..n : x[d] = (shape[d] - 1) * strides[d]
      /\ \A d \in 0..n : r[d] \in Nat
  BY <1>1, <1>2, Reaches
<1>4. y \in [1..n -> Int] /\ \A d \in 1..n : y[d] = (tshape[d] - 1) * tstrides[d]
  BY <1>1, Reaches, ZenonT(30)
<1>5. \A i \in 1..n : y[i] = x[n - i + 1]
  BY <1>3, <1>4
<1>6. /\ \A d \in 0..n : s[d] = Total(x) - r[n - d]
      /\ Total(y) = Total(x)
  BY <1>2, <1>3, <1>4, <1>5, TotalsReversed, ZenonT(30)
<1>7. Total(x) \in Int
  BY <1>2, <1>3, Totals
<1>8. ASSUME Outward(shape, strides, width) PROVE Inward(tshape, tstrides, width)
  <2>1. \A d \in 1..n : strides[d] >= width + Total(x) - r[d]
    BY <1>1, <1>2, <1>8 DEF Outward
  <2>2. ASSUME NEW d \in 1..n PROVE tstrides[d] >= width + s[d - 1]
    <3>1. n - d + 1 \in 1..n /\ d - 1 \in 0..n /\ n - (d - 1) = n - d + 1
      OBVIOUS
    <3>2. s[d - 1] = Total(x) - r[n - d + 1] /\ r[n - d + 1] \in Int
      BY <1>3, <1>6, <3>1
    <3>3. strides[n - d + 1] >= width + Total(x) - r[n - d + 1]
      BY <2>1, <3>1
    <3> QED
      BY <1>7, <3>2, <3>3
  <2> QED
    BY <1>1, <1>2, <2>2 DEF Inward
<1>9. ASSUME Inward(shape, strides, width) PROVE Outward(tshape, tstrides, width)
  <2>1. \A d \in 1..n : strides[d] >= width + r[d - 1]
    BY <1>1, <1>2, <1>9 DEF Inward
  <2>2. ASSUME NEW d \in 1..n PROVE tstrides[d] >= width + Total(y) - s[d]
    <3>1. n - d + 1 \in 1..n /\ d \in 0..n /\ (n - d + 1) - 1 = n - d /\ n - d \in 0..n
      OBVIOUS
    <3>2. s[d] = Total(x) - r[n - d] /\ r[n - d] \in Int
      BY <1>3, <1>6, <3>1
    <3>3. strides[n - d + 1] >= width + r[n - d]
      BY <2>1, <3>1
    <3> QED
      BY <1>6, <1>7, <3>2, <3>3
  <2> QED
    BY <1>1, <1>2, <2>2 DEF Outward
<1> QED
  BY <1>1, <1>6, <1>8, <1>9

\* The elements of a nested layout have room.
LEMMA Volume ==
    ASSUME NEW n \in Nat, NEW shape \in [1..n -> Nat \ {0}], NEW strides \in [1..n -> Nat],
           NEW width \in Nat, Nested(shape, strides, width)
    PROVE  width * Product(shape) <= Total(Reach(shape, strides)) + width
<1>1. CASE Outward(shape, strides, width)
  BY <1>1, OutwardVolume
<1>2. CASE Inward(shape, strides, width)
  <2>1. PICK tshape, tstrides : /\ tshape = [i \in 1..n |-> shape[n - i + 1]]
                                /\ tstrides = [i \in 1..n |-> strides[n - i + 1]]
    OBVIOUS
  <2>2. \A i \in 1..n : n - i + 1 \in 1..n
    OBVIOUS
  <2>3. /\ tshape \in [1..n -> Nat \ {0}] /\ tstrides \in [1..n -> Nat]
        /\ \A i \in 1..n : tshape[i] = shape[n - i + 1] /\ tstrides[i] = strides[n - i + 1]
    BY <2>1, <2>2
  <2>4. /\ Total(Reach(tshape, tstrides)) = Total(Reach(shape, strides))
        /\ Outward(tshape, tstrides, width)
    <3>1. /\ Total(Reach(tshape, tstrides)) = Total(Reach(shape, strides))
          /\ Outward(shape, strides, width) => Inward(tshape, tstrides, width)
          /\ Inward(shape, strides, width) => Outward(tshape, tstrides, width)
      <4>1. tshape \in [1..n -> Nat \ {0}]
        BY <2>3
      <4>2. tstrides \in [1..n -> Nat]
        BY <2>3
      <4>3. \A i \in 1..n : tshape[i] = shape[n - i + 1] /\ tstrides[i] = strides[n - i + 1]
        BY <2>3
      <4> QED
        BY <4>1, <4>2, <4>3, Turned
    <3> QED
      BY <1>2, <3>1
  <2>5. width * Product(tshape) <= Total(Reach(tshape, tstrides)) + width
    BY <2>3, <2>4, OutwardVolume
  <2>6. Product(tshape) = Product(shape)
    <3>1. tshape \in [1..n -> Nat] /\ shape \in [1..n -> Nat]
      BY <2>3
    <3> QED
      BY <2>3, <3>1, ProductReversed, ZenonT(30)
  <2> QED
    BY <2>4, <2>5, <2>6
<1> QED
  BY <1>1, <1>2 DEF Nested

\* A row-major layout is nested, and its elements fill the room they reach.
LEMMA RowMajor ==
    ASSUME NEW n \in Nat, NEW shape \in [1..n -> Nat \ {0}], NEW width \in Nat
    PROVE  /\ RowMajorBitStrides(shape, width) \in [1..n -> Nat]
           /\ \A d \in 1..n : RowMajorBitStrides(shape, width)[d] = Inner(shape)[d] * width
           /\ Nested(shape, RowMajorBitStrides(shape, width), width)
           /\ Total(Reach(shape, RowMajorBitStrides(shape, width))) + width
                = width * Product(shape)
<1> DEFINE strides == RowMajorBitStrides(shape, width)
<1>1. PICK inner : inner = Inner(shape)
  OBVIOUS
<1>2. /\ inner[n] = 1 /\ \A d \in 1..n : inner[d - 1] = inner[d] * shape[d]
      /\ \A d \in 0..n : inner[d] \in Nat
      /\ Product(shape) = inner[0]
  <2>1. shape \in [1..n -> Nat]
    OBVIOUS
  <2> QED
    BY <1>1, <2>1, Inners
<1>3. strides = [d \in 1..n |-> inner[d] * width]
  BY <1>1 DEF RowMajorBitStrides
<1> HIDE DEF strides
<1>4. ASSUME NEW d \in 1..n PROVE inner[d] * width \in Nat
  <2>1. inner[d] \in Nat
    BY <1>2
  <2> QED
    BY <2>1, Products
<1>5. strides \in [1..n -> Nat] /\ \A d \in 1..n : strides[d] = inner[d] * width
  BY <1>3, <1>4
<1>6. PICK x, r : x = Reach(shape, strides) /\ r = RunningTotal(x)
  OBVIOUS
<1>7. /\ x \in [1..n -> Int] /\ \A d \in 1..n : x[d] = (shape[d] - 1) * strides[d]
  BY <1>5, <1>6, Reaches
<1>8. /\ r[0] = 0 /\ \A i \in 1..n : r[i] = r[i - 1] + x[i]
      /\ \A i \in 0..n : r[i] \in Int
      /\ Total(x) = r[n]
  BY <1>6, <1>7, Totals
<1> DEFINE T == {d \in 0..n : r[d] = width * inner[0] - width * inner[d]}
<1>9. \A d \in 0..n : d \in T
  <2>1. 0 <= n => 0 \in T
    <3>1. width * inner[0] \in Int
      BY <1>2
    <3> QED
      BY <1>8, <3>1
  <2>2. ASSUME NEW d \in (0 + 1)..n, d - 1 \in T PROVE d \in T
    <3>1. d \in 1..n /\ d \in 0..n /\ d - 1 \in 0..n /\ 0 \in 0..n
      OBVIOUS
    <3> inner[d] \in Nat /\ inner[0] \in Nat
      BY <1>2, <3>1
    <3>2. PICK i \in Nat, s \in Nat, whole \in Int :
             i = inner[d] /\ s = shape[d] /\ whole = width * inner[0]
      OBVIOUS
    <3>3. x[d] = (s - 1) * (i * width) /\ inner[d - 1] = i * s
      BY <1>2, <1>5, <1>7, <3>1, <3>2
    <3>4. (s - 1) * (i * width) = width * (i * s) - width * i
      OBVIOUS
    <3>5. PICK p \in Int, q \in Int : p = width * (i * s) /\ q = width * i
      OBVIOUS
    <3>6. r[d] = r[d - 1] + x[d] /\ r[d - 1] = whole - p
      BY <1>8, <2>2, <3>1, <3>2, <3>3, <3>5
    <3>7. r[d] = whole - q
      BY <3>3, <3>4, <3>5, <3>6
    <3> QED
      BY <3>1, <3>2, <3>5, <3>7
  <2>3. 0 \in Int /\ n \in Int
    OBVIOUS
  <2> HIDE DEF T
  <2> QED
    BY <2>1, <2>2, <2>3, IntervalInduction, Zenon
<1>10. PICK whole \in Int : whole = width * inner[0]
  BY <1>2
<1>11. Total(x) = whole - width
  <2>1. n \in T
    BY <1>9
  <2>2. r[n] = whole - width * 1
    BY <1>2, <1>10, <2>1
  <2> QED
    BY <1>8, <2>2
<1>12. ASSUME NEW d \in 1..n PROVE strides[d] >= width + Total(x) - r[d]
  <2>1. d \in T /\ inner[d] \in Nat
    BY <1>2, <1>9
  <2>2. PICK q \in Int : q = width * inner[d]
    BY <2>1
  <2>3. r[d] = whole - q
    BY <1>10, <2>1, <2>2
  <2>4. strides[d] = q
    BY <1>5, <2>1, <2>2
  <2> QED
    BY <1>11, <2>3, <2>4
<1>13. Nested(shape, strides, width)
  BY <1>6, <1>12 DEF Nested, Outward
<1> QED
  BY <1>1, <1>2, <1>5, <1>6, <1>10, <1>11, <1>13 DEF strides

-----------------------------------------------------------------------------
(* Coordinates and where they lead. *)

\* The coordinates of the elements of a shape, dimension by dimension.
LEMMA Boxes ==
    ASSUME NEW n \in Nat, NEW shape \in [1..n -> Nat], NEW c
    PROVE  c \in Box(shape) <=> /\ c \in [1..n -> Nat]
                                /\ \A d \in 1..n : c[d] < shape[d]
<1>1. ASSUME c \in Box(shape)
      PROVE  c \in [1..n -> Nat] /\ \A d \in 1..n : c[d] < shape[d]
  <2>1. /\ c \in [1..n -> UNION {0..(shape[d] - 1) : d \in 1..n}]
        /\ \A d \in 1..n : c[d] \in 0..(shape[d] - 1)
    BY <1>1 DEF Box
  <2>2. \A d \in 1..n : c[d] \in Nat /\ c[d] < shape[d]
    BY <2>1
  <2>3. c = [d \in 1..n |-> c[d]]
    BY <2>1
  <2> QED
    BY <2>2, <2>3
<1>2. ASSUME c \in [1..n -> Nat], \A d \in 1..n : c[d] < shape[d]
      PROVE  c \in Box(shape)
  <2>1. \A d \in 1..n : c[d] \in 0..(shape[d] - 1)
    BY <1>2
  <2>2. c \in [1..n -> UNION {0..(shape[d] - 1) : d \in 1..n}]
    BY <1>2, <2>1
  <2> QED
    BY <2>1, <2>2 DEF Box
<1> QED
  BY <1>1, <1>2

\* What a coordinate adds to the place of an element, and the place.
Moves(strides, c) == [d \in DOMAIN strides |-> c[d] * strides[d]]

LEMMA MovesTyped ==
    ASSUME NEW n \in Nat, NEW strides \in [1..n -> Nat], NEW c \in [1..n -> Nat]
    PROVE  /\ Moves(strides, c) \in [1..n -> Int]
           /\ \A d \in 1..n : Moves(strides, c)[d] = c[d] * strides[d]
           /\ \A d \in 1..n : Moves(strides, c)[d] \in Nat
<1>1. PICK x : x = Moves(strides, c)
  OBVIOUS
<1>2. x = [d \in 1..n |-> c[d] * strides[d]]
  BY <1>1 DEF Moves
<1>3. ASSUME NEW d \in 1..n PROVE c[d] * strides[d] \in Nat
  <2>1. c[d] \in Nat /\ strides[d] \in Nat
    OBVIOUS
  <2> QED
    BY <2>1, Products
<1>4. x \in [1..n -> Int]
  BY <1>2, <1>3
<1> QED
  BY <1>1, <1>2, <1>3, <1>4

LEMMA PlaceOfMoves ==
    ASSUME NEW strides, NEW c, NEW offset
    PROVE  Place(strides, offset, c) = offset + Total(Moves(strides, c))
BY Zenon DEF Place, Moves

\* An element lies no further than its layout reaches.
LEMMA PlaceWithin ==
    ASSUME NEW n \in Nat, NEW shape \in [1..n -> Nat], NEW strides \in [1..n -> Nat],
           NEW c \in Box(shape), NEW offset \in Int
    PROVE  /\ shape \in [1..n -> Nat \ {0}]
           /\ Place(strides, offset, c) \in Int
           /\ offset <= Place(strides, offset, c)
           /\ Place(strides, offset, c) <= offset + Total(Reach(shape, strides))
<1>1. c \in [1..n -> Nat] /\ \A d \in 1..n : c[d] < shape[d]
  BY Boxes
<1>2. shape \in [1..n -> Nat \ {0}]
  <2>1. \A d \in 1..n : shape[d] \in Nat /\ c[d] \in Nat /\ c[d] < shape[d]
    BY <1>1
  <2>2. \A d \in 1..n : shape[d] \in Nat \ {0}
    BY <2>1, SMTT(20)
  <2> QED
    BY <2>2
<1> DEFINE m == Moves(strides, c)
           x == Reach(shape, strides)
<1>3. Place(strides, offset, c) = offset + Total(m)
  BY PlaceOfMoves, Zenon
<1>4. m \in [1..n -> Int] /\ \A d \in 1..n : m[d] = c[d] * strides[d] /\ m[d] \in Nat
  BY <1>1, MovesTyped
<1>5. x \in [1..n -> Int] /\ \A d \in 1..n : x[d] = (shape[d] - 1) * strides[d]
  BY <1>2, Reaches
<1> HIDE DEF m, x
<1>6. ASSUME NEW d \in 1..n PROVE 0 <= m[d] /\ m[d] <= x[d]
  <2>1. PICK a \in Nat, b \in Nat, t \in Nat : a = c[d] /\ b = shape[d] - 1 /\ t = strides[d]
                                               /\ a <= b
    BY <1>1, <1>2
  <2>2. a * t <= b * t
    BY <2>1, Products
  <2> QED
    BY <1>4, <1>5, <2>1, <2>2
<1>7. PICK z : z = [d \in 1..n |-> 0]
  OBVIOUS
<1>8. z \in [1..n -> Int] /\ \A d \in 1..n : z[d] = 0
  BY <1>7
<1>9. PICK r, s, t : r = RunningTotal(m) /\ s = RunningTotal(x) /\ t = RunningTotal(z)
  OBVIOUS
<1>10. r[0] = 0 /\ Total(m) = r[n] /\ Total(m) \in Int
  BY <1>4, <1>9, Totals
<1>11. s[0] = 0 /\ Total(x) = s[n] /\ Total(x) \in Int
  BY <1>5, <1>9, Totals
<1>12. r[n] - r[0] <= s[n] - s[0]
  <2>1. 0 \in 0..n /\ n \in 0..n /\ \A i \in (0 + 1)..n : m[i] <= x[i]
    BY <1>6
  <2> QED
    BY <1>4, <1>5, <1>9, <2>1, TotalsGrow
<1>13. 0 <= r[n]
  <2>1. \A d \in 0..n : t[d] = 0
    BY <1>8, <1>9, TotalsZero
  <2>2. t[n] - t[0] <= r[n] - r[0]
    <3>1. 0 \in 0..n /\ n \in 0..n /\ \A i \in (0 + 1)..n : z[i] <= m[i]
      BY <1>6, <1>8
    <3> QED
      BY <1>4, <1>8, <1>9, <3>1, TotalsGrow
  <2>3. n \in 0..n /\ 0 \in 0..n
    OBVIOUS
  <2> QED
    BY <1>10, <2>1, <2>2, <2>3
<1>14. 0 <= Total(m) /\ Total(m) <= Total(x)
  BY <1>10, <1>11, <1>12, <1>13
<1> QED
  BY <1>2, <1>3, <1>10, <1>11, <1>14, SMTT(20) DEF x

\* Row by row, a flat position gives the coordinates of one element, and they
\* give the position.
LEMMA PositionOfCoordinates ==
    ASSUME NEW n \in Nat, NEW shape \in [1..n -> Nat], NEW k \in 0..(Product(shape) - 1)
    PROVE  /\ Coordinates(shape, k) \in Box(shape)
           /\ Position(shape, Coordinates(shape, k)) = k
<1>1. PICK inner : inner = Inner(shape)
  OBVIOUS
<1>2. /\ inner[n] = 1 /\ \A d \in 1..n : inner[d - 1] = inner[d] * shape[d]
      /\ Product(shape) = inner[0]
  BY <1>1, Inners
<1>3. inner[0] \in Nat /\ k \in Nat /\ k < inner[0]
  <2>1. inner[0] \in Nat
    BY <1>1, Inners
  <2> QED
    BY <1>2, <2>1
<1>4. (\A d \in 1..n : shape[d] > 0) /\ \A d \in 0..n : inner[d] \in Nat \ {0}
  <2>1. Product(shape) > 0
    BY <1>2, <1>3
  <2>2. \A d \in 1..n : shape[d] > 0
    BY <2>1, Positive, Zenon
  <2>3. \A d \in 0..n : Inner(shape)[d] \in Nat \ {0}
    BY <2>2, Positive, Zenon
  <2> QED
    BY <1>1, <2>2, <2>3
<1>5. PICK c : c = Coordinates(shape, k)
  OBVIOUS
<1>6. c = [d \in 1..n |-> (k \div inner[d]) % shape[d]]
  BY <1>1, <1>5 DEF Coordinates
<1>7. ASSUME NEW d \in 1..n
      PROVE  (k \div inner[d]) % shape[d] \in Nat /\ (k \div inner[d]) % shape[d] < shape[d]
  <2>1. inner[d] \in Nat \ {0} /\ shape[d] \in Nat \ {0}
    BY <1>4
  <2>2. k \div inner[d] \in Nat
    BY <1>3, <2>1, DivMod
  <2>3. (k \div inner[d]) % shape[d] \in 0..(shape[d] - 1)
    BY <2>1, <2>2, DivMod
  <2> QED
    BY <2>1, <2>3
<1>8. c \in [1..n -> Nat] /\ \A d \in 1..n : c[d] < shape[d]
  BY <1>6, <1>7
<1>9. c \in Box(shape)
  BY <1>8, Boxes
<1>10. PICK x : x = [d \in 1..n |-> c[d] * inner[d]]
  OBVIOUS
<1>11. Position(shape, c) = Total(x)
  BY <1>1, <1>10 DEF Position
<1>12. x \in [1..n -> Int] /\ \A d \in 1..n : x[d] = c[d] * inner[d]
  <2>1. \A d \in 1..n : inner[d] \in Int /\ c[d] \in Int
    BY <1>4, <1>8
  <2> QED
    BY <1>10, <2>1
<1>13. PICK r : r = RunningTotal(x)
  OBVIOUS
<1>14. /\ r[0] = 0 /\ \A i \in 1..n : r[i] = r[i - 1] + x[i]
       /\ Total(x) = r[n]
  BY <1>12, <1>13, Totals
<1> DEFINE T == {d \in 0..n : r[d] = k - (k % inner[d])}
<1>15. \A d \in 0..n : d \in T
  <2>1. 0 <= n => 0 \in T
    <3>1. k % inner[0] = k
      <4>1. inner[0] \in Nat \ {0}
        BY <1>4
      <4> QED
        BY <1>3, <4>1, Below
    <3>2. r[0] = 0 /\ k \in Int /\ k - k = 0
      BY <1>3, <1>14
    <3> QED
      BY <3>1, <3>2
  <2>2. ASSUME NEW d \in (0 + 1)..n, d - 1 \in T PROVE d \in T
    <3>1. d \in 1..n /\ d \in 0..n /\ d - 1 \in 0..n
      OBVIOUS
    <3> inner[d] \in Nat \ {0} /\ shape[d] \in Nat \ {0}
      BY <1>4, <3>1
    <3>2. PICK m \in Nat \ {0}, s \in Nat \ {0} : m = inner[d] /\ s = shape[d]
      OBVIOUS
    <3>3. PICK p \in Int : p = m * s
      OBVIOUS
    <3>4. p = inner[d - 1]
      BY <1>2, <3>1, <3>2, <3>3
    <3>5. k % p = (((k \div m) % s) * m) + (k % m)
      <4>1. PICK l \in Nat : l = k
        BY <1>3
      <4>2. l % (m * s) = (((l \div m) % s) * m) + (l % m)
        BY Radix, ZenonT(30)
      <4> QED
        BY <3>3, <4>1, <4>2
    <3>6. x[d] = ((k \div m) % s) * m
      BY <1>6, <1>12, <3>1, <3>2
    <3>7. k % m \in Int /\ x[d] \in Int
      <4>1. k % m \in 0..(m - 1)
        BY <1>3, DivMod
      <4> QED
        BY <1>12, <3>1, <4>1
    <3>8. r[d] = r[d - 1] + x[d] /\ r[d - 1] = k - (k % p)
      BY <1>14, <2>2, <3>1, <3>4
    <3>9. k % p = x[d] + (k % m)
      BY <3>5, <3>6
    <3>10. r[d] = k - (k % m)
      BY <1>3, <3>7, <3>8, <3>9, SMTT(20)
    <3> QED
      BY <3>1, <3>2, <3>10
  <2>3. 0 \in Int /\ n \in Int
    OBVIOUS
  <2> HIDE DEF T
  <2> QED
    BY <2>1, <2>2, <2>3, IntervalInduction, Zenon
<1>16. r[n] = k
  <2>1. n \in T
    BY <1>15
  <2>2. k % 1 = 0
    BY <1>3
  <2> QED
    BY <1>2, <1>3, <2>1, <2>2
<1> QED
  BY <1>5, <1>9, <1>11, <1>14, <1>16

\* In a row-major layout the element at a position is that many elements
\* behind the first.
LEMMA RowMajorPlace ==
    ASSUME NEW n \in Nat, NEW shape \in [1..n -> Nat], NEW width \in Nat,
           NEW c \in Box(shape), NEW offset \in Int
    PROVE  /\ Position(shape, c) \in 0..(Product(shape) - 1)
           /\ Place(RowMajorBitStrides(shape, width), offset, c)
                = offset + Position(shape, c) * width
<1>1. c \in [1..n -> Nat] /\ \A d \in 1..n : c[d] < shape[d]
  BY Boxes
<1>2. shape \in [1..n -> Nat \ {0}]
  <2>1. \A d \in 1..n : shape[d] \in Nat /\ c[d] \in Nat /\ c[d] < shape[d]
    BY <1>1
  <2>2. \A d \in 1..n : shape[d] \in Nat \ {0}
    BY <2>1
  <2> QED
    BY <2>2
<1>3. PICK inner : inner = Inner(shape)
  OBVIOUS
<1>4. \A d \in 0..n : inner[d] \in Nat
  BY <1>3, Inners
<1>5. PICK one \in Nat : one = 1
  OBVIOUS
<1> DEFINE ones == RowMajorBitStrides(shape, one)
           strides == RowMajorBitStrides(shape, width)
<1>6. /\ ones \in [1..n -> Nat] /\ \A d \in 1..n : ones[d] = inner[d] * one
      /\ Total(Reach(shape, ones)) + one = one * Product(shape)
  <2>1. ones \in [1..n -> Nat]
    BY <1>2, RowMajor, Zenon
  <2>2. \A d \in 1..n : ones[d] = Inner(shape)[d] * one
    BY <1>2, RowMajor, Zenon
  <2>3. Total(Reach(shape, ones)) + one = one * Product(shape)
    BY <1>2, RowMajor, Zenon
  <2> HIDE DEF ones
  <2> QED
    BY <1>3, <2>1, <2>2, <2>3
<1>7. strides \in [1..n -> Nat] /\ \A d \in 1..n : strides[d] = inner[d] * width
  <2>1. strides \in [1..n -> Nat]
    BY <1>2, RowMajor, Zenon
  <2>2. \A d \in 1..n : strides[d] = Inner(shape)[d] * width
    BY <1>2, RowMajor, Zenon
  <2> HIDE DEF strides
  <2> QED
    BY <1>3, <2>1, <2>2
<1> HIDE DEF ones, strides
<1>8. PICK zero \in Int : zero = 0
  OBVIOUS
<1> DEFINE x == Moves(ones, c)
           y == Moves(strides, c)
<1>9. /\ x \in [1..n -> Int] /\ \A d \in 1..n : x[d] = c[d] * ones[d]
      /\ Place(ones, zero, c) = zero + Total(x)
  <2>1. Place(ones, zero, c) = zero + Total(x)
    BY PlaceOfMoves, Zenon
  <2> QED
    BY <1>1, <1>6, <2>1, MovesTyped
<1>10. /\ y \in [1..n -> Int] /\ \A d \in 1..n : y[d] = c[d] * strides[d]
       /\ Place(strides, offset, c) = offset + Total(y)
  <2>1. Place(strides, offset, c) = offset + Total(y)
    BY PlaceOfMoves, Zenon
  <2> QED
    BY <1>1, <1>7, <2>1, MovesTyped
<1> HIDE DEF x, y
<1>11. Position(shape, c) = Total(x)
  <2>1. \A d \in 1..n : ones[d] = inner[d]
    BY <1>4, <1>5, <1>6
  <2>2. x = [d \in 1..n |-> c[d] * inner[d]]
    BY <1>9, <2>1
  <2> QED
    BY <1>3, <2>2 DEF Position
<1>12. Total(x) \in Int
  BY <1>9, Totals
<1>13. /\ zero <= Place(ones, zero, c)
       /\ Place(ones, zero, c) <= zero + Total(Reach(shape, ones))
  BY <1>6, PlaceWithin
<1>14. Product(shape) \in Nat
  BY Inners
<1>15. Total(Reach(shape, ones)) = Product(shape) - 1
  <2>1. Reach(shape, ones) \in [1..n -> Int]
    BY <1>2, <1>6, Reaches
  <2>2. Total(Reach(shape, ones)) \in Int
    BY <2>1, Totals
  <2> QED
    BY <1>5, <1>6, <1>14, <2>2
<1>16. Position(shape, c) \in 0..(Product(shape) - 1)
  BY <1>8, <1>9, <1>11, <1>12, <1>13, <1>14, <1>15
<1>17. ASSUME NEW i \in 1..n PROVE y[i] = width * x[i]
  <2>1. i \in 0..n /\ inner[i] \in Nat
    BY <1>4
  <2>2. PICK a \in Nat, b \in Nat : a = c[i] /\ b = inner[i]
    BY <1>1, <2>1
  <2>3. x[i] = a * (b * 1) /\ y[i] = a * (b * width)
    BY <1>5, <1>6, <1>9, <1>7, <1>10, <2>2
  <2>4. a * (b * width) = width * (a * (b * 1))
    OBVIOUS
  <2> QED
    BY <2>3, <2>4
<1>18. PICK f \in [1..n -> Int], g \in [1..n -> Int] : f = x /\ g = y
  BY <1>9, <1>10
<1>19. \A i \in 1..n : g[i] = width * f[i]
  BY <1>17, <1>18
<1>20. Total(g) = width * Total(f)
  BY <1>19, TotalMultiple, Zenon
<1>21. Total(y) = Total(x) * width
  <2>1. Total(x) \in Int
    BY <1>12
  <2> QED
    BY <1>18, <1>20, <2>1
<1> QED
  BY <1>11, <1>16, <1>10, <1>21 DEF strides

-----------------------------------------------------------------------------
(* Slices. *)

\* A slice of one dimension keeps elements only of a dimension that has some,
\* and the last one it keeps is inside of the dimension.
LEMMA SliceOfOne ==
    ASSUME NEW r \in Ranges, NEW d \in Nat
    PROVE  /\ Span(r, d) \in Nat /\ Extent(r, d) \in Nat
           /\ Extent(r, d) > 0 => /\ Span(r, d) > 0
                                  /\ r.start + (Extent(r, d) - 1) * r.step <= d - 1
<1>1. PICK start \in Nat, stop \in Nat, step \in Nat \ {0} :
         start = r.start /\ stop = r.stop /\ step = r.step
  BY DEF Ranges
<1>2. PICK s : s = Span(r, d)
  OBVIOUS
<1>3. s \in Nat /\ (s > 0 => start + s <= d)
  BY <1>1, <1>2 DEF Span, Least
<1>4. PICK e : e = Extent(r, d)
  OBVIOUS
<1>5. e = CeilDiv(s, step)
  BY <1>1, <1>2, <1>4 DEF Extent, CeilDiv
<1>6. e \in Nat /\ (s > 0 => e >= 1 /\ (e - 1) * step < s)
  BY <1>3, <1>5, Ceiling
<1>7. CASE s = 0
  <2>1. PICK x \in Nat : x = step - 1
    OBVIOUS
  <2>2. PICK q \in Nat, y \in 0..(step - 1) : q = x \div step /\ y = x % step /\ x = q * step + y
    BY DivMod
  <2>3. y = x
    <3>1. x \in Nat /\ x < step
      BY <2>1
    <3>2. x % step = x
      BY <3>1, Below
    <3> QED
      BY <2>2, <3>2
  <2>4. q * step = 0
    BY <2>2, <2>3
  <2>5. q = 0
    BY <2>4, SMTT(30)
  <2>6. e = q
    BY <1>5, <1>7, <2>1, <2>2 DEF CeilDiv
  <2> QED
    BY <1>2, <1>3, <1>4, <2>5, <2>6
<1>8. CASE s > 0
  <2>1. PICK p \in Int : p = (e - 1) * step
    BY <1>6
  <2>2. start + p <= d - 1
    BY <1>3, <1>6, <1>8, <2>1
  <2> QED
    BY <1>1, <1>2, <1>3, <1>4, <1>6, <1>8, <2>1, <2>2
<1> QED
  BY <1>3, <1>7, <1>8

\* A layout inside of another: what it leaves out before its first element and
\* what it reaches from there is no more than the other reaches.
LEMMA WithinReach ==
    ASSUME NEW n \in Nat, NEW moved \in [1..n -> Int], NEW x \in [1..n -> Int],
           NEW y \in [1..n -> Int], \A i \in 1..n : moved[i] + y[i] <= x[i]
    PROVE  Total(moved) + Total(y) <= Total(x)
<1>1. PICK z : z = [i \in 1..n |-> moved[i] + y[i]]
  OBVIOUS
<1>2. z \in [1..n -> Int] /\ \A i \in 1..n : z[i] = moved[i] + y[i]
  BY <1>1
<1>3. Total(z) = Total(moved) + Total(y)
  BY <1>2, TotalsSum
<1>4. /\ Total(z) = RunningTotal(z)[n] /\ RunningTotal(z)[0] = 0
      /\ Total(z) \in Int
  BY <1>2, Totals
<1>5. Total(x) = RunningTotal(x)[n] /\ RunningTotal(x)[0] = 0 /\ Total(x) \in Int
  BY Totals
<1>6. RunningTotal(z)[n] - RunningTotal(z)[0] <= RunningTotal(x)[n] - RunningTotal(x)[0]
  <2>1. 0 \in 0..n /\ n \in 0..n /\ \A i \in (0 + 1)..n : z[i] <= x[i]
    BY <1>2
  <2> QED
    BY <1>2, <2>1, TotalsGrow
<1> QED
  BY <1>3, <1>4, <1>5, <1>6

\* A layout whose strides are no smaller and whose dimensions reach no further
\* is nested if the other is.
LEMMA StaysNested ==
    ASSUME NEW n \in Nat, NEW width \in Nat,
           NEW shape \in [1..n -> Nat \ {0}], NEW strides \in [1..n -> Nat],
           NEW inshape \in [1..n -> Nat \ {0}], NEW instrides \in [1..n -> Nat],
           \A i \in 1..n : /\ instrides[i] >= strides[i]
                           /\ Reach(inshape, instrides)[i] <= Reach(shape, strides)[i],
           Nested(shape, strides, width)
    PROVE  Nested(inshape, instrides, width)
<1>1. PICK x, y : x = Reach(shape, strides) /\ y = Reach(inshape, instrides)
  OBVIOUS
<1>2. PICK r, s : r = RunningTotal(x) /\ s = RunningTotal(y)
  OBVIOUS
<1>3. x \in [1..n -> Int]
  BY <1>1, Reaches
<1>4. y \in [1..n -> Int]
  BY <1>1, Reaches
<1>5. \A i \in 1..n : y[i] <= x[i]
  BY <1>1
<1>6. r[0] = 0 /\ Total(x) = r[n] /\ \A i \in 0..n : r[i] \in Int
  BY <1>2, <1>3, Totals
<1>7. s[0] = 0 /\ Total(y) = s[n] /\ \A i \in 0..n : s[i] \in Int
  BY <1>2, <1>4, Totals
<1>8. ASSUME NEW d \in 0..n, NEW e \in d..n PROVE s[e] - s[d] <= r[e] - r[d]
  <2>1. \A i \in (d + 1)..e : y[i] <= x[i]
    BY <1>5
  <2> QED
    BY <1>2, <1>3, <1>4, <2>1, TotalsGrow
<1>9. CASE Outward(shape, strides, width)
  <2>1. \A d \in 1..n : strides[d] >= width + Total(x) - r[d]
    BY <1>1, <1>2, <1>9 DEF Outward
  <2>2. ASSUME NEW d \in 1..n PROVE instrides[d] >= width + Total(y) - s[d]
    <3>1. d \in 0..n /\ n \in d..n /\ n \in 0..n
      OBVIOUS
    <3>2. s[n] - s[d] <= r[n] - r[d]
      BY <1>8, <3>1
    <3>3. s[n] \in Int /\ s[d] \in Int /\ r[n] \in Int /\ r[d] \in Int
      BY <1>6, <1>7, <3>1
    <3>4. PICK a \in Int, b \in Int :
             a = instrides[d] /\ b = strides[d] /\ a >= b /\ b >= width + r[n] - r[d]
      BY <1>6, <2>1, SMTT(20)
    <3>5. a >= width + s[n] - s[d]
      <4>1. PICK rn \in Int, rd \in Int, sn \in Int, sd \in Int :
               rn = r[n] /\ rd = r[d] /\ sn = s[n] /\ sd = s[d]
        BY <3>3
      <4>2. sn - sd <= rn - rd
        BY <3>2, <4>1
      <4>3. a >= b /\ b >= width + rn - rd
        BY <3>4, <4>1
      <4>4. a >= width + sn - sd
        BY <4>2, <4>3
      <4> QED
        BY <4>1, <4>4
    <3>6. Total(y) = s[n]
      BY <1>7
    <3> QED
      BY <3>4, <3>5, <3>6, Zenon
  <2> QED
    BY <1>1, <1>2, <2>2 DEF Outward, Nested
<1>10. CASE Inward(shape, strides, width)
  <2>1. \A d \in 1..n : strides[d] >= width + r[d - 1]
    BY <1>1, <1>2, <1>10 DEF Inward
  <2>2. ASSUME NEW d \in 1..n PROVE instrides[d] >= width + s[d - 1]
    <3>1. d - 1 \in 0..n /\ d - 1 \in 0..n /\ 0 \in 0..n
      OBVIOUS
    <3>2. s[d - 1] - s[0] <= r[d - 1] - r[0]
      BY <1>8, <3>1
    <3>3. s[d - 1] \in Int /\ r[d - 1] \in Int
      BY <1>6, <1>7, <3>1
    <3>4. instrides[d] >= strides[d] /\ strides[d] >= width + r[d - 1]
      BY <2>1
    <3> QED
      BY <1>6, <1>7, <3>2, <3>3, <3>4
  <2> QED
    BY <1>1, <1>2, <2>2 DEF Inward, Nested
<1> QED
  BY <1>9, <1>10 DEF Nested

\* One element that a slice keeps of one dimension: which it is, and where.
LEMMA OneSliced ==
    ASSUME NEW r \in Ranges, NEW d \in Nat, NEW s \in Nat, NEW c \in Nat, c < Extent(r, d)
    PROVE  /\ r.start + c * r.step \in Nat /\ r.start + c * r.step < d
           /\ (r.start + c * r.step) * s = r.start * s + c * (s * r.step)
           /\ s * r.step >= s
<1>1. PICK start \in Nat, step \in Nat \ {0} : start = r.start /\ step = r.step
  BY DEF Ranges
<1>2. PICK e \in Nat : e = Extent(r, d) /\ c < e /\ start + (e - 1) * step <= d - 1
  BY <1>1, SliceOfOne
<1>3. c <= e - 1 /\ e - 1 \in Nat /\ step \in Nat
  BY <1>2
<1>4. c * step <= (e - 1) * step /\ c * step \in Nat
  BY <1>3, Products
<1>5. PICK p \in Nat, q \in Int : p = c * step /\ q = (e - 1) * step
  BY <1>3, <1>4
<1>6. start + p \in Nat /\ start + p < d
  BY <1>2, <1>4, <1>5
<1>7. (start + c * step) * s = start * s + c * (s * step)
  OBVIOUS
<1>8. s * step >= s
  BY SMTT(30)
<1> QED
  BY <1>1, <1>5, <1>6, <1>7, <1>8

\* What slice_and_dice makes of a shape and strides, and how far it moves.
SlicedShape(shape, ranges) ==
    [i \in DOMAIN shape |->
        IF i \in DOMAIN ranges THEN Extent(ranges[i], shape[i]) ELSE shape[i]]

SlicedStrides(shape, strides, ranges) ==
    [i \in DOMAIN shape |->
        IF i \in DOMAIN ranges /\ Span(ranges[i], shape[i]) > 0
        THEN strides[i] * ranges[i].step ELSE strides[i]]

Moved(shape, strides, ranges) ==
    [i \in DOMAIN shape |->
        IF i \in DOMAIN ranges /\ Span(ranges[i], shape[i]) > 0
        THEN ranges[i].start * strides[i] ELSE 0]

LEMMA SlicedTypes ==
    ASSUME NEW n \in Nat, NEW shape \in [1..n -> Nat], NEW strides \in [1..n -> Nat],
           NEW ranges \in Seq(Ranges)
    PROVE  /\ SlicedShape(shape, ranges) \in [1..n -> Nat]
           /\ SlicedStrides(shape, strides, ranges) \in [1..n -> Nat]
           /\ Moved(shape, strides, ranges) \in [1..n -> Nat]
<1> SUFFICES ASSUME NEW i \in 1..n
             PROVE  /\ (IF i \in DOMAIN ranges THEN Extent(ranges[i], shape[i]) ELSE shape[i]) \in Nat
                    /\ (IF i \in DOMAIN ranges /\ Span(ranges[i], shape[i]) > 0
                        THEN strides[i] * ranges[i].step ELSE strides[i]) \in Nat
                    /\ (IF i \in DOMAIN ranges /\ Span(ranges[i], shape[i]) > 0
                        THEN ranges[i].start * strides[i] ELSE 0) \in Nat
  BY DEF SlicedShape, SlicedStrides, Moved
<1>1. shape[i] \in Nat /\ strides[i] \in Nat
  OBVIOUS
<1>2. CASE i \in DOMAIN ranges
  <2>1. PICK r \in Ranges : r = ranges[i]
    BY <1>2
  <2>2. Extent(r, shape[i]) \in Nat
    BY <1>1, SliceOfOne
  <2>3. r.step \in Nat /\ r.start \in Nat
    BY DEF Ranges
  <2>4. strides[i] * r.step \in Nat /\ r.start * strides[i] \in Nat
    BY <1>1, <2>3, Products
  <2> QED
    BY <1>1, <2>1, <2>2, <2>4
<1>3. CASE i \notin DOMAIN ranges
  BY <1>1, <1>3
<1> QED
  BY <1>2, <1>3

\* An element that a slice keeps, in each dimension.
Picked(ranges, i, c) ==
    IF i \in DOMAIN ranges THEN ranges[i].start + c * ranges[i].step ELSE c

Keeps(shape, strides, ranges, i, c) ==
    /\ Picked(ranges, i, c) \in Nat /\ Picked(ranges, i, c) < shape[i]
    /\ Picked(ranges, i, c) * strides[i]
         = Moved(shape, strides, ranges)[i] + c * SlicedStrides(shape, strides, ranges)[i]
    /\ SlicedStrides(shape, strides, ranges)[i] >= strides[i]

LEMMA SlicedElement ==
    ASSUME NEW n \in Nat, NEW shape \in [1..n -> Nat], NEW strides \in [1..n -> Nat],
           NEW ranges \in Seq(Ranges), NEW i \in 1..n, NEW c \in Nat,
           c < SlicedShape(shape, ranges)[i]
    PROVE  Keeps(shape, strides, ranges, i, c)
<1> PICK k : k = Picked(ranges, i, c)
  OBVIOUS
<1>1. PICK d \in Nat, s \in Nat : d = shape[i] /\ s = strides[i]
  OBVIOUS
<1>2. PICK e, t, m : /\ e = SlicedShape(shape, ranges)[i]
                     /\ t = SlicedStrides(shape, strides, ranges)[i]
                     /\ m = Moved(shape, strides, ranges)[i]
  OBVIOUS
<1>3. CASE i \in DOMAIN ranges
  <2>1. PICK r \in Ranges : r = ranges[i]
    BY <1>3
  <2>2. e = Extent(r, d)
    BY <1>1, <1>2, <1>3, <2>1 DEF SlicedShape
  <2>3. Extent(r, d) > 0
    <3>1. Extent(r, d) \in Nat /\ c < Extent(r, d)
      BY <1>2, <2>2, SliceOfOne
    <3> QED
      BY <3>1
  <2>4. Span(r, d) > 0
    BY <2>3, SliceOfOne
  <2>5. t = s * r.step /\ m = r.start * s
    BY <1>1, <1>2, <1>3, <2>1, <2>4 DEF SlicedStrides, Moved
  <2>6. c < Extent(r, d)
    BY <1>2, <2>2
  <2>7. /\ r.start + c * r.step \in Nat /\ r.start + c * r.step < d
        /\ (r.start + c * r.step) * s = r.start * s + c * (s * r.step)
        /\ s * r.step >= s
    BY <2>6, OneSliced
  <2>8. k = r.start + c * r.step
    BY <1>3, <2>1 DEF Picked
  <2>9. /\ k \in Nat /\ k < shape[i]
        /\ k * strides[i] = m + c * t /\ t >= strides[i]
    BY <1>1, <2>5, <2>7, <2>8
  <2> QED
    BY <1>2, <2>9 DEF Keeps
<1>4. CASE i \notin DOMAIN ranges
  <2>1. e = d /\ t = s /\ m = 0 /\ k = c
    BY <1>1, <1>2, <1>4 DEF SlicedShape, SlicedStrides, Moved, Picked
  <2>2. c * s = 0 + c * s
    OBVIOUS
  <2>3. /\ k \in Nat /\ k < shape[i]
        /\ k * strides[i] = m + c * t /\ t >= strides[i]
    BY <1>1, <1>2, <2>1, <2>2
  <2> QED
    BY <1>2, <2>3 DEF Keeps
<1> QED
  BY <1>3, <1>4

\* A slice that keeps elements stays inside of what was sliced, and its
\* elements as far apart.
LEMMA SlicedLayout ==
    ASSUME NEW n \in Nat, NEW shape \in [1..n -> Nat], NEW strides \in [1..n -> Nat],
           NEW ranges \in Seq(Ranges), NEW width \in Nat,
           \A i \in 1..n : SlicedShape(shape, ranges)[i] > 0
    PROVE  /\ shape \in [1..n -> Nat \ {0}]
           /\ Total(Moved(shape, strides, ranges))
                + Total(Reach(SlicedShape(shape, ranges), SlicedStrides(shape, strides, ranges)))
                <= Total(Reach(shape, strides))
           /\ Nested(shape, strides, width)
                => Nested(SlicedShape(shape, ranges), SlicedStrides(shape, strides, ranges), width)
<1>1. PICK e \in [1..n -> Nat], t \in [1..n -> Nat], m \in [1..n -> Nat] :
         /\ e = SlicedShape(shape, ranges)
         /\ t = SlicedStrides(shape, strides, ranges)
         /\ m = Moved(shape, strides, ranges)
  BY SlicedTypes
<1>2. \A i \in 1..n : e[i] > 0
  BY <1>1
<1>3. e \in [1..n -> Nat \ {0}]
  <2>1. \A i \in 1..n : e[i] \in Nat \ {0}
    BY <1>2
  <2> QED
    BY <2>1
<1>4. ASSUME NEW i \in 1..n
      PROVE  /\ shape[i] \in Nat \ {0} /\ t[i] >= strides[i]
             /\ m[i] + (e[i] - 1) * t[i] <= (shape[i] - 1) * strides[i]
  <2>1. PICK c \in Nat : c = e[i] - 1 /\ c < e[i]
    <3>1. e[i] \in Nat /\ e[i] > 0
      BY <1>2
    <3> QED
      BY <3>1
  <2>2. PICK k : k = Picked(ranges, i, c)
    OBVIOUS
  <2>3. /\ k \in Nat /\ k < shape[i]
        /\ k * strides[i] = m[i] + c * t[i]
        /\ t[i] >= strides[i]
    <3>1. c < SlicedShape(shape, ranges)[i]
      BY <1>1, <2>1
    <3>2. Keeps(shape, strides, ranges, i, c)
      BY <3>1, SlicedElement
    <3> QED
      BY <1>1, <2>2, <3>2 DEF Keeps
  <2>4. PICK d \in Nat, s \in Nat : d = shape[i] - 1 /\ s = strides[i] /\ k <= d
    BY <2>3
  <2>5. k * s <= d * s
    BY <2>3, <2>4, Products
  <2>6. m[i] + c * t[i] <= d * s
    BY <2>3, <2>4, <2>5
  <2>7. shape[i] \in Nat \ {0}
    BY <2>3
  <2>8. (e[i] - 1) * t[i] = c * t[i] /\ (shape[i] - 1) * strides[i] = d * s
    BY <2>1, <2>4
  <2>9. m[i] + (e[i] - 1) * t[i] <= (shape[i] - 1) * strides[i]
    BY <2>6, <2>8
  <2> QED
    BY <2>3, <2>7, <2>9
<1>5. shape \in [1..n -> Nat \ {0}]
  BY <1>4
<1>6. PICK x, y : x = Reach(shape, strides) /\ y = Reach(e, t)
  OBVIOUS
<1>7. x \in [1..n -> Int] /\ \A i \in 1..n : x[i] = (shape[i] - 1) * strides[i]
  <2>1. /\ Reach(shape, strides) \in [1..n -> Int]
        /\ \A i \in 1..n : Reach(shape, strides)[i] = (shape[i] - 1) * strides[i]
    BY <1>5, Reaches, ZenonT(20)
  <2> QED
    BY <1>6, <2>1, ZenonT(20)
<1>8. y \in [1..n -> Int] /\ \A i \in 1..n : y[i] = (e[i] - 1) * t[i]
  <2>1. /\ Reach(e, t) \in [1..n -> Int]
        /\ \A i \in 1..n : Reach(e, t)[i] = (e[i] - 1) * t[i]
    BY <1>3, Reaches, ZenonT(20)
  <2> QED
    BY <1>6, <2>1, ZenonT(20)
<1>9. ASSUME NEW i \in 1..n PROVE m[i] + y[i] <= x[i] /\ y[i] <= x[i] /\ t[i] >= strides[i]
  <2>1. t[i] >= strides[i]
    BY <1>4
  <2>2. PICK p, q : /\ p = (e[i] - 1) * t[i] /\ q = (shape[i] - 1) * strides[i]
                    /\ m[i] + p <= q
    BY <1>4
  <2>3. y[i] = p /\ x[i] = q
    BY <1>7, <1>8, <2>2
  <2>4. m[i] \in Nat /\ x[i] \in Int /\ y[i] \in Int
    BY <1>7, <1>8
  <2>5. m[i] + y[i] <= x[i] /\ y[i] <= x[i]
    BY <2>2, <2>3, <2>4
  <2> QED
    BY <2>1, <2>5
<1>10. m \in [1..n -> Int]
  OBVIOUS
<1>11. Total(m) + Total(y) <= Total(x)
  BY <1>7, <1>8, <1>9, <1>10, WithinReach
<1>12. ASSUME Nested(shape, strides, width) PROVE Nested(e, t, width)
  <2>1. \A i \in 1..n : t[i] >= strides[i] /\ Reach(e, t)[i] <= Reach(shape, strides)[i]
    BY <1>6, <1>9
  <2> QED
    BY <1>3, <1>5, <1>12, <2>1, StaysNested
<1> QED
  BY <1>1, <1>5, <1>6, <1>11, <1>12

\* An element of a slice is one of what was sliced.
LEMMA SlicedPlace ==
    ASSUME NEW n \in Nat, NEW shape \in [1..n -> Nat], NEW strides \in [1..n -> Nat],
           NEW ranges \in Seq(Ranges), NEW offset \in Int,
           NEW c \in Box(SlicedShape(shape, ranges))
    PROVE  /\ Chosen(ranges, c) \in Box(shape)
           /\ Place(SlicedStrides(shape, strides, ranges),
                    offset + Total(Moved(shape, strides, ranges)), c)
                = Place(strides, offset, Chosen(ranges, c))
<1>1. PICK e \in [1..n -> Nat], t \in [1..n -> Nat], m \in [1..n -> Nat] :
         /\ e = SlicedShape(shape, ranges)
         /\ t = SlicedStrides(shape, strides, ranges)
         /\ m = Moved(shape, strides, ranges)
  BY SlicedTypes
<1>2. c \in [1..n -> Nat] /\ \A i \in 1..n : c[i] < e[i]
  BY <1>1, Boxes
<1>3. PICK k : k = Chosen(ranges, c)
  OBVIOUS
<1>4. k = [i \in 1..n |-> IF i \in DOMAIN ranges
                          THEN ranges[i].start + c[i] * ranges[i].step ELSE c[i]]
  BY <1>2, <1>3 DEF Chosen
<1>5. ASSUME NEW i \in 1..n
      PROVE  k[i] \in Nat /\ k[i] < shape[i] /\ k[i] * strides[i] = m[i] + c[i] * t[i]
  <2>1. PICK h \in Nat : h = c[i] /\ h < e[i]
    BY <1>2
  <2>2. PICK l : l = Picked(ranges, i, h)
    OBVIOUS
  <2>3. /\ l \in Nat /\ l < shape[i]
        /\ l * strides[i] = m[i] + h * t[i]
    <3>1. h < SlicedShape(shape, ranges)[i]
      BY <1>1, <2>1
    <3>2. Keeps(shape, strides, ranges, i, h)
      BY <3>1, SlicedElement
    <3> QED
      BY <1>1, <2>2, <3>2 DEF Keeps
  <2>4. l = k[i]
    BY <1>4, <2>1, <2>2 DEF Picked
  <2> QED
    BY <2>1, <2>3, <2>4
<1>6. k \in [1..n -> Nat]
  <2>1. \A i \in 1..n : k[i] \in Nat
    BY <1>5
  <2>2. k = [i \in 1..n |-> k[i]]
    BY <1>4
  <2> QED
    BY <2>1, <2>2
<1>7. k \in Box(shape)
  BY <1>5, <1>6, Boxes
<1>8. PICK x, y : x = Moves(strides, k) /\ y = Moves(t, c)
  OBVIOUS
<1>9. x \in [1..n -> Int] /\ \A i \in 1..n : x[i] = k[i] * strides[i]
  <2>1. Moves(strides, k) \in [1..n -> Int]
    BY <1>6, MovesTyped
  <2>2. \A i \in 1..n : Moves(strides, k)[i] = k[i] * strides[i]
    BY <1>6, MovesTyped
  <2> QED
    BY <1>8, <2>1, <2>2
<1>10. y \in [1..n -> Int] /\ \A i \in 1..n : y[i] = c[i] * t[i]
  <2>1. Moves(t, c) \in [1..n -> Int]
    BY <1>2, MovesTyped
  <2>2. \A i \in 1..n : Moves(t, c)[i] = c[i] * t[i]
    BY <1>2, MovesTyped
  <2> QED
    BY <1>8, <2>1, <2>2
<1>11. Place(strides, offset, k) = offset + Total(x)
  BY <1>8, PlaceOfMoves
<1>12. PICK base : base = offset + Total(m)
  OBVIOUS
<1>13. Place(t, base, c) = base + Total(y)
  BY <1>8, PlaceOfMoves
<1>14. Total(x) = Total(m) + Total(y)
  <2>1. m \in [1..n -> Int]
    OBVIOUS
  <2>2. \A i \in 1..n : x[i] = m[i] + y[i]
    BY <1>5, <1>9, <1>10
  <2> QED
    BY <1>9, <1>10, <2>1, <2>2, TotalsSum
<1>15. Total(m) \in Int /\ Total(y) \in Int
  BY <1>10, Totals
<1>16. Place(t, base, c) = Place(strides, offset, k)
  BY <1>11, <1>12, <1>13, <1>14, <1>15
<1> QED
  BY <1>1, <1>3, <1>7, <1>12, <1>16

-----------------------------------------------------------------------------
(* Transpositions. *)

\* A sequence turned around.
LEMMA Reversed ==
    ASSUME NEW n \in Nat, NEW s \in [1..n -> Nat]
    PROVE  Reverse(s) \in [1..n -> Nat] /\ \A i \in 1..n : Reverse(s)[i] = s[n - i + 1]
<1>1. s \in Seq(Nat)
  BY SeqDef
<1>2. DOMAIN s = 1..n /\ Len(s) = n
  <2>1. DOMAIN s = 1..n /\ Len(s) \in Nat /\ DOMAIN s = 1..Len(s)
    BY <1>1
  <2> QED
    BY <2>1
<1>3. Reverse(s) = [i \in 1..n |-> s[n - i + 1]]
  BY <1>2 DEF Reverse
<1>4. \A i \in 1..n : n - i + 1 \in 1..n
  OBVIOUS
<1> QED
  BY <1>3, <1>4

LEMMA ReversedTwice ==
    ASSUME NEW n \in Nat, NEW s \in [1..n -> Nat]
    PROVE  Reverse(Reverse(s)) = s
<1>1. PICK t \in [1..n -> Nat] : t = Reverse(s) /\ \A i \in 1..n : t[i] = s[n - i + 1]
  BY Reversed
<1>2. PICK u \in [1..n -> Nat] : u = Reverse(t) /\ \A i \in 1..n : u[i] = t[n - i + 1]
  BY Reversed
<1>3. ASSUME NEW i \in 1..n PROVE u[i] = s[i]
  <2>1. PICK j \in 1..n : j = n - i + 1 /\ n - j + 1 = i
    OBVIOUS
  <2>2. u[i] = t[j] /\ t[j] = s[n - j + 1]
    BY <1>1, <1>2, <2>1
  <2> QED
    BY <2>1, <2>2
<1>4. u = s
  BY <1>3
<1> QED
  BY <1>1, <1>2, <1>4

\* Turned around, an element is where it was.
LEMMA TurnedPlace ==
    ASSUME NEW n \in Nat, NEW shape \in [1..n -> Nat], NEW strides \in [1..n -> Nat],
           NEW offset \in Int, NEW c \in Box(Reverse(shape))
    PROVE  /\ Reverse(c) \in Box(shape)
           /\ Place(Reverse(strides), offset, c) = Place(strides, offset, Reverse(c))
<1>1. PICK tshape \in [1..n -> Nat], tstrides \in [1..n -> Nat] :
         /\ tshape = Reverse(shape) /\ tstrides = Reverse(strides)
         /\ \A i \in 1..n : tshape[i] = shape[n - i + 1] /\ tstrides[i] = strides[n - i + 1]
  BY Reversed, ZenonT(30)
<1>2. c \in [1..n -> Nat] /\ \A i \in 1..n : c[i] < tshape[i]
  BY <1>1, Boxes
<1>3. PICK k \in [1..n -> Nat] : k = Reverse(c) /\ \A i \in 1..n : k[i] = c[n - i + 1]
  BY <1>2, Reversed
<1>4. \A i \in 1..n : n - i + 1 \in 1..n /\ n - (n - i + 1) + 1 = i
  OBVIOUS
<1>5. \A i \in 1..n : k[i] < shape[i]
  BY <1>1, <1>2, <1>3, <1>4
<1>6. k \in Box(shape)
  BY <1>5, Boxes
<1>7. PICK x, y : x = Moves(strides, k) /\ y = Moves(tstrides, c)
  OBVIOUS
<1>8. x \in [1..n -> Int] /\ \A i \in 1..n : x[i] = k[i] * strides[i]
  <2>1. Moves(strides, k) \in [1..n -> Int]
    BY MovesTyped
  <2>2. \A i \in 1..n : Moves(strides, k)[i] = k[i] * strides[i]
    BY MovesTyped
  <2> QED
    BY <1>7, <2>1, <2>2
<1>9. y \in [1..n -> Int] /\ \A i \in 1..n : y[i] = c[i] * tstrides[i]
  <2>1. Moves(tstrides, c) \in [1..n -> Int]
    BY <1>2, MovesTyped
  <2>2. \A i \in 1..n : Moves(tstrides, c)[i] = c[i] * tstrides[i]
    BY <1>2, MovesTyped
  <2> QED
    BY <1>7, <2>1, <2>2
<1>10. \A i \in 1..n : y[i] = x[n - i + 1]
  <2> SUFFICES ASSUME NEW i \in 1..n PROVE y[i] = x[n - i + 1]
    OBVIOUS
  <2>1. PICK j \in 1..n : j = n - i + 1 /\ n - j + 1 = i
    BY <1>4
  <2>2. k[j] = c[i] /\ strides[j] = tstrides[i]
    BY <1>1, <1>3, <2>1
  <2>3. x[j] = k[j] * strides[j] /\ y[i] = c[i] * tstrides[i]
    BY <1>8, <1>9
  <2> QED
    BY <2>1, <2>2, <2>3
<1>11. Total(y) = Total(x)
  BY <1>8, <1>9, <1>10, TotalsReversed
<1>12. Place(strides, offset, k) = offset + Total(x)
  BY <1>7, PlaceOfMoves
<1>13. Place(tstrides, offset, c) = offset + Total(y)
  BY <1>7, PlaceOfMoves
<1> QED
  BY <1>1, <1>3, <1>6, <1>11, <1>12, <1>13

-----------------------------------------------------------------------------
(* Elements apart. *)

\* Two elements that are not in the same place have a first dimension in which
\* their coordinates differ.
LEMMA FirstDifference ==
    ASSUME NEW n \in Nat, NEW b \in [1..n -> Nat], NEW c \in [1..n -> Nat], b # c
    PROVE  \E d \in 1..n : b[d] # c[d] /\ \A i \in 1..(d - 1) : b[i] = c[i]
<1>1. PICK e \in 1..n : b[e] # c[e]
  OBVIOUS
<1> DEFINE T == {d \in 0..n : (\A i \in 1..d : b[i] = c[i])}
<1>2. \E d \in 1..n : b[d] # c[d] /\ \A i \in 1..(d - 1) : b[i] = c[i]
  <2> SUFFICES ASSUME \A d \in 1..n : (\A i \in 1..(d - 1) : b[i] = c[i]) => b[d] = c[d]
               PROVE  FALSE
    OBVIOUS
  <2>1. 0 <= n => 0 \in T
    OBVIOUS
  <2>2. ASSUME NEW d \in (0 + 1)..n, d - 1 \in T PROVE d \in T
    <3>1. d \in 1..n /\ \A i \in 1..(d - 1) : b[i] = c[i]
      BY <2>2
    <3>2. b[d] = c[d]
      BY <3>1
    <3>3. \A i \in 1..d : i \in 1..(d - 1) \/ i = d
      OBVIOUS
    <3>4. d \in 0..n
      OBVIOUS
    <3> QED
      BY <3>1, <3>2, <3>3, <3>4
  <2>3. 0 \in Int /\ n \in Int
    OBVIOUS
  <2>4. \A d \in 0..n : d \in T
    <3> HIDE DEF T
    <3> QED
      BY <2>1, <2>2, <2>3, IntervalInduction, Zenon
  <2>5. n \in T
    <3>1. n \in 0..n
      OBVIOUS
    <3> HIDE DEF T
    <3> QED
      BY <2>4, <3>1
  <2> QED
    BY <1>1, <2>5
<1> QED
  BY <1>2

\* How far an element lies from the one that has the same coordinates up to a
\* dimension and is further along in it, where the strides step over all that
\* is behind.
LEMMA OutwardApart ==
    ASSUME NEW n \in Nat, NEW width \in Nat, NEW offset \in Int,
           NEW shape \in [1..n -> Nat], NEW strides \in [1..n -> Nat],
           NEW b \in Box(shape), NEW c \in Box(shape), NEW d \in 1..n,
           b[d] < c[d], \A i \in 1..(d - 1) : b[i] = c[i],
           Outward(shape, strides, width)
    PROVE  Place(strides, offset, b) + width <= Place(strides, offset, c)
<1>1. /\ b \in [1..n -> Nat] /\ \A i \in 1..n : b[i] < shape[i]
      /\ c \in [1..n -> Nat] /\ \A i \in 1..n : c[i] < shape[i]
  BY Boxes
<1>2. shape \in [1..n -> Nat \ {0}]
  BY PlaceWithin
<1>3. PICK x, y, z : /\ x = Moves(strides, b) /\ y = Moves(strides, c)
                     /\ z = Reach(shape, strides)
  OBVIOUS
<1>4. x \in [1..n -> Int] /\ \A i \in 1..n : x[i] = b[i] * strides[i]
  <2>1. Moves(strides, b) \in [1..n -> Int]
    BY <1>1, MovesTyped
  <2>2. \A i \in 1..n : Moves(strides, b)[i] = b[i] * strides[i]
    BY <1>1, MovesTyped
  <2> QED
    BY <1>3, <2>1, <2>2
<1>5. y \in [1..n -> Int] /\ \A i \in 1..n : y[i] = c[i] * strides[i]
  <2>1. Moves(strides, c) \in [1..n -> Int]
    BY <1>1, MovesTyped
  <2>2. \A i \in 1..n : Moves(strides, c)[i] = c[i] * strides[i]
    BY <1>1, MovesTyped
  <2> QED
    BY <1>3, <2>1, <2>2
<1>6. z \in [1..n -> Int] /\ \A i \in 1..n : z[i] = (shape[i] - 1) * strides[i]
  BY <1>2, <1>3, Reaches
<1>7. PICK r, s, t : r = RunningTotal(x) /\ s = RunningTotal(y) /\ t = RunningTotal(z)
  OBVIOUS
<1>8. /\ r[0] = 0 /\ Total(x) = r[n] /\ \A i \in 0..n : r[i] \in Int
      /\ \A i \in 1..n : r[i] = r[i - 1] + x[i]
  BY <1>4, <1>7, Totals
<1>9. /\ s[0] = 0 /\ Total(y) = s[n] /\ \A i \in 0..n : s[i] \in Int
      /\ \A i \in 1..n : s[i] = s[i - 1] + y[i]
  BY <1>5, <1>7, Totals
<1>10. /\ Total(z) = t[n] /\ \A i \in 0..n : t[i] \in Int
  BY <1>6, <1>7, Totals
<1>11. 0 \in 0..n /\ d - 1 \in 0..n /\ d \in 0..n /\ n \in d..n /\ n \in 0..n /\ d - 1 \in 0..n
       /\ d - 1 \in 0..n
  OBVIOUS
<1>12. r[d - 1] <= s[d - 1]
  <2>1. \A i \in (0 + 1)..(d - 1) : x[i] <= y[i]
    <3> SUFFICES ASSUME NEW i \in (0 + 1)..(d - 1) PROVE x[i] <= y[i]
      OBVIOUS
    <3>1. i \in 1..n /\ b[i] = c[i]
      OBVIOUS
    <3>2. x[i] = y[i] /\ x[i] \in Int
      BY <1>4, <1>5, <3>1
    <3> QED
      BY <3>2
  <2>2. r[d - 1] - r[0] <= s[d - 1] - s[0]
    <3>1. d - 1 \in 0..n
      OBVIOUS
    <3> QED
      BY <1>4, <1>5, <1>7, <1>11, <2>1, <3>1, TotalsGrow
  <2> QED
    BY <1>8, <1>9, <1>11, <2>2
<1>13. r[n] - r[d] <= t[n] - t[d]
  <2>1. \A i \in (d + 1)..n : x[i] <= z[i]
    <3> SUFFICES ASSUME NEW i \in (d + 1)..n PROVE x[i] <= z[i]
      OBVIOUS
    <3>1. i \in 1..n
      OBVIOUS
    <3>2. PICK f \in Nat, e \in Nat, h \in Nat : f = b[i] /\ e = shape[i] /\ h = strides[i]
      BY <1>1, <3>1
    <3>3. f < e
      BY <1>1, <3>1, <3>2
    <3>4. PICK g \in Nat : g = e - 1 /\ f <= g
      BY <3>3
    <3>5. f * h <= g * h
      BY <3>4, Products
    <3> QED
      BY <1>4, <1>6, <3>1, <3>2, <3>5, <3>4
  <2> QED
    BY <1>4, <1>6, <1>7, <1>11, <2>1, TotalsGrow
<1>14. PICK zero : zero = [i \in 1..n |-> 0]
  OBVIOUS
<1>15. zero \in [1..n -> Int] /\ \A i \in 1..n : zero[i] = 0
  BY <1>14
<1>16. 0 <= s[n] - s[d]
  <2>1. \A i \in (d + 1)..n : zero[i] <= y[i]
    <3> SUFFICES ASSUME NEW i \in (d + 1)..n PROVE zero[i] <= y[i]
      OBVIOUS
    <3>1. i \in 1..n
      OBVIOUS
    <3>2. PICK g \in Nat, h \in Nat : g = c[i] /\ h = strides[i]
      BY <1>1, <3>1
    <3>3. g * h \in Nat
      BY Products
    <3> QED
      BY <1>5, <1>15, <3>1, <3>2, <3>3, SMTT(20)
  <2>2. RunningTotal(zero)[n] - RunningTotal(zero)[d] <= s[n] - s[d]
    BY <1>5, <1>7, <1>11, <1>15, <2>1, TotalsGrow
  <2>3. \A i \in 0..n : RunningTotal(zero)[i] = 0
    BY <1>15, TotalsZero
  <2> QED
    BY <1>11, <2>2, <2>3
<1>17. y[d] >= x[d] + strides[d] /\ y[d] \in Int /\ x[d] \in Int
  <2>1. PICK f \in Nat, g \in Nat, h \in Nat : f = b[d] /\ g = c[d] /\ h = strides[d] /\ f < g
    BY <1>1
  <2>2. f * h + h <= g * h
    BY <2>1, Products
  <2> QED
    BY <1>4, <1>5, <2>1, <2>2
<1>18. strides[d] >= width + t[n] - t[d]
  BY <1>3, <1>7, <1>10 DEF Outward
<1>19. r[n] + width <= s[n]
  <2>1. PICK rn \in Int, rd \in Int, re \in Int : rn = r[n] /\ rd = r[d] /\ re = r[d - 1]
    BY <1>8, <1>11
  <2>2. PICK sn \in Int, sd \in Int, se \in Int : sn = s[n] /\ sd = s[d] /\ se = s[d - 1]
    BY <1>9, <1>11
  <2>3. PICK tn \in Int, td \in Int : tn = t[n] /\ td = t[d]
    BY <1>10, <1>11
  <2>4. PICK xd \in Int, yd \in Int, f \in Int :
          xd = x[d] /\ yd = y[d] /\ f = strides[d] /\ yd >= xd + f
    BY <1>17
  <2>5. rd = re + xd /\ sd = se + yd
    BY <1>8, <1>9, <2>1, <2>2, <2>4
  <2>6. re <= se /\ rn - rd <= tn - td /\ 0 <= sn - sd
    BY <1>12, <1>13, <1>16, <2>1, <2>2, <2>3
  <2>7. f >= width + tn - td
    BY <1>18, <2>3, <2>4
  <2>8. rd + f <= sn
    <3>1. yd >= xd + f
      BY <2>4
    <3> QED
      BY <2>5, <2>6, <3>1
  <2>9. rn + width <= rd + f
    BY <2>6, <2>7
  <2>10. rn + width <= sn
    BY <2>8, <2>9
  <2> QED
    BY <2>1, <2>2, <2>10
<1>20. Place(strides, offset, b) = offset + Total(x)
  BY <1>3, PlaceOfMoves
<1>21. Place(strides, offset, c) = offset + Total(y)
  BY <1>3, PlaceOfMoves
<1> QED
  <2>1. PICK f \in Int, g \in Int : f = Total(x) /\ g = Total(y) /\ f + width <= g
    BY <1>8, <1>9, <1>11, <1>19
  <2> QED
    BY <1>20, <1>21, <2>1

\* Two elements of a layout lie at least a width apart.
Distant(strides, offset, width, b, c) ==
    \/ Place(strides, offset, b) + width <= Place(strides, offset, c)
    \/ Place(strides, offset, c) + width <= Place(strides, offset, b)

LEMMA OutwardDistant ==
    ASSUME NEW n \in Nat, NEW width \in Nat, NEW offset \in Int,
           NEW shape \in [1..n -> Nat], NEW strides \in [1..n -> Nat],
           NEW b \in Box(shape), NEW c \in Box(shape), b # c,
           Outward(shape, strides, width)
    PROVE  Distant(strides, offset, width, b, c)
<1>1. b \in [1..n -> Nat] /\ c \in [1..n -> Nat]
  BY Boxes, ZenonT(20)
<1>2. PICK d \in 1..n : b[d] # c[d] /\ \A i \in 1..(d - 1) : b[i] = c[i]
  BY <1>1, FirstDifference, ZenonT(20)
<1>3. b[d] < c[d] \/ c[d] < b[d]
  <2>1. b[d] \in Nat /\ c[d] \in Nat
    BY <1>1
  <2> QED
    BY <1>2, <2>1
<1>4. CASE b[d] < c[d]
  BY <1>2, <1>4, OutwardApart DEF Distant
<1>5. CASE c[d] < b[d]
  <2>1. \A i \in 1..(d - 1) : c[i] = b[i]
    BY <1>2
  <2> QED
    BY <1>5, <2>1, OutwardApart DEF Distant
<1> QED
  BY <1>3, <1>4, <1>5

LEMMA NestedDistant ==
    ASSUME NEW n \in Nat, NEW width \in Nat, NEW offset \in Int,
           NEW shape \in [1..n -> Nat], NEW strides \in [1..n -> Nat],
           NEW b \in Box(shape), NEW c \in Box(shape), b # c,
           Nested(shape, strides, width)
    PROVE  Distant(strides, offset, width, b, c)
<1>1. CASE Outward(shape, strides, width)
  BY <1>1, OutwardDistant
<1>2. CASE Inward(shape, strides, width)
  <2>1. /\ b \in [1..n -> Nat] /\ \A i \in 1..n : b[i] < shape[i]
        /\ c \in [1..n -> Nat] /\ \A i \in 1..n : c[i] < shape[i]
    BY Boxes
  <2>2. shape \in [1..n -> Nat \ {0}]
    BY PlaceWithin
  <2>3. PICK tshape \in [1..n -> Nat], tstrides \in [1..n -> Nat] :
           /\ tshape = Reverse(shape) /\ tstrides = Reverse(strides)
           /\ \A i \in 1..n : tshape[i] = shape[n - i + 1] /\ tstrides[i] = strides[n - i + 1]
    BY Reversed, ZenonT(30)
  <2>4. PICK f \in [1..n -> Nat] : f = Reverse(b) /\ \A i \in 1..n : f[i] = b[n - i + 1]
    BY <2>1, Reversed
  <2>5. PICK g \in [1..n -> Nat] : g = Reverse(c) /\ \A i \in 1..n : g[i] = c[n - i + 1]
    BY <2>1, Reversed
  <2>6. \A i \in 1..n : n - i + 1 \in 1..n /\ n - (n - i + 1) + 1 = i
    OBVIOUS
  <2>7. Reverse(f) = b
    BY <2>1, <2>4, ReversedTwice
  <2>8. Reverse(g) = c
    BY <2>1, <2>5, ReversedTwice
  <2>9. f # g
    BY <2>7, <2>8
  <2>10. tshape \in [1..n -> Nat \ {0}]
    <3>1. \A i \in 1..n : tshape[i] \in Nat \ {0}
      BY <2>2, <2>3, <2>6
    <3> QED
      BY <3>1
  <2>11. Outward(tshape, tstrides, width)
    <3>1. \A i \in 1..n : tshape[i] = shape[n - i + 1] /\ tstrides[i] = strides[n - i + 1]
      BY <2>3
    <3>2. Inward(shape, strides, width) => Outward(tshape, tstrides, width)
      BY <2>2, <2>10, <3>1, Turned
    <3> QED
      BY <1>2, <3>2
  <2>12. f \in Box(tshape)
    <3>1. \A i \in 1..n : f[i] < tshape[i]
      BY <2>1, <2>3, <2>4, <2>6
    <3> QED
      BY <3>1, Boxes
  <2>13. g \in Box(tshape)
    <3>1. \A i \in 1..n : g[i] < tshape[i]
      BY <2>1, <2>3, <2>5, <2>6
    <3> QED
      BY <3>1, Boxes
  <2>14. Distant(tstrides, offset, width, f, g)
    BY <2>9, <2>11, <2>12, <2>13, OutwardDistant
  <2>15. Place(Reverse(strides), offset, f) = Place(strides, offset, Reverse(f))
    BY <2>3, <2>12, TurnedPlace, ZenonT(30)
  <2>16. Place(Reverse(strides), offset, g) = Place(strides, offset, Reverse(g))
    BY <2>3, <2>13, TurnedPlace, ZenonT(30)
  <2> QED
    BY <2>3, <2>7, <2>8, <2>14, <2>15, <2>16 DEF Distant
<1> QED
  BY <1>1, <1>2 DEF Nested

-----------------------------------------------------------------------------
(* Compiled kernels. *)

\* What emit_compute_bit_offset computes for each dimension.
Rest(inner, n, index) ==
    LET rest[d \in 0..n] ==
          IF d = 0 THEN index
          ELSE IF inner[d] > 1 THEN rest[d - 1] % inner[d] ELSE rest[d - 1]
    IN rest

\* The number that is left of an index after each dimension.
Divided(r, inner, n, index) ==
    /\ r[0] = index
    /\ \A d \in 1..n : r[d] = IF inner[d] > 1 THEN r[d - 1] % inner[d] ELSE r[d - 1]

LEMMA Rests ==
    ASSUME NEW n \in Nat, NEW inner, \A d \in 0..n : inner[d] \in Nat, NEW index \in Nat
    PROVE  Divided(Rest(inner, n, index), inner, n, index)
<1> DEFINE Equation(f) ==
             f = [d \in 0..n |-> IF d = 0 THEN index
                                 ELSE IF inner[d] > 1 THEN f[d - 1] % inner[d] ELSE f[d - 1]]
<1>1. PICK G : G = [p \in Nat \X (0..n) |->
                      IF inner[p[2]] > 1 THEN p[1] % inner[p[2]] ELSE p[1]]
  OBVIOUS
<1>2. G \in [Nat \X (0..n) -> Nat]
  <2>1. ASSUME NEW p \in Nat \X (0..n)
        PROVE  (IF inner[p[2]] > 1 THEN p[1] % inner[p[2]] ELSE p[1]) \in Nat
    <3>1. p[1] \in Nat /\ p[2] \in 0..n
      OBVIOUS
    <3>2. PICK m \in Nat : m = inner[p[2]]
      BY <3>1
    <3>3. m > 1 => p[1] % m \in Nat
      <4>1. ASSUME m > 1 PROVE p[1] % m \in Nat
        <5>1. m \in Nat \ {0}
          BY <4>1
        <5>2. p[1] % m \in 0..(m - 1)
          BY <3>1, <5>1, DivMod
        <5> QED
          BY <5>2
      <4> QED
        BY <4>1
    <3> QED
      BY <3>1, <3>2, <3>3
  <2> QED
    BY <1>1, <2>1
<1>3. PICK f \in [0..n -> Nat] : Recursive(f, index, 0, n, G)
  <2>1. index \in Nat /\ 0 \in Int /\ n \in Int
    OBVIOUS
  <2> QED
    BY <1>2, <2>1, RecursionExists, Zenon
<1>4. Equation(f)
  <2>1. \A d \in 0..n : f[d] = IF d = 0 THEN index ELSE G[<<f[d - 1], d>>]
    BY <1>3 DEF Recursive
  <2>2. ASSUME NEW d \in 0..n, d # 0
        PROVE  G[<<f[d - 1], d>>] = IF inner[d] > 1 THEN f[d - 1] % inner[d] ELSE f[d - 1]
    <3>1. f[d - 1] \in Nat
      BY <2>2
    <3>2. PICK p : p = <<f[d - 1], d>>
      OBVIOUS
    <3>3. p \in Nat \X (0..n) /\ p[1] = f[d - 1] /\ p[2] = d
      BY <3>1, <3>2
    <3>4. G[p] = IF inner[p[2]] > 1 THEN p[1] % inner[p[2]] ELSE p[1]
      BY <1>1, <3>3
    <3> QED
      BY <3>2, <3>3, <3>4
  <2>3. ASSUME NEW d \in 0..n
        PROVE  f[d] = IF d = 0 THEN index
                      ELSE IF inner[d] > 1 THEN f[d - 1] % inner[d] ELSE f[d - 1]
    BY <2>1, <2>2
  <2> QED
    BY <2>3
<1>5. Rest(inner, n, index) = CHOOSE g : Equation(g)
  BY DEF Rest
<1>6. Equation(Rest(inner, n, index))
  <2> HIDE DEF Equation
  <2> QED
    BY <1>4, <1>5
<1>7. PICK r : r = Rest(inner, n, index)
  OBVIOUS
<1>8. r = [d \in 0..n |-> IF d = 0 THEN index
                          ELSE IF inner[d] > 1 THEN r[d - 1] % inner[d] ELSE r[d - 1]]
  BY <1>6, <1>7
<1>9. r[0] = index
  BY <1>8
<1>10. \A d \in 1..n : r[d] = IF inner[d] > 1 THEN r[d - 1] % inner[d] ELSE r[d - 1]
  BY <1>8
<1> QED
  BY <1>7, <1>9, <1>10 DEF Divided

\* More than one element lies inside of every dimension but the last.
LEMMA InnersLarge ==
    ASSUME NEW n \in Nat, NEW shape \in [1..n -> Nat], \A i \in 1..n : shape[i] > 0,
           ~(n > 1 /\ shape[n] = 1), NEW i \in 1..(n - 1)
    PROVE  Inner(shape)[i] > 1
<1>1. PICK inner : inner = Inner(shape)
  OBVIOUS
<1>2. /\ inner[n] = 1 /\ \A d \in 1..n : inner[d - 1] = inner[d] * shape[d]
      /\ \A d \in 0..n : inner[d] \in Nat
  BY <1>1, Inners
<1>3. n - 1 \in 1..n /\ n \in 1..n /\ shape[n] > 1
  <2>1. n \in 1..n /\ n > 1
    OBVIOUS
  <2>2. shape[n] \in Nat /\ shape[n] > 0 /\ shape[n] # 1
    BY <2>1
  <2> QED
    BY <2>1, <2>2
<1> DEFINE T == {j \in 1..(n - 1) : inner[n - j] > 1}
<1>4. 1 <= n - 1 => 1 \in T
  <2>1. inner[n - 1] = inner[n] * shape[n]
    BY <1>2, <1>3
  <2>2. shape[n] \in Nat
    BY <1>3
  <2>3. inner[n - 1] = shape[n]
    BY <1>2, <2>1, <2>2
  <2> QED
    BY <1>3, <2>3
<1>5. ASSUME NEW j \in (1 + 1)..(n - 1), j - 1 \in T PROVE j \in T
  <2>1. PICK h \in 1..n : h = n - j + 1 /\ h - 1 = n - j /\ h = n - (j - 1)
    OBVIOUS
  <2>2. PICK a \in Nat, s \in Nat : a = inner[h] /\ s = shape[h] /\ a > 1 /\ s > 0
    BY <1>2, <1>5, <2>1, SMTT(20)
  <2>3. inner[n - j] = a * s
    BY <1>2, <2>1, <2>2
  <2>4. a * s > 1
    BY <2>2, SMTT(30)
  <2> QED
    BY <2>3, <2>4
<1>6. 1 \in Int /\ n - 1 \in Int
  OBVIOUS
<1>7. \A j \in 1..(n - 1) : j \in T
  <2> HIDE DEF T
  <2> QED
    BY <1>4, <1>5, <1>6, IntervalInduction, Zenon
<1>8. PICK j \in 1..(n - 1) : n - j = i
  OBVIOUS
<1> QED
  BY <1>1, <1>7, <1>8

\* The coordinates that a compiled kernel takes from an index are those of the
\* element at that position, unless the last of several dimensions is of one.
LEMMA RestCoordinates ==
    ASSUME NEW n \in Nat, NEW shape \in [1..n -> Nat], NEW k \in 0..(Product(shape) - 1),
           ~(n > 1 /\ shape[n] = 1), NEW d \in 1..n
    PROVE  (IF Inner(shape)[d] > 1 THEN Rest(Inner(shape), n, k)[d - 1] \div Inner(shape)[d]
                                   ELSE Rest(Inner(shape), n, k)[d - 1])
             = Coordinates(shape, k)[d]
<1>1. PICK inner : inner = Inner(shape)
  OBVIOUS
<1>2. /\ inner[n] = 1 /\ \A i \in 1..n : inner[i - 1] = inner[i] * shape[i]
      /\ \A i \in 0..n : inner[i] \in Nat
      /\ Product(shape) = inner[0]
  BY <1>1, Inners
<1>3. PICK l \in Nat : l = k /\ l < inner[0]
  <2>1. 0 \in 0..n
    OBVIOUS
  <2> QED
    BY <1>2, <2>1
<1>4. \A i \in 1..n : shape[i] > 0
  <2>1. Product(shape) > 0
    BY <1>2, <1>3
  <2> QED
    BY <2>1, Positive, Zenon
<1>5. \A i \in 0..n : inner[i] \in Nat \ {0}
  <2>1. \A i \in 0..n : Inner(shape)[i] \in Nat \ {0}
    BY <1>4, Positive, Zenon
  <2> QED
    BY <1>1, <2>1
<1>6. PICK r : r = Rest(inner, n, l)
  OBVIOUS
<1>7. /\ r[0] = l
      /\ \A i \in 1..n : r[i] = IF inner[i] > 1 THEN r[i - 1] % inner[i] ELSE r[i - 1]
  <2>1. \A i \in 0..n : inner[i] \in Nat
    BY <1>2
  <2>2. Divided(Rest(inner, n, l), inner, n, l)
    BY <2>1, Rests
  <2> QED
    BY <1>6, <2>2 DEF Divided
<1>8. ASSUME NEW i \in 1..(n - 1) PROVE inner[i] > 1
  BY <1>1, <1>4, InnersLarge
<1> DEFINE U == {i \in 0..(n - 1) : r[i] = l % inner[i]}
<1>9. ASSUME NEW i \in 1..n
      PROVE  /\ l % inner[i - 1] = (((l \div inner[i]) % shape[i]) * inner[i]) + (l % inner[i])
             /\ (l % inner[i - 1]) \div inner[i] = (l \div inner[i]) % shape[i]
             /\ (l % inner[i - 1]) % inner[i] = l % inner[i]
  <2>1. PICK m \in Nat \ {0}, s \in Nat \ {0} : m = inner[i] /\ s = shape[i]
    BY <1>4, <1>5, SMTT(20)
  <2>2. inner[i - 1] = m * s
    BY <1>2, <2>1
  <2>3. /\ l % (m * s) = (((l \div m) % s) * m) + (l % m)
        /\ (l % (m * s)) \div m = (l \div m) % s
        /\ (l % (m * s)) % m = l % m
    BY Radix
  <2> QED
    BY <2>1, <2>2, <2>3
<1>10. \A i \in 0..(n - 1) : i \in U
  <2>1. 0 <= n - 1 => 0 \in U
    <3>1. inner[0] \in Nat \ {0}
      <4>1. 0 \in 0..n
        OBVIOUS
      <4> QED
        BY <1>5, <4>1
    <3>2. l % inner[0] = l
      BY <1>3, <3>1, Below
    <3> QED
      BY <1>7, <3>2
  <2>2. ASSUME NEW i \in (0 + 1)..(n - 1), i - 1 \in U PROVE i \in U
    <3>1. i \in 1..n /\ i \in 1..(n - 1) /\ i \in 0..(n - 1)
      OBVIOUS
    <3>2. r[i - 1] = l % inner[i - 1]
      BY <2>2
    <3>3. r[i] = r[i - 1] % inner[i]
      BY <1>7, <1>8, <3>1
    <3>4. (l % inner[i - 1]) % inner[i] = l % inner[i]
      BY <1>9, <3>1
    <3> QED
      BY <3>1, <3>2, <3>3, <3>4
  <2>3. 0 \in Int /\ n - 1 \in Int
    OBVIOUS
  <2> HIDE DEF U
  <2> QED
    BY <2>1, <2>2, <2>3, IntervalInduction, Zenon
<1>11. r[d - 1] = l % inner[d - 1]
  <2>1. d - 1 \in 0..(n - 1)
    OBVIOUS
  <2> QED
    BY <1>10, <2>1
<1>12. Coordinates(shape, k)[d] = (l \div inner[d]) % shape[d]
  BY <1>1, <1>3 DEF Coordinates
<1>13. CASE d = n
  <2>1. inner[d] = 1
    BY <1>2, <1>13
  <2>2. l % inner[d - 1] = (((l \div inner[d]) % shape[d]) * inner[d]) + (l % inner[d])
    BY <1>9
  <2>3. PICK x \in Nat : x = (l \div inner[d]) % shape[d]
    <3>1. PICK s \in Nat \ {0} : s = shape[d]
      BY <1>4
    <3>2. PICK m \in Nat \ {0} : m = inner[d]
      BY <2>1
    <3>3. PICK q \in Nat : q = l \div m
      BY DivMod
    <3>4. q % s \in 0..(s - 1)
      BY DivMod
    <3> QED
      BY <3>1, <3>2, <3>3, <3>4
  <2>4. r[d - 1] = x
    <3>1. l % 1 = 0
      OBVIOUS
    <3>2. l % inner[d - 1] = (x * 1) + (l % 1)
      BY <2>1, <2>2, <2>3
    <3> QED
      BY <1>11, <3>1, <3>2
  <2> QED
    BY <1>1, <1>3, <1>6, <1>12, <2>1, <2>3, <2>4
<1>14. CASE d # n
  <2>1. d \in 1..(n - 1)
    BY <1>14
  <2>2. inner[d] > 1
    BY <1>8, <2>1
  <2>3. (l % inner[d - 1]) \div inner[d] = (l \div inner[d]) % shape[d]
    BY <1>9
  <2> QED
    BY <1>1, <1>3, <1>6, <1>11, <1>12, <2>2, <2>3
<1> QED
  BY <1>13, <1>14

LEMMA BitOffsetPlace ==
    ASSUME NEW n \in Nat, NEW view, view.shape \in [1..n -> Nat],
           NEW k \in 0..(Product(view.shape) - 1), ~TrailingOne(view)
    PROVE  BitOffset(view, k)
             = Place(view.bit_strides, view.bit_offset, Coordinates(view.shape, k))
<1>1. PICK shape \in [1..n -> Nat] : shape = view.shape
  OBVIOUS
<1>2. Len(shape) = n /\ DOMAIN shape = 1..n
  <2>1. shape \in [1..n -> Int]
    OBVIOUS
  <2> QED
    BY <2>1, Lengths
<1>3. ~(n > 1 /\ shape[n] = 1)
  BY <1>1, <1>2 DEF TrailingOne
<1>4. PICK c : c = [d \in 1..n |->
                      IF Inner(shape)[d] > 1
                      THEN Rest(Inner(shape), n, k)[d - 1] \div Inner(shape)[d]
                      ELSE Rest(Inner(shape), n, k)[d - 1]]
  OBVIOUS
<1>5. Product(view.shape) # 0
  OBVIOUS
<1>6. BitOffset(view, k) = Place(view.bit_strides, view.bit_offset, c)
  <2>1. BitOffset(view, k)
          = Place(view.bit_strides, view.bit_offset,
                  [d \in 1..Len(view.shape) |->
                     IF Inner(view.shape)[d] > 1
                     THEN Rest(Inner(view.shape), Len(view.shape), k)[d - 1]
                            \div Inner(view.shape)[d]
                     ELSE Rest(Inner(view.shape), Len(view.shape), k)[d - 1]])
    BY <1>5 DEF BitOffset, Rest
  <2> QED
    BY <1>1, <1>2, <1>4, <2>1
<1>7. PICK e : e = Coordinates(shape, k)
  OBVIOUS
<1>8. e = [d \in 1..n |-> e[d]]
  BY <1>2, <1>7 DEF Coordinates
<1>9. \A d \in 1..n : c[d] = e[d]
  <2> SUFFICES ASSUME NEW d \in 1..n PROVE c[d] = e[d]
    OBVIOUS
  <2>1. k \in 0..(Product(shape) - 1)
    BY <1>1
  <2>2. (IF Inner(shape)[d] > 1 THEN Rest(Inner(shape), n, k)[d - 1] \div Inner(shape)[d]
                                ELSE Rest(Inner(shape), n, k)[d - 1])
          = Coordinates(shape, k)[d]
    BY <1>3, <2>1, RestCoordinates
  <2> QED
    BY <1>4, <1>7, <2>2
<1>10. c = e
  BY <1>4, <1>8, <1>9
<1> QED
  BY <1>1, <1>6, <1>7, <1>10

\* The coordinates that a compiled kernel takes from any index.
Counted(shape, n, k) ==
    [d \in 1..n |-> IF Inner(shape)[d] > 1 THEN Rest(Inner(shape), n, k)[d - 1] \div Inner(shape)[d]
                                          ELSE Rest(Inner(shape), n, k)[d - 1]]

LEMMA BitOffsetCounted ==
    ASSUME NEW n \in Nat, NEW view, view.shape \in [1..n -> Nat], Product(view.shape) # 0,
           NEW k
    PROVE  BitOffset(view, k)
             = Place(view.bit_strides, view.bit_offset, Counted(view.shape, n, k))
<1>1. PICK shape \in [1..n -> Nat] : shape = view.shape
  OBVIOUS
<1>2. Len(shape) = n
  <2>1. shape \in [1..n -> Int]
    OBVIOUS
  <2> QED
    BY <2>1, Lengths
<1>3. BitOffset(view, k)
        = Place(view.bit_strides, view.bit_offset,
                [d \in 1..Len(view.shape) |->
                   IF Inner(view.shape)[d] > 1
                   THEN Rest(Inner(view.shape), Len(view.shape), k)[d - 1]
                          \div Inner(view.shape)[d]
                   ELSE Rest(Inner(view.shape), Len(view.shape), k)[d - 1]])
  BY DEF BitOffset, Rest
<1> QED
  BY <1>1, <1>2, <1>3 DEF Counted

\* What is left of an index that the coordinates count down to nothing: the
\* first takes as much as there is, the others less than their dimension.
CountsDown(left, c, inner, n, k) ==
    /\ left[0] = k /\ left[n] = 0
    /\ \A d \in 0..n : left[d] \in Nat
    /\ \A d \in 1..n : /\ left[d - 1] = c[d] * inner[d] + left[d]
                       /\ left[d] < inner[d]

LEMMA CountedDown ==
    ASSUME NEW n \in Nat, n # 0, NEW shape \in [1..n -> Nat \ {0}],
           ~(n > 1 /\ shape[n] = 1), NEW k \in Nat
    PROVE  /\ Counted(shape, n, k) \in [1..n -> Nat]
           /\ \E left : CountsDown(left, Counted(shape, n, k), Inner(shape), n, k)
<1>1. PICK inner, c, r : /\ inner = Inner(shape) /\ c = Counted(shape, n, k)
                         /\ r = Rest(inner, n, k)
  OBVIOUS
<1>2. shape \in [1..n -> Nat] /\ \A i \in 1..n : shape[i] > 0
  OBVIOUS
<1>3. inner[n] = 1 /\ \A d \in 0..n : inner[d] \in Nat
  BY <1>1, <1>2, Inners
<1>4. \A d \in 1..(n - 1) : inner[d] > 1
  BY <1>1, <1>2, InnersLarge
<1>5. \A d \in 1..n : inner[d] > 1 <=> d # n
  BY <1>3, <1>4
<1>6. /\ r[0] = k
      /\ \A d \in 1..n : r[d] = IF d # n THEN r[d - 1] % inner[d] ELSE r[d - 1]
  <2>1. Divided(r, inner, n, k)
    BY <1>1, <1>3, Rests
  <2> QED
    BY <1>5, <2>1 DEF Divided
<1>7. \A d \in 1..n : c[d] = IF d # n THEN r[d - 1] \div inner[d] ELSE r[d - 1]
  BY <1>1, <1>5 DEF Counted
<1> DEFINE T == {d \in 0..(n - 1) : r[d] \in Nat}
<1>8. \A d \in 0..(n - 1) : d \in T
  <2>1. 0 <= n - 1 => 0 \in T
    BY <1>6
  <2>2. ASSUME NEW d \in (0 + 1)..(n - 1), d - 1 \in T PROVE d \in T
    <3>1. d \in 1..n /\ d # n /\ d \in 0..(n - 1)
      OBVIOUS
    <3>2. PICK m \in Nat \ {0} : m = inner[d]
      <4>1. inner[d] \in Nat /\ inner[d] > 1
        BY <1>3, <1>4, <3>1
      <4> QED
        BY <4>1
    <3>3. PICK p \in Nat : p = r[d - 1]
      BY <2>2
    <3>4. p % m \in 0..(m - 1)
      BY DivMod
    <3>5. r[d] = p % m
      BY <1>6, <3>1, <3>2, <3>3
    <3> QED
      BY <3>1, <3>4, <3>5
  <2>3. 0 \in Int /\ n - 1 \in Int
    OBVIOUS
  <2> HIDE DEF T
  <2> QED
    BY <2>1, <2>2, <2>3, IntervalInduction, Zenon
<1>9. PICK left : left = [d \in 0..n |-> IF d = n THEN 0 ELSE r[d]]
  OBVIOUS
<1>10. \A d \in 0..n : left[d] \in Nat
  BY <1>8, <1>9
<1>11. ASSUME NEW d \in 1..n
       PROVE  /\ c[d] \in Nat
              /\ left[d - 1] = c[d] * inner[d] + left[d] /\ left[d] < inner[d]
  <2>1. PICK p \in Nat : p = r[d - 1] /\ p = left[d - 1]
    <3>1. d - 1 \in 0..(n - 1) /\ d - 1 \in 0..n /\ d - 1 # n
      OBVIOUS
    <3>2. r[d - 1] \in Nat
      BY <1>8, <3>1
    <3>3. left[d - 1] = r[d - 1]
      BY <1>9, <3>1
    <3> QED
      BY <3>2, <3>3
  <2>2. CASE d = n
    <3>1. c[d] = p /\ inner[d] = 1 /\ left[d] = 0
      BY <1>3, <1>7, <1>9, <2>1, <2>2
    <3> QED
      BY <2>1, <3>1
  <2>3. CASE d # n
    <3>1. PICK m \in Nat \ {0} : m = inner[d]
      <4>1. d \in 1..(n - 1) /\ d \in 0..n
        BY <2>3
      <4>2. inner[d] \in Nat /\ inner[d] > 1
        BY <1>3, <1>4, <4>1
      <4> QED
        BY <4>2
    <3>2. /\ p \div m \in Nat /\ p % m \in 0..(m - 1)
          /\ p = (p \div m) * m + (p % m)
      BY DivMod
    <3>3. c[d] = p \div m /\ left[d] = p % m
      BY <1>6, <1>7, <1>9, <2>1, <2>3, <3>1
    <3> QED
      BY <2>1, <3>1, <3>2, <3>3
  <2> QED
    BY <2>2, <2>3
<1>12. c \in [1..n -> Nat]
  BY <1>1, <1>11 DEF Counted
<1>13. left[0] = k /\ left[n] = 0
  BY <1>6, <1>9
<1>14. CountsDown(left, c, inner, n, k)
  BY <1>10, <1>11, <1>13 DEF CountsDown
<1> QED
  BY <1>1, <1>12, <1>14

\* Of a row-major layout every index finds its own place, however far it is.
LEMMA CountedInOrder ==
    ASSUME NEW n \in Nat \ {0}, NEW shape \in [1..n -> Nat \ {0}], NEW width \in Nat,
           NEW k \in Nat, ~(n > 1 /\ shape[n] = 1)
    PROVE  Total(Moves(RowMajorBitStrides(shape, width), Counted(shape, n, k))) = k * width
<1> PICK c : c = Counted(shape, n, k)
  OBVIOUS
<1>1. c \in [1..n -> Nat] /\ \E left : CountsDown(left, c, Inner(shape), n, k)
  BY CountedDown
<1> PICK left : CountsDown(left, c, Inner(shape), n, k)
  BY <1>1
<1>2. PICK inner, strides, m, r :
         /\ inner = Inner(shape) /\ strides = RowMajorBitStrides(shape, width)
         /\ m = Moves(strides, c) /\ r = RunningTotal(m)
  OBVIOUS
<1>3. /\ \A d \in 0..n : inner[d] \in Nat
      /\ strides \in [1..n -> Nat] /\ \A d \in 1..n : strides[d] = inner[d] * width
  <2>1. shape \in [1..n -> Nat] /\ n \in Nat
    OBVIOUS
  <2>2. \A d \in 0..n : inner[d] \in Nat
    BY <1>2, <2>1, Inners
  <2>3. /\ RowMajorBitStrides(shape, width) \in [1..n -> Nat]
        /\ \A d \in 1..n : RowMajorBitStrides(shape, width)[d] = Inner(shape)[d] * width
    BY <2>1, RowMajor, Zenon
  <2> QED
    BY <1>2, <2>2, <2>3
<1>4. m \in [1..n -> Int] /\ \A d \in 1..n : m[d] = c[d] * strides[d]
  <2>1. /\ Moves(strides, c) \in [1..n -> Int]
        /\ \A d \in 1..n : Moves(strides, c)[d] = c[d] * strides[d]
    BY <1>1, <1>3, MovesTyped, ZenonT(20)
  <2> QED
    BY <1>2, <2>1, ZenonT(20)
<1>5. /\ r[0] = 0 /\ \A d \in 1..n : r[d] = r[d - 1] + m[d]
      /\ Total(m) = r[n]
  BY <1>2, <1>4, Totals
<1>6. /\ left[0] = k /\ left[n] = 0
      /\ \A d \in 0..n : left[d] \in Nat
      /\ \A d \in 1..n : left[d - 1] = c[d] * inner[d] + left[d]
  BY <1>1, <1>2 DEF CountsDown
<1>7. PICK all \in Nat : all = k * width
  BY Products
<1> DEFINE T == {d \in 0..n : r[d] = all - left[d] * width}
<1>8. \A d \in 0..n : d \in T
  <2>1. 0 <= n => 0 \in T
    BY <1>5, <1>6, <1>7
  <2>2. ASSUME NEW d \in (0 + 1)..n, d - 1 \in T PROVE d \in T
    <3>1. d \in 1..n /\ d \in 0..n /\ d - 1 \in 0..n
      OBVIOUS
    <3>2. PICK p \in Nat, i \in Nat, l \in Nat : p = c[d] /\ i = inner[d] /\ l = left[d]
      BY <1>1, <1>3, <1>6, <3>1
    <3>3. r[d - 1] = all - (p * i + l) * width
      BY <1>6, <2>2, <3>1, <3>2
    <3>4. m[d] = p * (i * width)
      BY <1>3, <1>4, <3>1, <3>2
    <3>5. PICK x \in Nat, y \in Nat : x = p * (i * width) /\ y = l * width
      <4>1. i * width \in Nat
        BY Products
      <4>2. p * (i * width) \in Nat /\ l * width \in Nat
        BY <4>1, Products
      <4> QED
        BY <4>2
    <3>6. (p * i + l) * width = p * (i * width) + l * width
      OBVIOUS
    <3>7. r[d] = all - y
      BY <1>5, <3>1, <3>3, <3>4, <3>5, <3>6
    <3> QED
      BY <3>1, <3>2, <3>5, <3>7
  <2>3. 0 \in Int /\ n \in Int
    OBVIOUS
  <2> HIDE DEF T
  <2> QED
    BY <2>1, <2>2, <2>3, IntervalInduction, Zenon
<1>9. r[n] = all - 0 * width
  <2>1. n \in T
    BY <1>8
  <2> QED
    BY <1>6, <2>1
<1> QED
  BY <1>1, <1>2, <1>5, <1>7, <1>9

\* Of a layout that fills the room of its elements and has those of the first
\* dimension one behind the other, no index beyond them finds a later place
\* than its own.
LEMMA CountedTurned ==
    ASSUME NEW n \in Nat, n # 0, NEW shape \in [1..n -> Nat \ {0}], NEW width \in Nat,
           NEW strides \in [1..n -> Nat], strides[1] = width,
           Total(Reach(shape, strides)) + width = width * Product(shape),
           NEW k \in Nat, Product(shape) <= k, NEW c \in [1..n -> Nat], NEW left,
           CountsDown(left, c, Inner(shape), n, k)
    PROVE  Total(Moves(strides, c)) <= k * width
<1>1. PICK inner, m, x, r, q :
         /\ inner = Inner(shape) /\ m = Moves(strides, c) /\ x = Reach(shape, strides)
         /\ r = RunningTotal(m) /\ q = RunningTotal(x)
  OBVIOUS
<1>2. /\ \A d \in 1..n : inner[d - 1] = inner[d] * shape[d]
      /\ \A d \in 0..n : inner[d] \in Nat
      /\ Product(shape) = inner[0]
  <2>1. shape \in [1..n -> Nat]
    OBVIOUS
  <2> QED
    BY <1>1, <2>1, Inners
<1> n \in Nat
  OBVIOUS
<1>3. m \in [1..n -> Int] /\ \A d \in 1..n : m[d] = c[d] * strides[d]
  <2>1. /\ Moves(strides, c) \in [1..n -> Int]
        /\ \A d \in 1..n : Moves(strides, c)[d] = c[d] * strides[d]
    BY MovesTyped, ZenonT(20)
  <2> QED
    BY <1>1, <2>1, ZenonT(20)
<1>4. x \in [1..n -> Int] /\ \A d \in 1..n : x[d] = (shape[d] - 1) * strides[d]
  <2>1. /\ Reach(shape, strides) \in [1..n -> Int]
        /\ \A d \in 1..n : Reach(shape, strides)[d] = (shape[d] - 1) * strides[d]
    BY Reaches, ZenonT(20)
  <2> QED
    BY <1>1, <2>1, ZenonT(20)
<1>5. /\ left[0] = k
      /\ \A d \in 0..n : left[d] \in Nat
      /\ \A d \in 1..n : left[d - 1] = c[d] * inner[d] + left[d] /\ left[d] < inner[d]
  BY <1>1 DEF CountsDown
<1>6. ASSUME NEW d \in (1 + 1)..n PROVE m[d] <= x[d]
  <2>1. d \in 1..n /\ d - 1 \in 1..n
    OBVIOUS
  <2>2. PICK p \in Nat, i \in Nat, s \in Nat \ {0}, l \in Nat, t \in Nat :
           p = c[d] /\ i = inner[d] /\ s = shape[d] /\ l = left[d] /\ t = strides[d]
    <3>1. d \in 0..n
      BY <2>1
    <3>2. inner[d] \in Nat /\ left[d] \in Nat
      BY <1>2, <1>5, <3>1
    <3>3. c[d] \in Nat /\ shape[d] \in Nat \ {0} /\ strides[d] \in Nat
      BY <2>1
    <3> QED
      BY <3>2, <3>3
  <2>3. PICK u \in Nat, v \in Nat : u = p * i /\ v = i * s /\ u < v
    <3>1. left[d - 1] = p * i + l /\ left[d - 1] < inner[d - 1] /\ inner[d - 1] = i * s
      BY <1>2, <1>5, <2>1, <2>2
    <3>2. PICK u \in Nat, v \in Nat : u = p * i /\ v = i * s
      BY Products
    <3>3. u + l < v
      BY <3>1, <3>2
    <3>4. u < v
      BY <3>3
    <3> QED
      BY <3>2, <3>4
  <2>4. p < s
    <3>1. ASSUME s <= p PROVE FALSE
      <4>1. s * i <= p * i
        BY <3>1, Products
      <4>2. i * s = s * i
        OBVIOUS
      <4>3. v <= u
        BY <2>3, <4>1, <4>2
      <4> QED
        BY <2>3, <4>3
    <3> QED
      BY <3>1
  <2>5. p * t <= (s - 1) * t
    <3>1. s - 1 \in Nat /\ p <= s - 1
      BY <2>4
    <3> QED
      BY <3>1, Products
  <2> QED
    BY <1>3, <1>4, <2>1, <2>2, <2>5
<1>7. /\ r[0] = 0 /\ \A d \in 1..n : r[d] = r[d - 1] + m[d]
      /\ \A d \in 0..n : r[d] \in Int
      /\ Total(m) = r[n]
  BY <1>1, <1>3, Totals
<1>8. /\ q[0] = 0 /\ \A d \in 1..n : q[d] = q[d - 1] + x[d]
      /\ \A d \in 0..n : q[d] \in Int
      /\ Total(x) = q[n]
  BY <1>1, <1>4, Totals
<1>9. r[n] - r[1] <= q[n] - q[1]
  <2>1. 1 \in 0..n /\ n \in 1..n
    OBVIOUS
  <2> QED
    BY <1>1, <1>3, <1>4, <1>6, <2>1, TotalsGrow
<1>10. PICK p \in Nat, i \in Nat, s \in Nat \ {0}, l \in Nat :
          /\ p = c[1] /\ i = inner[1] /\ s = shape[1] /\ l = left[1]
          /\ k = p * i + l /\ l < i /\ 1 <= i /\ Product(shape) = i * s
  <2>1. PICK one \in 1..n : one = 1 /\ one - 1 = 0 /\ one \in 0..n
    OBVIOUS
  <2>2. inner[one] \in Nat /\ left[one] \in Nat /\ c[one] \in Nat /\ shape[one] \in Nat \ {0}
    BY <1>2, <1>5, <2>1
  <2>3. /\ left[one - 1] = c[one] * inner[one] + left[one] /\ left[one] < inner[one]
        /\ inner[one - 1] = inner[one] * shape[one]
    BY <1>2, <1>5
  <2>4. PICK p \in Nat, i \in Nat, s \in Nat \ {0}, l \in Nat :
           p = c[1] /\ i = inner[1] /\ s = shape[1] /\ l = left[1]
    BY <2>1, <2>2
  <2>5. l < i /\ 1 <= i
    BY <2>1, <2>3, <2>4
  <2>6. k = p * i + l /\ Product(shape) = i * s
    BY <1>2, <1>5, <2>1, <2>3, <2>4
  <2> QED
    BY <2>4, <2>5, <2>6, ZenonT(20)
<1>11. r[1] = p * width /\ q[1] = (s - 1) * width
  <2>1. 1 \in 1..n /\ 1 - 1 = 0
    OBVIOUS
  <2>2. m[1] = p * width /\ x[1] = (s - 1) * width
    BY <1>3, <1>4, <1>10, <2>1
  <2>3. m[1] \in Int /\ x[1] \in Int
    BY <1>3, <1>4, <2>1
  <2>4. r[1] = 0 + m[1] /\ q[1] = 0 + x[1]
    BY <1>7, <1>8, <2>1
  <2>5. r[1] = m[1] /\ q[1] = x[1]
    BY <2>3, <2>4
  <2> QED
    BY <2>2, <2>5, ZenonT(20)
<1>12. PICK all \in Nat : all = i * s
  BY Products
<1>13. all <= k /\ s <= p
  <2>1. all <= k
    BY <1>10, <1>12
  <2>2. ASSUME p + 1 <= s PROVE FALSE
    <3>1. (p + 1) * i <= s * i
      BY <2>2, Products
    <3>2. PICK u \in Nat : u = p * i /\ (p + 1) * i = u + i
      BY Products
    <3>3. s * i = all
      BY <1>12
    <3>4. u + i <= all /\ k = u + l /\ l < i
      BY <1>10, <3>1, <3>2, <3>3
    <3> QED
      BY <2>1, <3>4
  <2> QED
    BY <2>1, <2>2
<1>14. p + all - s <= k
  <2>1. PICK e \in Nat : p = s + e
    <3>1. p - s \in Nat /\ p = s + (p - s)
      BY <1>13
    <3> QED
      BY <3>1
  <2>2. 1 * e <= i * e
    <3>1. 1 \in Nat /\ 1 <= i
      BY <1>10
    <3> QED
      BY <3>1, Products
  <2>3. p * i = i * s + i * e
    BY <2>1
  <2>4. PICK u \in Nat : u = i * e
    BY Products
  <2>5. k = all + u + l
    BY <1>10, <1>12, <2>3, <2>4
  <2>6. e <= u
    BY <2>2, <2>4
  <2>7. p + all - s = all + e
    BY <2>1
  <2> QED
    BY <2>5, <2>6, <2>7
<1>15. PICK y \in Nat, a \in Nat, b \in Nat, z \in Nat :
          y = p * width /\ a = all * width /\ b = s * width /\ z = k * width
  BY Products
<1>16. r[n] <= y + a - b
  <2>1. (s - 1) * width = b - width /\ width * all = a
    BY <1>15
  <2>2. q[n] + width = a
    BY <1>1, <1>8, <1>10, <1>12, <2>1
  <2>3. r[1] = y /\ q[1] = b - width
    BY <1>11, <1>15, <2>1
  <2>4. PICK f \in Int, g \in Int : f = r[n] /\ g = q[n]
    <3>1. n \in 0..n
      OBVIOUS
    <3> QED
      BY <1>7, <1>8, <3>1
  <2>5. f - y <= g - (b - width) /\ g + width = a
    BY <1>9, <2>2, <2>3, <2>4
  <2>6. f <= y + a - b
    BY <2>5
  <2> QED
    BY <2>4, <2>6
<1>17. y + a - b <= z
  <2>1. PICK e \in Nat : e = p + all - s
    <3>1. p + all - s \in Nat
      BY <1>13
    <3> QED
      BY <3>1
  <2>2. e * width <= k * width
    BY <1>14, <2>1, Products
  <2>3. e * width = y + a - b
    BY <1>15, <2>1
  <2> QED
    BY <1>15, <2>2, <2>3
<1>18. PICK f \in Int : f = r[n] /\ f <= y + a - b
  <2>1. n \in 0..n
    OBVIOUS
  <2>2. r[n] \in Int
    BY <1>7, <2>1
  <2> QED
    BY <1>16, <2>2
<1>19. f <= z
  BY <1>17, <1>18, SMTT(30)
<1> QED
  BY <1>1, <1>7, <1>15, <1>18, <1>19

\* The bits that a helper touches for a limb of an element are inside of a
\* buffer that the whole element is inside of.
LEMMA FieldInside ==
    ASSUME NEW width \in Nat \ {0}, NEW limb \in Nat, NEW offset \in Nat, NEW length \in Nat,
           offset + width <= length
    PROVE  Field(offset, width, limb) \subseteq 0..(length - 1)
<1>1. ByteBits \in Nat \ {0} /\ WordBits \in Nat \ {0}
  BY BitPackAssumption
<1>2. PICK w \in Nat : w = limb * WordBits
  BY <1>1, Products
<1>3. PICK x \in Nat : x = offset + w
  OBVIOUS
<1>4. PICK f \in Nat : f = (offset \div ByteBits) * ByteBits /\ f <= offset
  <2>1. offset = (offset \div ByteBits) * ByteBits + (offset % ByteBits)
        /\ offset \div ByteBits \in Nat /\ offset % ByteBits \in 0..(ByteBits - 1)
    BY <1>1, DivMod
  <2>2. (offset \div ByteBits) * ByteBits \in Nat
    BY <1>1, <2>1, Products
  <2> QED
    BY <1>1, <2>1, <2>2
<1>5. PICK g \in Nat : g = (x \div ByteBits) * ByteBits /\ g <= x
  <2>1. x = (x \div ByteBits) * ByteBits + (x % ByteBits)
        /\ x \div ByteBits \in Nat /\ x % ByteBits \in 0..(ByteBits - 1)
    BY <1>1, DivMod
  <2>2. (x \div ByteBits) * ByteBits \in Nat
    BY <1>1, <2>1, Products
  <2> QED
    BY <1>1, <2>1, <2>2
<1>6. PICK s, v : s = FieldStart(offset, width, limb) /\ v = FieldWidth(width, limb)
  OBVIOUS
<1>7. s \in Nat /\ (v = 0 \/ (v \in Nat /\ s + v <= offset + width))
  <2>1. CASE width \in NativeWidths
    <3>1. s = f /\ v = width
      <4>1. s = f
        BY <1>4, <1>6, <2>1, Zenon DEF FieldStart
      <4>2. v = width
        BY <1>6, <2>1 DEF FieldWidth
      <4> QED
        BY <4>1, <4>2
    <3> QED
      BY <1>4, <3>1
  <2>2. CASE width \notin NativeWidths
    <3>1. s = IF width % WordBits = 0 THEN g ELSE x
      BY <1>2, <1>3, <1>5, <1>6, <2>2 DEF FieldStart
    <3>2. v = IF width - w < WordBits THEN (IF width > w THEN width - w ELSE 0) ELSE WordBits
      BY <1>2, <1>6, <2>2 DEF FieldWidth
    <3>3. s \in Nat /\ s <= offset + w
      BY <1>3, <1>5, <3>1
    <3>4. v = 0 \/ (v \in Nat /\ v <= width - w)
      BY <1>1, <3>2
    <3> QED
      BY <3>3, <3>4
  <2> QED
    BY <2>1, <2>2
<1>8. Field(offset, width, limb) = s..(s + v - 1)
  BY <1>6 DEF Field
<1> QED
  BY <1>7, <1>8

-----------------------------------------------------------------------------
(* Arrays and their variables. *)

\* A materialised variable.
Variables ==
    [op : {"Var"}, id : {1}, dtype : [kind : {"Int"}, bits : Nat \ {0}], size : Nat,
     packed_data : SUBSET Nat, shape : Seq(Nat), bit_strides : Seq(Nat), bit_offset : Nat,
     scale : {0}, steal_sign : {FALSE}]

Typed(a) ==
    /\ a \in [expr : Variables, shape : Seq(Nat), bit_strides : Seq(Nat)]
    /\ DOMAIN a.bit_strides = DOMAIN a.shape
    /\ DOMAIN a.expr.bit_strides = DOMAIN a.expr.shape
    /\ Product(a.shape) <= a.expr.size
    /\ Product(a.expr.shape) \in {a.expr.size, Product(a.shape)}

Filled(shape) == \A d \in DOMAIN shape : shape[d] > 0

\* The last element of a layout that begins at this bit ends inside of the
\* first length bits.
Fits(shape, strides, offset, width, length) ==
    Filled(shape) => offset + Total(Reach(shape, strides)) + width <= length

LaidOut(a) ==
    /\ \E length \in Nat :
          /\ a.expr.packed_data = 0..(length - 1)
          /\ Fits(a.shape, a.bit_strides, a.expr.bit_offset, Width(a), length)
          /\ Fits(a.expr.shape, a.expr.bit_strides, a.expr.bit_offset, Width(a), length)
    /\ Filled(a.shape) => Nested(a.shape, a.bit_strides, Width(a))

\* Row by row, from the first dimension on or from the last.
Ordered(shape, strides, width) ==
    \/ strides = RowMajorBitStrides(shape, width)
    \/ strides = Reverse(RowMajorBitStrides(Reverse(shape), width))

\* Where more was mapped than the array has, no slice was taken yet: the
\* buffer is as long as the variable, and nothing was turned but around.
Mapped(a) ==
    Product(a.shape) < a.expr.size =>
        /\ a.expr.bit_offset = 0 /\ a.expr.packed_data = BufferOf(a.expr.size, Width(a))
        /\ Ordered(a.shape, a.bit_strides, Width(a))
        /\ \/ Product(a.expr.shape) = a.expr.size
           \/ Ordered(a.expr.shape, a.expr.bit_strides, Width(a))

\* A shape and its strides have as many dimensions.
LEMMA Dimensions ==
    ASSUME NEW s \in Seq(Nat), NEW t \in Seq(Nat), DOMAIN t = DOMAIN s
    PROVE  \E n \in Nat : n = Len(s) /\ DOMAIN s = 1..n /\ s \in [1..n -> Nat] /\ t \in [1..n -> Nat]
<1>1. PICK n \in Nat : n = Len(s) /\ DOMAIN s = 1..n
  OBVIOUS
<1>2. s \in [1..n -> Nat] /\ t \in [1..n -> Nat]
  <2>1. \A i \in 1..n : s[i] \in Nat /\ t[i] \in Nat
    BY <1>1
  <2>2. s = [i \in 1..n |-> s[i]] /\ t = [i \in 1..n |-> t[i]]
    BY <1>1
  <2> QED
    BY <2>1, <2>2
<1> QED
  BY <1>1, <1>2

LEMMA Sequence ==
    ASSUME NEW n \in Nat, NEW s \in [1..n -> Nat]
    PROVE  s \in Seq(Nat) /\ Len(s) = n /\ DOMAIN s = 1..n
<1>1. s \in Seq(Nat)
  BY SeqDef
<1>2. s \in [1..n -> Int]
  OBVIOUS
<1> QED
  BY <1>1, <1>2, Lengths

LEMMA FilledShape ==
    ASSUME NEW n \in Nat, NEW s \in [1..n -> Nat], Filled(s)
    PROVE  s \in [1..n -> Nat \ {0}] /\ \A i \in 1..n : s[i] > 0
<1>1. \A i \in 1..n : s[i] \in Nat \ {0} /\ s[i] > 0
  BY DEF Filled
<1> QED
  BY <1>1

\* A slice of an array, field by field.
IsSlice(b, a, ranges) ==
    /\ b.shape = SlicedShape(a.shape, ranges)
    /\ b.bit_strides = SlicedStrides(a.shape, a.bit_strides, ranges)
    /\ b.expr.bit_offset
         = a.expr.bit_offset + Total(Moved(a.shape, a.bit_strides, ranges))
    /\ b.expr.shape = b.shape /\ b.expr.bit_strides = b.bit_strides
    /\ b.expr.size = Product(b.shape)
    /\ b.expr.packed_data = a.expr.packed_data /\ b.expr.dtype = a.expr.dtype

LEMMA SliceFields ==
    ASSUME NEW a, a.expr \in Variables, NEW ranges
    PROVE  IsSlice(SliceAndDice(a, ranges), a, ranges)
<1>1. PICK e, t, m : /\ e = SlicedShape(a.shape, ranges)
                     /\ t = SlicedStrides(a.shape, a.bit_strides, ranges)
                     /\ m = Moved(a.shape, a.bit_strides, ranges)
  OBVIOUS
<1>2. SliceAndDice(a, ranges)
        = Array([a.expr EXCEPT !.size = Product(e), !.shape = e, !.bit_strides = t,
                               !.bit_offset = @ + Total(m)], e, t)
  BY <1>1 DEF SliceAndDice, SlicedShape, SlicedStrides, Moved
<1>3. PICK b, v : /\ v = [a.expr EXCEPT !.size = Product(e), !.shape = e, !.bit_strides = t,
                                        !.bit_offset = @ + Total(m)]
                  /\ b = [expr |-> v, shape |-> e, bit_strides |-> t]
                  /\ b = SliceAndDice(a, ranges)
  BY <1>2 DEF Array
<1>4. /\ v.size = Product(e) /\ v.shape = e /\ v.bit_strides = t
      /\ v.bit_offset = a.expr.bit_offset + Total(m)
      /\ v.packed_data = a.expr.packed_data /\ v.dtype = a.expr.dtype
  BY <1>3 DEF Variables
<1>5. b.expr = v /\ b.shape = e /\ b.bit_strides = t
  BY <1>3
<1> QED
  BY <1>1, <1>3, <1>4, <1>5 DEF IsSlice

\* An array turned around, field by field.
IsTurned(b, a) ==
    /\ b.shape = Reverse(a.shape) /\ b.bit_strides = Reverse(a.bit_strides)
    /\ b.expr.bit_offset = a.expr.bit_offset
    /\ b.expr.shape = b.shape /\ b.expr.bit_strides = b.bit_strides
    /\ b.expr.size = a.expr.size
    /\ b.expr.packed_data = a.expr.packed_data /\ b.expr.dtype = a.expr.dtype

LEMMA TransposeFields ==
    ASSUME NEW a, a.expr \in Variables
    PROVE  IsTurned(Transpose(a), a)
<1>1. PICK e, t : e = Reverse(a.shape) /\ t = Reverse(a.bit_strides)
  OBVIOUS
<1>2. PICK b, v : /\ v = [a.expr EXCEPT !.shape = e, !.bit_strides = t]
                  /\ b = [expr |-> v, shape |-> e, bit_strides |-> t]
                  /\ b = Transpose(a)
  BY <1>1 DEF Transpose, Array
<1>3. /\ v.size = a.expr.size /\ v.shape = e /\ v.bit_strides = t
      /\ v.bit_offset = a.expr.bit_offset
      /\ v.packed_data = a.expr.packed_data /\ v.dtype = a.expr.dtype
  BY <1>2 DEF Variables
<1>4. b.expr = v /\ b.shape = e /\ b.bit_strides = t
  BY <1>2
<1> QED
  BY <1>1, <1>2, <1>3, <1>4 DEF IsTurned

\* The number of elements of a shape.
LEMMA ProductNatural ==
    ASSUME NEW n \in Nat, NEW shape \in [1..n -> Nat]
    PROVE  Product(shape) \in Nat
<1>1. 0 \in 0..n /\ Product(shape) = Inner(shape)[0]
  BY Inners
<1>2. \A d \in 0..n : Inner(shape)[d] \in Nat
  BY Inners
<1> QED
  BY <1>1, <1>2

LEMMA TotalNatural ==
    ASSUME NEW n \in Nat, NEW s \in [1..n -> Nat]
    PROVE  Total(s) \in Nat
<1>1. PICK z : z = [d \in 1..n |-> 0]
  OBVIOUS
<1>2. z \in [1..n -> Int] /\ \A d \in 1..n : z[d] = 0
  BY <1>1
<1>3. s \in [1..n -> Int]
  OBVIOUS
<1>4. Total(s) = RunningTotal(s)[n] /\ RunningTotal(s)[0] = 0 /\ Total(s) \in Int
  BY <1>3, Totals
<1>5. RunningTotal(z)[n] = 0 /\ RunningTotal(z)[0] = 0
  <2>1. \A d \in 0..n : RunningTotal(z)[d] = 0
    BY <1>2, TotalsZero
  <2> QED
    BY <2>1
<1>6. RunningTotal(z)[n] - RunningTotal(z)[0] <= RunningTotal(s)[n] - RunningTotal(s)[0]
  <2>1. 0 \in 0..n /\ n \in 0..n /\ \A i \in (0 + 1)..n : z[i] <= s[i]
    BY <1>2
  <2> QED
    BY <1>2, <1>3, <2>1, TotalsGrow
<1> QED
  BY <1>4, <1>5, <1>6

LEMMA RowMajorTyped ==
    ASSUME NEW n \in Nat, NEW shape \in [1..n -> Nat], NEW width \in Nat
    PROVE  RowMajorBitStrides(shape, width) \in [1..n -> Nat]
<1>1. ASSUME NEW d \in 1..n PROVE Inner(shape)[d] * width \in Nat
  <2>1. \A i \in 0..n : Inner(shape)[i] \in Nat
    BY Inners
  <2>2. Inner(shape)[d] \in Nat
    BY <2>1
  <2> QED
    BY <2>2, Products
<1> QED
  BY <1>1 DEF RowMajorBitStrides

\* An array around a variable is well typed if the variable has its elements.
LEMMA ArrayTyped ==
    ASSUME NEW n \in Nat, NEW shape \in [1..n -> Nat], NEW strides \in [1..n -> Nat],
           NEW v \in Variables, DOMAIN v.bit_strides = DOMAIN v.shape,
           Product(shape) <= v.size, Product(v.shape) \in {v.size, Product(shape)}
    PROVE  Typed(Array(v, shape, strides))
<1>1. /\ shape \in Seq(Nat) /\ strides \in Seq(Nat)
      /\ DOMAIN shape = 1..n /\ DOMAIN strides = 1..n
  BY Sequence
<1>2. PICK a : a = Array(v, shape, strides)
  OBVIOUS
<1>3. a = [expr |-> v, shape |-> shape, bit_strides |-> strides]
  BY <1>2 DEF Array
<1>4. a \in [expr : Variables, shape : Seq(Nat), bit_strides : Seq(Nat)]
  BY <1>1, <1>3
<1>5. a.expr = v /\ a.shape = shape /\ a.bit_strides = strides
  BY <1>3
<1> QED
  BY <1>1, <1>2, <1>4, <1>5 DEF Typed

LEMMA SliceTyped ==
    ASSUME NEW a, Typed(a), NEW ranges \in Seq(Ranges)
    PROVE  Typed(SliceAndDice(a, ranges))
<1>1. /\ a.expr \in Variables /\ a.shape \in Seq(Nat) /\ a.bit_strides \in Seq(Nat)
      /\ DOMAIN a.bit_strides = DOMAIN a.shape
  BY DEF Typed
<1>2. PICK n \in Nat : a.shape \in [1..n -> Nat] /\ a.bit_strides \in [1..n -> Nat]
  BY <1>1, Dimensions
<1>3. PICK e \in [1..n -> Nat], t \in [1..n -> Nat], m \in [1..n -> Nat] :
         /\ e = SlicedShape(a.shape, ranges)
         /\ t = SlicedStrides(a.shape, a.bit_strides, ranges)
         /\ m = Moved(a.shape, a.bit_strides, ranges)
  BY <1>2, SlicedTypes
<1>4. Total(m) \in Nat
  BY TotalNatural
<1>5. a.expr.bit_offset \in Nat
  BY <1>1 DEF Variables
<1>6. PICK offset \in Nat : offset = a.expr.bit_offset + Total(m)
  BY <1>4, <1>5
<1>7. PICK p \in Nat : p = Product(e)
  BY ProductNatural
<1>8. PICK v : v = [a.expr EXCEPT !.size = p, !.shape = e, !.bit_strides = t,
                                  !.bit_offset = offset]
  OBVIOUS
<1>9. /\ e \in Seq(Nat) /\ t \in Seq(Nat)
      /\ DOMAIN e = 1..n /\ DOMAIN t = 1..n
  BY Sequence
<1>10. v \in Variables
  BY <1>1, <1>8, <1>9 DEF Variables
<1>11. v.size = p /\ v.shape = e /\ v.bit_strides = t
  BY <1>1, <1>8 DEF Variables
<1>12. SliceAndDice(a, ranges) = Array(v, e, t)
  BY <1>3, <1>6, <1>7, <1>8 DEF SliceAndDice, SlicedShape, SlicedStrides, Moved
<1>13. Typed(Array(v, e, t))
  <2>1. Product(e) <= v.size /\ Product(v.shape) \in {v.size, Product(e)}
    BY <1>7, <1>11
  <2> QED
    BY <1>9, <1>10, <1>11, <2>1, ArrayTyped
<1> QED
  BY <1>12, <1>13

LEMMA TransposeTyped ==
    ASSUME NEW a, Typed(a)
    PROVE  Typed(Transpose(a))
<1>1. /\ a.expr \in Variables /\ a.shape \in Seq(Nat) /\ a.bit_strides \in Seq(Nat)
      /\ DOMAIN a.bit_strides = DOMAIN a.shape
      /\ Product(a.shape) <= a.expr.size
  BY DEF Typed
<1>2. PICK n \in Nat : a.shape \in [1..n -> Nat] /\ a.bit_strides \in [1..n -> Nat]
  BY <1>1, Dimensions
<1>3. PICK shape \in [1..n -> Nat], strides \in [1..n -> Nat] :
         shape = a.shape /\ strides = a.bit_strides
  BY <1>2
<1>4. PICK e \in [1..n -> Nat] : e = Reverse(shape) /\ \A i \in 1..n : e[i] = shape[n - i + 1]
  BY Reversed
<1>5. PICK t \in [1..n -> Nat] : t = Reverse(strides)
  BY Reversed
<1>6. Product(e) = Product(shape)
  BY <1>4, ProductReversed
<1>7. PICK v : v = [a.expr EXCEPT !.shape = e, !.bit_strides = t]
  OBVIOUS
<1>8. /\ e \in Seq(Nat) /\ t \in Seq(Nat)
      /\ DOMAIN e = 1..n /\ DOMAIN t = 1..n
  BY Sequence
<1>9. v \in Variables
  BY <1>1, <1>7, <1>8 DEF Variables
<1>10. v.size = a.expr.size /\ v.shape = e /\ v.bit_strides = t
  BY <1>1, <1>7 DEF Variables
<1>11. Transpose(a) = Array(v, e, t)
  BY <1>3, <1>4, <1>5, <1>7 DEF Transpose
<1>12. Typed(Array(v, e, t))
  <2>1. Product(e) <= v.size /\ Product(v.shape) \in {v.size, Product(e)}
    BY <1>1, <1>3, <1>6, <1>10
  <2> QED
    BY <1>8, <1>9, <1>10, <2>1, ArrayTyped
<1> QED
  BY <1>11, <1>12

LEMMA ReshapeTyped ==
    ASSUME NEW a, Typed(a), NEW shape \in Seq(Nat), Product(shape) = Product(a.shape)
    PROVE  Typed(Reshape(a, shape, Width(a)))
<1>1. /\ a.expr \in Variables
      /\ DOMAIN a.expr.bit_strides = DOMAIN a.expr.shape
      /\ Product(shape) <= a.expr.size
      /\ Product(a.expr.shape) \in {a.expr.size, Product(shape)}
  BY DEF Typed
<1>2. PICK n \in Nat : shape \in [1..n -> Nat]
  BY Dimensions
<1>3. Width(a) \in Nat
  BY <1>1 DEF Variables, Width
<1>4. PICK t \in [1..n -> Nat] : t = RowMajorBitStrides(shape, Width(a))
  BY <1>2, <1>3, RowMajorTyped
<1>5. PICK v \in Variables : v = a.expr
  BY <1>1
<1>6. Typed(Array(v, shape, t))
  BY <1>1, <1>2, <1>5, ArrayTyped
<1> QED
  BY <1>4, <1>5, <1>6 DEF Reshape

-----------------------------------------------------------------------------
(* Every array stays inside of its buffer, and its elements apart. *)

LEMMA SliceLaidOut ==
    ASSUME NEW a, Typed(a), LaidOut(a), NEW ranges \in Seq(Ranges)
    PROVE  LaidOut(SliceAndDice(a, ranges))
<1>1. PICK b : b = SliceAndDice(a, ranges)
  OBVIOUS
<1>2. /\ a.expr \in Variables /\ a.shape \in Seq(Nat) /\ a.bit_strides \in Seq(Nat)
      /\ DOMAIN a.bit_strides = DOMAIN a.shape
  BY DEF Typed
<1>3. IsSlice(b, a, ranges)
  BY <1>1, <1>2, SliceFields
<1>4. PICK n \in Nat : a.shape \in [1..n -> Nat] /\ a.bit_strides \in [1..n -> Nat]
  BY <1>2, Dimensions
<1>5. PICK shape \in [1..n -> Nat], strides \in [1..n -> Nat] :
         shape = a.shape /\ strides = a.bit_strides
  BY <1>4
<1>6. PICK e \in [1..n -> Nat], t \in [1..n -> Nat], m \in [1..n -> Nat] :
         /\ e = SlicedShape(shape, ranges)
         /\ t = SlicedStrides(shape, strides, ranges)
         /\ m = Moved(shape, strides, ranges)
  BY SlicedTypes
<1>7. PICK width \in Nat : width = Width(a)
  BY <1>2 DEF Variables, Width
<1>8. PICK offset \in Nat : offset = a.expr.bit_offset
  BY <1>2 DEF Variables
<1>9. /\ b.shape = e /\ b.bit_strides = t /\ b.expr.bit_offset = offset + Total(m)
      /\ b.expr.shape = e /\ b.expr.bit_strides = t
      /\ b.expr.packed_data = a.expr.packed_data /\ Width(b) = width
  BY <1>3, <1>5, <1>6, <1>7, <1>8 DEF IsSlice, Width
<1>10. PICK length \in Nat :
          /\ a.expr.packed_data = 0..(length - 1)
          /\ Fits(shape, strides, offset, width, length)
  BY <1>5, <1>7, <1>8 DEF LaidOut
<1>11. Filled(shape) => Nested(shape, strides, width)
  BY <1>5, <1>7 DEF LaidOut
<1>12. ASSUME Filled(e)
       PROVE  /\ offset + Total(m) + Total(Reach(e, t)) + width <= length
              /\ Nested(e, t, width)
  <2>1. \A i \in 1..n : SlicedShape(shape, ranges)[i] > 0
    BY <1>6, <1>12, FilledShape
  <2>2. shape \in [1..n -> Nat \ {0}]
    BY <2>1, SlicedLayout
  <2>3. Total(Moved(shape, strides, ranges))
          + Total(Reach(SlicedShape(shape, ranges), SlicedStrides(shape, strides, ranges)))
          <= Total(Reach(shape, strides))
    BY <2>1, SlicedLayout
  <2>4. Nested(shape, strides, width)
          => Nested(SlicedShape(shape, ranges), SlicedStrides(shape, strides, ranges), width)
    BY <2>1, SlicedLayout
  <2>5. Filled(shape)
    <3>1. \A i \in 1..n : shape[i] \in Nat \ {0}
      BY <2>2
    <3> QED
      BY <3>1 DEF Filled
  <2>6. PICK x \in Int : x = Total(Reach(shape, strides))
    <3>1. Reach(shape, strides) \in [1..n -> Int]
      BY <2>2, Reaches
    <3> QED
      BY <3>1, Totals
  <2>7. PICK y \in Int : y = Total(Reach(e, t))
    <3>1. e \in [1..n -> Nat \ {0}]
      BY <1>12, FilledShape
    <3>2. Reach(e, t) \in [1..n -> Int]
      BY <3>1, Reaches
    <3> QED
      BY <3>2, Totals
  <2>8. PICK z \in Nat : z = Total(m)
    BY TotalNatural
  <2>9. z + y <= x
    BY <1>6, <2>3, <2>6, <2>7, <2>8
  <2>10. offset + x + width <= length
    BY <1>10, <2>5, <2>6 DEF Fits
  <2>11. offset + z + y + width <= length
    BY <2>9, <2>10
  <2>12. Nested(e, t, width)
    BY <1>6, <1>11, <2>4, <2>5
  <2> QED
    BY <2>7, <2>8, <2>11, <2>12
<1>13. Fits(e, t, offset + Total(m), width, length)
  BY <1>12 DEF Fits
<1>14. Filled(e) => Nested(e, t, width)
  BY <1>12
<1>15. LaidOut(b)
  BY <1>9, <1>10, <1>13, <1>14 DEF LaidOut
<1> QED
  BY <1>1, <1>15

LEMMA TransposeLaidOut ==
    ASSUME NEW a, Typed(a), LaidOut(a)
    PROVE  LaidOut(Transpose(a))
<1>1. PICK b : b = Transpose(a)
  OBVIOUS
<1>2. /\ a.expr \in Variables /\ a.shape \in Seq(Nat) /\ a.bit_strides \in Seq(Nat)
      /\ DOMAIN a.bit_strides = DOMAIN a.shape
  BY DEF Typed
<1>3. IsTurned(b, a)
  BY <1>1, <1>2, TransposeFields
<1>4. PICK n \in Nat : a.shape \in [1..n -> Nat] /\ a.bit_strides \in [1..n -> Nat]
  BY <1>2, Dimensions
<1>5. PICK shape \in [1..n -> Nat], strides \in [1..n -> Nat] :
         shape = a.shape /\ strides = a.bit_strides
  BY <1>4
<1>6. PICK e \in [1..n -> Nat] : e = Reverse(shape) /\ \A i \in 1..n : e[i] = shape[n - i + 1]
  BY Reversed
<1>7. PICK t \in [1..n -> Nat] : t = Reverse(strides) /\ \A i \in 1..n : t[i] = strides[n - i + 1]
  BY Reversed
<1>8. PICK width \in Nat : width = Width(a)
  BY <1>2 DEF Variables, Width
<1>9. /\ b.shape = e /\ b.bit_strides = t /\ b.expr.bit_offset = a.expr.bit_offset
      /\ b.expr.shape = e /\ b.expr.bit_strides = t
      /\ b.expr.packed_data = a.expr.packed_data /\ Width(b) = width
  BY <1>3, <1>5, <1>6, <1>7, <1>8 DEF IsTurned, Width
<1>10. PICK length \in Nat :
          /\ a.expr.packed_data = 0..(length - 1)
          /\ Fits(shape, strides, a.expr.bit_offset, width, length)
  BY <1>5, <1>8 DEF LaidOut
<1>11. Filled(shape) => Nested(shape, strides, width)
  BY <1>5, <1>8 DEF LaidOut
<1>12. ASSUME Filled(e)
       PROVE  /\ Filled(shape) /\ Total(Reach(e, t)) = Total(Reach(shape, strides))
              /\ Nested(e, t, width)
  <2>1. e \in [1..n -> Nat \ {0}]
    BY <1>12, FilledShape
  <2>2. \A i \in 1..n : n - i + 1 \in 1..n /\ n - (n - i + 1) + 1 = i
    OBVIOUS
  <2>3. \A i \in 1..n : shape[i] \in Nat \ {0}
    <3> SUFFICES ASSUME NEW i \in 1..n PROVE shape[i] \in Nat \ {0}
      OBVIOUS
    <3>1. PICK j \in 1..n : j = n - i + 1 /\ n - j + 1 = i
      BY <2>2
    <3>2. e[j] = shape[n - j + 1] /\ e[j] \in Nat \ {0}
      BY <1>6, <2>1
    <3> QED
      BY <3>1, <3>2
  <2>4. shape \in [1..n -> Nat \ {0}] /\ Filled(shape)
    BY <2>3, SMTT(20) DEF Filled
  <2>5. \A i \in 1..n : e[i] = shape[n - i + 1] /\ t[i] = strides[n - i + 1]
    BY <1>6, <1>7
  <2>6. /\ Total(Reach(e, t)) = Total(Reach(shape, strides))
        /\ Outward(shape, strides, width) => Inward(e, t, width)
        /\ Inward(shape, strides, width) => Outward(e, t, width)
    <3>1. shape \in [1..n -> Nat \ {0}]
      BY <2>4
    <3> QED
      BY <2>1, <2>5, <3>1, Turned
  <2> QED
    BY <1>11, <2>4, <2>6 DEF Nested
<1>13. Fits(e, t, a.expr.bit_offset, width, length)
  BY <1>10, <1>12 DEF Fits
<1>14. LaidOut(b)
  BY <1>9, <1>10, <1>12, <1>13 DEF LaidOut
<1> QED
  BY <1>1, <1>14

LEMMA ReshapeLaidOut ==
    ASSUME NEW a, Typed(a), LaidOut(a), NEW shape \in Seq(Nat),
           Product(shape) = Product(a.shape)
    PROVE  LaidOut(Reshape(a, shape, Width(a)))
<1>1. PICK width \in Nat : width = Width(a)
  BY DEF Typed, Variables, Width
<1>2. PICK n \in Nat : shape \in [1..n -> Nat]
  BY Dimensions
<1>3. PICK t \in [1..n -> Nat] : t = RowMajorBitStrides(shape, width)
  BY <1>2, RowMajorTyped
<1>4. PICK b : b = Reshape(a, shape, Width(a))
  OBVIOUS
<1>5. b.expr = a.expr /\ b.shape = shape /\ b.bit_strides = t /\ Width(b) = width
  BY <1>1, <1>3, <1>4 DEF Reshape, Array, Width
<1>6. PICK offset \in Nat : offset = a.expr.bit_offset
  BY DEF Typed, Variables
<1>7. PICK length \in Nat :
          /\ a.expr.packed_data = 0..(length - 1)
          /\ Fits(a.shape, a.bit_strides, offset, width, length)
          /\ Fits(a.expr.shape, a.expr.bit_strides, offset, width, length)
  BY <1>1, <1>6 DEF LaidOut
<1>8. Filled(a.shape) => Nested(a.shape, a.bit_strides, width)
  BY <1>1 DEF LaidOut
<1>9. ASSUME Filled(shape)
      PROVE  /\ Nested(shape, t, width)
             /\ offset + Total(Reach(shape, t)) + width <= length
  <2>1. shape \in [1..n -> Nat \ {0}] /\ \A i \in 1..n : shape[i] > 0
    BY <1>2, <1>9, FilledShape
  <2>2. PICK p \in Nat : p = Product(shape)
    BY <1>2, ProductNatural
  <2>3. p > 0
    <3>1. \A d \in 0..n : Inner(shape)[d] \in Nat \ {0}
      BY <1>2, <2>1, Positive, Zenon
    <3>2. Product(shape) = Inner(shape)[0] /\ 0 \in 0..n
      BY DEF Product
    <3> QED
      BY <2>2, <3>1, <3>2
  <2>4. PICK k \in Nat : a.shape \in [1..k -> Nat] /\ a.bit_strides \in [1..k -> Nat]
    BY Dimensions DEF Typed
  <2>5. PICK old \in [1..k -> Nat], olds \in [1..k -> Nat] :
           old = a.shape /\ olds = a.bit_strides
    BY <2>4
  <2>6. p = Product(old)
    BY <2>2, <2>5
  <2>7. \A i \in 1..k : old[i] > 0
    <3>1. Product(old) > 0
      BY <2>3, <2>6
    <3> QED
      BY <3>1, Positive, Zenon
  <2>8. DOMAIN old = 1..k /\ Filled(old)
    BY <2>7 DEF Filled
  <2>9. old \in [1..k -> Nat \ {0}]
    BY <2>8, FilledShape
  <2>10. Nested(old, olds, width)
    BY <1>8, <2>5, <2>8
  <2>11. width * Product(old) <= Total(Reach(old, olds)) + width
    BY <2>9, <2>10, Volume
  <2>12. Total(Reach(shape, t)) + width = width * Product(shape)
    <3>1. Total(Reach(shape, RowMajorBitStrides(shape, width))) + width = width * Product(shape)
      BY <2>1, RowMajor, Zenon
    <3> QED
      BY <1>3, <3>1
  <2>13. Nested(shape, t, width)
    <3>1. Nested(shape, RowMajorBitStrides(shape, width), width)
      BY <2>1, RowMajor, Zenon
    <3> QED
      BY <1>3, <3>1
  <2>14. offset + Total(Reach(old, olds)) + width <= length
    BY <1>7, <2>5, <2>8 DEF Fits
  <2>15. PICK x \in Int : x = Total(Reach(old, olds))
    <3>1. Reach(old, olds) \in [1..k -> Int]
      BY <2>9, Reaches
    <3> QED
      BY <3>1, Totals
  <2>16. PICK y \in Int : y = Total(Reach(shape, t))
    <3>1. Reach(shape, t) \in [1..n -> Int]
      BY <2>1, Reaches
    <3> QED
      BY <3>1, Totals
  <2>17. PICK q \in Nat : q = width * p
    BY Products
  <2>18. q <= x + width /\ y + width = q
    BY <2>2, <2>6, <2>11, <2>12, <2>15, <2>16, <2>17
  <2>19. offset + y + width <= length
    BY <2>14, <2>15, <2>18
  <2> QED
    BY <2>13, <2>16, <2>19
<1>10. Fits(shape, t, offset, width, length)
  BY <1>9 DEF Fits
<1>11. LaidOut(b)
  BY <1>5, <1>6, <1>7, <1>9, <1>10 DEF LaidOut
<1> QED
  BY <1>4, <1>11

\* What an array is made as.
LEMMA MadeFields ==
    ASSUME NEW width \in Nat \ {0}, NEW count \in Nat, NEW shape \in Seq(Nat)
    PROVE  LET a == Made(width, count, shape)
           IN /\ a.shape = shape /\ a.bit_strides = RowMajorBitStrides(shape, width)
              /\ a.expr.shape = <<count>>
              /\ a.expr.bit_strides = RowMajorBitStrides(<<count>>, width)
              /\ a.expr.size = Product(<<count>>) /\ a.expr.bit_offset = 0
              /\ a.expr.packed_data = BufferOf(count, width)
              /\ Width(a) = width
BY DEF Made, FromPacked, NewVar, Array, Width

\* A list of so many elements.
LEMMA ListShape ==
    ASSUME NEW p \in Nat
    PROVE  /\ <<p>> \in [1..1 -> Nat] /\ <<p>>[1] = p /\ Product(<<p>>) = p
<1>1. PICK one \in Nat : one = 1
  OBVIOUS
<1>2. PICK s : s = <<p>>
  OBVIOUS
<1>3. s \in [1..one -> Nat] /\ s[1] = p
  BY <1>1, <1>2
<1>4. PICK r : r = Inner(s)
  OBVIOUS
<1>5. /\ r[one] = 1 /\ \A d \in 1..one : r[d - 1] = r[d] * s[d]
      /\ Product(s) = r[0]
  BY <1>3, <1>4, Inners
<1>6. r[1 - 1] = r[1] * s[1]
  BY <1>1, <1>5
<1>7. Product(s) = p
  BY <1>1, <1>3, <1>5, <1>6
<1> QED
  BY <1>1, <1>2, <1>3, <1>7

LEMMA MadeTyped ==
    ASSUME NEW width \in Nat \ {0}, NEW shape \in Seq(Nat), NEW p \in Nat,
           Product(shape) <= p
    PROVE  Typed(Made(width, p, shape))
<1>1. PICK n \in Nat : shape \in [1..n -> Nat]
  BY Dimensions
<1>3. PICK list : list = <<p>>
  OBVIOUS
<1>4. PICK one \in Nat : one = 1
  OBVIOUS
<1>5. list \in [1..one -> Nat] /\ Product(list) = p
  BY <1>3, <1>4, ListShape
<1>6. width \in Nat
  OBVIOUS
<1>7. PICK lists \in [1..one -> Nat] : lists = RowMajorBitStrides(list, width)
  BY <1>5, <1>6, RowMajorTyped
<1>8. PICK strides \in [1..n -> Nat] : strides = RowMajorBitStrides(shape, width)
  BY <1>1, <1>6, RowMajorTyped
<1>9. list \in Seq(Nat) /\ DOMAIN list = 1..one
  BY <1>5, Sequence
<1>10. lists \in Seq(Nat) /\ DOMAIN lists = 1..one
  BY Sequence
<1>11. PICK data \in SUBSET Nat : data = BufferOf(p, width)
  <2>1. BufferOf(p, width) \subseteq Nat
    BY DEF BufferOf
  <2> QED
    BY <2>1
<1>12. PICK v : v = [op |-> "Var", id |-> 1, dtype |-> [kind |-> "Int", bits |-> width],
                     size |-> p, packed_data |-> data, shape |-> list,
                     bit_strides |-> lists, bit_offset |-> 0, scale |-> 0,
                     steal_sign |-> FALSE]
  OBVIOUS
<1>13. v \in Variables
  BY <1>9, <1>10, <1>12 DEF Variables
<1>14. v.size = p /\ v.shape = list /\ v.bit_strides = lists
  BY <1>12
<1>15. Typed(Array(v, shape, strides))
  <2>1. Product(shape) <= v.size /\ Product(v.shape) \in {v.size, Product(shape)}
    BY <1>5, <1>14
  <2> QED
    BY <1>1, <1>9, <1>10, <1>13, <1>14, <2>1, ArrayTyped
<1>16. Made(width, p, shape) = Array(v, shape, strides)
  BY <1>3, <1>5, <1>7, <1>8, <1>11, <1>12 DEF Made, FromPacked, NewVar
<1> QED
  BY <1>15, <1>16

\* Row-major elements from bit zero on fit into the bits they take.
LEMMA RowMajorFits ==
    ASSUME NEW n \in Nat, NEW shape \in [1..n -> Nat], NEW width \in Nat, NEW length \in Nat,
           Product(shape) * width <= length
    PROVE  /\ Fits(shape, RowMajorBitStrides(shape, width), 0, width, length)
           /\ Filled(shape) => Nested(shape, RowMajorBitStrides(shape, width), width)
<1>1. PICK t : t = RowMajorBitStrides(shape, width)
  OBVIOUS
<1>2. ASSUME Filled(shape)
      PROVE  /\ 0 + Total(Reach(shape, t)) + width <= length
             /\ Nested(shape, t, width)
  <2>1. shape \in [1..n -> Nat \ {0}]
    BY <1>2, FilledShape
  <2>2. Total(Reach(shape, RowMajorBitStrides(shape, width))) + width = width * Product(shape)
    BY <2>1, RowMajor, Zenon
  <2>3. Nested(shape, RowMajorBitStrides(shape, width), width)
    BY <2>1, RowMajor, Zenon
  <2>4. t \in [1..n -> Nat]
    BY <1>1, RowMajorTyped
  <2>5. PICK x \in Int : x = Total(Reach(shape, t))
    <3>1. Reach(shape, t) \in [1..n -> Int]
      BY <2>1, <2>4, Reaches
    <3> QED
      BY <3>1, Totals
  <2>6. PICK p \in Nat : p = Product(shape)
    BY ProductNatural
  <2>7. p * width <= length /\ x + width = width * p
    BY <1>1, <2>2, <2>5, <2>6
  <2>8. width * p = p * width
    OBVIOUS
  <2>9. 0 + x + width <= length
    BY <2>7, <2>8
  <2> QED
    BY <1>1, <2>3, <2>5, <2>9
<1> QED
  BY <1>1, <1>2 DEF Fits

LEMMA MadeLaidOut ==
    ASSUME NEW width \in Nat \ {0}, NEW shape \in Seq(Nat), NEW p \in Nat,
           Product(shape) <= p
    PROVE  LaidOut(Made(width, p, shape))
<1>1. PICK n \in Nat : shape \in [1..n -> Nat]
  BY Dimensions
<1>2. PICK q \in Nat : q = Product(shape) /\ q * width <= p * width
  <2>1. PICK q \in Nat : q = Product(shape)
    BY <1>1, ProductNatural
  <2>2. q <= p
    BY <2>1
  <2>3. q * width <= p * width
    BY <2>2, Products
  <2> QED
    BY <2>1, <2>3
<1>3. PICK bits \in Nat : bits = p * width
  BY Products
<1>4. PICK length \in Nat : length = CeilDiv(bits, ByteBits) * ByteBits /\ bits <= length
  <2>1. ByteBits \in Nat \ {0}
    BY BitPackAssumption
  <2>2. CeilDiv(bits, ByteBits) \in Nat /\ bits <= CeilDiv(bits, ByteBits) * ByteBits
    BY <2>1, Ceiling
  <2>3. CeilDiv(bits, ByteBits) * ByteBits \in Nat
    BY <2>1, <2>2, Products
  <2> QED
    BY <2>2, <2>3
<1>5. BufferOf(p, width) = 0..(length - 1)
  BY <1>3, <1>4 DEF BufferOf
<1>6. PICK one \in Nat, list \in [1..1 -> Nat] : one = 1 /\ list = <<p>> /\ Product(list) = p
  BY ListShape
<1>7. width \in Nat /\ list \in [1..one -> Nat]
  BY <1>6
<1>8. /\ Fits(shape, RowMajorBitStrides(shape, width), 0, width, length)
      /\ Filled(shape) => Nested(shape, RowMajorBitStrides(shape, width), width)
  <2>1. q * width \in Nat
    BY Products
  <2>2. Product(shape) * width <= length
    BY <1>2, <1>3, <1>4, <2>1
  <2> QED
    BY <1>1, <1>7, <2>2, RowMajorFits
<1>9. Fits(list, RowMajorBitStrides(list, width), 0, width, length)
  <2>1. Product(list) * width <= length
    BY <1>3, <1>4, <1>6
  <2> QED
    BY <1>7, <2>1, RowMajorFits
<1>10. PICK a : a = Made(width, p, shape)
  OBVIOUS
<1>11. /\ a.shape = shape /\ a.bit_strides = RowMajorBitStrides(shape, width)
       /\ a.expr.shape = list /\ a.expr.bit_strides = RowMajorBitStrides(list, width)
       /\ a.expr.bit_offset = 0 /\ a.expr.packed_data = 0..(length - 1)
       /\ Width(a) = width
  <2>1. /\ a.shape = shape /\ a.bit_strides = RowMajorBitStrides(shape, width)
        /\ a.expr.shape = <<p>> /\ a.expr.bit_strides = RowMajorBitStrides(<<p>>, width)
        /\ a.expr.bit_offset = 0 /\ a.expr.packed_data = BufferOf(p, width)
        /\ Width(a) = width
    BY <1>10, MadeFields, ZenonT(20)
  <2> QED
    BY <1>5, <1>6, <2>1, ZenonT(20)
<1>12. LaidOut(a)
  <2>1. /\ Fits(a.shape, a.bit_strides, a.expr.bit_offset, Width(a), length)
        /\ Filled(a.shape) => Nested(a.shape, a.bit_strides, Width(a))
    BY <1>8, <1>11, ZenonT(20)
  <2>2. Fits(a.expr.shape, a.expr.bit_strides, a.expr.bit_offset, Width(a), length)
    BY <1>9, <1>11, ZenonT(20)
  <2> QED
    BY <1>11, <2>1, <2>2, ZenonT(20) DEF LaidOut
<1> QED
  BY <1>10, <1>12

-----------------------------------------------------------------------------
(* Every array shows what it should, and its variable has the same. *)

Shown(a, values) == \A c \in Box(a.shape) : ExportedAt(a, c) = values[c] * Width(a)

\* Read row by row, the variable has the elements of the array.
Agrees(a) ==
    \A k \in 0..(Product(a.shape) - 1) :
        Place(a.expr.bit_strides, a.expr.bit_offset, Coordinates(a.expr.shape, k))
            = ExportedAt(a, Coordinates(a.shape, k))

\* The element at a position of a row-major layout.
LEMMA RowMajorElement ==
    ASSUME NEW n \in Nat, NEW shape \in [1..n -> Nat], NEW width \in Nat, NEW offset \in Int,
           NEW k \in 0..(Product(shape) - 1)
    PROVE  /\ Coordinates(shape, k) \in Box(shape)
           /\ Place(RowMajorBitStrides(shape, width), offset, Coordinates(shape, k))
                = offset + k * width
<1>1. PICK c : c = Coordinates(shape, k)
  OBVIOUS
<1>2. c \in Box(shape) /\ Position(shape, c) = k
  BY <1>1, PositionOfCoordinates
<1>3. Place(RowMajorBitStrides(shape, width), offset, c) = offset + Position(shape, c) * width
  BY <1>2, RowMajorPlace
<1> QED
  BY <1>1, <1>2, <1>3

LEMMA MadeShown ==
    ASSUME NEW width \in Nat \ {0}, NEW shape \in Seq(Nat), NEW p \in Nat,
           Product(shape) <= p
    PROVE  /\ Shown(Made(width, p, shape), [c \in Box(shape) |-> Position(shape, c)])
           /\ [c \in Box(shape) |-> Position(shape, c)] \in [Box(shape) -> Nat]
           /\ Agrees(Made(width, p, shape))
<1>1. PICK n \in Nat : shape \in [1..n -> Nat]
  BY Dimensions
<1>2. PICK total \in Nat : total = Product(shape)
  BY <1>1, ProductNatural
<1>3. PICK one \in Nat, list \in [1..1 -> Nat] : one = 1 /\ list = <<p>> /\ Product(list) = p
  BY ListShape
<1>4. PICK a : a = Made(width, p, shape)
  OBVIOUS
<1>5. /\ a.shape = shape /\ a.bit_strides = RowMajorBitStrides(shape, width)
      /\ a.expr.shape = list /\ a.expr.bit_strides = RowMajorBitStrides(list, width)
      /\ a.expr.bit_offset = 0
      /\ Width(a) = width
  <2>1. /\ a.shape = shape /\ a.bit_strides = RowMajorBitStrides(shape, width)
        /\ a.expr.shape = <<p>> /\ a.expr.bit_strides = RowMajorBitStrides(<<p>>, width)
        /\ a.expr.bit_offset = 0 /\ Width(a) = width
    BY <1>4, MadeFields, ZenonT(20)
  <2> QED
    BY <1>3, <2>1, ZenonT(20)
<1>6. width \in Nat /\ 0 \in Int /\ list \in [1..one -> Nat]
  BY <1>3
<1>7. ASSUME NEW c \in Box(shape)
      PROVE  Position(shape, c) \in Nat /\ ExportedAt(a, c) = Position(shape, c) * width
  <2>1. /\ Position(shape, c) \in 0..(Product(shape) - 1)
        /\ Place(RowMajorBitStrides(shape, width), 0, c) = 0 + Position(shape, c) * width
    BY <1>1, <1>6, RowMajorPlace
  <2>2. PICK q \in Nat : q = Position(shape, c)
    BY <2>1
  <2>3. ExportedAt(a, c) = 0 + q * width
    BY <1>5, <2>1, <2>2 DEF ExportedAt
  <2>4. PICK r \in Nat : r = q * width
    BY <1>6, Products
  <2> QED
    BY <2>2, <2>3, <2>4
<1>8. ASSUME NEW k \in 0..(Product(a.shape) - 1)
      PROVE  Place(a.expr.bit_strides, a.expr.bit_offset, Coordinates(a.expr.shape, k))
               = ExportedAt(a, Coordinates(a.shape, k))
  <2>1. k \in 0..(Product(shape) - 1) /\ k \in 0..(Product(list) - 1)
    BY <1>2, <1>3, <1>5, <1>8
  <2>2. PICK c \in Box(shape) : c = Coordinates(shape, k) /\ Position(shape, c) = k
    BY <1>1, <2>1, PositionOfCoordinates
  <2>3. Place(RowMajorBitStrides(shape, width), 0, c) = 0 + Position(shape, c) * width
    BY <1>1, <1>6, RowMajorPlace
  <2>4. PICK d \in Box(list) : d = Coordinates(list, k) /\ Position(list, d) = k
    BY <1>6, <2>1, PositionOfCoordinates
  <2>5. Place(RowMajorBitStrides(list, width), 0, d) = 0 + Position(list, d) * width
    BY <1>6, RowMajorPlace
  <2>6. Place(RowMajorBitStrides(list, width), 0, d) = Place(RowMajorBitStrides(shape, width), 0, c)
    BY <2>2, <2>3, <2>4, <2>5
  <2> QED
    BY <1>5, <2>2, <2>4, <2>6 DEF ExportedAt
<1>9. PICK values : values = [c \in Box(shape) |-> Position(shape, c)]
  OBVIOUS
<1>10. values \in [Box(shape) -> Nat]
  BY <1>7, <1>9
<1>11. Shown(a, values)
  BY <1>5, <1>7, <1>9 DEF Shown
<1>12. Agrees(a)
  BY <1>8 DEF Agrees
<1> QED
  BY <1>4, <1>9, <1>10, <1>11, <1>12

LEMMA SliceShown ==
    ASSUME NEW a, Typed(a), NEW ranges \in Seq(Ranges), NEW values \in [Box(a.shape) -> Nat]
    PROVE  /\ \A c \in Box(SliceAndDice(a, ranges).shape) : Chosen(ranges, c) \in Box(a.shape)
           /\ Shown(a, values) =>
                Shown(SliceAndDice(a, ranges),
                      [c \in Box(SliceAndDice(a, ranges).shape) |-> values[Chosen(ranges, c)]])
           /\ Agrees(SliceAndDice(a, ranges))
<1>1. /\ a.expr \in Variables /\ a.shape \in Seq(Nat) /\ a.bit_strides \in Seq(Nat)
      /\ DOMAIN a.bit_strides = DOMAIN a.shape
  BY DEF Typed
<1>2. PICK n \in Nat : a.shape \in [1..n -> Nat] /\ a.bit_strides \in [1..n -> Nat]
  BY <1>1, Dimensions
<1>3. PICK b : b = SliceAndDice(a, ranges)
  OBVIOUS
<1>4. IsSlice(b, a, ranges)
  BY <1>1, <1>3, SliceFields
<1>5. PICK offset \in Int : offset = a.expr.bit_offset
  <2>1. a.expr.bit_offset \in Nat
    BY <1>1 DEF Variables
  <2> QED
    BY <2>1
<1>6. Width(b) = Width(a)
  BY <1>4 DEF IsSlice, Width
<1>7. ASSUME NEW c \in Box(b.shape)
      PROVE  Chosen(ranges, c) \in Box(a.shape) /\ ExportedAt(b, c) = ExportedAt(a, Chosen(ranges, c))
  <2>1. c \in Box(SlicedShape(a.shape, ranges))
    BY <1>4 DEF IsSlice
  <2>2. /\ Chosen(ranges, c) \in Box(a.shape)
        /\ Place(SlicedStrides(a.shape, a.bit_strides, ranges),
                 offset + Total(Moved(a.shape, a.bit_strides, ranges)), c)
             = Place(a.bit_strides, offset, Chosen(ranges, c))
    BY <1>2, <2>1, SlicedPlace
  <2> QED
    BY <1>4, <1>5, <2>2 DEF IsSlice, ExportedAt
<1>8. ASSUME Shown(a, values)
      PROVE  Shown(b, [c \in Box(b.shape) |-> values[Chosen(ranges, c)]])
  BY <1>6, <1>7, <1>8 DEF Shown
<1>9. Agrees(b)
  BY <1>4 DEF Agrees, IsSlice, ExportedAt
<1> QED
  BY <1>3, <1>7, <1>8, <1>9

LEMMA TransposeShown ==
    ASSUME NEW a, Typed(a), NEW values \in [Box(a.shape) -> Nat]
    PROVE  /\ \A c \in Box(Transpose(a).shape) : Reverse(c) \in Box(a.shape)
           /\ Shown(a, values) =>
                Shown(Transpose(a), [c \in Box(Transpose(a).shape) |-> values[Reverse(c)]])
           /\ Agrees(Transpose(a))
<1>1. /\ a.expr \in Variables /\ a.shape \in Seq(Nat) /\ a.bit_strides \in Seq(Nat)
      /\ DOMAIN a.bit_strides = DOMAIN a.shape
  BY DEF Typed
<1>2. PICK n \in Nat : a.shape \in [1..n -> Nat] /\ a.bit_strides \in [1..n -> Nat]
  BY <1>1, Dimensions
<1>3. PICK b : b = Transpose(a)
  OBVIOUS
<1>4. IsTurned(b, a)
  BY <1>1, <1>3, TransposeFields
<1>5. PICK offset \in Int : offset = a.expr.bit_offset
  <2>1. a.expr.bit_offset \in Nat
    BY <1>1 DEF Variables
  <2> QED
    BY <2>1
<1>6. Width(b) = Width(a)
  BY <1>4 DEF IsTurned, Width
<1>7. ASSUME NEW c \in Box(b.shape)
      PROVE  Reverse(c) \in Box(a.shape) /\ ExportedAt(b, c) = ExportedAt(a, Reverse(c))
  <2>1. c \in Box(Reverse(a.shape))
    BY <1>4 DEF IsTurned
  <2>2. /\ Reverse(c) \in Box(a.shape)
        /\ Place(Reverse(a.bit_strides), offset, c) = Place(a.bit_strides, offset, Reverse(c))
    BY <1>2, <2>1, TurnedPlace
  <2> QED
    BY <1>4, <1>5, <2>2 DEF IsTurned, ExportedAt
<1>8. ASSUME Shown(a, values)
      PROVE  Shown(b, [c \in Box(b.shape) |-> values[Reverse(c)]])
  BY <1>6, <1>7, <1>8 DEF Shown
<1>9. Agrees(b)
  BY <1>4 DEF Agrees, IsTurned, ExportedAt
<1> QED
  BY <1>3, <1>7, <1>8, <1>9

LEMMA ReshapeShown ==
    ASSUME NEW a, Typed(a), NEW values \in [Box(a.shape) -> Nat], NEW shape \in Seq(Nat),
           Product(shape) = Product(a.shape)
    PROVE  /\ \A c \in Box(shape) : Coordinates(a.shape, Position(shape, c)) \in Box(a.shape)
           /\ Shown(a, values) /\ IsList(a) =>
                Shown(Reshape(a, shape, Width(a)),
                      [c \in Box(shape) |-> values[Coordinates(a.shape, Position(shape, c))]])
           /\ Agrees(a) /\ IsList(a) => Agrees(Reshape(a, shape, Width(a)))
<1>1. /\ a.expr \in Variables /\ a.shape \in Seq(Nat) /\ a.bit_strides \in Seq(Nat)
      /\ DOMAIN a.bit_strides = DOMAIN a.shape
  BY DEF Typed
<1>2. PICK n \in Nat : a.shape \in [1..n -> Nat]
  BY <1>1, Dimensions
<1>3. PICK m \in Nat : shape \in [1..m -> Nat]
  BY Dimensions
<1>4. PICK b : b = Reshape(a, shape, Width(a))
  OBVIOUS
<1>5. /\ b.expr = a.expr /\ b.shape = shape /\ Width(b) = Width(a)
      /\ b.bit_strides = RowMajorBitStrides(shape, Width(a))
  BY <1>4 DEF Reshape, Array, Width
<1>6. Width(a) \in Nat
  BY <1>1 DEF Variables, Width
<1>7. PICK offset \in Int : offset = a.expr.bit_offset
  <2>1. a.expr.bit_offset \in Nat
    BY <1>1 DEF Variables
  <2> QED
    BY <2>1
<1>8. ASSUME NEW c \in Box(shape)
      PROVE  /\ Coordinates(a.shape, Position(shape, c)) \in Box(a.shape)
             /\ IsList(a) => ExportedAt(b, c) = ExportedAt(a, Coordinates(a.shape, Position(shape, c)))
  <2>1. /\ Position(shape, c) \in 0..(Product(shape) - 1)
        /\ Place(RowMajorBitStrides(shape, Width(a)), offset, c)
             = offset + Position(shape, c) * Width(a)
    BY <1>3, <1>6, RowMajorPlace
  <2>2. Position(shape, c) \in 0..(Product(a.shape) - 1)
    BY <2>1
  <2>3. Coordinates(a.shape, Position(shape, c)) \in Box(a.shape)
    BY <1>2, <2>2, PositionOfCoordinates
  <2>4. ExportedAt(b, c) = offset + Position(shape, c) * Width(a)
    BY <1>5, <1>7, <2>1 DEF ExportedAt
  <2>5. ASSUME IsList(a)
        PROVE  ExportedAt(a, Coordinates(a.shape, Position(shape, c)))
                 = offset + Position(shape, c) * Width(a)
    BY <1>7, <2>2, <2>5 DEF IsList
  <2> QED
    BY <2>3, <2>4, <2>5
<1>9. ASSUME Shown(a, values), IsList(a)
      PROVE  Shown(b, [c \in Box(b.shape) |-> values[Coordinates(a.shape, Position(shape, c))]])
  BY <1>5, <1>8, <1>9 DEF Shown
<1>10. ASSUME Agrees(a), IsList(a), NEW k \in 0..(Product(b.shape) - 1)
       PROVE  Place(b.expr.bit_strides, b.expr.bit_offset, Coordinates(b.expr.shape, k))
                = ExportedAt(b, Coordinates(b.shape, k))
  <2>1. k \in 0..(Product(shape) - 1) /\ k \in 0..(Product(a.shape) - 1)
    BY <1>1, <1>5, <1>10
  <2>2. ExportedAt(a, Coordinates(a.shape, k)) = offset + k * Width(a)
    BY <1>7, <1>10, <2>1 DEF IsList
  <2>3. Place(RowMajorBitStrides(shape, Width(a)), offset, Coordinates(shape, k))
          = offset + k * Width(a)
    BY <1>3, <1>6, <2>1, RowMajorElement
  <2>4. ExportedAt(b, Coordinates(b.shape, k)) = offset + k * Width(a)
    BY <1>5, <1>7, <2>3 DEF ExportedAt
  <2> QED
    BY <1>5, <1>10, <2>1, <2>2, <2>4 DEF Agrees
<1>11. ASSUME Agrees(a), IsList(a)
       PROVE  Agrees(b)
  BY <1>10, <1>11 DEF Agrees
<1> QED
  BY <1>4, <1>5, <1>8, <1>9, <1>11

-----------------------------------------------------------------------------
(* What was mapped beyond the shape. *)

LEMMA MadeMapped ==
    ASSUME NEW width \in Nat \ {0}, NEW shape \in Seq(Nat), NEW p \in Nat
    PROVE  Mapped(Made(width, p, shape))
<1>1. PICK list \in [1..1 -> Nat] : list = <<p>> /\ Product(list) = p
  BY ListShape
<1>2. PICK a : a = Made(width, p, shape)
  OBVIOUS
<1>3. /\ a.shape = shape /\ a.bit_strides = RowMajorBitStrides(shape, width)
      /\ a.expr.shape = list /\ a.expr.size = p /\ a.expr.bit_offset = 0
      /\ a.expr.packed_data = BufferOf(p, width) /\ Width(a) = width
  BY <1>1, <1>2, MadeFields
<1>4. Mapped(a)
  BY <1>1, <1>3 DEF Mapped, Ordered
<1> QED
  BY <1>2, <1>4

LEMMA SliceMapped ==
    ASSUME NEW a, Typed(a), NEW ranges \in Seq(Ranges)
    PROVE  Mapped(SliceAndDice(a, ranges))
<1>1. PICK b : b = SliceAndDice(a, ranges)
  OBVIOUS
<1>2. IsSlice(b, a, ranges)
  BY <1>1, SliceFields DEF Typed
<1>3. Typed(b)
  BY <1>1, SliceTyped
<1>4. PICK n \in Nat : b.shape \in [1..n -> Nat]
  BY <1>3, Dimensions DEF Typed
<1>5. Product(b.shape) \in Nat
  BY <1>4, ProductNatural
<1>6. ~(Product(b.shape) < b.expr.size)
  BY <1>2, <1>5 DEF IsSlice
<1> QED
  BY <1>1, <1>6 DEF Mapped

\* What is ordered stays ordered turned around.
LEMMA OrderedTurned ==
    ASSUME NEW n \in Nat, NEW shape \in [1..n -> Nat], NEW strides \in [1..n -> Nat],
           NEW width \in Nat, Ordered(shape, strides, width)
    PROVE  Ordered(Reverse(shape), Reverse(strides), width)
<1>1. Reverse(Reverse(shape)) = shape
  BY ReversedTwice
<1>2. PICK e \in [1..n -> Nat] : e = Reverse(shape)
  BY Reversed
<1>3. PICK t \in [1..n -> Nat] : t = RowMajorBitStrides(e, width)
  BY RowMajorTyped
<1>4. Reverse(Reverse(t)) = t
  BY ReversedTwice
<1>5. CASE strides = RowMajorBitStrides(shape, width)
  BY <1>1, <1>5 DEF Ordered
<1>6. CASE strides = Reverse(RowMajorBitStrides(Reverse(shape), width))
  BY <1>2, <1>3, <1>4, <1>6 DEF Ordered
<1> QED
  BY <1>5, <1>6 DEF Ordered

LEMMA TransposeMapped ==
    ASSUME NEW a, Typed(a), Mapped(a)
    PROVE  Mapped(Transpose(a))
<1>1. PICK b : b = Transpose(a)
  OBVIOUS
<1>2. IsTurned(b, a)
  BY <1>1, TransposeFields DEF Typed
<1>3. PICK n \in Nat : a.shape \in [1..n -> Nat] /\ a.bit_strides \in [1..n -> Nat]
  BY Dimensions DEF Typed
<1>4. PICK shape \in [1..n -> Nat], strides \in [1..n -> Nat] :
         shape = a.shape /\ strides = a.bit_strides
  BY <1>3
<1>5. PICK e \in [1..n -> Nat] : e = Reverse(shape) /\ \A i \in 1..n : e[i] = shape[n - i + 1]
  BY Reversed
<1>6. Product(b.shape) = Product(a.shape)
  <2>1. Product(e) = Product(shape)
    BY <1>5, ProductReversed
  <2> QED
    BY <1>2, <1>4, <1>5, <2>1 DEF IsTurned
<1>7. Width(b) = Width(a)
  BY <1>2 DEF IsTurned, Width
<1>8. PICK width \in Nat : width = Width(a)
  BY DEF Typed, Variables, Width
<1>9. ASSUME Ordered(a.shape, a.bit_strides, Width(a))
      PROVE  /\ Ordered(b.shape, b.bit_strides, Width(b))
             /\ Ordered(b.expr.shape, b.expr.bit_strides, Width(b))
  <2>1. Ordered(Reverse(shape), Reverse(strides), width)
    BY <1>4, <1>8, <1>9, OrderedTurned
  <2> QED
    BY <1>2, <1>4, <1>7, <1>8, <2>1 DEF IsTurned
<1>10. Mapped(b)
  BY <1>2, <1>6, <1>7, <1>9 DEF Mapped, IsTurned
<1> QED
  BY <1>1, <1>10

LEMMA ReshapeMapped ==
    ASSUME NEW a, Typed(a), Mapped(a), NEW shape \in Seq(Nat),
           Product(shape) = Product(a.shape)
    PROVE  Mapped(Reshape(a, shape, Width(a)))
<1>1. PICK b : b = Reshape(a, shape, Width(a))
  OBVIOUS
<1>2. /\ b.expr = a.expr /\ b.shape = shape /\ Width(b) = Width(a)
      /\ b.bit_strides = RowMajorBitStrides(shape, Width(a))
  BY <1>1 DEF Reshape, Array, Width
<1>3. Mapped(b)
  BY <1>2 DEF Mapped, Ordered
<1> QED
  BY <1>1, <1>3

\* An index beyond an ordered shape finds a place that is not later than the
\* one behind so many elements.
LEMMA BeyondOrdered ==
    ASSUME NEW n \in Nat, NEW shape \in [1..n -> Nat \ {0}], ~(n > 1 /\ shape[n] = 1),
           NEW strides \in [1..n -> Nat], NEW width \in Nat, Ordered(shape, strides, width),
           NEW k \in Nat, Product(shape) <= k
    PROVE  /\ Total(Moves(strides, Counted(shape, n, k))) \in Nat
           /\ Total(Moves(strides, Counted(shape, n, k))) <= k * width
<1>1. PICK c : c = Counted(shape, n, k)
  OBVIOUS
<1>2. shape \in [1..n -> Nat]
  OBVIOUS
<1>3. CASE n = 0
  <2>1. PICK m : m = Moves(strides, c)
    OBVIOUS
  <2>2. m \in [1..n -> Int]
    BY <1>3, <2>1 DEF Moves
  <2>3. Total(m) = RunningTotal(m)[n] /\ RunningTotal(m)[0] = 0
    BY <2>2, Totals
  <2>4. k * width \in Nat
    BY Products
  <2> QED
    BY <1>1, <1>3, <2>1, <2>3, <2>4
<1>4. CASE n # 0
  <2>1. n \in Nat \ {0}
    BY <1>4
  <2>2. /\ c \in [1..n -> Nat]
        /\ \E left : CountsDown(left, c, Inner(shape), n, k)
    BY <1>1, <2>1, CountedDown
  <2>3. PICK left : CountsDown(left, c, Inner(shape), n, k)
    BY <2>2
  <2>4. Total(Moves(strides, c)) \in Nat
    <3>1. PICK m : m = Moves(strides, c)
      OBVIOUS
    <3>2. m \in [1..n -> Nat]
      <4>1. m \in [1..n -> Int] /\ \A d \in 1..n : m[d] \in Nat
        BY <2>2, <3>1, MovesTyped
      <4> QED
        BY <4>1
    <3> QED
      BY <3>1, <3>2, TotalNatural
  <2>5. CASE strides = RowMajorBitStrides(shape, width)
    <3>1. Total(Moves(RowMajorBitStrides(shape, width), Counted(shape, n, k))) = k * width
      BY <2>1, CountedInOrder
    <3>2. PICK all \in Nat : all = k * width
      BY Products, ZenonT(20)
    <3> QED
      BY <1>1, <2>5, <3>1, <3>2
  <2>6. CASE strides = Reverse(RowMajorBitStrides(Reverse(shape), width))
    <3>1. PICK e \in [1..n -> Nat] : e = Reverse(shape) /\ \A i \in 1..n : e[i] = shape[n - i + 1]
      BY <1>2, Reversed
    <3>2. \A i \in 1..n : n - i + 1 \in 1..n
      OBVIOUS
    <3>3. \A i \in 1..n : e[i] \in Nat \ {0}
      BY <3>1, <3>2
    <3>4. e \in [1..n -> Nat \ {0}]
      BY <3>3
    <3>5. PICK t : t = RowMajorBitStrides(e, width)
      OBVIOUS
    <3>6. /\ t \in [1..n -> Nat] /\ \A d \in 1..n : t[d] = Inner(e)[d] * width
          /\ Total(Reach(e, t)) + width = width * Product(e)
      <4>1. /\ RowMajorBitStrides(e, width) \in [1..n -> Nat]
            /\ \A d \in 1..n : RowMajorBitStrides(e, width)[d] = Inner(e)[d] * width
            /\ Total(Reach(e, RowMajorBitStrides(e, width))) + width = width * Product(e)
        BY <3>4, RowMajor, Zenon
      <4> QED
        BY <3>5, <4>1
    <3>7. strides = Reverse(t) /\ \A i \in 1..n : strides[i] = t[n - i + 1]
      BY <2>6, <3>1, <3>5, <3>6, Reversed
    <3>8. strides[1] = width
      <4>1. Inner(e)[n] = 1
        BY Inners
      <4>2. PICK one \in 1..n : one = 1 /\ n - one + 1 = n /\ n \in 1..n
        BY <2>1
      <4>3. strides[one] = t[n] /\ t[n] = 1 * width
        BY <3>6, <3>7, <4>1, <4>2
      <4> QED
        BY <4>2, <4>3
    <3>9. \A i \in 1..n : shape[i] = e[n - i + 1]
      <4> SUFFICES ASSUME NEW i \in 1..n PROVE shape[i] = e[n - i + 1]
        OBVIOUS
      <4>1. PICK j \in 1..n : j = n - i + 1 /\ n - j + 1 = i
        OBVIOUS
      <4> QED
        BY <3>1, <4>1
    <3>10. Product(shape) = Product(e)
      BY <1>2, <3>9, ProductReversed
    <3>11. Total(Reach(shape, strides)) = Total(Reach(e, t))
      <4>1. \A i \in 1..n : shape[i] = e[n - i + 1] /\ strides[i] = t[n - i + 1]
        BY <3>7, <3>9
      <4>2. t \in [1..n -> Nat]
        BY <3>6
      <4>3. /\ Total(Reach(shape, strides)) = Total(Reach(e, t))
            /\ Outward(e, t, width) => Inward(shape, strides, width)
            /\ Inward(e, t, width) => Outward(shape, strides, width)
        <5>1. shape \in [1..n -> Nat \ {0}]
          OBVIOUS
        <5> QED
          BY <3>4, <4>1, <4>2, <5>1, Turned
      <4> QED
        BY <4>3
    <3>12. Total(Reach(shape, strides)) + width = width * Product(shape)
      BY <3>6, <3>10, <3>11
    <3>13. Total(Moves(strides, c)) <= k * width
      BY <2>1, <2>2, <2>3, <3>8, <3>12, CountedTurned
    <3> QED
      BY <1>1, <2>4, <3>13
  <2> QED
    BY <2>5, <2>6 DEF Ordered
<1> QED
  BY <1>3, <1>4

-----------------------------------------------------------------------------
(* What the layout says of single elements. *)

LEMMA InsideOfBuffer ==
    ASSUME NEW a, Typed(a), LaidOut(a), NEW c \in Box(a.shape)
    PROVE  BitsAt(a, c) \subseteq a.expr.packed_data
<1>1. PICK n \in Nat : a.shape \in [1..n -> Nat] /\ a.bit_strides \in [1..n -> Nat]
  BY Dimensions DEF Typed
<1>2. Width(a) \in Nat \ {0} /\ a.expr.bit_offset \in Nat
  BY DEF Typed, Variables, Width
<1>3. PICK length \in Nat :
         /\ a.expr.packed_data = 0..(length - 1)
         /\ Fits(a.shape, a.bit_strides, a.expr.bit_offset, Width(a), length)
  BY DEF LaidOut
<1>4. /\ a.shape \in [1..n -> Nat \ {0}]
      /\ ExportedAt(a, c) \in Int
      /\ a.expr.bit_offset <= ExportedAt(a, c)
      /\ ExportedAt(a, c) <= a.expr.bit_offset + Total(Reach(a.shape, a.bit_strides))
  <2>1. PICK offset \in Int : offset = a.expr.bit_offset
    BY <1>2
  <2>2. /\ a.shape \in [1..n -> Nat \ {0}]
        /\ Place(a.bit_strides, offset, c) \in Int
        /\ offset <= Place(a.bit_strides, offset, c)
        /\ Place(a.bit_strides, offset, c) <= offset + Total(Reach(a.shape, a.bit_strides))
    BY <1>1, PlaceWithin
  <2> QED
    BY <2>1, <2>2 DEF ExportedAt
<1>5. a.expr.bit_offset + Total(Reach(a.shape, a.bit_strides)) + Width(a) <= length
  <2>1. Filled(a.shape)
    BY <1>4 DEF Filled
  <2> QED
    BY <1>3, <2>1 DEF Fits
<1>6. Total(Reach(a.shape, a.bit_strides)) \in Int
  <2>1. Reach(a.shape, a.bit_strides) \in [1..n -> Int]
    BY <1>1, <1>4, Reaches
  <2> QED
    BY <2>1, Totals
<1>7. 0 <= ExportedAt(a, c) /\ ExportedAt(a, c) + Width(a) <= length
  BY <1>2, <1>4, <1>5, <1>6
<1> QED
  BY <1>2, <1>3, <1>4, <1>7 DEF BitsAt

LEMMA ApartFromOthers ==
    ASSUME NEW a, Typed(a), LaidOut(a), NEW b \in Box(a.shape), NEW c \in Box(a.shape), b # c
    PROVE  BitsAt(a, b) \cap BitsAt(a, c) = {}
<1>1. PICK n \in Nat : a.shape \in [1..n -> Nat] /\ a.bit_strides \in [1..n -> Nat]
  BY Dimensions DEF Typed
<1>2. Width(a) \in Nat /\ a.expr.bit_offset \in Nat
  BY DEF Typed, Variables, Width
<1>3. PICK offset \in Int : offset = a.expr.bit_offset
  BY <1>2
<1>4. /\ a.shape \in [1..n -> Nat \ {0}]
      /\ Place(a.bit_strides, offset, b) \in Int
  BY <1>1, PlaceWithin
<1>5. Place(a.bit_strides, offset, c) \in Int
  BY <1>1, PlaceWithin
<1>6. Nested(a.shape, a.bit_strides, Width(a))
  <2>1. Filled(a.shape)
    BY <1>4 DEF Filled
  <2> QED
    BY <2>1 DEF LaidOut
<1>7. Distant(a.bit_strides, offset, Width(a), b, c)
  BY <1>1, <1>2, <1>6, NestedDistant
<1>8. \/ ExportedAt(a, b) + Width(a) <= ExportedAt(a, c)
      \/ ExportedAt(a, c) + Width(a) <= ExportedAt(a, b)
  BY <1>3, <1>7 DEF Distant, ExportedAt
<1>9. ExportedAt(a, b) \in Int /\ ExportedAt(a, c) \in Int
  BY <1>3, <1>4, <1>5 DEF ExportedAt
<1> QED
  BY <1>2, <1>8, <1>9 DEF BitsAt

\* The element of a variable that a kernel reads.
LEMMA KernelElement ==
    ASSUME NEW a, Typed(a), ~TrailingOne(a.expr), NEW k \in 0..(Product(a.expr.shape) - 1)
    PROVE  /\ Coordinates(a.expr.shape, k) \in Box(a.expr.shape)
           /\ BitOffset(a.expr, k)
                = Place(a.expr.bit_strides, a.expr.bit_offset, Coordinates(a.expr.shape, k))
<1>1. a.expr \in Variables
  BY DEF Typed
<1>2. PICK m \in Nat : a.expr.shape \in [1..m -> Nat]
  BY <1>1, Dimensions DEF Variables
<1>3. Coordinates(a.expr.shape, k) \in Box(a.expr.shape)
  BY <1>2, PositionOfCoordinates
<1>4. PICK v : v = a.expr
  OBVIOUS
<1>5. BitOffset(v, k) = Place(v.bit_strides, v.bit_offset, Coordinates(v.shape, k))
  BY <1>2, <1>4, BitOffsetPlace
<1> QED
  BY <1>3, <1>4, <1>5

LEMMA KernelStaysInside ==
    ASSUME NEW a, Typed(a), LaidOut(a), ~TrailingOne(a.expr),
           NEW k \in 0..(Product(a.expr.shape) - 1), NEW limb \in Limbs
    PROVE  Field(BitOffset(a.expr, k), Width(a), limb) \subseteq a.expr.packed_data
<1>1. PICK v : v = a.expr
  OBVIOUS
<1>2. /\ v \in Variables /\ DOMAIN v.bit_strides = DOMAIN v.shape
  BY <1>1 DEF Typed
<1>3. PICK n \in Nat : v.shape \in [1..n -> Nat] /\ v.bit_strides \in [1..n -> Nat]
  BY <1>2, Dimensions DEF Variables
<1>4. Width(a) \in Nat \ {0} /\ v.bit_offset \in Nat
  BY <1>1, <1>2 DEF Variables, Width
<1>5. PICK length \in Nat :
         /\ v.packed_data = 0..(length - 1)
         /\ Fits(v.shape, v.bit_strides, v.bit_offset, Width(a), length)
  BY <1>1 DEF LaidOut
<1>6. PICK c : c \in Box(v.shape) /\ c = Coordinates(v.shape, k)
  BY <1>1, KernelElement
<1>7. PICK place : /\ place = Place(v.bit_strides, v.bit_offset, c)
                   /\ place = BitOffset(v, k)
  BY <1>1, <1>6, KernelElement
<1>8. /\ v.shape \in [1..n -> Nat \ {0}]
      /\ place \in Int
      /\ v.bit_offset <= place
      /\ place <= v.bit_offset + Total(Reach(v.shape, v.bit_strides))
  <2>1. PICK offset \in Int : offset = v.bit_offset
    BY <1>4
  <2>2. /\ v.shape \in [1..n -> Nat \ {0}]
        /\ Place(v.bit_strides, offset, c) \in Int
        /\ offset <= Place(v.bit_strides, offset, c)
        /\ Place(v.bit_strides, offset, c) <= offset + Total(Reach(v.shape, v.bit_strides))
    BY <1>3, <1>6, PlaceWithin
  <2> QED
    BY <1>7, <2>1, <2>2
<1>9. v.bit_offset + Total(Reach(v.shape, v.bit_strides)) + Width(a) <= length
  <2>1. Filled(v.shape)
    BY <1>8 DEF Filled
  <2> QED
    BY <1>5, <2>1 DEF Fits
<1>10. Total(Reach(v.shape, v.bit_strides)) \in Int
  <2>1. Reach(v.shape, v.bit_strides) \in [1..n -> Int]
    BY <1>3, <1>8, Reaches
  <2> QED
    BY <2>1, Totals
<1>11. place \in Nat /\ place + Width(a) <= length
  BY <1>4, <1>8, <1>9, <1>10
<1>12. limb \in Nat
  BY DEF Limbs
<1>13. Field(place, Width(a), limb) \subseteq 0..(length - 1)
  BY <1>4, <1>11, <1>12, FieldInside
<1> QED
  BY <1>1, <1>5, <1>7, <1>13

\* Where more was mapped than the shape has, a kernel reads on behind it, up
\* to the last element mapped.
LEMMA KernelBeyondShape ==
    ASSUME NEW a, Typed(a), Mapped(a), ~TrailingOne(a.expr), ~NothingToCount(a.expr),
           NEW k \in 0..(a.expr.size - 1), Product(a.expr.shape) <= k, NEW limb \in Limbs
    PROVE  Field(BitOffset(a.expr, k), Width(a), limb) \subseteq a.expr.packed_data
<1>1. PICK v : v = a.expr
  OBVIOUS
<1>2. /\ v \in Variables /\ DOMAIN v.bit_strides = DOMAIN v.shape
      /\ Product(v.shape) \in {v.size, Product(a.shape)} /\ Product(a.shape) <= v.size
  BY <1>1 DEF Typed
<1>3. PICK n \in Nat : /\ n = Len(v.shape)
                      /\ v.shape \in [1..n -> Nat] /\ v.bit_strides \in [1..n -> Nat]
  BY <1>2, Dimensions DEF Variables
<1>4. PICK shape \in [1..n -> Nat], strides \in [1..n -> Nat] :
         shape = v.shape /\ strides = v.bit_strides
  BY <1>3
<1>5. PICK width \in Nat \ {0} : width = Width(a)
  BY <1>1, <1>2 DEF Variables, Width
<1>6. PICK p \in Nat : p = Product(shape) /\ p <= k
  <2>1. Product(shape) \in Nat
    BY ProductNatural
  <2> QED
    BY <1>1, <1>4, <2>1
<1>7. PICK size \in Nat : size = v.size /\ k < size
  <2>1. v.size \in Nat
    BY <1>2 DEF Variables
  <2> QED
    BY <1>1, <2>1
<1>8. p # 0
  BY <1>1, <1>4, <1>6, <1>7 DEF NothingToCount
<1>9. Product(a.shape) < v.size /\ Product(v.shape) # v.size
  BY <1>2, <1>4, <1>6, <1>7
<1>10. v.bit_offset = 0 /\ v.packed_data = BufferOf(size, width)
       /\ Ordered(shape, strides, width)
  BY <1>1, <1>4, <1>5, <1>7, <1>9 DEF Mapped
<1>11. shape \in [1..n -> Nat \ {0}]
  <2>1. Product(shape) > 0
    BY <1>6, <1>8
  <2>2. \A d \in 1..n : shape[d] > 0
    BY <2>1, Positive, Zenon
  <2>3. \A d \in 1..n : shape[d] \in Nat \ {0}
    BY <2>2
  <2> QED
    BY <2>3
<1>12. ~(n > 1 /\ shape[n] = 1)
  BY <1>1, <1>3, <1>4 DEF TrailingOne
<1>13. PICK index \in Nat : index = k /\ Product(shape) <= index /\ index + 1 <= size
  BY <1>6, <1>7
<1>14. PICK total \in Nat : /\ total = Total(Moves(strides, Counted(shape, n, index)))
                           /\ total <= index * width
  BY <1>10, <1>11, <1>12, <1>13, BeyondOrdered
<1>15. BitOffset(v, k) = total
  <2>1. v.shape \in [1..n -> Nat] /\ Product(v.shape) # 0
    BY <1>3, <1>4, <1>6, <1>8
  <2>2. BitOffset(v, k) = Place(v.bit_strides, v.bit_offset, Counted(v.shape, n, k))
    BY <2>1, BitOffsetCounted
  <2>3. Place(strides, 0, Counted(shape, n, index)) = 0 + total
    BY <1>14, PlaceOfMoves
  <2> QED
    BY <1>4, <1>10, <1>13, <2>2, <2>3
<1>16. PICK bits \in Nat : bits = size * width /\ total + width <= bits
  <2>1. (index + 1) * width <= size * width /\ (index + 1) * width = index * width + width
    BY <1>13, Products
  <2>2. index * width \in Nat /\ size * width \in Nat
    BY Products
  <2>3. PICK x \in Nat, y \in Nat : x = index * width /\ y = size * width
    BY <2>2
  <2>4. x + width <= y /\ total <= x
    BY <1>14, <2>1, <2>3
  <2>5. total + width <= y
    BY <2>4
  <2> QED
    BY <2>3, <2>5
<1>17. PICK length \in Nat : length = CeilDiv(bits, ByteBits) * ByteBits /\ bits <= length
  <2>1. ByteBits \in Nat \ {0}
    BY BitPackAssumption
  <2>2. CeilDiv(bits, ByteBits) \in Nat /\ bits <= CeilDiv(bits, ByteBits) * ByteBits
    BY <2>1, Ceiling
  <2>3. CeilDiv(bits, ByteBits) * ByteBits \in Nat
    BY <2>1, <2>2, Products
  <2> QED
    BY <2>2, <2>3
<1>18. v.packed_data = 0..(length - 1)
  BY <1>10, <1>16, <1>17 DEF BufferOf
<1>19. limb \in Nat
  BY DEF Limbs
<1>20. Field(total, width, limb) \subseteq 0..(length - 1)
  <2>1. total + width <= length
    BY <1>16, <1>17
  <2> QED
    BY <1>19, <2>1, FieldInside
<1> QED
  BY <1>1, <1>5, <1>15, <1>18, <1>20

-----------------------------------------------------------------------------
(* The inductive invariant. *)

ViewInv ==
    /\ Typed(array) /\ LaidOut(array) /\ Mapped(array)
    /\ shown \in [Box(array.shape) -> Nat] /\ stale \in BOOLEAN
    /\ ~stale => Shown(array, shown) /\ Agrees(array)

LEMMA ViewInit == Init => ViewInv
<1> SUFFICES ASSUME Init PROVE ViewInv
  OBVIOUS
<1>1. PICK width \in Widths, shape \in Shapes, spare \in Spare :
         /\ array = Made(width, Product(shape) + spare, shape)
         /\ shown = [c \in Box(shape) |-> Position(shape, c)]
         /\ stale = FALSE
  BY DEF Init
<1>2. width \in Nat \ {0} /\ shape \in Seq(Nat) /\ spare \in Nat
  BY ViewChainAssumption DEF ViewChainAssumption
<1>3. PICK p \in Nat : p = Product(shape) + spare /\ Product(shape) <= p
  <2>1. PICK n \in Nat : shape \in [1..n -> Nat]
    BY <1>2, Dimensions
  <2>2. Product(shape) \in Nat
    BY <2>1, ProductNatural
  <2>3. Product(shape) + spare \in Nat /\ Product(shape) <= Product(shape) + spare
    BY <1>2, <2>2
  <2> QED
    BY <2>3
<1>4. array = Made(width, p, shape)
  BY <1>1, <1>3
<1>5. Typed(array) /\ LaidOut(array) /\ Mapped(array)
  BY <1>2, <1>3, <1>4, MadeTyped, MadeLaidOut, MadeMapped
<1>6. /\ Shown(array, shown) /\ shown \in [Box(shape) -> Nat] /\ Agrees(array)
  BY <1>1, <1>2, <1>3, <1>4, MadeShown
<1>7. array.shape = shape
  BY <1>2, <1>4, MadeFields
<1> QED
  BY <1>1, <1>5, <1>6, <1>7 DEF ViewInv

LEMMA ViewSlice ==
    ASSUME ViewInv, NEW ranges \in Slices, Slice(ranges)
    PROVE  ViewInv'
<1>1. ranges \in Seq(Ranges)
  BY ViewChainAssumption DEF ViewChainAssumption
<1>2. array' = SliceAndDice(array, ranges) /\ stale' = stale
  BY DEF Slice
<1>3. shown' = [c \in Box(array'.shape) |-> IF stale' THEN 0 ELSE shown[Chosen(ranges, c)]]
  BY DEF Slice, Shows
<1>4. /\ Typed(array) /\ LaidOut(array) /\ Mapped(array)
      /\ shown \in [Box(array.shape) -> Nat] /\ stale \in BOOLEAN
  BY DEF ViewInv
<1>5. Typed(array') /\ LaidOut(array') /\ Mapped(array')
  BY <1>1, <1>2, <1>4, SliceTyped, SliceLaidOut, SliceMapped
<1>6. /\ \A c \in Box(array'.shape) : Chosen(ranges, c) \in Box(array.shape)
      /\ Shown(array, shown) =>
           Shown(array', [c \in Box(array'.shape) |-> shown[Chosen(ranges, c)]])
      /\ Agrees(array')
  BY <1>1, <1>2, <1>4, SliceShown
<1>7. shown' \in [Box(array'.shape) -> Nat]
  BY <1>3, <1>4, <1>6
<1>8. ASSUME ~stale'
      PROVE  Shown(array', shown')
  <2>1. Shown(array, shown)
    BY <1>2, <1>8 DEF ViewInv
  <2>2. shown' = [c \in Box(array'.shape) |-> shown[Chosen(ranges, c)]]
    BY <1>3, <1>8
  <2> QED
    BY <1>6, <2>1, <2>2
<1> QED
  BY <1>2, <1>4, <1>5, <1>6, <1>7, <1>8 DEF ViewInv

LEMMA ViewTurn ==
    ASSUME ViewInv, Turn
    PROVE  ViewInv'
<1>1. array' = Transpose(array) /\ stale' = stale
  BY DEF Turn
<1>2. shown' = [c \in Box(array'.shape) |-> IF stale' THEN 0 ELSE shown[Reverse(c)]]
  BY DEF Turn, Shows
<1>3. /\ Typed(array) /\ LaidOut(array) /\ Mapped(array)
      /\ shown \in [Box(array.shape) -> Nat] /\ stale \in BOOLEAN
  BY DEF ViewInv
<1>4. Typed(array') /\ LaidOut(array') /\ Mapped(array')
  BY <1>1, <1>3, TransposeTyped, TransposeLaidOut, TransposeMapped
<1>5. /\ \A c \in Box(array'.shape) : Reverse(c) \in Box(array.shape)
      /\ Shown(array, shown) =>
           Shown(array', [c \in Box(array'.shape) |-> shown[Reverse(c)]])
      /\ Agrees(array')
  BY <1>1, <1>3, TransposeShown
<1>6. shown' \in [Box(array'.shape) -> Nat]
  BY <1>2, <1>3, <1>5
<1>7. ASSUME ~stale'
      PROVE  Shown(array', shown')
  <2>1. Shown(array, shown)
    BY <1>1, <1>7 DEF ViewInv
  <2>2. shown' = [c \in Box(array'.shape) |-> shown[Reverse(c)]]
    BY <1>2, <1>7
  <2> QED
    BY <1>5, <2>1, <2>2
<1> QED
  BY <1>1, <1>3, <1>4, <1>5, <1>6, <1>7 DEF ViewInv

LEMMA ViewReshaped ==
    ASSUME ViewInv, NEW shape \in Shapes, Reshaped(shape)
    PROVE  ViewInv'
<1>1. shape \in Seq(Nat)
  BY ViewChainAssumption DEF ViewChainAssumption
<1>2. /\ Product(shape) = Product(array.shape)
      /\ array' = Reshape(array, shape, Width(array))
      /\ stale' = (stale \/ ~IsList(array))
  BY DEF Reshaped
<1>3. array'.shape = shape
  BY <1>2 DEF Reshape, Array
<1>4. shown' = [c \in Box(array'.shape) |->
                  IF stale' THEN 0 ELSE shown[Coordinates(array.shape, Position(shape, c))]]
  BY DEF Reshaped, Shows
<1>5. /\ Typed(array) /\ LaidOut(array) /\ Mapped(array)
      /\ shown \in [Box(array.shape) -> Nat] /\ stale \in BOOLEAN
  BY DEF ViewInv
<1>6. Typed(array') /\ LaidOut(array') /\ Mapped(array')
  BY <1>1, <1>2, <1>5, ReshapeTyped, ReshapeLaidOut, ReshapeMapped
<1>7. /\ \A c \in Box(shape) : Coordinates(array.shape, Position(shape, c)) \in Box(array.shape)
      /\ Shown(array, shown) /\ IsList(array) =>
           Shown(array', [c \in Box(shape) |->
                            shown[Coordinates(array.shape, Position(shape, c))]])
      /\ Agrees(array) /\ IsList(array) => Agrees(array')
  BY <1>1, <1>2, <1>5, ReshapeShown
<1>8. shown' \in [Box(array'.shape) -> Nat]
  BY <1>4, <1>5, <1>7, <1>3
<1>9. ASSUME ~stale'
      PROVE  Shown(array', shown') /\ Agrees(array')
  <2>1. Shown(array, shown) /\ Agrees(array) /\ IsList(array)
    BY <1>2, <1>9 DEF ViewInv
  <2>2. shown' = [c \in Box(shape) |-> shown[Coordinates(array.shape, Position(shape, c))]]
    BY <1>4, <1>9, <1>3
  <2> QED
    BY <1>7, <2>1, <2>2
<1>10. stale' \in BOOLEAN
  BY <1>2, <1>5
<1> QED
  BY <1>6, <1>8, <1>9, <1>10 DEF ViewInv

LEMMA ViewNext == ViewInv /\ [Next]_vars => ViewInv'
<1> SUFFICES ASSUME ViewInv, [Next]_vars PROVE ViewInv'
  OBVIOUS
<1>1. CASE \E ranges \in Slices : Slice(ranges)
  BY <1>1, ViewSlice
<1>2. CASE Turn
  BY <1>2, ViewTurn
<1>3. CASE \E shape \in Shapes : Reshaped(shape)
  BY <1>3, ViewReshaped
<1>4. CASE UNCHANGED vars
  BY <1>4 DEF ViewInv, vars
<1> QED
  BY <1>1, <1>2, <1>3, <1>4 DEF Next

LEMMA ViewInductive == Spec => []ViewInv
BY ViewInit, ViewNext, PTL DEF Spec

-----------------------------------------------------------------------------
\* Every array that slices, transpositions and reshapes lead to has as many
\* strides as dimensions, and its variable at least as many elements as it has
\* itself; where the variable's shape has others than the array's, they are all
\* that was mapped (array.rs, transpose and reshape; lib.rs, slice_and_dice).
THEOREM ViewTypes == Spec => []ViewTypeOK
<1>1. ViewInv => ViewTypeOK
  <2> SUFFICES ASSUME ViewInv PROVE ViewTypeOK
    OBVIOUS
  <2>1. /\ Typed(array) /\ shown \in [Box(array.shape) -> Nat] /\ stale \in BOOLEAN
    BY DEF ViewInv
  <2>2. /\ array.expr \in Variables /\ array.shape \in Seq(Nat)
        /\ array.bit_strides \in Seq(Nat)
        /\ DOMAIN array.bit_strides = DOMAIN array.shape
    BY <2>1 DEF Typed
  <2>3. array.bit_strides \in [DOMAIN array.shape -> Nat]
    <3>1. PICK n \in Nat : array.shape \in [1..n -> Nat] /\ array.bit_strides \in [1..n -> Nat]
      BY <2>2, Dimensions
    <3> QED
      BY <3>1
  <2>4. /\ array.expr.shape \in Seq(Nat) /\ array.expr.bit_strides \in Seq(Nat)
        /\ DOMAIN array.expr.bit_strides = DOMAIN array.expr.shape
    BY <2>1, <2>2 DEF Typed, Variables
  <2>5. array.expr.bit_strides \in [DOMAIN array.expr.shape -> Nat]
    <3>1. PICK n \in Nat : /\ array.expr.shape \in [1..n -> Nat]
                           /\ array.expr.bit_strides \in [1..n -> Nat]
      BY <2>4, Dimensions
    <3> QED
      BY <3>1
  <2>6. array.expr.bit_offset \in Nat /\ array.expr.dtype.bits \in Nat \ {0}
    BY <2>2 DEF Variables
  <2>7. /\ array.expr.size \in Nat /\ Product(array.shape) <= array.expr.size
        /\ Product(array.expr.shape) \in {array.expr.size, Product(array.shape)}
    BY <2>1, <2>2 DEF Typed, Variables
  <2> QED
    BY <2>1, <2>2, <2>3, <2>4, <2>5, <2>6, <2>7 DEF ViewTypeOK
<1> QED
  BY <1>1, ViewInductive, PTL

\* What other libraries are given in place (lib.rs, __array_interface__) lies
\* in the buffer of the array, for every width, every shape and every sequence
\* of slices, transpositions and reshapes.
THEOREM ViewsInside == Spec => []ElementsInside
<1>1. ViewInv => ElementsInside
  BY InsideOfBuffer DEF ViewInv, ElementsInside
<1> QED
  BY <1>1, ViewInductive, PTL

\* No two elements of an array share a bit, so none is written to through
\* another (lib.rs, __array_interface__, of whatever slice_and_dice, transpose
\* and reshape made).
THEOREM ViewsApart == Spec => []ElementsApart
<1>1. ViewInv => ElementsApart
  BY ApartFromOthers DEF ViewInv, ElementsApart
<1> QED
  BY <1>1, ViewInductive, PTL

\* An array shows the elements that its slices, transpositions and reshapes
\* chose, as long as no reshape laid row-major strides over a view that is no
\* list (lib.rs, slice_and_dice; array.rs, transpose and reshape).
THEOREM ViewsShown == Spec => []ElementsShown
<1>1. ViewInv => ElementsShown
  BY DEF ViewInv, ElementsShown, Shown
<1> QED
  BY <1>1, ViewInductive, PTL

\* A compiled kernel that finds its elements by the layout of the variable
\* (fuser.rs, emit_compute_bit_offset) reads nothing outside of the buffer.
THEOREM ViewKernelsInside == Spec => []KernelInside
<1>1. ViewInv => KernelInside
  <2> SUFFICES ASSUME ViewInv, ~TrailingOne(array.expr), ~NothingToCount(array.expr),
                      NEW k \in 0..(array.expr.size - 1), NEW limb \in Limbs
               PROVE  Field(BitOffset(array.expr, k), Width(array), limb)
                        \subseteq array.expr.packed_data
    BY DEF KernelInside
  <2>1. Typed(array) /\ LaidOut(array) /\ Mapped(array)
    BY DEF ViewInv
  <2>2. Product(array.expr.shape) \in Nat
    <3>1. PICK n \in Nat : array.expr.shape \in [1..n -> Nat]
      BY <2>1, Dimensions DEF Typed, Variables
    <3> QED
      BY <3>1, ProductNatural
  <2>3. CASE k < Product(array.expr.shape)
    <3>1. k \in 0..(Product(array.expr.shape) - 1)
      BY <2>2, <2>3
    <3> QED
      BY <2>1, <3>1, KernelStaysInside
  <2>4. CASE Product(array.expr.shape) <= k
    BY <2>1, <2>4, KernelBeyondShape
  <2> QED
    BY <2>2, <2>3, <2>4
<1> QED
  BY <1>1, ViewInductive, PTL

\* The element that such a kernel reads at an index is the one that the array
\* should have there, in row-major order, after every sequence of slices and
\* transpositions, and of reshapes of lists (fuser.rs, emit_compute_bit_offset).
THEOREM ViewKernelsRead == Spec => []KernelReads
<1>1. ViewInv => KernelReads
  <2> SUFFICES ASSUME ViewInv, ~TrailingOne(array.expr), ~stale,
                      NEW k \in 0..(Product(array.shape) - 1)
               PROVE  BitOffset(array.expr, k)
                        = shown[Coordinates(array.shape, k)] * Width(array)
    BY DEF KernelReads
  <2>1. Typed(array) /\ Shown(array, shown) /\ Agrees(array)
    BY DEF ViewInv
  <2>2. PICK c : c \in Box(array.shape) /\ c = Coordinates(array.shape, k)
    <3>1. PICK n \in Nat : array.shape \in [1..n -> Nat]
      BY <2>1, Dimensions DEF Typed
    <3>2. Coordinates(array.shape, k) \in Box(array.shape)
      BY <3>1, PositionOfCoordinates
    <3> QED
      BY <3>2
  <2>3. BitOffset(array.expr, k)
          = Place(array.expr.bit_strides, array.expr.bit_offset,
                  Coordinates(array.expr.shape, k))
    <3>1. PICK n \in Nat : array.shape \in [1..n -> Nat]
      BY <2>1, Dimensions DEF Typed
    <3>2. PICK p \in Nat : p = Product(array.shape)
      BY <3>1, ProductNatural
    <3>3. p <= array.expr.size /\ Product(array.expr.shape) \in {array.expr.size, p}
          /\ array.expr.size \in Nat
      BY <2>1, <3>2 DEF Typed, Variables
    <3>4. k \in 0..(Product(array.expr.shape) - 1)
      BY <3>2, <3>3
    <3> QED
      BY <2>1, <3>4, KernelElement
  <2>4. Place(array.expr.bit_strides, array.expr.bit_offset, Coordinates(array.expr.shape, k))
          = ExportedAt(array, c)
    BY <2>1, <2>2 DEF Agrees
  <2>5. ExportedAt(array, c) = shown[c] * Width(array)
    BY <2>1, <2>2 DEF Shown
  <2> QED
    BY <2>2, <2>3, <2>4, <2>5
<1> QED
  BY <1>1, ViewInductive, PTL

=============================================================================
