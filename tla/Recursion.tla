----------------------------- MODULE Recursion -----------------------------
(***************************************************************************)
(* Induction over the integers, and functions defined by recursion over an *)
(* interval of them, as facts about sets: "for all n, P(n)" is proved as   *)
(* "every n is in {n : P(n)}".  They rest on the well-foundedness of < on  *)
(* the naturals, and take no operator for a parameter.                     *)
(***************************************************************************)
EXTENDS WellFoundedInduction, TLAPS

\* A set of naturals that is not empty has a least element.
LEMMA LeastNatural ==
    ASSUME NEW T, T \subseteq Nat, T # {}
    PROVE  \E x \in T : \A y \in T : x <= y
<1>1. IsWellFoundedOn({ss \in Nat \X Nat : ss[1] < ss[2]}, Nat)
  BY NatLessThanWellFounded DEF OpToRel
<1>2. PICK x \in T : \A y \in T : <<y, x>> \notin {ss \in Nat \X Nat : ss[1] < ss[2]}
  BY <1>1, WFMin
<1>3. \A y \in T : y \in Nat /\ x \in Nat /\ ~(y < x)
  BY <1>2
<1> QED
  BY <1>3

\* Induction from zero.
LEMMA SetInduction ==
    ASSUME NEW T, 0 \in T, \A n \in Nat : n \in T => n + 1 \in T
    PROVE  \A n \in Nat : n \in T
<1> SUFFICES ASSUME NEW m \in Nat, m \notin T PROVE FALSE
  OBVIOUS
<1>1. PICK x \in Nat \ T : \A y \in Nat \ T : x <= y
  <2>1. Nat \ T \subseteq Nat /\ Nat \ T # {}
    OBVIOUS
  <2> QED
    BY <2>1, LeastNatural
<1>2. x # 0 /\ x - 1 \in Nat
  BY <1>1
<1>3. x - 1 \in T
  BY <1>1, <1>2
<1> QED
  BY <1>1, <1>2, <1>3

\* Induction from one end of an interval to the other.
LEMMA IntervalInduction ==
    ASSUME NEW m \in Int, NEW n \in Int, NEW T, m <= n => m \in T,
           \A i \in (m + 1)..n : i - 1 \in T => i \in T
    PROVE  \A i \in m..n : i \in T
<1> DEFINE U == {j \in Nat : m + j <= n => m + j \in T}
<1>1. 0 \in U
  OBVIOUS
<1>2. ASSUME NEW j \in Nat, j \in U PROVE j + 1 \in U
  <2>1. ASSUME m + (j + 1) <= n PROVE m + (j + 1) \in T
    <3>1. m + (j + 1) \in (m + 1)..n /\ (m + (j + 1)) - 1 = m + j /\ m + j \in T
      BY <1>2, <2>1
    <3> QED
      BY <3>1
  <2> QED
    BY <2>1
<1>3. \A j \in Nat : j \in U
  <2> HIDE DEF U
  <2> QED
    BY <1>1, <1>2, SetInduction
<1> SUFFICES ASSUME NEW i \in m..n PROVE i \in T
  OBVIOUS
<1>4. i - m \in Nat /\ m + (i - m) = i /\ i <= n
  OBVIOUS
<1>5. i - m \in U
  BY <1>3, <1>4
<1> QED
  BY <1>4, <1>5

\* f[m] is c, and G makes each value after it from the value before and its
\* place.
Recursive(f, c, m, n, G) ==
    f = [i \in m..n |-> IF i = m THEN c ELSE G[<<f[i - 1], i>>]]

\* There is such a function: what it takes to expand a recursive definition,
\* which is a CHOOSE.
LEMMA RecursionExists ==
    ASSUME NEW S, NEW c \in S, NEW m \in Int, NEW n \in Int, NEW G \in [S \X (m..n) -> S]
    PROVE  \E f \in [m..n -> S] : Recursive(f, c, m, n, G)
<1> DEFINE Upto(k, f) == \A i \in m..k : f[i] = IF i = m THEN c ELSE G[<<f[i - 1], i>>]
           T == {j \in Nat : m + j <= n => \E f \in [m..(m + j) -> S] : Upto(m + j, f)}
<1>1. 0 \in T
  <2> DEFINE f == [i \in m..m |-> c]
  <2>1. f \in [m..(m + 0) -> S] /\ Upto(m + 0, f)
    OBVIOUS
  <2> QED
    BY <2>1
<1>2. ASSUME NEW j \in Nat, j \in T PROVE j + 1 \in T
  <2> SUFFICES ASSUME m + (j + 1) <= n
               PROVE  \E f \in [m..(m + (j + 1)) -> S] : Upto(m + (j + 1), f)
    OBVIOUS
  <2>1. PICK g \in [m..(m + j) -> S] : Upto(m + j, g)
    BY <1>2
  <2> DEFINE f == [i \in m..(m + (j + 1)) |->
                     IF i = m + (j + 1) THEN G[<<g[m + j], i>>] ELSE g[i]]
  <2>2. f \in [m..(m + (j + 1)) -> S]
    <3>1. <<g[m + j], m + (j + 1)>> \in S \X (m..n)
      OBVIOUS
    <3> QED
      BY <3>1
  <2>3. ASSUME NEW i \in m..(m + (j + 1))
        PROVE  f[i] = IF i = m THEN c ELSE G[<<f[i - 1], i>>]
    <3>1. CASE i = m + (j + 1)
      BY <3>1
    <3>2. CASE i # m + (j + 1)
      <4>1. i \in m..(m + j) /\ (i # m => i - 1 \in m..(m + j) /\ i - 1 # m + (j + 1))
        BY <3>2
      <4>2. f[i] = g[i] /\ (i # m => f[i - 1] = g[i - 1])
        BY <3>2, <4>1
      <4>3. g[i] = IF i = m THEN c ELSE G[<<g[i - 1], i>>]
        BY <2>1, <4>1
      <4> HIDE DEF f
      <4> QED
        BY <4>2, <4>3
    <3> QED
      BY <3>1, <3>2
  <2>4. Upto(m + (j + 1), f)
    BY <2>3
  <2> HIDE DEF f
  <2> QED
    BY <2>2, <2>4
<1>3. \A j \in Nat : j \in T
  <2> HIDE DEF T
  <2> QED
    BY <1>1, <1>2, SetInduction
<1>4. CASE m <= n
  <2>1. n - m \in Nat /\ m + (n - m) = n
    BY <1>4
  <2>2. n - m \in T
    BY <1>3, <2>1
  <2>3. PICK f \in [m..n -> S] : Upto(n, f)
    BY <2>1, <2>2
  <2>4. Recursive(f, c, m, n, G)
    BY <2>3 DEF Recursive
  <2> QED
    BY <2>4
<1>5. CASE n < m
  <2> DEFINE f == [i \in m..n |-> c]
  <2>1. m..n = {}
    BY <1>5
  <2>2. f \in [m..n -> S] /\ Recursive(f, c, m, n, G)
    BY <2>1 DEF Recursive
  <2> QED
    BY <2>2
<1> QED
  BY <1>4, <1>5

=============================================================================
