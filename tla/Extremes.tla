------------------------------- MODULE Extremes -------------------------------
(***************************************************************************)
(* Lemmas about the least and greatest elements of sets of numbers (the    *)
(* best prices of a book, the first and last bars of a product, the last   *)
(* minute that was built, the slowest partition), and about rounding down  *)
(* to a multiple (the minute of a second).                                 *)
(***************************************************************************)
EXTENDS Integers, FiniteSetsExt, FiniteSetTheorems, TLAPS

(* A nonempty set of naturals has a least element.                         *)
LEMMA LeastElement ==
    ASSUME NEW S \in SUBSET Nat, S # {}
    PROVE  \E x \in S : \A y \in S : x <= y
  <1>1. PICK x \in S : \A y \in S : ~ (<<y, x>> \in OpToRel(<, Nat))
    BY NatLessThanWellFounded, WFMin
  <1>2. \A y \in S : ~ (y < x)
    BY <1>1 DEF OpToRel
  <1> QED
    BY <1>2

(* A nonempty set of naturals with an upper bound has a greatest element:  *)
(* reflect it at the bound.                                                *)
LEMMA GreatestElement ==
    ASSUME NEW n \in Nat, NEW S \in SUBSET (0..n), S # {}
    PROVE  \E x \in S : \A y \in S : x >= y
  <1> DEFINE R == {n - x : x \in S}
  <1>1. \A x \in S : x \in Nat /\ n - x \in Nat
    OBVIOUS
  <1>2. R \in SUBSET Nat /\ R # {}
    <2>1. PICK x \in S : TRUE
      OBVIOUS
    <2>2. n - x \in R
      BY <2>1
    <2> QED
      BY <1>1, <2>2
  <1>3. PICK r \in R : \A y \in R : r <= y
    BY <1>2, LeastElement
  <1>4. PICK x \in S : r = n - x
    OBVIOUS
  <1>5. \A y \in S : n - x <= n - y
    BY <1>3, <1>4
  <1> QED
    BY <1>1, <1>5

(* Max and Min of a bounded set of naturals, or a finite one of integers,  *)
(* are what they should be.                                                *)
LEMMA MaxProperty ==
    ASSUME NEW n \in Nat, NEW S \in SUBSET (0..n), S # {}
    PROVE  Max(S) \in S /\ \A y \in S : Max(S) >= y
  BY GreatestElement DEF Max

LEMMA MinProperty ==
    ASSUME NEW S \in SUBSET Nat, S # {}
    PROVE  Min(S) \in S /\ \A y \in S : Min(S) <= y
  BY LeastElement DEF Min

LEMMA FiniteMaxProperty ==
    ASSUME NEW S \in SUBSET Int, IsFiniteSet(S), S # {}
    PROVE  Max(S) \in S /\ \A y \in S : Max(S) >= y
  <1> DEFINE HasMax(T) == \E x \in T : \A y \in T : x >= y
             Wrong == {T \in FiniteSubsetsOf(S) : T # {} /\ ~ HasMax(T)}
  <1>1. ASSUME Wrong # {} PROVE FALSE
    <2>1. PICK T \in Wrong : \A U \in Wrong : ~ (<<U, T>> \in StrictSubsetOrdering(S))
      <3> HIDE DEF Wrong
      <3>1. Wrong \subseteq FiniteSubsetsOf(S)
        BY DEF Wrong
      <3> QED
        BY <1>1, <3>1, FS_StrictSubsetOrderingWellFounded, WFMin
    <2>2. T \in SUBSET S /\ IsFiniteSet(T) /\ T # {} /\ ~ HasMax(T)
      BY <2>1 DEF FiniteSubsetsOf
    <2>3. PICK x \in T : TRUE
      BY <2>2
    <2> DEFINE U == T \ {x}
    <2>4. U \in SUBSET S /\ U \subseteq T /\ U # T /\ IsFiniteSet(U)
      BY <2>2, <2>3, FS_RemoveElement
    <2>5. U \notin Wrong
      BY <2>1, <2>2, <2>4 DEF StrictSubsetOrdering
    <2>6. CASE U = {}
      <3>1. \A y \in T : y = x
        BY <2>6
      <3>2. x \in Int
        BY <2>2
      <3> QED
        BY <2>2, <2>3, <3>1, <3>2
    <2>7. CASE HasMax(U)
      <3>1. PICK m \in U : \A y \in U : m >= y
        BY <2>7
      <3>2. x \in Int /\ m \in Int /\ m \in T
        BY <2>2, <2>4, <3>1
      <3>3. \A y \in T : y = x \/ y \in U
        OBVIOUS
      <3>4. CASE m >= x
        BY <2>2, <3>1, <3>2, <3>3, <3>4
      <3>5. CASE x >= m
        <4>1. \A y \in T : y \in Int
          BY <2>2
        <4>2. \A y \in T : x >= y
          BY <3>1, <3>2, <3>3, <3>5, <4>1
        <4> QED
          BY <2>2, <2>3, <4>2
      <3> QED
        BY <3>2, <3>4, <3>5
    <2> QED
      BY <2>4, <2>5, <2>6, <2>7 DEF FiniteSubsetsOf
  <1>2. S \in FiniteSubsetsOf(S)
    BY DEF FiniteSubsetsOf
  <1>3. HasMax(S)
    BY <1>1, <1>2
  <1> QED
    BY <1>3 DEF Max

LEMMA FiniteMinProperty ==
    ASSUME NEW S \in SUBSET Int, IsFiniteSet(S), S # {}
    PROVE  Min(S) \in S /\ \A y \in S : Min(S) <= y
  <1> DEFINE R == {-x : x \in S}
             f == [x \in S |-> -x]
  <1>1. R \in SUBSET Int /\ R # {}
    <2>1. PICK x \in S : TRUE
      OBVIOUS
    <2>2. -x \in R
      OBVIOUS
    <2> QED
      BY <2>2
  <1>2. f \in Surjection(S, R)
    BY DEF Surjection
  <1>3. IsFiniteSet(R)
    BY <1>2, FS_Surjection
  <1>4. PICK m \in R : \A y \in R : m >= y
    <2> HIDE DEF R
    <2> QED
      BY <1>1, <1>3, FiniteMaxProperty
  <1>5. PICK x \in S : m = -x
    OBVIOUS
  <1>6. \A y \in S : x <= y
    <2> SUFFICES ASSUME NEW y \in S PROVE x <= y
      OBVIOUS
    <2>1. -y \in R
      OBVIOUS
    <2>2. -x >= -y
      BY <1>4, <1>5, <2>1
    <2> QED
      BY <2>2
  <1> QED
    BY <1>5, <1>6 DEF Min

(* The greater of two integers.                                            *)
LEMMA MaxOfTwo ==
    ASSUME NEW a \in Int, NEW b \in Int
    PROVE  /\ Max({a, b}) \in {a, b} /\ Max({a, b}) \in Int
           /\ Max({a, b}) >= a /\ Max({a, b}) >= b
  <1>1. \E x \in {a, b} : \A y \in {a, b} : x >= y
    <2>1. CASE a >= b
      BY <2>1
    <2>2. CASE b >= a
      BY <2>2
    <2> QED
      BY <2>1, <2>2
  <1>2. Max({a, b}) \in {a, b} /\ \A y \in {a, b} : Max({a, b}) >= y
    BY <1>1 DEF Max
  <1> QED
    BY <1>2

-----------------------------------------------------------------------------
(* Rounding down to a multiple of m.                                       *)

LEMMA ProductGrows ==
    ASSUME NEW m \in Nat, NEW a \in Int, NEW b \in Int, a + 1 <= b
    PROVE  m * a + m <= m * b
  <1>1. m * (b - a - 1) >= 0
    OBVIOUS
  <1>2. m * (b - a - 1) = m * b - m * a - m
    OBVIOUS
  <1> QED
    BY <1>1, <1>2

LEMMA Division ==
    ASSUME NEW m \in Nat \ {0}, NEW s \in Nat
    PROVE  /\ s % m \in 0..(m - 1)
           /\ s \div m \in Nat
           /\ s = m * (s \div m) + (s % m)
  OBVIOUS

(* The multiple is not above s, and not below any other that is not.       *)
LEMMA RoundedDown ==
    ASSUME NEW m \in Nat \ {0}, NEW s \in Nat
    PROVE  /\ s - (s % m) \in Nat /\ s - (s % m) <= s
           /\ \E q \in Nat : s - (s % m) = m * q
           /\ \A k \in Int : m * k <= s => m * k <= s - (s % m)
  <1> DEFINE q == s \div m
             r == s % m
  <1>1. r \in 0..(m - 1) /\ q \in Nat /\ s = m * q + r
    BY Division
  <1> HIDE DEF q, r
  <1>2. m * q \in Nat
    BY <1>1
  <1>3. s - r = m * q /\ s - r <= s
    BY <1>1, <1>2
  <1>4. ASSUME NEW k \in Int, m * k <= s, ~ (m * k <= s - r) PROVE FALSE
    <2>1. CASE k <= q
      <3>1. m * k <= m * q
        <4>1. CASE k = q
          BY <1>2, <4>1
        <4>2. CASE k + 1 <= q
          BY <1>1, <4>2, ProductGrows
        <4> QED
          BY <1>1, <2>1, <4>1, <4>2
      <3> QED
        BY <1>3, <1>4, <3>1
    <2>2. CASE q + 1 <= k
      <3>1. m * q + m <= m * k
        BY <1>1, <2>2, ProductGrows
      <3> QED
        BY <1>1, <1>2, <1>4, <3>1
    <2> QED
      BY <1>1, <2>1, <2>2
  <1> QED
    BY <1>1, <1>2, <1>3, <1>4 DEF r

LEMMA RoundingMonotone ==
    ASSUME NEW m \in Nat \ {0}, NEW a \in Nat, NEW b \in Nat, a <= b
    PROVE  a - (a % m) <= b - (b % m)
  <1>1. PICK q \in Nat : a - (a % m) = m * q
    BY RoundedDown
  <1>2. m * q <= b
    <2>1. a - (a % m) \in Nat /\ a - (a % m) <= a
      BY RoundedDown
    <2> QED
      BY <1>1, <2>1
  <1>3. q \in Int
    OBVIOUS
  <1> QED
    BY <1>1, <1>2, <1>3, RoundedDown

=============================================================================
