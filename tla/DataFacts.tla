------------------------------ MODULE DataFacts ------------------------------
(***************************************************************************)
(* What the other modules of proofs need of numbers, finite sets and       *)
(* functions: least elements, quotients and remainders, cardinalities.     *)
(***************************************************************************)
EXTENDS Integers, FiniteSets, FiniteSetsExt, FiniteSetTheorems, WellFoundedInduction, TLAPS

(***************************************************************************)
(* A proof by induction over data is one by the least counterexample.      *)
(***************************************************************************)

Less == {ss \in Nat \X Nat : ss[1] < ss[2]}

LEMMA LessWellFounded == IsWellFoundedOn(Less, Nat)
  BY NatLessThanWellFounded DEF OpToRel, Less

\* Every set of natural numbers that is not empty has a least element.
LEMMA Least ==
    ASSUME NEW S, S \subseteq Nat, S # {}
    PROVE  \E x \in S : \A y \in S : x <= y
<1>1. PICK x \in S : \A y \in S : <<y, x>> \notin Less
  BY LessWellFounded, WFMin
<1>2. ASSUME NEW y \in S PROVE x <= y
  <2>1. x \in Nat /\ y \in Nat
    OBVIOUS
  <2>2. ~ (y < x)
    BY <1>1, <2>1 DEF Less
  <2> QED  BY <2>1, <2>2
<1> QED  BY <1>2

\* What Min and Max, which choose, return.
LEMMA MinIsLeast ==
    ASSUME NEW S, S \subseteq Nat, S # {}
    PROVE  Min(S) \in S /\ \A y \in S : Min(S) <= y
  BY Least DEF Min

LEMMA MinOfTwo ==
    ASSUME NEW a \in Int, NEW b \in Int
    PROVE  Min({a, b}) = IF a <= b THEN a ELSE b
<1>1. \E x \in {a, b} : \A y \in {a, b} : x <= y
  OBVIOUS
<1>2. Min({a, b}) \in {a, b} /\ \A y \in {a, b} : Min({a, b}) <= y
  BY <1>1 DEF Min
<1> QED  BY <1>2

LEMMA MaxOfTwo ==
    ASSUME NEW a \in Int, NEW b \in Int
    PROVE  Max({a, b}) = IF a >= b THEN a ELSE b
<1>1. \E x \in {a, b} : \A y \in {a, b} : x >= y
  OBVIOUS
<1>2. Max({a, b}) \in {a, b} /\ \A y \in {a, b} : Max({a, b}) >= y
  BY <1>1 DEF Max
<1> QED  BY <1>2

\* A set of natural numbers with an upper bound has a greatest element.
LEMMA MaxIsGreatest ==
    ASSUME NEW S, NEW m \in Nat, S \subseteq 0..m, S # {}
    PROVE  Max(S) \in S /\ \A y \in S : Max(S) >= y
<1> DEFINE Bounds == {b \in Nat : \A y \in S : y <= b}
<1>1. Bounds \subseteq Nat /\ m \in Bounds
  OBVIOUS
<1>2. PICK b \in Bounds : \A c \in Bounds : b <= c
  BY <1>1, Least
<1>3. b \in S
  <2>1. SUFFICES ASSUME b \notin S PROVE FALSE
    OBVIOUS
  <2>2. \A y \in S : y \in Nat /\ y < b
    BY <1>2, <2>1
  <2>3. b - 1 \in Nat
    <3>1. PICK y \in S : TRUE
      OBVIOUS
    <3> QED  BY <2>2, <3>1
  <2>4. b - 1 \in Bounds
    BY <2>2, <2>3
  <2> QED  BY <1>2, <2>3, <2>4
<1>4. \E x \in S : \A y \in S : x >= y
  BY <1>2, <1>3
<1> QED  BY <1>4 DEF Max

(***************************************************************************)
(* Products and quotients.                                                 *)
(***************************************************************************)

LEMMA TimesMonotone ==
    ASSUME NEW a \in Nat, NEW b \in Nat, NEW c \in Nat, a <= b
    PROVE  a * c <= b * c
<1>1. PICK d \in Nat : b = a + d
  <2>1. b - a \in Nat /\ b = a + (b - a)
    OBVIOUS
  <2> QED  BY <2>1
<1>2. b * c = a * c + d * c /\ a * c \in Nat /\ d * c \in Nat
  BY <1>1
<1> QED  BY <1>2

\* The quotient of n by d: the only q with q * d <= n < (q + 1) * d.
LEMMA Quotient ==
    ASSUME NEW n \in Nat, NEW d \in Nat \ {0}
    PROVE  /\ n \div d \in Nat
           /\ (n \div d) * d <= n
           /\ n < (n \div d + 1) * d
  OBVIOUS

LEMMA QuotientUnique ==
    ASSUME NEW n \in Nat, NEW d \in Nat \ {0}, NEW q \in Nat,
           q * d <= n, n < (q + 1) * d
    PROVE  n \div d = q
<1> DEFINE p == n \div d
<1>1. p \in Nat /\ p * d <= n /\ n < (p + 1) * d
  BY Quotient
<1> HIDE DEF p
<1>2. CASE p < q
  <2>1. (p + 1) * d <= q * d
    BY <1>1, <1>2, TimesMonotone
  <2>2. (p + 1) * d \in Nat /\ q * d \in Nat
    BY <1>1
  <2> QED  BY <1>1, <2>1, <2>2
<1>3. CASE q < p
  <2>1. (q + 1) * d <= p * d
    BY <1>1, <1>3, TimesMonotone
  <2>2. (q + 1) * d \in Nat /\ p * d \in Nat
    BY <1>1
  <2> QED  BY <1>1, <2>1, <2>2
<1>4. p = q
  BY <1>1, <1>2, <1>3
<1> QED  BY <1>4 DEF p

\* A block of d units is needed for n units if it begins before they end.
LEMMA RoundedUp ==
    ASSUME NEW n \in Nat, NEW d \in Nat \ {0}, NEW b \in Nat
    PROVE  /\ (n + d - 1) \div d \in Nat
           /\ b < (n + d - 1) \div d <=> b * d < n
<1> DEFINE q == (n + d - 1) \div d
<1>1. /\ n + d - 1 \in Nat /\ q \in Nat
      /\ q * d <= n + d - 1 /\ n + d - 1 < (q + 1) * d
  BY Quotient
<1> HIDE DEF q
<1>2. ASSUME b < q PROVE b * d < n
  <2>1. (b + 1) * d <= q * d
    BY <1>1, <1>2, TimesMonotone
  <2>2. (b + 1) * d = b * d + d /\ b * d \in Nat /\ q * d \in Nat
    BY <1>1
  <2> QED  BY <1>1, <2>1, <2>2
<1>3. ASSUME q <= b PROVE n <= b * d
  <2>1. q * d <= b * d
    BY <1>1, <1>3, TimesMonotone
  <2>2. (q + 1) * d = q * d + d /\ b * d \in Nat /\ q * d \in Nat
    BY <1>1
  <2> QED  BY <1>1, <2>1, <2>2
<1>4. q \in Nat /\ b * d \in Nat
  BY <1>1
<1>5. b < q <=> b * d < n
  BY <1>2, <1>3, <1>4
<1> QED  BY <1>4, <1>5 DEF q

(***************************************************************************)
(* Cardinalities.                                                          *)
(***************************************************************************)

\* As many pairs with a fixed first component as there are second ones.
LEMMA PairsWith ==
    ASSUME NEW S, IsFiniteSet(S), NEW x
    PROVE  /\ IsFiniteSet({x} \X S)
           /\ Cardinality({x} \X S) = Cardinality(S)
<1>1. IsFiniteSet({x}) /\ Cardinality({x}) = 1
  BY FS_Singleton
<1>2. Cardinality(S) \in Nat
  BY FS_CardinalityType
<1>3. IsFiniteSet({x} \X S) /\ Cardinality({x} \X S) = 1 * Cardinality(S)
  BY <1>1, FS_Product
<1> QED  BY <1>2, <1>3
=============================================================================
