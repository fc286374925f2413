------------------------------- MODULE Extremes -------------------------------
(***************************************************************************)
(* What Min and Max of the community modules return.                       *)
(***************************************************************************)
EXTENDS Integers, FiniteSetsExt, WellFoundedInduction, TLAPS

(* A non-empty set of naturals has a least element, and Min finds it.      *)
LEMMA MinIsIn ==
    ASSUME NEW S \in SUBSET Nat, S # {}
    PROVE  Min(S) \in S /\ \A y \in S : Min(S) <= y
<1> DEFINE R == OpToRel(<, Nat)
<1>1. \E x \in S : \A y \in S : <<y, x>> \notin R
  BY NatLessThanWellFounded, WFMin
<1>2. \A x, y \in S : <<y, x>> \notin R => x <= y
  BY DEF OpToRel
<1>3. \E x \in S : \A y \in S : x <= y
  BY <1>1, <1>2
<1>4. QED
  BY <1>3 DEF Min

(* The lesser of two integers.                                             *)
LEMMA MinOfTwo ==
    ASSUME NEW m \in Int, NEW n \in Int
    PROVE  /\ Min({m, n}) \in {m, n}
           /\ Min({m, n}) <= m
           /\ Min({m, n}) <= n
<1>1. \E x \in {m, n} : \A y \in {m, n} : x <= y
  OBVIOUS
<1>2. QED
  BY <1>1 DEF Min

(* The greatest element of a set of integers is the one Max finds.         *)
LEMMA MaxIs ==
    ASSUME NEW S \in SUBSET Int, NEW m \in S, \A y \in S : m >= y
    PROVE  Max(S) = m
<1>1. \A x \in S : (\A y \in S : x >= y) => x = m
  OBVIOUS
<1>2. QED
  BY <1>1 DEF Max

(* The greater of two numbers.                                             *)
LEMMA MaxOfTwo ==
    ASSUME NEW m \in Nat, NEW n \in Nat
    PROVE  Max({m, n}) = IF m <= n THEN n ELSE m
<1> DEFINE S == {m, n}
           g == IF m <= n THEN n ELSE m
<1>1. S \in SUBSET Int /\ g \in S /\ \A y \in S : g >= y
  OBVIOUS
<1> HIDE DEF S, g
<1>2. Max(S) = g
  BY <1>1, MaxIs
<1>3. QED
  BY <1>2 DEF S, g

(* A non-empty set of naturals with a bound has a greatest element.        *)
LEMMA GreatestExists ==
    ASSUME NEW n \in Nat, NEW S \in SUBSET (0..n), S # {}
    PROVE  \E m \in S : \A y \in S : m >= y
<1> DEFINE T == {n - x : x \in S}
<1>1. T \in SUBSET Nat /\ T # {}
  <2>1. \A x \in S : n - x \in Nat
    OBVIOUS
  <2>2. QED
    BY <2>1
<1>2. PICK k \in T : \A z \in T : k <= z
  BY <1>1, MinIsIn
<1>3. PICK m \in S : k = n - m
  BY <1>2
<1>4. \A y \in S : n - m <= n - y
  BY <1>2, <1>3
<1>5. QED
  BY <1>4

===============================================================================
