----------------------------- MODULE NumberSets -----------------------------
(***************************************************************************)
(* Facts about the least and the greatest element of a set of natural      *)
(* numbers, which the jobs on partitions and tables take again and again.  *)
(***************************************************************************)
EXTENDS Naturals, FiniteSets, FiniteSetsExt, FiniteSetTheorems, WellFoundedInduction, TLAPS

\* A set of numbers that is not empty has a least element, and Min is it.
LEMMA Least ==
  ASSUME NEW S \in SUBSET Nat, S # {}
  PROVE  Min(S) \in S /\ \A y \in S : Min(S) <= y
<1> DEFINE Less == OpToRel(<, Nat)
<1>1. PICK x \in S : \A y \in S : ~(<<y, x>> \in Less)
  <2> HIDE DEF Less
  <2>1. IsWellFoundedOn(Less, Nat)
    BY NatLessThanWellFounded DEF Less
  <2> QED
    BY <2>1, WFMin
<1>2. \A y \in S : ~(y < x)
  BY <1>1 DEF OpToRel
<1>3. \A y \in S : x <= y
  BY <1>2
<1> QED
  BY <1>3 DEF Min

Bounded(S) == \E b \in Nat : \A x \in S : x <= b

\* A bounded set of natural numbers has a greatest element: the one with the least
\* distance from the bound.
LEMMA Greatest ==
  ASSUME NEW S \in SUBSET Nat, S # {}, Bounded(S)
  PROVE  Max(S) \in S /\ \A y \in S : y <= Max(S)
<1>1. PICK b \in Nat : \A x \in S : x <= b
  BY DEF Bounded
<1> DEFINE D == {d \in Nat : b - d \in S}
<1>2. \A x \in S : b - x \in D
  BY <1>1
<1>3. Min(D) \in D /\ \A d \in D : Min(D) <= d
  <2>1. D \in SUBSET Nat /\ D # {}
    BY <1>2
  <2> HIDE DEF D
  <2> QED
    BY <2>1, Least
<1>4. b - Min(D) \in S /\ Min(D) \in Nat
  BY <1>3
<1>5. \A y \in S : b - Min(D) >= y
  <2> SUFFICES ASSUME NEW y \in S PROVE b - Min(D) >= y
    OBVIOUS
  <2>1. Min(D) <= b - y
    BY <1>2, <1>3
  <2> QED
    BY <1>1, <1>4, <2>1
<1> QED
  BY <1>4, <1>5 DEF Max

\* A finite set of natural numbers is bounded: else there would be a least finite
\* set that is not, and without one of its elements it would be bounded still.
LEMMA FiniteIsBounded ==
  ASSUME NEW S \in SUBSET Nat, IsFiniteSet(S)
  PROVE  Bounded(S)
<1> DEFINE F == FiniteSubsetsOf(S)
           U == {T \in F : ~Bounded(T)}
           R == StrictSubsetOrdering(S)
<1>1. SUFFICES ASSUME ~Bounded(S) PROVE FALSE
  OBVIOUS
<1>2. S \in U
  BY <1>1 DEF FiniteSubsetsOf
<1>3. PICK T \in U : \A V \in U : ~(<<V, T>> \in R)
  <2>1. IsWellFoundedOn(R, F)
    BY FS_StrictSubsetOrderingWellFounded
  <2>2. U \subseteq F /\ U # {}
    BY <1>2
  <2> HIDE DEF R, F, U
  <2> QED
    BY <2>1, <2>2, WFMin
<1>4. T \subseteq S /\ IsFiniteSet(T) /\ ~Bounded(T)
  BY DEF FiniteSubsetsOf
<1>5. PICK x \in T : TRUE
  BY <1>4 DEF Bounded
<1>6. Bounded(T \ {x})
  <2>1. T \ {x} \in F
    BY <1>4, FS_RemoveElement DEF FiniteSubsetsOf
  <2>2. <<T \ {x}, T>> \in R
    BY <1>4, <1>5 DEF StrictSubsetOrdering
  <2> QED
    BY <1>3, <2>1, <2>2
<1>7. PICK b \in Nat : \A y \in T \ {x} : y <= b
  BY <1>6 DEF Bounded
<1>8. x \in Nat /\ T \subseteq Nat
  BY <1>4
<1>9. \A y \in T : y <= b + x
  BY <1>7, <1>8
<1>10. Bounded(T)
  <2>1. b + x \in Nat
    BY <1>7, <1>8
  <2> DEFINE c == b + x
  <2>2. \A y \in T : y <= c
    BY <1>9
  <2> HIDE DEF c
  <2> QED
    BY <2>1, <2>2 DEF Bounded, c
<1> QED
  BY <1>4, <1>10

\* A part of a bounded set is bounded.
LEMMA BoundedPart ==
  ASSUME NEW S, NEW T, Bounded(S), T \subseteq S
  PROVE  Bounded(T)
BY DEF Bounded

\* A bounded set stays so with one more number.
LEMMA BoundedMore ==
  ASSUME NEW S \in SUBSET Nat, Bounded(S), NEW x \in Nat
  PROVE  Bounded(S \cup {x})
<1>1. PICK b \in Nat : \A y \in S : y <= b
  BY DEF Bounded
<1>2. b + x \in Nat /\ \A y \in S \cup {x} : y <= b + x
  BY <1>1
<1> QED
  BY <1>2 DEF Bounded

\* The lesser of two numbers.
LEMMA MinOfTwo ==
  ASSUME NEW a \in Nat, NEW b \in Nat
  PROVE  Min({a, b}) = IF a <= b THEN a ELSE b
<1>1. {a, b} \in SUBSET Nat /\ {a, b} # {}
  OBVIOUS
<1>2. Min({a, b}) \in {a, b} /\ \A y \in {a, b} : Min({a, b}) <= y
  BY <1>1, Least
<1> QED
  BY <1>2
=============================================================================
