----------------------------- MODULE Induction -----------------------------
(***************************************************************************)
(* Induction over the naturals, stated with sets rather than with an       *)
(* operator: the facts about sums, counters and logs in the proofs of the  *)
(* components rest on these lemmas.                                        *)
(***************************************************************************)
EXTENDS Integers, WellFoundedInduction, TLAPS

\* A set of naturals that is not empty has a least member.
LEMMA LeastOf ==
    ASSUME NEW S \in SUBSET Nat, S # {}
    PROVE  \E n \in S : \A m \in S : n <= m
<1>1. PICK n \in S : \A m \in S : ~(<<m, n>> \in OpToRel(<, Nat))
  BY NatLessThanWellFounded, WFMin
<1>2. \A m \in S : ~(m < n)
  BY <1>1 DEF OpToRel
<1> QED BY <1>2

\* A set with 0 and the successor of each of its members has every natural.
LEMMA InductionOverNat ==
    ASSUME NEW S \in SUBSET Nat, 0 \in S, \A n \in S : n + 1 \in S
    PROVE  S = Nat
<1>1. SUFFICES ASSUME Nat \ S # {} PROVE FALSE
  OBVIOUS
<1>2. PICK n \in Nat \ S : \A m \in Nat \ S : n <= m
  BY <1>1, LeastOf
<1>3. n - 1 \in S
  BY <1>2
<1> QED BY <1>2, <1>3

\* The same for the numbers up to a bound.
LEMMA InductionUpTo ==
    ASSUME NEW N \in Nat, NEW S \in SUBSET (0 .. N), 0 \in S,
           \A n \in S : n < N => n + 1 \in S
    PROVE  S = 0 .. N
<1> DEFINE T == {n \in Nat : n <= N => n \in S}
<1>1. 0 \in T
  OBVIOUS
<1>2. ASSUME NEW n \in T PROVE n + 1 \in T
  OBVIOUS
<1>3. T = Nat
  BY <1>1, <1>2, InductionOverNat
<1>4. \A n \in T : n <= N => n \in S
  OBVIOUS
<1> HIDE DEF T
<1>5. ASSUME NEW n \in 0 .. N PROVE n \in S
  BY <1>3, <1>4
<1> QED BY <1>5

\* A set of naturals with a bound has a greatest member if it has any.
LEMMA GreatestOf ==
    ASSUME NEW S \in SUBSET Nat, S # {}, NEW N \in Nat, \A m \in S : m <= N
    PROVE  \E n \in S : \A m \in S : m <= n
<1> DEFINE Bounds == {k \in Nat : \A m \in S : m <= k}
<1>1. PICK k \in Bounds : \A j \in Bounds : k <= j
  <2>1. N \in Bounds /\ Bounds \in SUBSET Nat
    OBVIOUS
  <2> HIDE DEF Bounds
  <2> QED BY <2>1, LeastOf
<1>2. k \in Nat /\ \A m \in S : m <= k
  OBVIOUS
<1>3. k \in S
  <2>1. SUFFICES ASSUME k \notin S PROVE FALSE
    OBVIOUS
  <2>2. k # 0
    <3>1. PICK m \in S : TRUE
      OBVIOUS
    <3>2. m \in Nat /\ m <= k /\ m # k
      BY <1>2, <2>1
    <3> QED BY <3>2
  <2>3. k - 1 \in Bounds
    BY <1>2, <2>1, <2>2
  <2>4. k <= k - 1
    BY <1>1, <2>3
  <2> QED BY <1>2, <2>4
<1> QED BY <1>2, <1>3
=============================================================================
