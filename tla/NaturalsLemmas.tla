---------------------------- MODULE NaturalsLemmas ----------------------------
(***************************************************************************)
(* What the proofs need to know of sets of numbers: that the CHOOSEs of    *)
(* FiniteSetsExt's Min and Max exist, and, through the smallest element of *)
(* a set of counterexamples, induction.                                    *)
(***************************************************************************)
EXTENDS Integers, FiniteSetsExt, WellFoundedInduction, TLAPS

\* Every set of numbers that is not empty has a smallest element.
LEMMA SmallestOf ==
    ASSUME NEW S \in SUBSET Nat, S # {}
    PROVE  \E n \in S : \A m \in S : n <= m
<1> DEFINE R == OpToRel(<, Nat)
<1>1. IsWellFoundedOn(R, Nat)
    BY NatLessThanWellFounded
<1>2. \A m, n \in Nat : m < n => <<m, n>> \in R
    BY DEF OpToRel
<1> HIDE DEF R
<1>3. PICK n \in S : \A m \in S : ~(<<m, n>> \in R)
    BY <1>1, WFMin
<1>4. \A m \in S : ~(m < n)
    BY <1>2, <1>3
<1>5. n \in Nat /\ \A m \in S : m \in Nat
    OBVIOUS
<1>6. \A m \in S : n <= m
    BY <1>4, <1>5
<1> QED BY <1>6

\* Every bounded one has a largest.
LEMMA LargestOf ==
    ASSUME NEW S \in SUBSET Nat, S # {}, NEW b \in Nat, \A m \in S : m <= b
    PROVE  \E n \in S : \A m \in S : m <= n
<1> DEFINE T == {n \in Nat : \A m \in S : m <= n}
<1>1. T \in SUBSET Nat /\ b \in T
    OBVIOUS
<1>2. PICK n \in T : \A m \in T : n <= m
    BY <1>1, SmallestOf, T # {}
<1>3. n \in Nat /\ \A m \in S : m \in Nat /\ m <= n
    BY <1>1
<1>4. CASE n \in S
    BY <1>3, <1>4
<1>5. CASE n \notin S
    <2>1. \A m \in S : m <= n - 1 /\ m # n
        BY <1>3, <1>5
    <2>2. PICK m \in S : TRUE
        OBVIOUS
    <2>3. n - 1 \in Nat
        BY <1>3, <2>1, <2>2
    <2>4. n - 1 \in T
        BY <2>1, <2>3
    <2> HIDE DEF T
    <2> QED BY <1>2, <2>4, <1>3
<1> QED BY <1>4, <1>5

\* Min(S) is the smallest element of S, and nothing else is.
LEMMA MinFacts ==
    ASSUME NEW S \in SUBSET Nat, S # {}
    PROVE  /\ Min(S) \in S /\ \A m \in S : Min(S) <= m
           /\ \A n \in S : (\A m \in S : n <= m) => Min(S) = n
<1>1. \E n \in S : \A m \in S : n <= m
    BY SmallestOf
<1>2. Min(S) \in S /\ \A m \in S : Min(S) <= m
    BY <1>1 DEF Min
<1>3. ASSUME NEW n \in S, \A m \in S : n <= m
      PROVE  Min(S) = n
    <2>1. Min(S) <= n /\ n <= Min(S) /\ Min(S) \in Nat /\ n \in Nat
        BY <1>2, <1>3
    <2> QED BY <2>1
<1> QED BY <1>2, <1>3

\* Max(S) is the largest element of a bounded S, and nothing else is.
LEMMA MaxFacts ==
    ASSUME NEW S \in SUBSET Nat, S # {}, NEW b \in Nat, \A m \in S : m <= b
    PROVE  /\ Max(S) \in S /\ \A m \in S : m <= Max(S)
           /\ \A n \in S : (\A m \in S : m <= n) => Max(S) = n
<1>1. PICK x \in S : \A m \in S : m <= x
    BY LargestOf
<1>2. \E n \in S : \A m \in S : n >= m
    BY <1>1
<1>3. Max(S) \in S /\ \A m \in S : Max(S) >= m
    BY <1>2 DEF Max
<1>4. ASSUME NEW n \in S, \A m \in S : m <= n
      PROVE  Max(S) = n
    <2>1. Max(S) >= n /\ Max(S) <= n /\ Max(S) \in Nat /\ n \in Nat
        BY <1>3, <1>4
    <2> QED BY <2>1
<1>5. \A m \in S : m <= Max(S)
    BY <1>3
<1> QED BY <1>3, <1>4, <1>5

===============================================================================
