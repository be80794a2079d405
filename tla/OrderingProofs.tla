---------------------------- MODULE OrderingProofs ----------------------------
(* What an enumeration of a finite set of numbers gives.                     *)
EXTENDS Ordering, FiniteSetTheorems, TLAPS

\* An enumeration is a bijection between 1..n and the set.
LEMMA EnumerationFacts ==
  ASSUME NEW S \in SUBSET Nat, IsFiniteSet(S), NEW f \in Enumerations(S)
  PROVE  /\ Cardinality(S) \in Nat
         /\ f \in [1..Cardinality(S) -> S]
         /\ \A i, j \in 1..Cardinality(S) : f[i] = f[j] => i = j
         /\ \A s \in S : \E i \in 1..Cardinality(S) : f[i] = s
<1>1. Cardinality(S) \in Nat BY FS_CardinalityType
<1>2. /\ f \in [1..Cardinality(S) -> S]
      /\ \A i, j \in 1..Cardinality(S) : i < j => f[i] < f[j]
      /\ S = {f[i] : i \in 1..Cardinality(S)}
  BY DEF Enumerations
<1>3. ASSUME NEW i \in 1..Cardinality(S), NEW j \in 1..Cardinality(S), f[i] = f[j]
      PROVE  i = j
  <2>1. f[i] \in Nat /\ f[j] \in Nat BY <1>2
  <2>2. ~(f[i] < f[j]) /\ ~(f[j] < f[i]) BY <1>3, <2>1
  <2>3. ~(i < j) /\ ~(j < i) BY <1>2, <2>2
  <2> QED BY <1>1, <2>3
<1> QED BY <1>1, <1>2, <1>3

\* The numbers 1..n, and how many a subset of them has.
LEMMA IntervalFacts ==
  ASSUME NEW n \in Nat, NEW S \in SUBSET (1..n)
  PROVE  IsFiniteSet(S) /\ Cardinality(S) \in 0..n
<1>1. IsFiniteSet(1..n) /\ Cardinality(1..n) = n
  <2>1. 1 \in Int /\ n \in Int OBVIOUS
  <2> QED BY <2>1, FS_Interval
<1>2. IsFiniteSet(S) /\ Cardinality(S) <= n BY <1>1, FS_Subset
<1> QED BY <1>2, FS_CardinalityType
=============================================================================
