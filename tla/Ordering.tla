------------------------------- MODULE Ordering -------------------------------
(***************************************************************************)
(* Going through a finite set of numbers in order, as Python does with a     *)
(* comprehension over a list: stated by what the result is, not by how it   *)
(* is computed, so that proofs can use it.                                  *)
(***************************************************************************)
EXTENDS Naturals, FiniteSets

\* The one increasing enumeration of S, as a set of one function.
Enumerations(S) ==
  {f \in [1..Cardinality(S) -> S] :
     /\ \A i, j \in 1..Cardinality(S) : i < j => f[i] < f[j]
     /\ S = {f[i] : i \in 1..Cardinality(S)}}
=============================================================================
