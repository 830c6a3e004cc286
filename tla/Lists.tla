------------------------------- MODULE Lists --------------------------------
(***************************************************************************)
(* Sorting a set and filtering a sequence: ORDER BY of a query and filter  *)
(* of an array.  SetToSortSeq, SelectSeq and Remove of the library compute *)
(* the same, but the provers cannot look into SortSeq and SelectSeq; here  *)
(* an element's place is the number of those that come before it.          *)
(***************************************************************************)
EXTENDS Integers, Sequences, FiniteSets, SequencesExt

\* Those of S that come before i in the strict order R, a set of pairs.
Preceding(S, R, i) == {j \in S : <<j, i>> \in R}

SortBy(S, R) ==
  [n \in 1..Cardinality(S) |-> CHOOSE i \in S : Cardinality(Preceding(S, R, i)) = n - 1]

Smaller(S) == {p \in S \X S : p[1] < p[2]}
InOrder(S) == SortBy(S, Smaller(S))

\* The places at which s holds a member of K, and what is left of s.
Places(s, K) == {n \in DOMAIN s : s[n] \in K}
Only(s, K) == [n \in DOMAIN InOrder(Places(s, K)) |-> s[InOrder(Places(s, K))[n]]]
Without(s, e) == Only(s, ToSet(s) \ {e})

\* The first n of s, or all of it: LIMIT.
FirstN(s, n) == SubSeq(s, 1, IF Len(s) < n THEN Len(s) ELSE n)
=============================================================================
