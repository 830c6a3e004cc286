----------------------------- MODULE MCFollows -----------------------------
\* Model-checking instance of Follows.
EXTENDS Follows, TLC

Symmetry == Permutations(Users) \cup Permutations(Requests)
=============================================================================
