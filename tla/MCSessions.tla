----------------------------- MODULE MCSessions -----------------------------
\* Model-checking instance of Sessions.
EXTENDS Sessions, TLC

Symmetry == Permutations(Requests) \cup Permutations(Passwords)
=============================================================================
