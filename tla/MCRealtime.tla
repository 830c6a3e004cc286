----------------------------- MODULE MCRealtime -----------------------------
\* Model-checking instance of Inbox.
EXTENDS Inbox, TLC

Symmetry == Permutations(Tabs) \cup Permutations(Conns) \cup Permutations(Instances)
=============================================================================
