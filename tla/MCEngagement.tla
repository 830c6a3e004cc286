---------------------------- MODULE MCEngagement ----------------------------
\* Model-checking instance of Engagement: one post and its author.
EXTENDS Engagement, TLC

CONSTANTS author, reader, post

MCAuthor == [p \in Posts |-> author]
Symmetry == Permutations(Requests) \cup Permutations(Types)
=============================================================================
