----------------------------- MODULE MCComments -----------------------------
\* Model-checking instance of Comments: every post by the same author.
EXTENDS Comments, TLC

CONSTANTS author

MCAuthor == [p \in Posts |-> author]
\* At most one obstacle to interaction at a time, and none once two comments
\* are there: they matter to the requests that add one.
FewObstacles ==
  Cardinality(removedPosts) + Cardinality(banned) + Cardinality(blocks)
    <= (IF Len(comments) < 2 THEN 1 ELSE 0)

Symmetry == Permutations(Requests) \cup Permutations(Posts)
=============================================================================
