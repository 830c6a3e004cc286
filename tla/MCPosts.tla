------------------------------ MODULE MCPosts ------------------------------
\* Model-checking instance of SearchIndex, Pages and CommentThread.  They share no
\* state, so each behaviour moves one of them (`part`) and the others stay as they began.
EXTENDS SearchIndex, Pages, CommentThread, TLC

CONSTANTS author, post

MCAuthor == [p \in Posts |-> author]
\* A comment and a reply to it.
MCParentOf == 1 :> 0 @@ 2 :> 1
Symmetry == Permutations(Requests) \cup Permutations(Slots)

VARIABLE part

vars == <<part, accessVars, searchVars, pagesVars, threadVars>>

Init ==
  /\ SearchInit
  /\ PagesInit
  /\ ThreadInit
  /\ part \in {"search", "pages", "thread"}
  \* What the other parts choose at the start does not matter.
  /\ part # "pages" => listing = QueryFeed
  /\ part # "thread" => made = {}

Next ==
  \/ part = "search" /\ SearchNext /\ UNCHANGED <<part, pagesVars, threadVars>>
  \/ part = "pages" /\ PagesNext /\ UNCHANGED <<part, accessVars, searchVars, threadVars>>
  \/ part = "thread" /\ ThreadNext /\ UNCHANGED <<part, accessVars, searchVars, pagesVars>>

Spec == Init /\ [][Next]_vars

\* The three components keep to their types.
TypeOK == SearchTypeOK /\ PagesTypeOK /\ ThreadTypeOK
=============================================================================
