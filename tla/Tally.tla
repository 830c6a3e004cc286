------------------------------- MODULE Tally --------------------------------
(***************************************************************************)
(* What a counter column of the database promises: it starts with no rows  *)
(* at zero, and one row comes or goes at a time, the counter with it.      *)
(* likeCount and commentCount of a post are such counters; Engagement and  *)
(* Comments implement this module, and Reconciliation starts from it.      *)
(***************************************************************************)
EXTENDS Integers, FiniteSets

CONSTANTS
  Items,  \* what is counted: reacting users, comments
  Owners  \* whose counter it is: posts

VARIABLES
  counted,  \* the rows there are: <<item, owner>>
  counter   \* owner -> its counter column

tallyVars == <<counted, counter>>

TallyInit ==
  /\ counted = {}
  /\ counter = [o \in Owners |-> 0]

Put(row) ==
  /\ row \notin counted
  /\ counted' = counted \cup {row}
  /\ counter' = [counter EXCEPT ![row[2]] = @ + 1]

Take(row) ==
  /\ row \in counted
  /\ counted' = counted \ {row}
  /\ counter' = [counter EXCEPT ![row[2]] = @ - 1]

TallyNext == \E row \in Items \X Owners : Put(row) \/ Take(row)

TallySpec == TallyInit /\ [][TallyNext]_tallyVars

-----------------------------------------------------------------------------
RowsCounted(o) == {row \in counted : row[2] = o}
RowsOf(o) == Cardinality(RowsCounted(o))

\* Every counter is the number of its rows, as like_count and comment_count of a post
\* are meant to be (schema.prisma:130-131).  TallyProofs proves it of TallySpec, so
\* that what implements this module has it too.
CounterMatches == \A o \in Owners : counter[o] = RowsOf(o)
=============================================================================
