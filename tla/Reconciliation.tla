--------------------------- MODULE Reconciliation ---------------------------
(***************************************************************************)
(* The nightly recount of a counter column by ReconciliationService, next  *)
(* to the requests that move the counter and to the deletion of accounts,  *)
(* which takes rows away and leaves the counters of others as they are.    *)
(*                                                                         *)
(* The requests are those of Tally, which the modules of the requests      *)
(* implement.  A recount is two statements: one sets the counter to the    *)
(* number of rows where there are any, one sets it to 0 where there are    *)
(* none.  Each sees the rows of when it begins and writes when it has the  *)
(* row lock of the counter: what it has counted may be stale by then.      *)
(***************************************************************************)
EXTENDS Tally

CONSTANTS
  ReconcileInstances,  \* backend processes
  MaxDrift             \* bound on how far the counter is ahead of the rows

ASSUME ReconciliationAssumption == IsFiniteSet(Items) /\ MaxDrift \in Nat

VARIABLES
  settled,        \* no request and no deletion from now on
  reconcileLock,  \* the lock of the job is taken
  recount         \* what each instance does, and what its statement has counted

reconciliationVars == <<tallyVars, settled, reconcileLock, recount>>

\* `found` are the counters the statement is to write, and `count` their new values.
Asleep == [at |-> "asleep", found |-> {}, count |-> [o \in Owners |-> 0]]

ReconciliationInit ==
  /\ TallyInit
  /\ settled = FALSE
  /\ reconcileLock = FALSE
  /\ recount = [i \in ReconcileInstances |-> Asleep]

-----------------------------------------------------------------------------
Request ==
  /\ ~settled
  /\ TallyNext
  /\ \A o \in Owners : counter'[o] <= Cardinality(Items) + MaxDrift
  /\ UNCHANGED <<settled, reconcileLock, recount>>

\* deleteAccount: the rows of one user go by cascade.
DeleteAccount ==
  /\ ~settled
  /\ \E item \in Items : counted' = {row \in counted : row[1] # item}
  /\ UNCHANGED <<counter, settled, reconcileLock, recount>>

Settle ==
  /\ ~settled
  /\ settled' = TRUE
  /\ UNCHANGED <<tallyVars, reconcileLock, recount>>

-----------------------------------------------------------------------------
\* The lock is taken, or Redis does not answer: then every instance goes on.
StartReconcile(i) ==
  /\ recount[i].at = "asleep"
  /\ \/ ~reconcileLock /\ reconcileLock' = TRUE
     \/ UNCHANGED reconcileLock
  /\ recount' = [recount EXCEPT ![i].at = "count"]
  /\ UNCHANGED <<tallyVars, settled>>

\* The first statement finds the counters that differ from their rows, if any.
CountRows(i) ==
  /\ recount[i].at = "count"
  /\ recount' = [recount EXCEPT ![i] =
       [at |-> "write", found |-> {o \in Owners : RowsOf(o) > 0 /\ counter[o] # RowsOf(o)},
        count |-> [o \in Owners |-> RowsOf(o)]]]
  /\ UNCHANGED <<tallyVars, settled, reconcileLock>>

WriteFound(i) ==
  counter' = [o \in Owners |-> IF o \in recount[i].found THEN recount[i].count[o] ELSE counter[o]]

\* It looks at the counters again under the lock, but does not count again.
WriteCounts(i) ==
  /\ recount[i].at = "write"
  /\ WriteFound(i)
  /\ recount' = [recount EXCEPT ![i] = [Asleep EXCEPT !.at = "none"]]
  /\ UNCHANGED <<counted, settled, reconcileLock>>

\* Mutant: the recount ends with the first statement.
CountNoneSkipped(i) ==
  /\ recount[i].at = "none"
  /\ recount' = [recount EXCEPT ![i] = Asleep]
  /\ UNCHANGED <<tallyVars, settled, reconcileLock>>

\* The second statement finds counters that are not 0 and have no rows.
CountNone(i) ==
  /\ recount[i].at = "none"
  /\ recount' = [recount EXCEPT ![i] =
       [Asleep EXCEPT !.at = "zero", !.found = {o \in Owners : RowsOf(o) = 0 /\ counter[o] # 0}]]
  /\ UNCHANGED <<tallyVars, settled, reconcileLock>>

WriteZeros(i) ==
  /\ recount[i].at = "zero"
  /\ WriteFound(i)
  /\ recount' = [recount EXCEPT ![i] = Asleep]
  /\ UNCHANGED <<counted, settled, reconcileLock>>

\* An error ends the run of the night, as the death of the process does.
FailReconcile(i) ==
  /\ recount[i] # Asleep
  /\ recount' = [recount EXCEPT ![i] = Asleep]
  /\ UNCHANGED <<tallyVars, settled, reconcileLock>>

\* Nobody releases the lock.
ReconcileLockExpires ==
  /\ reconcileLock
  /\ reconcileLock' = FALSE
  /\ UNCHANGED <<tallyVars, settled, recount>>

Recount(i) == CountRows(i) \/ WriteCounts(i) \/ CountNone(i) \/ WriteZeros(i)

ReconciliationNext ==
  \/ Request \/ DeleteAccount \/ Settle \/ ReconcileLockExpires
  \/ \E i \in ReconcileInstances : StartReconcile(i) \/ Recount(i) \/ FailReconcile(i)

ReconciliationSpec == ReconciliationInit /\ [][ReconciliationNext]_reconciliationVars

-----------------------------------------------------------------------------
ReconciliationTypeOK ==
  /\ counted \subseteq Items \X Owners
  /\ counter \in [Owners -> -Cardinality(Items) .. Cardinality(Items) + MaxDrift]
  /\ settled \in BOOLEAN
  /\ reconcileLock \in BOOLEAN
  /\ recount \in [ReconcileInstances -> [at : {"asleep", "count", "write", "none", "zero"},
                     found : SUBSET Owners, count : [Owners -> 0..Cardinality(Items)]]]

\* When requests and deletions stop, the counters are right in the end and stay
\* so, however far a deletion, or a recount that a request overtook, had put them
\* off, and whichever instances recount at once.
CountersHeal == <>settled => <>[]CounterMatches

\* No request or deletion is to come, and what a statement is to write is true.
NothingStale ==
  /\ settled
  /\ \A i \in ReconcileInstances : \A o \in recount[i].found : recount[i].count[o] = RowsOf(o)

CounterRight(o) == counter[o] = RowsOf(o)

\* From then on no recount, and no two of them at once, put a counter off that is right.
OnlyHeals ==
  [][NothingStale =>
       /\ NothingStale'
       /\ \A o \in Owners : CounterRight(o) => CounterRight(o)']_reconciliationVars

\* What an instance has put right so far, and what the statement it runs will.
OnCourse(i) ==
  \/ recount[i].at = "count"
  \/ recount[i].at = "write" /\ \A o \in Owners : RowsOf(o) > 0 => CounterRight(o) \/ o \in recount[i].found
  \/ recount[i].at = "none" /\ \A o \in Owners : RowsOf(o) > 0 => CounterRight(o)
  \/ recount[i].at = "zero" /\ \A o \in Owners : CounterRight(o) \/ o \in recount[i].found

\* A run that begins to count then stays on course, whatever other instances do, until
\* it fails or leaves every counter right.
RunsHeal ==
  [][\A i \in ReconcileInstances :
       NothingStale /\ OnCourse(i) => OnCourse(i)' \/ CounterMatches' \/ FailReconcile(i)]_reconciliationVars
=============================================================================
