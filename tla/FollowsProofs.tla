--------------------------- MODULE FollowsProofs ---------------------------
(***************************************************************************)
(* Type correctness of Follows and the agreement of the denormalised       *)
(* counters with the follows table, for every set of users and requests.   *)
(*                                                                         *)
(* CountersMatch is not inductive: a commit that adds or removes a follow  *)
(* row is right only if the row is still as the transaction's earlier      *)
(* statement found it.  PendingRowsLocked says that it is, because the row *)
(* is locked, and LocksExclusive that nobody else has that lock.           *)
(***************************************************************************)
EXTENDS Follows, FiniteSetTheorems, TLAPS

PCs == Answers \cup FollowPC \cup UnfollowPC \cup BlockPC

\* A row is locked by at most one transaction.
LocksExclusive ==
  \A r, s \in Requests : r # s => locks[r] \cap locks[s] = {}

\* What r is about to insert is absent, what it is about to delete is present.
PendingRowsLocked ==
  \A r \in Requests :
    /\ pc[r] \in {"f_target", "f_self"} =>
         EdgeRow(edge[r]) \in locks[r] /\ edge[r] \notin follows
    /\ pc[r] \in {"u_target", "u_self"} =>
         EdgeRow(edge[r]) \in locks[r] /\ edge[r] \in follows
    /\ \A e \in removed[r] : EdgeRow(e) \in locks[r] /\ e \in follows

IInv == TypeOK /\ LocksExclusive /\ PendingRowsLocked /\ CountersMatch

-----------------------------------------------------------------------------
(* Counting rows. *)

\* A set of follow rows of finitely many users is finite, and so are the rows
\* at one user.
LEMMA IncidentFinite ==
  ASSUME NEW S \in SUBSET Edge, NEW i, NEW u
  PROVE  /\ IsFiniteSet(S)
         /\ IsFiniteSet(Incident(S, i, u))
         /\ Cardinality(Incident(S, i, u)) \in Nat
<1>1. IsFiniteSet(Edge)
  BY UsersAssumption, FS_Product DEF Edge
<1>2. IsFiniteSet(S)
  BY <1>1, FS_Subset
<1>3. Incident(S, i, u) \in SUBSET S
  BY DEF Incident
<1>4. IsFiniteSet(Incident(S, i, u))
  BY <1>2, <1>3, FS_Subset
<1> QED
  BY <1>2, <1>4, FS_CardinalityType

\* Inserting a row that is not there adds one at its ends and nowhere else.
LEMMA IncidentInsert ==
  ASSUME NEW S \in SUBSET Edge, NEW e \in Edge, e \notin S, NEW i, NEW u
  PROVE  Cardinality(Incident(S \cup {e}, i, u)) =
           Cardinality(Incident(S, i, u)) + (IF e[i] = u THEN 1 ELSE 0)
<1>1. IsFiniteSet(Incident(S, i, u)) /\ Cardinality(Incident(S, i, u)) \in Nat
  BY IncidentFinite
<1>2. CASE e[i] = u
  <2>1. Incident(S \cup {e}, i, u) = Incident(S, i, u) \cup {e}
    BY <1>2 DEF Incident
  <2>2. e \notin Incident(S, i, u)
    BY DEF Incident
  <2> QED
    BY <1>1, <1>2, <2>1, <2>2, FS_AddElement
<1>3. CASE e[i] # u
  <2>1. Incident(S \cup {e}, i, u) = Incident(S, i, u)
    BY <1>3 DEF Incident
  <2> QED
    BY <1>1, <1>3, <2>1
<1> QED
  BY <1>2, <1>3

\* Deleting rows that are there takes exactly them away.
LEMMA IncidentDelete ==
  ASSUME NEW S \in SUBSET Edge, NEW D \in SUBSET S, NEW i, NEW u
  PROVE  Cardinality(Incident(S \ D, i, u)) =
           Cardinality(Incident(S, i, u)) - Cardinality(Incident(D, i, u))
<1>1. D \in SUBSET Edge
  OBVIOUS
<1>2. /\ IsFiniteSet(Incident(S, i, u))
      /\ Cardinality(Incident(S, i, u)) \in Nat
  BY IncidentFinite
<1>3. /\ IsFiniteSet(Incident(D, i, u))
      /\ Cardinality(Incident(D, i, u)) \in Nat
  BY <1>1, IncidentFinite
<1>4. Incident(S \ D, i, u) = Incident(S, i, u) \ Incident(D, i, u)
  BY DEF Incident
<1>5. Incident(S, i, u) \cap Incident(D, i, u) = Incident(D, i, u)
  BY DEF Incident
<1>6. Cardinality(Incident(S, i, u) \ Incident(D, i, u)) =
        Cardinality(Incident(S, i, u))
          - Cardinality(Incident(S, i, u) \cap Incident(D, i, u))
  BY <1>2, FS_Difference
<1> QED
  BY <1>4, <1>5, <1>6

-----------------------------------------------------------------------------
(* Steps, by what they do to the transaction of the request. *)

\* The part of TypeOK about requests.
RequestsOK ==
  /\ pc \in [Requests -> PCs]
  /\ edge \in [Requests -> Edge]
  /\ locks \in [Requests -> SUBSET Rows]
  /\ removed \in [Requests -> SUBSET Edge]
  /\ leg \in [Requests -> 1..2]

\* Where a transaction holds a row it has not written yet.
Inserting == {"f_target", "f_self"}
Deleting == {"u_target", "u_self"}

LEMMA EdgeParts ==
  ASSUME NEW e \in Edge
  PROVE  /\ e[1] \in Users /\ e[2] \in Users
         /\ Flip(e) \in Edge
         /\ EdgeRow(e) \in Rows /\ BlockRow(e) \in Rows
         /\ UserRow(e[1]) \in Rows /\ UserRow(e[2]) \in Rows
  BY DEF Edge, Flip, Rows, EdgeRow, BlockRow, UserRow

\* Only the pc, the leg and the locks move: the locks taken were free.
LEMMA MoveStep ==
  ASSUME IInv, NEW r \in Requests, NEW next \in PCs, NEW row \in Rows,
         pc' = [pc EXCEPT ![r] = next],
         next \in Inserting => EdgeRow(edge[r]) \in locks'[r] /\ edge[r] \notin follows,
         next \in Deleting => EdgeRow(edge[r]) \in locks'[r] /\ edge[r] \in follows,
         locks' = locks \/ (Free(r, row) /\ Lock(r, row)),
         leg' \in [Requests -> 1..2],
         UNCHANGED <<follows, followersCount, followingCount, edge, removed>>
  PROVE  RequestsOK' /\ LocksExclusive' /\ PendingRowsLocked' /\ CountersMatch'
<1> USE DEF IInv, TypeOK, PCs
<1>1. /\ locks' \in [Requests -> SUBSET Rows]
      /\ \A s \in Requests : locks[s] \subseteq locks'[s]
  BY DEF Free, Lock
<1>2. LocksExclusive'
  BY DEF LocksExclusive, Free, Lock
<1>3. PendingRowsLocked'
  BY <1>1 DEF PendingRowsLocked, Inserting, Deleting
<1>4. CountersMatch'
  BY DEF CountersMatch
<1> QED
  BY <1>1, <1>2, <1>3, <1>4 DEF RequestsOK

\* The transaction ends: it may have changed only follow rows it had locked.
LEMMA EndTxStep ==
  ASSUME IInv, NEW r \in Requests, NEW next \in PCs \ (Inserting \cup Deleting),
         EndTx(r, next), follows' \in SUBSET Edge,
         \A e \in Edge : EdgeRow(e) \notin locks[r] => (e \in follows <=> e \in follows')
  PROVE  RequestsOK' /\ LocksExclusive' /\ PendingRowsLocked'
<1> USE DEF IInv, TypeOK, PCs, EndTx
<1>1. RequestsOK'
  BY DEF RequestsOK
<1>2. LocksExclusive'
  BY DEF LocksExclusive
<1>3. PendingRowsLocked'
  <2> SUFFICES ASSUME NEW s \in Requests
               PROVE  /\ pc'[s] \in Inserting =>
                           EdgeRow(edge'[s]) \in locks'[s] /\ edge'[s] \notin follows'
                      /\ pc'[s] \in Deleting =>
                           EdgeRow(edge'[s]) \in locks'[s] /\ edge'[s] \in follows'
                      /\ \A e \in removed'[s] : EdgeRow(e) \in locks'[s] /\ e \in follows'
    BY DEF PendingRowsLocked, Inserting, Deleting
  <2>1. CASE s = r
    BY <2>1
  <2>2. CASE s # r
    <3>1. /\ pc'[s] = pc[s] /\ locks'[s] = locks[s]
          /\ edge'[s] = edge[s] /\ removed'[s] = removed[s]
      BY <2>2
    <3>2. \A e \in Edge : EdgeRow(e) \in locks[s] => (e \in follows <=> e \in follows')
      BY <2>2 DEF LocksExclusive
    <3> QED
      BY <3>1, <3>2 DEF PendingRowsLocked, Inserting, Deleting
  <2> QED
    BY <2>1, <2>2
<1> QED
  BY <1>1, <1>2, <1>3

\* An error: nothing of the transaction stays.
LEMMA RollbackStep ==
  ASSUME IInv, NEW r \in Requests, NEW answer \in Answers, Rollback(r, answer)
  PROVE  IInv'
<1>1. answer \in PCs \ (Inserting \cup Deleting)
  BY DEF PCs, Answers, Inserting, Deleting
<1>2. UNCHANGED tables /\ EndTx(r, answer)
  BY DEF Rollback
<1>3. RequestsOK' /\ LocksExclusive' /\ PendingRowsLocked'
  BY <1>1, <1>2, EndTxStep DEF IInv, TypeOK, tables
<1>4. CountersMatch'
  BY <1>2 DEF IInv, CountersMatch, tables
<1> QED
  BY <1>2, <1>3, <1>4 DEF IInv, TypeOK, RequestsOK, PCs, tables

\* A statement that locks a row and goes on.
LEMMA TakeRowStep ==
  ASSUME IInv, NEW r \in Requests, NEW row \in Rows, NEW next \in PCs,
         TakeRow(r, row, next),
         next \in Inserting => EdgeRow(edge[r]) \in locks[r] \cup {row} /\ edge[r] \notin follows,
         next \in Deleting => EdgeRow(edge[r]) \in locks[r] \cup {row} /\ edge[r] \in follows
  PROVE  IInv'
<1>1. locks'[r] = locks[r] \cup {row}
  BY DEF IInv, TypeOK, TakeRow, Lock
<1>2. RequestsOK' /\ LocksExclusive' /\ PendingRowsLocked' /\ CountersMatch'
  <2>1. leg' \in [Requests -> 1..2]
    BY DEF IInv, TypeOK, TakeRow
  <2> QED
    BY <1>1, <2>1, MoveStep DEF TakeRow, tables
<1> QED
  BY <1>2 DEF IInv, TypeOK, RequestsOK, PCs, TakeRow, tables

\* A step that moves the pc, and perhaps the leg, of a request.
LEMMA PcStep ==
  ASSUME IInv, NEW r \in Requests, NEW next \in PCs \ (Inserting \cup Deleting),
         pc' = [pc EXCEPT ![r] = next], leg' \in [Requests -> 1..2],
         notified' \in SUBSET Edge,
         UNCHANGED <<follows, blocks, followersCount, followingCount, edge, locks, removed>>
  PROVE  IInv'
<1>1. PICK row : row \in Rows
  <2>1. edge[r] \in Edge
    BY DEF IInv, TypeOK
  <2> QED
    BY <2>1, EdgeParts
<1>2. RequestsOK' /\ LocksExclusive' /\ PendingRowsLocked' /\ CountersMatch'
  BY <1>1, MoveStep
<1> QED
  BY <1>2 DEF IInv, TypeOK, RequestsOK, PCs

\* A new request.
LEMMA StartStep ==
  ASSUME IInv, NEW r \in Requests, NEW e \in Edge,
         NEW first \in PCs \ (Inserting \cup Deleting), Start(r, e, first)
  PROVE  IInv'
<1> USE DEF IInv, TypeOK, PCs, Start, tables
<1>1. TypeOK'
  OBVIOUS
<1>2. LocksExclusive'
  BY DEF LocksExclusive
<1>3. PendingRowsLocked'
  <2> SUFFICES ASSUME NEW s \in Requests
               PROVE  /\ pc'[s] \in Inserting =>
                           EdgeRow(edge'[s]) \in locks'[s] /\ edge'[s] \notin follows'
                      /\ pc'[s] \in Deleting =>
                           EdgeRow(edge'[s]) \in locks'[s] /\ edge'[s] \in follows'
                      /\ \A f \in removed'[s] : EdgeRow(f) \in locks'[s] /\ f \in follows'
    BY DEF PendingRowsLocked, Inserting, Deleting
  <2>1. CASE s = r
    BY <2>1 DEF PendingRowsLocked
  <2>2. CASE s # r
    BY <2>2 DEF PendingRowsLocked, Inserting, Deleting
  <2> QED
    BY <2>1, <2>2
<1>4. CountersMatch'
  BY DEF CountersMatch
<1> QED
  BY <1>1, <1>2, <1>3, <1>4

\* The commit of deletions of follow rows the transaction holds.
LEMMA DeleteStep ==
  ASSUME IInv, NEW r \in Requests, NEW next \in PCs \ (Inserting \cup Deleting),
         NEW D \in SUBSET follows, \A e \in D : EdgeRow(e) \in locks[r],
         DeleteFollows(D), EndTx(r, next), blocks' \in SUBSET Edge, UNCHANGED notified
  PROVE  IInv'
<1>1. /\ follows \in SUBSET Edge
      /\ follows' = follows \ D
      /\ follows' \in SUBSET Edge
  BY DEF IInv, TypeOK, DeleteFollows
<1>2. RequestsOK' /\ LocksExclusive' /\ PendingRowsLocked'
  <2>1. \A e \in Edge : EdgeRow(e) \notin locks[r] => (e \in follows <=> e \in follows')
    BY <1>1
  <2> QED
    BY <1>1, <2>1, EndTxStep
<1>3. CountersMatch'
  <2> SUFFICES ASSUME NEW u \in Users
               PROVE  /\ followersCount'[u] = Cardinality(Incident(follows', 2, u))
                      /\ followingCount'[u] = Cardinality(Incident(follows', 1, u))
    BY DEF CountersMatch
  <2>1. /\ followersCount'[u] = followersCount[u] - Cardinality(Incident(D, 2, u))
        /\ followingCount'[u] = followingCount[u] - Cardinality(Incident(D, 1, u))
    BY DEF DeleteFollows
  <2>2. /\ followersCount[u] = Cardinality(Incident(follows, 2, u))
        /\ followingCount[u] = Cardinality(Incident(follows, 1, u))
    BY DEF IInv, CountersMatch
  <2>3. Cardinality(Incident(follows \ D, 2, u)) =
          Cardinality(Incident(follows, 2, u)) - Cardinality(Incident(D, 2, u))
    BY <1>1, IncidentDelete
  <2>4. Cardinality(Incident(follows \ D, 1, u)) =
          Cardinality(Incident(follows, 1, u)) - Cardinality(Incident(D, 1, u))
    BY <1>1, IncidentDelete
  <2> QED
    BY <1>1, <2>1, <2>2, <2>3, <2>4
<1>4. followersCount' \in [Users -> Nat] /\ followingCount' \in [Users -> Nat]
  <2>1. \A u \in Users : followersCount'[u] \in Nat /\ followingCount'[u] \in Nat
    BY <1>1, <1>3, IncidentFinite DEF CountersMatch
  <2> QED
    BY <2>1 DEF DeleteFollows
<1> QED
  BY <1>1, <1>2, <1>3, <1>4 DEF IInv, TypeOK, RequestsOK, PCs

\* The commit of a follow.
LEMMA FollowCommitStep ==
  ASSUME IInv, NEW r \in Requests, FollowCommit(r)
  PROVE  IInv'
<1> DEFINE e == edge[r]
<1>1. /\ follows \in SUBSET Edge /\ e \in Edge
      /\ e[1] \in Users /\ e[2] \in Users
  BY EdgeParts DEF IInv, TypeOK
<1>2. e \notin follows /\ EdgeRow(e) \in locks[r]
  BY DEF IInv, PendingRowsLocked, FollowCommit
<1>3. follows' = follows \cup {e} /\ follows' \in SUBSET Edge
  BY <1>1 DEF FollowCommit
<1>4. "f_notify" \in PCs \ (Inserting \cup Deleting)
  BY DEF PCs, FollowPC, Inserting, Deleting
<1>5. RequestsOK' /\ LocksExclusive' /\ PendingRowsLocked'
  <2>1. \A f \in Edge : EdgeRow(f) \notin locks[r] => (f \in follows <=> f \in follows')
    BY <1>2, <1>3
  <2> QED
    BY <1>3, <1>4, <2>1, EndTxStep DEF FollowCommit
<1>6. CountersMatch'
  <2> SUFFICES ASSUME NEW u \in Users
               PROVE  /\ followersCount'[u] = Cardinality(Incident(follows', 2, u))
                      /\ followingCount'[u] = Cardinality(Incident(follows', 1, u))
    BY DEF CountersMatch
  <2>1. /\ followersCount'[u] = followersCount[u] + (IF e[2] = u THEN 1 ELSE 0)
        /\ followingCount'[u] = followingCount[u] + (IF e[1] = u THEN 1 ELSE 0)
    BY DEF FollowCommit, IInv, TypeOK
  <2>2. /\ followersCount[u] = Cardinality(Incident(follows, 2, u))
        /\ followingCount[u] = Cardinality(Incident(follows, 1, u))
    BY DEF IInv, CountersMatch
  <2>3. Cardinality(Incident(follows \cup {e}, 2, u)) =
          Cardinality(Incident(follows, 2, u)) + (IF e[2] = u THEN 1 ELSE 0)
    BY <1>1, <1>2, IncidentInsert
  <2>4. Cardinality(Incident(follows \cup {e}, 1, u)) =
          Cardinality(Incident(follows, 1, u)) + (IF e[1] = u THEN 1 ELSE 0)
    BY <1>1, <1>2, IncidentInsert
  <2> QED
    BY <1>3, <2>1, <2>2, <2>3, <2>4
<1>7. followersCount' \in [Users -> Nat] /\ followingCount' \in [Users -> Nat]
  BY <1>1 DEF IInv, TypeOK, FollowCommit
<1> QED
  BY <1>3, <1>5, <1>6, <1>7 DEF IInv, TypeOK, RequestsOK, PCs, FollowCommit

-----------------------------------------------------------------------------
(* The invariant. *)

LEMMA InitIInv == Init => IInv
<1> SUFFICES ASSUME Init PROVE IInv
  OBVIOUS
<1>1. TypeOK
  BY DEF Init, TypeOK, Answers
<1>2. LocksExclusive
  BY DEF Init, LocksExclusive
<1>3. PendingRowsLocked
  BY DEF Init, PendingRowsLocked
<1>4. CountersMatch
  <2>1. \A i, u : Incident({}, i, u) = {}
    BY DEF Incident
  <2> QED
    BY <2>1, FS_EmptySet DEF Init, CountersMatch
<1> QED
  BY <1>1, <1>2, <1>3, <1>4 DEF IInv

LEMMA NextIInv == IInv /\ [Next]_vars => IInv'
<1> SUFFICES ASSUME IInv, [Next]_vars PROVE IInv'
  OBVIOUS
<1> USE DEF PCs, Answers, FollowPC, UnfollowPC, BlockPC, Inserting, Deleting
<1>1. CASE UNCHANGED vars
  BY <1>1 DEF IInv, TypeOK, LocksExclusive, PendingRowsLocked, CountersMatch, vars
<1>2. ASSUME NEW e \in Edge, Unblock(e)
      PROVE  IInv'
  BY <1>2 DEF Unblock, IInv, TypeOK, LocksExclusive, PendingRowsLocked, CountersMatch
<1>3. ASSUME NEW r \in Requests, NEW e \in Edge,
             FollowStart(r, e) \/ UnfollowStart(r, e) \/ BlockStart(r, e)
      PROVE  IInv'
  BY <1>3, StartStep DEF FollowStart, UnfollowStart, BlockStart
<1>4. ASSUME NEW r \in Requests, Fail(r)
      PROVE  IInv'
  BY <1>4, RollbackStep DEF Fail
<1>5. ASSUME NEW r \in Requests, Step(r)
      PROVE  IInv'
  <2> DEFINE e == edge[r]
             f == Leg(r)
  <2>1. /\ e \in Edge /\ f \in Edge
        /\ e[1] \in Users /\ e[2] \in Users /\ f[1] \in Users /\ f[2] \in Users
        /\ EdgeRow(e) \in Rows /\ BlockRow(e) \in Rows /\ EdgeRow(f) \in Rows
        /\ UserRow(e[1]) \in Rows /\ UserRow(e[2]) \in Rows
        /\ UserRow(f[1]) \in Rows /\ UserRow(f[2]) \in Rows
    <3>1. e \in Edge /\ f \in Edge
      BY EdgeParts DEF IInv, TypeOK, Leg
    <3> HIDE DEF e, f
    <3> QED
      BY <3>1, EdgeParts
  <2>2. leg \in [Requests -> 1..2] /\ [leg EXCEPT ![r] = 2] \in [Requests -> 1..2]
        /\ notified \in SUBSET Edge /\ blocks \in SUBSET Edge /\ follows \in SUBSET Edge
    BY DEF IInv, TypeOK
  <2>3. CASE FollowCheck(r)
    <3>1. PICK next \in {"forbidden", "f_insert"} : pc' = [pc EXCEPT ![r] = next]
      BY <2>3 DEF FollowCheck
    <3> QED
      BY <2>2, <2>3, <3>1, PcStep DEF FollowCheck, tables
  <2>4. CASE FollowInsert(r)
    <3>1. CASE e \notin follows /\ TakeRow(r, EdgeRow(e), "f_target")
      BY <2>1, <3>1, TakeRowStep
    <3>2. CASE Rollback(r, "ok")
      BY <3>2, RollbackStep
    <3> QED
      BY <2>4, <3>1, <3>2 DEF FollowInsert
  <2>5. CASE FollowBumpTarget(r)
    <3>1. EdgeRow(e) \in locks[r] /\ e \notin follows
      BY <2>5 DEF IInv, PendingRowsLocked, FollowBumpTarget
    <3> QED
      BY <2>1, <2>5, <3>1, TakeRowStep DEF FollowBumpTarget
  <2>6. CASE FollowCommit(r)
    BY <2>6, FollowCommitStep
  <2>7. CASE FollowNotify(r)
    <3>1. notified' \in SUBSET Edge
      BY <2>1, <2>2, <2>7 DEF FollowNotify
    <3> QED
      BY <2>2, <2>7, <3>1, PcStep DEF FollowNotify
  <2>8. CASE UnfollowRead(r)
    <3>1. PICK next \in {"u_delete", "ok"} : pc' = [pc EXCEPT ![r] = next]
      BY <2>8 DEF UnfollowRead
    <3> QED
      BY <2>2, <2>8, <3>1, PcStep DEF UnfollowRead, tables
  <2>9. CASE UnfollowDelete(r)
    <3>1. CASE e \in follows /\ TakeRow(r, EdgeRow(e), "u_target")
      BY <2>1, <3>1, TakeRowStep
    <3>2. CASE Rollback(r, "failed")
      BY <3>2, RollbackStep
    <3> QED
      BY <2>9, <3>1, <3>2 DEF UnfollowDelete
  <2>10. CASE UnfollowDropTarget(r)
    <3>1. EdgeRow(e) \in locks[r] /\ e \in follows
      BY <2>10 DEF IInv, PendingRowsLocked, UnfollowDropTarget
    <3> QED
      BY <2>1, <2>10, <3>1, TakeRowStep DEF UnfollowDropTarget
  <2>11. CASE UnfollowCommit(r)
    <3>1. EdgeRow(e) \in locks[r] /\ e \in follows
      BY <2>11 DEF IInv, PendingRowsLocked, UnfollowCommit
    <3>2. {e} \in SUBSET follows /\ \A d \in {e} : EdgeRow(d) \in locks[r]
      BY <3>1
    <3> QED
      BY <2>2, <2>11, <3>2, DeleteStep DEF UnfollowCommit
  <2>12. CASE BlockCreate(r)
    <3>1. CASE TakeRow(r, BlockRow(e), "b_scan")
      BY <2>1, <3>1, TakeRowStep
    <3>2. CASE Rollback(r, "ok")
      BY <3>2, RollbackStep
    <3> QED
      BY <2>12, <3>1, <3>2 DEF BlockCreate
  <2>13. CASE BlockScan(r)
    <3>1. PICK next \in {"b_delete", "b_scan", "b_commit"} : pc' = [pc EXCEPT ![r] = next]
      BY <2>13 DEF BlockScan, NextLeg
    <3>2. leg' \in [Requests -> 1..2]
      BY <2>2, <2>13 DEF BlockScan, NextLeg
    <3> QED
      BY <2>2, <2>13, <3>1, <3>2, PcStep DEF BlockScan, NextLeg, tables
  <2>14. CASE BlockDelete(r)
    <3>1. CASE Rollback(r, "failed")
      BY <3>1, RollbackStep
    <3>2. CASE f \in follows /\ ~Rollback(r, "failed")
      <4> USE <2>14, <3>2
      <4>1. /\ Free(r, EdgeRow(f)) /\ Lock(r, EdgeRow(f))
            /\ removed' = [removed EXCEPT ![r] = @ \cup {f}]
            /\ pc' = [pc EXCEPT ![r] = "b_followee"]
            /\ UNCHANGED <<tables, edge, leg>>
        BY DEF BlockDelete
      <4>2. TypeOK'
        BY <2>1, <4>1 DEF IInv, TypeOK, Lock, tables
      <4>3. LocksExclusive'
        BY <4>1 DEF IInv, TypeOK, LocksExclusive, Free, Lock
      <4>4. PendingRowsLocked'
        BY <3>2, <4>1 DEF IInv, TypeOK, PendingRowsLocked, Lock, tables
      <4>5. CountersMatch'
        BY <4>1 DEF IInv, CountersMatch, tables
      <4> QED
        BY <4>2, <4>3, <4>4, <4>5 DEF IInv
    <3> QED
      BY <2>14, <3>1, <3>2 DEF BlockDelete
  <2>15. CASE BlockDropFollowee(r)
    BY <2>1, <2>15, TakeRowStep DEF BlockDropFollowee
  <2>16. CASE BlockDropFollower(r)
    <3>1. PICK next \in {"b_scan", "b_commit"} : pc' = [pc EXCEPT ![r] = next]
      BY <2>16 DEF BlockDropFollower, NextLeg
    <3>2. leg' \in [Requests -> 1..2]
      BY <2>2, <2>16 DEF BlockDropFollower, NextLeg
    <3>3. /\ Free(r, UserRow(f[1])) /\ Lock(r, UserRow(f[1]))
          /\ UNCHANGED <<tables, edge, removed>>
      BY <2>16 DEF BlockDropFollower, NextLeg
    <3>4. RequestsOK' /\ LocksExclusive' /\ PendingRowsLocked' /\ CountersMatch'
      BY <2>1, <3>1, <3>2, <3>3, MoveStep DEF tables
    <3> QED
      BY <3>3, <3>4 DEF IInv, TypeOK, RequestsOK, tables
  <2>17. CASE BlockCommit(r)
    <3>1. /\ removed[r] \in SUBSET follows
          /\ \A d \in removed[r] : EdgeRow(d) \in locks[r]
      BY DEF IInv, PendingRowsLocked
    <3>2. blocks' \in SUBSET Edge
      BY <2>1, <2>2, <2>17 DEF BlockCommit
    <3> QED
      BY <2>17, <3>1, <3>2, DeleteStep DEF BlockCommit
  <2>18. CASE DeadlockVictim(r)
    BY <2>18, RollbackStep DEF DeadlockVictim
  <2> QED
    BY <1>5, <2>3, <2>4, <2>5, <2>6, <2>7, <2>8, <2>9, <2>10, <2>11, <2>12,
       <2>13, <2>14, <2>15, <2>16, <2>17, <2>18 DEF Step
<1> QED
  BY <1>1, <1>2, <1>3, <1>4, <1>5 DEF Next

\* No interleaving of follow, unfollow, block and unblock requests takes the
\* state out of its types: no counter ever becomes negative.
THEOREM FollowsTypeCorrect == Spec => []TypeOK
<1>1. IInv => TypeOK
  BY DEF IInv
<1> QED
  BY <1>1, InitIInv, NextIInv, PTL DEF Spec

\* The follower and following counters agree with the follows table in every
\* reachable state, for any number of users and of overlapping requests.
THEOREM CountersAlwaysMatch == Spec => []CountersMatch
<1>1. IInv => CountersMatch
  BY DEF IInv
<1> QED
  BY <1>1, InitIInv, NextIInv, PTL DEF Spec

-----------------------------------------------------------------------------
(* Answers of block requests. *)

\* Only two statements take a block request to "ok": the insert that finds the
\* committed block, and the commit that records it.
LEMMA BlockAnswerStep ==
  ASSUME IInv, Next, NEW r \in Requests, pc[r] \in BlockPC, pc'[r] = "ok"
  PROVE  edge[r] \in blocks'
<1> USE DEF IInv, TypeOK, Answers, FollowPC, UnfollowPC, BlockPC, EndTx, Rollback, TakeRow, tables
<1>1. ASSUME NEW e \in Edge, Unblock(e)
      PROVE  FALSE
  BY <1>1 DEF Unblock
<1>2. ASSUME NEW s \in Requests, NEW e \in Edge,
             FollowStart(s, e) \/ UnfollowStart(s, e) \/ BlockStart(s, e)
      PROVE  FALSE
  BY <1>2 DEF FollowStart, UnfollowStart, BlockStart, Start
<1>3. ASSUME NEW s \in Requests, Fail(s)
      PROVE  FALSE
  BY <1>3 DEF Fail
<1>4. ASSUME NEW s \in Requests, Step(s)
      PROVE  edge[r] \in blocks'
  <2>1. s = r
    <3> SUFFICES ASSUME s # r PROVE pc'[r] = pc[r]
      OBVIOUS
    <3>1. PICK next : pc' = [pc EXCEPT ![s] = next]
      BY <1>4 DEF Step, FollowCheck, FollowInsert, FollowBumpTarget, FollowCommit, FollowNotify,
           UnfollowRead, UnfollowDelete, UnfollowDropTarget, UnfollowCommit,
           BlockCreate, BlockScan, BlockDelete, BlockDropFollowee, BlockDropFollower,
           BlockCommit, NextLeg, DeadlockVictim
    <3> QED
      BY <3>1
  <2>2. CASE BlockCreate(r)
    BY <2>2 DEF BlockCreate
  <2>3. CASE BlockCommit(r)
    BY <2>3 DEF BlockCommit
  <2>4. CASE BlockScan(r) \/ BlockDelete(r) \/ BlockDropFollowee(r) \/ BlockDropFollower(r)
    BY <2>4 DEF BlockScan, BlockDelete, BlockDropFollowee, BlockDropFollower, NextLeg
  <2>5. CASE DeadlockVictim(r)
    BY <2>5 DEF DeadlockVictim
  <2> QED
    BY <1>4, <2>1, <2>2, <2>3, <2>4, <2>5
    DEF Step, FollowCheck, FollowInsert, FollowBumpTarget, FollowCommit, FollowNotify,
        UnfollowRead, UnfollowDelete, UnfollowDropTarget, UnfollowCommit
<1> QED
  BY <1>1, <1>2, <1>3, <1>4 DEF Next

\* A block request that answers { blocked: true } leaves the block recorded, for
\* any number of overlapping requests: no error of its transaction after the
\* insert is taken for "already blocked".
THEOREM BlockAnswersAreTrue == Spec => BlockAnswerMeansBlocked
<1>1. ASSUME IInv, [Next]_vars
      PROVE  [\A r \in Requests :
                pc[r] \in BlockPC /\ pc'[r] = "ok" => edge[r] \in blocks']_vars
  BY <1>1, BlockAnswerStep
<1> QED
  BY <1>1, InitIInv, NextIInv, PTL DEF Spec, BlockAnswerMeansBlocked
=============================================================================
