------------------------------ MODULE Follows ------------------------------
(***************************************************************************)
(* The follow graph and the block list: SocialService.follow / unfollow    *)
(* and BlocksService.block / unblock, run by concurrent HTTP requests      *)
(* against one PostgreSQL database at READ COMMITTED.                      *)
(*                                                                         *)
(* Every awaited Prisma statement is one step.  The statements of a        *)
(* $transaction take row locks they keep until the transaction ends; what  *)
(* the transaction writes becomes visible to the others when it commits.   *)
(* A statement that needs a row locked by another transaction waits, and   *)
(* PostgreSQL aborts a transaction of every cycle of waiting ones.         *)
(***************************************************************************)
EXTENDS Integers, FiniteSets

CONSTANTS
  Users,     \* accounts
  Requests   \* HTTP requests that can be in flight at once

ASSUME UsersAssumption == IsFiniteSet(Users)

VARIABLES
  follows,         \* committed rows of follows: <<follower, following>>
  blocks,          \* committed rows of blocks: <<blocker, blocked>>
  followersCount,  \* users.followers_count
  followingCount,  \* users.following_count
  notified,        \* rows of notifications of type FOLLOW: <<actor, recipient>>
  pc,              \* where each request is, or how it was last answered
  edge,            \* <<caller, target user>> of each request
  locks,           \* row locks held by the transaction of each request
  removed,         \* follow rows its transaction has deleted, not yet committed
  leg              \* block: which direction of the pair it is tearing down

tables == <<follows, blocks, followersCount, followingCount, notified>>
vars == <<follows, blocks, followersCount, followingCount, notified,
          pc, edge, locks, removed, leg>>

Edge == Users \X Users
Flip(e) == <<e[2], e[1]>>

EdgeRow(e) == <<"follow", e>>
BlockRow(e) == <<"block", e>>
UserRow(u) == <<"user", u>>
Rows == ({"follow", "block"} \X Edge) \cup ({"user"} \X Users)

Answers == {"idle", "ok", "forbidden", "failed"}
FollowPC == {"f_check", "f_insert", "f_target", "f_self", "f_notify"}
UnfollowPC == {"u_read", "u_delete", "u_target", "u_self"}
BlockPC == {"b_create", "b_scan", "b_delete", "b_followee", "b_follower", "b_commit"}

\* Rows of S that name u as the follower (i = 1) or as the followed user (i = 2).
Incident(S, i, u) == {e \in S : e[i] = u}

BlockedEitherWay(e) == e \in blocks \/ Flip(e) \in blocks

Init ==
  /\ follows = {}
  /\ blocks = {}
  /\ followersCount = [u \in Users |-> 0]
  /\ followingCount = [u \in Users |-> 0]
  /\ notified = {}
  /\ pc = [r \in Requests |-> "idle"]
  /\ edge \in [Requests -> {e \in Edge : e[1] # e[2]}]
  /\ locks = [r \in Requests |-> {}]
  /\ removed = [r \in Requests |-> {}]
  /\ leg = [r \in Requests |-> 1]

-----------------------------------------------------------------------------
(* Transactions. *)

\* No other transaction holds the row: the statement of r does not wait.
Free(r, row) == \A s \in Requests \ {r} : row \notin locks[s]

Lock(r, row) == locks' = [locks EXCEPT ![r] = @ \cup {row}]

\* The transaction of r, if any, is over and the request goes on at `next`.
EndTx(r, next) ==
  /\ pc' = [pc EXCEPT ![r] = next]
  /\ locks' = [locks EXCEPT ![r] = {}]
  /\ removed' = [removed EXCEPT ![r] = {}]
  /\ UNCHANGED <<edge, leg>>

\* An error rolls the transaction back and answers the request.
Rollback(r, answer) == EndTx(r, answer) /\ UNCHANGED tables

\* The next statement of the transaction took `row` and goes on at `next`.
TakeRow(r, row, next) ==
  /\ Free(r, row)
  /\ Lock(r, row)
  /\ pc' = [pc EXCEPT ![r] = next]
  /\ UNCHANGED <<tables, edge, removed, leg>>

\* Committing the deletion of the follow rows D with the decrements of both
\* ends' counters, one per row.
DeleteFollows(D) ==
  /\ follows' = follows \ D
  /\ followersCount' = [u \in Users |-> followersCount[u] - Cardinality(Incident(D, 2, u))]
  /\ followingCount' = [u \in Users |-> followingCount[u] - Cardinality(Incident(D, 1, u))]

\* A request arrives.  Following or blocking oneself is refused up front.
Start(r, e, first) ==
  /\ pc[r] \in Answers
  /\ e[1] # e[2]
  /\ pc' = [pc EXCEPT ![r] = first]
  /\ edge' = [edge EXCEPT ![r] = e]
  /\ leg' = [leg EXCEPT ![r] = 1]
  /\ UNCHANGED <<tables, locks, removed>>

-----------------------------------------------------------------------------
(* SocialService.follow *)

FollowStart(r, e) == Start(r, e, "f_check")

FollowCheck(r) ==
  /\ pc[r] = "f_check"
  /\ pc' = [pc EXCEPT ![r] = IF BlockedEitherWay(edge[r]) THEN "forbidden" ELSE "f_insert"]
  /\ UNCHANGED <<tables, edge, locks, removed, leg>>

\* Mutant: an upsert, so that a row already there is no error.
FollowUpsert(r) ==
  /\ pc[r] = "f_insert"
  /\ TakeRow(r, EdgeRow(edge[r]), "f_target")

\* A committed row of the same key is a P2002, answered as success.
FollowInsert(r) ==
  /\ pc[r] = "f_insert"
  /\ \/ /\ edge[r] \notin follows
        /\ TakeRow(r, EdgeRow(edge[r]), "f_target")
     \/ /\ edge[r] \in follows
        /\ Free(r, EdgeRow(edge[r]))
        /\ Rollback(r, "ok")

FollowBumpTarget(r) ==
  /\ pc[r] = "f_target"
  /\ TakeRow(r, UserRow(edge[r][2]), "f_self")

FollowCommit(r) ==
  /\ pc[r] = "f_self"
  /\ Free(r, UserRow(edge[r][1]))
  /\ follows' = follows \cup {edge[r]}
  /\ followersCount' = [followersCount EXCEPT ![edge[r][2]] = @ + 1]
  /\ followingCount' = [followingCount EXCEPT ![edge[r][1]] = @ + 1]
  /\ EndTx(r, "f_notify")
  /\ UNCHANGED <<blocks, notified>>

\* The notification is an upsert on (recipient, actor, FOLLOW); its failure is
\* swallowed.
FollowNotify(r) ==
  /\ pc[r] = "f_notify"
  /\ notified' \in {notified, notified \cup {edge[r]}}
  /\ pc' = [pc EXCEPT ![r] = "ok"]
  /\ UNCHANGED <<follows, blocks, followersCount, followingCount, edge, locks, removed, leg>>

(* SocialService.unfollow *)

UnfollowStart(r, e) == Start(r, e, "u_read")

UnfollowRead(r) ==
  /\ pc[r] = "u_read"
  /\ pc' = [pc EXCEPT ![r] = IF edge[r] \in follows THEN "u_delete" ELSE "ok"]
  /\ UNCHANGED <<tables, edge, locks, removed, leg>>

\* Mutant: deleteMany, which does not fail on a row that is gone.
UnfollowDeleteMany(r) ==
  /\ pc[r] = "u_delete"
  /\ TakeRow(r, EdgeRow(edge[r]), "u_target")

\* The row may be gone since it was read: P2025, the whole transaction fails.
UnfollowDelete(r) ==
  /\ pc[r] = "u_delete"
  /\ \/ /\ edge[r] \in follows
        /\ TakeRow(r, EdgeRow(edge[r]), "u_target")
     \/ /\ edge[r] \notin follows
        /\ Free(r, EdgeRow(edge[r]))
        /\ Rollback(r, "failed")

UnfollowDropTarget(r) ==
  /\ pc[r] = "u_target"
  /\ TakeRow(r, UserRow(edge[r][2]), "u_self")

UnfollowCommit(r) ==
  /\ pc[r] = "u_self"
  /\ Free(r, UserRow(edge[r][1]))
  /\ DeleteFollows({edge[r]})
  /\ EndTx(r, "ok")
  /\ UNCHANGED <<blocks, notified>>

-----------------------------------------------------------------------------
(* BlocksService.block: one interactive transaction. *)

BlockStart(r, e) == Start(r, e, "b_create")

\* A committed row of the same key is a P2002, answered as success.
BlockCreate(r) ==
  /\ pc[r] = "b_create"
  /\ \/ /\ edge[r] \notin blocks
        /\ TakeRow(r, BlockRow(edge[r]), "b_scan")
     \/ /\ edge[r] \in blocks
        /\ Free(r, BlockRow(edge[r]))
        /\ Rollback(r, "ok")

\* The direction of the pair the loop is at.
Leg(r) == IF leg[r] = 1 THEN edge[r] ELSE Flip(edge[r])

\* Mutant: a `continue` that skips the loop's own increment.
NextLegStuck(r) ==
  /\ pc' = [pc EXCEPT ![r] = IF leg[r] = 1 THEN "b_scan" ELSE "b_commit"]
  /\ UNCHANGED <<tables, edge, removed, leg>>

NextLeg(r) ==
  /\ pc' = [pc EXCEPT ![r] = IF leg[r] = 1 THEN "b_scan" ELSE "b_commit"]
  /\ leg' = [leg EXCEPT ![r] = 2]
  /\ UNCHANGED <<tables, edge, removed>>

\* findUnique reads without a lock: a row that does not exist is skipped.
BlockScan(r) ==
  /\ pc[r] = "b_scan"
  /\ \/ /\ Leg(r) \in follows
        /\ pc' = [pc EXCEPT ![r] = "b_delete"]
        /\ UNCHANGED <<tables, edge, locks, removed, leg>>
     \/ /\ Leg(r) \notin follows
        /\ NextLeg(r)
        /\ UNCHANGED locks

\* Mutant: every Prisma error of the transaction means "already blocked".
BlockDeleteLenient(r) ==
  /\ pc[r] = "b_delete"
  /\ Free(r, EdgeRow(Leg(r)))
  /\ \/ /\ Leg(r) \in follows
        /\ Lock(r, EdgeRow(Leg(r)))
        /\ removed' = [removed EXCEPT ![r] = @ \cup {Leg(r)}]
        /\ pc' = [pc EXCEPT ![r] = "b_followee"]
        /\ UNCHANGED <<tables, edge, leg>>
     \/ /\ Leg(r) \notin follows
        /\ Rollback(r, "ok")

\* The row may be gone since it was read: P2025 undoes the block as well.
BlockDelete(r) ==
  /\ pc[r] = "b_delete"
  /\ Free(r, EdgeRow(Leg(r)))
  /\ \/ /\ Leg(r) \in follows
        /\ Lock(r, EdgeRow(Leg(r)))
        /\ removed' = [removed EXCEPT ![r] = @ \cup {Leg(r)}]
        /\ pc' = [pc EXCEPT ![r] = "b_followee"]
        /\ UNCHANGED <<tables, edge, leg>>
     \/ /\ Leg(r) \notin follows
        /\ Rollback(r, "failed")

BlockDropFollowee(r) ==
  /\ pc[r] = "b_followee"
  /\ TakeRow(r, UserRow(Leg(r)[2]), "b_follower")

BlockDropFollower(r) ==
  /\ pc[r] = "b_follower"
  /\ Free(r, UserRow(Leg(r)[1]))
  /\ Lock(r, UserRow(Leg(r)[1]))
  /\ NextLeg(r)

BlockCommit(r) ==
  /\ pc[r] = "b_commit"
  /\ blocks' = blocks \cup {edge[r]}
  /\ DeleteFollows(removed[r])
  /\ EndTx(r, "ok")
  /\ UNCHANGED notified

\* BlocksService.unblock: one deleteMany, always answered with success.
Unblock(e) ==
  /\ blocks' = blocks \ {e}
  /\ UNCHANGED <<follows, followersCount, followingCount, notified,
                 pc, edge, locks, removed, leg>>

-----------------------------------------------------------------------------
(* What can end a transaction from outside. *)

\* The row the next statement of r needs.
Wanted(r) ==
  CASE pc[r] \in {"f_insert", "u_delete"} -> {EdgeRow(edge[r])}
    [] pc[r] \in {"f_target", "u_target"} -> {UserRow(edge[r][2])}
    [] pc[r] \in {"f_self", "u_self"} -> {UserRow(edge[r][1])}
    [] pc[r] = "b_create" -> {BlockRow(edge[r])}
    [] pc[r] = "b_delete" -> {EdgeRow(Leg(r))}
    [] pc[r] = "b_followee" -> {UserRow(Leg(r)[2])}
    [] pc[r] = "b_follower" -> {UserRow(Leg(r)[1])}
    [] OTHER -> {}

WaitsFor(r, s) == r # s /\ Wanted(r) \cap locks[s] # {}

\* r is on a cycle of waiting transactions: a set in which everyone waits for
\* one of the set (each waits for a single row, held by a single one) and is
\* waited for.
Deadlocked(r) ==
  \E S \in SUBSET Requests :
    /\ r \in S
    /\ \A s \in S : (\E t \in S : WaitsFor(s, t)) /\ (\E t \in S : WaitsFor(t, s))

\* PostgreSQL aborts one transaction of the cycle: the request answers 500.
DeadlockVictim(r) ==
  /\ Deadlocked(r)
  /\ Rollback(r, "failed")

\* A lost connection, a transaction timeout or a crash of the instance.
Fail(r) ==
  /\ pc[r] \notin Answers \cup {"f_notify"}
  /\ Rollback(r, "failed")

Step(r) ==
  \/ FollowCheck(r) \/ FollowInsert(r) \/ FollowBumpTarget(r) \/ FollowCommit(r)
  \/ FollowNotify(r)
  \/ UnfollowRead(r) \/ UnfollowDelete(r) \/ UnfollowDropTarget(r) \/ UnfollowCommit(r)
  \/ BlockCreate(r) \/ BlockScan(r) \/ BlockDelete(r) \/ BlockDropFollowee(r)
  \/ BlockDropFollower(r) \/ BlockCommit(r)
  \/ DeadlockVictim(r)

Next ==
  \/ \E r \in Requests : Step(r) \/ Fail(r)
  \/ \E r \in Requests, e \in Edge : FollowStart(r, e) \/ UnfollowStart(r, e) \/ BlockStart(r, e)
  \/ \E e \in Edge : Unblock(e)

Spec == Init /\ [][Next]_vars

\* PostgreSQL queues the waiters of a row lock, and every request that is not
\* waiting is served by the event loop.
FairSpec == Spec /\ \A r \in Requests : SF_vars(Step(r))

-----------------------------------------------------------------------------
(* Properties. *)

\* Types; the counters never go below zero.
TypeOK ==
  /\ follows \subseteq Edge
  /\ blocks \subseteq Edge
  /\ followersCount \in [Users -> Nat]
  /\ followingCount \in [Users -> Nat]
  /\ notified \subseteq Edge
  /\ pc \in [Requests -> Answers \cup FollowPC \cup UnfollowPC \cup BlockPC]
  /\ edge \in [Requests -> Edge]
  /\ locks \in [Requests -> SUBSET Rows]
  /\ removed \in [Requests -> SUBSET Edge]
  /\ leg \in [Requests -> 1..2]

\* The denormalised counters of every user agree with the follows table in
\* every committed state, whatever follow, unfollow and block requests overlap,
\* are answered by a P2002 or P2025, deadlock, or die half way.
CountersMatch ==
  \A u \in Users :
    /\ followersCount[u] = Cardinality(Incident(follows, 2, u))
    /\ followingCount[u] = Cardinality(Incident(follows, 1, u))

\* A block request that answers { blocked: true } leaves the block recorded,
\* also when it lost a race for a row: an error inside its transaction undoes
\* the block and must not be mistaken for "already blocked".
BlockAnswerMeansBlocked ==
  [][\A r \in Requests :
       pc[r] \in BlockPC /\ pc'[r] = "ok" => edge[r] \in blocks']_vars

\* Every request is answered: the waits for row locks end, because committing
\* and failing requests release them and deadlocks are broken.
EveryRequestAnswered ==
  \A r \in Requests : pc[r] \notin Answers ~> pc[r] \in Answers

\* What social.service.ts:51 says of a blocked pair: no follow across a block.
NoFollowAcrossBlock == \A e \in follows : ~BlockedEitherWay(e)
=============================================================================
