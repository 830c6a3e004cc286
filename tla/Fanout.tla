------------------------------- MODULE Fanout -------------------------------
(***************************************************************************)
(* The NEW_POST notifications of one post: fanoutNewPost of                *)
(* NotificationsService, which notifies a small audience at once and       *)
(* queues a job for a large one, and the NotificationProcessor that walks  *)
(* the followers in pages.  Followers come, go and delete their accounts   *)
(* meanwhile; attempts fail, workers die, and a job whose worker is late   *)
(* is handed to another one while the first goes on.                       *)
(*                                                                         *)
(* A page is read by Prisma's cursor, whose row may be gone by then, in    *)
(* which case the page is empty.  `steady` and `reached` are no state of   *)
(* the system.                                                             *)
(***************************************************************************)
EXTENDS Integers, FiniteSets, FiniteSetsExt

CONSTANTS
  Followers,  \* ids of the users who may follow the author
  Workers,    \* worker processes
  Page,       \* PAGE of the processor
  Threshold,  \* FANOUT_QUEUE_THRESHOLD
  JobTries    \* attempts of a job

ASSUME FanoutAssumption ==
  /\ IsFiniteSet(Followers) /\ Followers \subseteq Nat \ {0}
  /\ Page \in Nat \ {0} /\ Threshold \in Nat \ {0} /\ JobTries \in Nat \ {0}

VARIABLES
  accounts,  \* users whose account exists
  follows,   \* those who follow the author
  newPost,   \* NEW_POST rows of the post, by recipient
  publish,   \* where fanoutNewPost is: "count", "list", "insert", "queued" or "over"
  audience,  \* the followers fanoutNewPost has read
  job,       \* the job in the queue
  worker,    \* what each worker holds
  steady,    \* those who follow since before the fan-out
  reached    \* how far a job that completed has come

fanoutVars == <<accounts, follows, newPost, publish, audience, job, worker, steady, reached>>

None == 0
Idle == [at |-> "idle", cursor |-> None, batch |-> {}]
NoneReached == [done |-> FALSE, upTo |-> None]

FanoutInit ==
  /\ accounts = Followers
  /\ follows \in SUBSET Followers
  /\ newPost = [u \in Followers |-> 0]
  /\ publish = "count"
  /\ audience = {}
  /\ job = [at |-> "none", left |-> JobTries, stalls |-> 1, owner |-> None]
  /\ worker = [w \in Workers |-> Idle]
  /\ steady = follows
  /\ reached = NoneReached

-----------------------------------------------------------------------------
\* fanoutNewPost, after the post is committed.

CountFollowers ==
  /\ publish = "count"
  /\ IF Cardinality(follows) >= Threshold
     THEN publish' = "queued" /\ job' = [job EXCEPT !.at = "waiting"]
     ELSE publish' = (IF follows = {} THEN "over" ELSE "list") /\ UNCHANGED job
  /\ UNCHANGED <<accounts, follows, newPost, audience, worker, steady, reached>>

ListFollowers ==
  /\ publish = "list"
  /\ publish' = "insert"
  /\ audience' = follows
  /\ UNCHANGED <<accounts, follows, newPost, job, worker, steady, reached>>

\* Mutant: duplicates are not skipped.
CreateManyPlain(S) ==
  /\ S \subseteq accounts
  /\ newPost' = [u \in Followers |-> newPost[u] + IF u \in S THEN 1 ELSE 0]

\* createMany with skipDuplicates, over the unique index of NEW_POST rows.  A
\* recipient without an account fails the statement as a whole.
CreateMany(S) ==
  /\ S \subseteq accounts
  /\ newPost' = [u \in Followers |-> IF u \in S /\ newPost[u] = 0 THEN 1 ELSE newPost[u]]

InsertAtOnce ==
  /\ publish = "insert"
  /\ CreateMany(audience)
  /\ publish' = "over"
  /\ audience' = {}
  /\ UNCHANGED <<accounts, follows, job, worker, steady, reached>>

\* Any error is logged, and the fan-out given up.
GiveUpFanout ==
  /\ publish \in {"count", "list", "insert"}
  /\ publish' = "over"
  /\ audience' = {}
  /\ UNCHANGED <<accounts, follows, newPost, job, worker, steady, reached>>

-----------------------------------------------------------------------------
\* The processor.  One job at a time for each worker.

TakeJob(w) ==
  /\ job.at = "waiting"
  /\ worker[w] = Idle
  /\ job' = [job EXCEPT !.at = "active", !.owner = w]
  /\ worker' = [worker EXCEPT ![w].at = "read"]
  /\ UNCHANGED <<accounts, follows, newPost, publish, audience, steady, reached>>

\* What findMany returns: the next followers in the order of their ids.
NextPage(cursor) ==
  LET after == IF cursor = None THEN follows
               ELSE IF cursor \in follows THEN {u \in follows : u > cursor} ELSE {}
  IN {u \in after : Cardinality({v \in after : v < u}) < Page}

\* The job is done for its worker; only the owner's word counts.
Complete(w, upTo) ==
  /\ worker' = [worker EXCEPT ![w] = Idle]
  /\ IF job.owner = w
     THEN /\ job' = [job EXCEPT !.at = "done", !.owner = None]
          /\ reached' = [done |-> TRUE, upTo |-> upTo]
     ELSE UNCHANGED <<job, reached>>

\* An empty page ends the loop.  It is the end of the list, unless the cursor's
\* row is gone.
ReadFollowers(w) ==
  /\ worker[w].at = "read"
  /\ LET batch == NextPage(worker[w].cursor)
     IN IF batch = {}
        THEN Complete(w, IF worker[w].cursor \in follows \cup {None} THEN Max(Followers)
                         ELSE worker[w].cursor)
        ELSE /\ worker' = [worker EXCEPT ![w].at = "insert", ![w].batch = batch]
             /\ UNCHANGED <<job, reached>>
  /\ UNCHANGED <<accounts, follows, newPost, publish, audience, steady>>

\* Mutant: the cursor stays.
TurnPageStuck(w) ==
  IF Cardinality(worker[w].batch) < Page THEN Complete(w, Max(Followers))
  ELSE /\ worker' = [worker EXCEPT ![w].at = "read", ![w].batch = {}]
       /\ UNCHANGED <<job, reached>>

\* Mutant: the loop ends with the first page.
TurnPageEarly(w) == Complete(w, Max(Followers))

\* A page that is not full is the last.
TurnPage(w) ==
  IF Cardinality(worker[w].batch) < Page THEN Complete(w, Max(Followers))
  ELSE /\ worker' = [worker EXCEPT ![w] = [at |-> "read", cursor |-> Max(worker[w].batch), batch |-> {}]]
       /\ UNCHANGED <<job, reached>>

InsertPage(w) ==
  /\ worker[w].at = "insert"
  /\ CreateMany(worker[w].batch)
  /\ TurnPage(w)
  /\ UNCHANGED <<accounts, follows, publish, audience, steady>>

\* Mutant of FailAttempt: the attempts are not counted down to an end.
FailAttemptAgain(w) ==
  /\ worker[w] # Idle
  /\ worker' = [worker EXCEPT ![w] = Idle]
  /\ job' = IF job.owner # w THEN job
            ELSE [job EXCEPT !.at = "waiting", !.left = @ - 1, !.owner = None]
  /\ UNCHANGED <<accounts, follows, newPost, publish, audience, steady, reached>>

\* A statement fails: the attempt is over, and the next begins with page one.
FailAttempt(w) ==
  /\ worker[w] # Idle
  /\ worker' = [worker EXCEPT ![w] = Idle]
  /\ job' = IF job.owner # w THEN job
            ELSE IF job.left > 1 THEN [job EXCEPT !.at = "waiting", !.left = @ - 1, !.owner = None]
            ELSE [job EXCEPT !.at = "failed", !.owner = None]
  /\ UNCHANGED <<accounts, follows, newPost, publish, audience, steady, reached>>

\* The owner misses its heartbeat, or dies: the job goes back once.
Stall ==
  /\ job.at = "active"
  /\ job' = IF job.stalls > 0 THEN [job EXCEPT !.at = "waiting", !.stalls = @ - 1, !.owner = None]
            ELSE [job EXCEPT !.at = "failed", !.owner = None]
  /\ \/ UNCHANGED worker
     \/ worker' = [worker EXCEPT ![job.owner] = Idle]
  /\ UNCHANGED <<accounts, follows, newPost, publish, audience, steady, reached>>

WorkerStep(w) == ReadFollowers(w) \/ InsertPage(w) \/ FailAttempt(w)

-----------------------------------------------------------------------------
\* The followers.

FollowAuthor(u) ==
  /\ u \in accounts \ follows
  /\ follows' = follows \cup {u}
  /\ UNCHANGED <<accounts, newPost, publish, audience, job, worker, steady, reached>>

UnfollowAuthor(u) ==
  /\ u \in follows
  /\ follows' = follows \ {u}
  /\ steady' = steady \ {u}
  /\ UNCHANGED <<accounts, newPost, publish, audience, job, worker, reached>>

\* The rows of the user go with the account.
DeleteFollower(u) ==
  /\ u \in accounts
  /\ accounts' = accounts \ {u}
  /\ follows' = follows \ {u}
  /\ steady' = steady \ {u}
  /\ newPost' = [newPost EXCEPT ![u] = 0]
  /\ UNCHANGED <<publish, audience, job, worker, reached>>

FanoutNext ==
  \/ CountFollowers \/ ListFollowers \/ InsertAtOnce \/ GiveUpFanout \/ Stall
  \/ \E w \in Workers : TakeJob(w) \/ WorkerStep(w)
  \/ \E u \in Followers : FollowAuthor(u) \/ UnfollowAuthor(u) \/ DeleteFollower(u)

FanoutSpec == FanoutInit /\ [][FanoutNext]_fanoutVars

-----------------------------------------------------------------------------
FanoutTypeOK ==
  /\ accounts \subseteq Followers
  /\ follows \subseteq accounts
  /\ newPost \in [Followers -> Nat]
  /\ publish \in {"count", "list", "insert", "queued", "over"}
  /\ audience \subseteq Followers
  /\ job \in [at : {"none", "waiting", "active", "done", "failed"}, left : 1..JobTries,
              stalls : 0..1, owner : Workers \cup {None}]
  /\ worker \in [Workers -> [at : {"idle", "read", "insert"}, cursor : Followers \cup {None},
                             batch : SUBSET Followers]]
  /\ steady \subseteq follows
  /\ reached \in [done : BOOLEAN, upTo : Followers \cup {None}]

\* However often the job is retried or run twice at once, nobody is notified of
\* the post twice.
NotifiedOnce == \A u \in Followers : newPost[u] <= 1

\* A job that completed has notified everybody who followed the author all the
\* time; if it ended because the row of its cursor was gone, everybody up to
\* that cursor.
FanoutReaches ==
  reached.done => \A u \in steady : u <= reached.upTo => newPost[u] = 1

\* Every job is completed or given up.
FanoutEnds == job.at = "waiting" ~> job.at \in {"done", "failed"}
=============================================================================
