-------------------------- MODULE BackgroundProofs --------------------------
(***************************************************************************)
(* What goes on behind the requests, for every value of the constants: the *)
(* notifications of a post, from the fan-out to the tabs of a user, and    *)
(* the other parts of MCMaintenance but the post form.                     *)
(***************************************************************************)
EXTENDS MCMaintenance, Inbox, TallyProofs, WellFoundedInduction, SequenceTheorems

-----------------------------------------------------------------------------
(* Sets of naturals: their maximum, and the first of them. *)

Less == {ss \in Nat \X Nat : ss[1] < ss[2]}

\* A set of naturals has a least element.
LEMMA LeastElement ==
  ASSUME NEW T \in SUBSET Nat, T # {}
  PROVE  \E x \in T : \A y \in T : ~(y < x)
<1>1. IsWellFoundedOn(Less, Nat)
  BY NatLessThanWellFounded DEF OpToRel, Less
<1>2. \E x \in T : \A y \in T : <<y, x>> \notin Less
  BY <1>1, WFMin
<1> QED
  BY <1>2 DEF Less

\* The number of elements above u, which is the smaller the higher u.
Above(S, u) == Cardinality({v \in S : v > u})

\* A finite set of naturals has a greatest element, and Max is that.
LEMMA MaxOfSet ==
  ASSUME NEW S \in SUBSET Nat, IsFiniteSet(S), S # {}
  PROVE  Max(S) \in S /\ \A u \in S : u <= Max(S)
<1> DEFINE T == {Above(S, u) : u \in S}
<1>1. ASSUME NEW u \in S
      PROVE  IsFiniteSet({v \in S : v > u}) /\ Above(S, u) \in Nat
  <2>1. {v \in S : v > u} \in SUBSET S
    OBVIOUS
  <2> QED
    BY <2>1, FS_Subset, FS_CardinalityType DEF Above
<1>2. T \subseteq Nat /\ T # {}
  BY <1>1
<1>3. PICK x \in T : \A y \in T : ~(y < x)
  BY <1>2, LeastElement
<1>4. PICK m \in S : x = Above(S, m)
  BY <1>3
<1>5. ASSUME NEW u \in S, u > m
      PROVE  FALSE
  <2>1. Above(S, u) \in T /\ Above(S, m) \in T /\ Above(S, u) \in Nat /\ Above(S, m) \in Nat
    BY <1>1
  <2>2. ~(Above(S, u) < Above(S, m))
    BY <1>3, <1>4, <2>1
  <2> u \in Nat /\ m \in Nat /\ \A v \in S : v \in Nat
    OBVIOUS
  <2>a. \A v \in S : v > u => v > m
    BY <1>5
  <2>b. u \in {v \in S : v > m} /\ ~(u > u)
    BY <1>5
  <2>3. {v \in S : v > u} \in SUBSET {v \in S : v > m} /\ u \in {v \in S : v > m} \ {v \in S : v > u}
    BY <2>a, <2>b
  <2>4. Above(S, u) # Above(S, m) /\ Above(S, u) <= Above(S, m)
    BY <1>1, <2>3, FS_Subset DEF Above
  <2> QED
    BY <2>1, <2>2, <2>4
<1>6. \A u \in S : m >= u
  BY <1>5
<1>7. Max(S) \in S /\ \A u \in S : Max(S) >= u
  BY <1>6 DEF Max
<1> QED
  BY <1>7

\* The elements of A with fewer than n below them.
FirstOf(A, n) == {u \in A : Cardinality({v \in A : v < u}) < n}

\* If the first n are fewer than n, they are all there are.
LEMMA FirstOfAll ==
  ASSUME NEW A \in SUBSET Nat, IsFiniteSet(A), NEW n \in Nat,
         Cardinality(FirstOf(A, n)) < n
  PROVE  FirstOf(A, n) = A
<1> SUFFICES ASSUME A \ FirstOf(A, n) # {} PROVE FALSE
  BY DEF FirstOf
<1>1. A \ FirstOf(A, n) \subseteq Nat
  OBVIOUS
<1>2. PICK u \in A \ FirstOf(A, n) : \A v \in A \ FirstOf(A, n) : ~(v < u)
  BY <1>1, LeastElement
<1>3. {v \in A : v < u} \in SUBSET FirstOf(A, n)
  BY <1>2
<1>4. IsFiniteSet(FirstOf(A, n)) /\ FirstOf(A, n) \in SUBSET A
  BY FS_Subset DEF FirstOf
<1>5. /\ Cardinality({v \in A : v < u}) <= Cardinality(FirstOf(A, n))
      /\ Cardinality({v \in A : v < u}) \in Nat
      /\ Cardinality(FirstOf(A, n)) \in Nat
  BY <1>3, <1>4, FS_Subset, FS_CardinalityType
<1>6. u \in FirstOf(A, n)
  BY <1>2, <1>5 DEF FirstOf
<1> QED
  BY <1>2, <1>6

\* The first n are first: what is at most one of them is one of them.
LEMMA FirstOfLow ==
  ASSUME NEW A \in SUBSET Nat, IsFiniteSet(A), NEW n \in Nat,
         NEW m \in FirstOf(A, n), NEW u \in A, u <= m
  PROVE  u \in FirstOf(A, n)
<1>a. m \in A
  BY DEF FirstOf
<1>b. \A v \in A : v < u => v < m
  BY <1>a
<1>1. /\ {v \in A : v < u} \in SUBSET {v \in A : v < m}
      /\ {v \in A : v < m} \in SUBSET A
  BY <1>b
<1>2. IsFiniteSet({v \in A : v < m})
  BY <1>1, FS_Subset
<1>3. /\ Cardinality({v \in A : v < u}) <= Cardinality({v \in A : v < m})
      /\ Cardinality({v \in A : v < u}) \in Nat
      /\ Cardinality({v \in A : v < m}) \in Nat
  BY <1>1, <1>2, FS_Subset, FS_CardinalityType
<1> QED
  BY <1>3 DEF FirstOf

-----------------------------------------------------------------------------
(* The fan-out.  A worker has notified the steady followers up to its      *)
(* cursor, and the page in its hands leaves none of the next ones out.     *)

PageInv(w) ==
  worker[w].at = "insert" =>
    /\ worker[w].batch # {}
    /\ \A u \in steady :
         u > worker[w].cursor
         /\ (u <= Max(worker[w].batch) \/ Cardinality(worker[w].batch) < Page)
         => u \in worker[w].batch

WorkerInv(w) ==
  /\ \A u \in steady : u <= worker[w].cursor => newPost[u] = 1
  /\ PageInv(w)

NoAudienceNoJob ==
  Followers = {} => job.at = "none" /\ \A w \in Workers : worker[w] = Idle

FanoutInv ==
  /\ FanoutTypeOK
  /\ NotifiedOnce
  /\ FanoutReaches
  /\ NoAudienceNoJob
  /\ \A w \in Workers : WorkerInv(w)

LEMMA FinitePart ==
  ASSUME NEW S \in SUBSET Followers
  PROVE  IsFiniteSet(S) /\ S \in SUBSET Nat /\ Cardinality(S) \in Nat
<1>1. IsFiniteSet(S)
  BY FanoutAssumption, FS_Subset
<1> QED
  BY <1>1, FanoutAssumption, FS_CardinalityType

\* A page is the first followers after the cursor.
LEMMA NextPageComplete ==
  ASSUME FanoutTypeOK, NEW cursor \in Followers \cup {None}
  PROVE  LET batch == NextPage(cursor)
         IN /\ batch \in SUBSET Followers
            /\ batch # {} => \A u \in follows :
                 u > cursor /\ (u <= Max(batch) \/ Cardinality(batch) < Page) => u \in batch
            /\ batch = {} /\ cursor \in follows \cup {None} => \A u \in follows : u <= cursor
<1> DEFINE batch == NextPage(cursor)
           after == IF cursor = None THEN follows
                    ELSE IF cursor \in follows THEN {u \in follows : u > cursor} ELSE {}
<1>1. batch = FirstOf(after, Page)
  BY DEF NextPage, FirstOf
<1>2. after \in SUBSET follows /\ follows \in SUBSET Followers
  BY DEF FanoutTypeOK
<1>a. after \in SUBSET Followers
  BY <1>2
<1>b. IsFiniteSet(after) /\ after \in SUBSET Nat
  BY <1>a, FinitePart
<1>c. Page \in Nat /\ Page > 0 /\ cursor \in Nat
  BY FanoutAssumption DEF None
<1>3. IsFiniteSet(after) /\ after \in SUBSET Nat /\ Page \in Nat /\ Page > 0 /\ cursor \in Nat
  BY <1>b, <1>c
<1>4. batch \in SUBSET after
  BY <1>1 DEF FirstOf
<1>5. IsFiniteSet(batch) /\ batch \in SUBSET Nat
  BY <1>2, <1>4, FinitePart
<1>6. Cardinality(batch) < Page => batch = after
  BY <1>1, <1>3, FirstOfAll
<1>7. cursor \in follows \cup {None} => \A u \in follows : u > cursor => u \in after
  BY DEF None
<1>8. batch # {} => cursor \in follows \cup {None}
  BY <1>4
<1>9. ASSUME batch # {}, NEW u \in after, u <= Max(batch)
      PROVE  u \in batch
  BY <1>1, <1>3, <1>5, <1>9, MaxOfSet, FirstOfLow
<1>10. batch = {} => after = {}
  BY <1>3, <1>6, FS_EmptySet
<1>11. \A u \in follows : u \in Nat
  BY <1>2, FanoutAssumption
<1> HIDE DEF batch, after
<1>12. batch = {} /\ cursor \in follows \cup {None} => \A u \in follows : u <= cursor
  BY <1>3, <1>7, <1>10, <1>11
<1>13. batch # {} => \A u \in follows :
         u > cursor /\ (u <= Max(batch) \/ Cardinality(batch) < Page) => u \in batch
  BY <1>6, <1>7, <1>8, <1>9
<1>14. batch \in SUBSET Followers
  BY <1>2, <1>4
<1> QED
  BY <1>12, <1>13, <1>14 DEF batch

\* A worker that does nothing keeps its part of the invariant while followers
\* leave and notifications are added.
LEMMA WorkerInvKept ==
  ASSUME FanoutInv, NEW w \in Workers, worker'[w] = worker[w], steady' \subseteq steady,
         \A u \in steady' : newPost[u] = 1 => newPost'[u] = 1
  PROVE  WorkerInv(w)'
BY DEF FanoutInv, WorkerInv, PageInv

\* An idle worker claims nothing.
LEMMA WorkerInvIdle ==
  ASSUME FanoutTypeOK', NEW w \in Workers, worker'[w] = Idle
  PROVE  WorkerInv(w)'
<1>1. steady' \subseteq Nat \ {0}
  BY FanoutAssumption DEF FanoutTypeOK
<1> QED
  BY <1>1 DEF WorkerInv, PageInv, Idle, None

LEMMA CreateManyNotifies ==
  ASSUME FanoutInv, NEW S \in SUBSET Followers, CreateMany(S)
  PROVE  /\ newPost' \in [Followers -> Nat]
         /\ NotifiedOnce'
         /\ \A u \in Followers : newPost[u] = 1 => newPost'[u] = 1
         /\ \A u \in S : newPost'[u] = 1
<1>1. newPost \in [Followers -> Nat] /\ \A u \in Followers : newPost[u] \in Nat /\ newPost[u] <= 1
  BY DEF FanoutInv, FanoutTypeOK, NotifiedOnce
<1>2. /\ newPost' = [u \in Followers |-> newPost'[u]]
      /\ \A u \in Followers : newPost'[u] = IF u \in S /\ newPost[u] = 0 THEN 1 ELSE newPost[u]
  BY DEF CreateMany
<1>3. \A u \in Followers : newPost[u] = 0 \/ newPost[u] = 1
  BY <1>1
<1>4. \A u \in Followers : newPost'[u] \in Nat /\ newPost'[u] <= 1
  BY <1>2, <1>3
<1>5. newPost' \in [Followers -> Nat]
  BY <1>2, <1>4
<1> QED
  BY <1>2, <1>3, <1>4, <1>5 DEF NotifiedOnce

LEMMA FanoutInvInit == FanoutInit => FanoutInv
<1> SUFFICES ASSUME FanoutInit PROVE FanoutInv
  OBVIOUS
<1> USE FanoutAssumption DEF FanoutInit
<1>1. FanoutTypeOK
  BY DEF FanoutTypeOK, Idle, None, NoneReached
<1>2. NotifiedOnce /\ FanoutReaches /\ NoAudienceNoJob
  BY DEF NotifiedOnce, FanoutReaches, NoneReached, NoAudienceNoJob
<1>3. \A u \in steady : u \in Nat \ {0}
  OBVIOUS
<1>4. \A w \in Workers : WorkerInv(w)
  BY <1>3 DEF WorkerInv, PageInv, Idle, None
<1> QED
  BY <1>1, <1>2, <1>4 DEF FanoutInv

\* What is left to show of a step that no worker takes.
LEMMA FanoutInvAround ==
  ASSUME FanoutInv, FanoutTypeOK', NotifiedOnce', NoAudienceNoJob',
         UNCHANGED <<worker, reached>>, steady' \subseteq steady,
         \A u \in steady' : newPost[u] = 1 => newPost'[u] = 1
  PROVE  FanoutInv'
<1>1. \A w \in Workers : WorkerInv(w)'
  BY WorkerInvKept
<1>2. FanoutReaches'
  BY DEF FanoutInv, FanoutReaches
<1> QED
  BY <1>1, <1>2 DEF FanoutInv

\* The same when worker w goes idle, or another follower page begins.
LEMMA FanoutInvWorker ==
  ASSUME FanoutInv, FanoutTypeOK', NotifiedOnce', FanoutReaches', NoAudienceNoJob',
         NEW w \in Workers, WorkerInv(w)', \A v \in Workers \ {w} : worker'[v] = worker[v],
         steady' = steady, \A u \in steady : newPost[u] = 1 => newPost'[u] = 1
  PROVE  FanoutInv'
<1>1. \A v \in Workers \ {w} : WorkerInv(v)'
  BY WorkerInvKept
<1> QED
  BY <1>1 DEF FanoutInv

\* A job that exists has followers.
LEMMA SomeFollower ==
  ASSUME FanoutInv, job.at # "none" \/ \E w \in Workers : worker[w] # Idle
  PROVE  Followers # {} /\ Max(Followers) \in Followers
<1>1. Followers # {}
  BY DEF FanoutInv, NoAudienceNoJob
<1>2. IsFiniteSet(Followers) /\ Followers \in SUBSET Nat
  BY FanoutAssumption
<1> QED
  BY <1>1, <1>2, MaxOfSet

LEMMA CountFollowersSafe ==
  ASSUME FanoutInv, CountFollowers
  PROVE  FanoutInv'
<1> USE DEF CountFollowers
<1>1. FanoutTypeOK'
  BY DEF FanoutInv, FanoutTypeOK
<1>2. Followers = {} => Cardinality(follows) = 0
  BY FS_EmptySet DEF FanoutInv, FanoutTypeOK
<1>3. Threshold > 0
  BY FanoutAssumption
<1>4. NoAudienceNoJob'
  BY <1>2, <1>3, FanoutAssumption DEF FanoutInv, NoAudienceNoJob
<1>5. NotifiedOnce'
  BY DEF FanoutInv, NotifiedOnce
<1> QED
  BY <1>1, <1>4, <1>5, FanoutInvAround

LEMMA ListFollowersSafe ==
  ASSUME FanoutInv, ListFollowers \/ GiveUpFanout
  PROVE  FanoutInv'
<1>1. FanoutTypeOK' /\ NotifiedOnce' /\ NoAudienceNoJob'
  BY DEF ListFollowers, GiveUpFanout, FanoutInv, FanoutTypeOK, NotifiedOnce, NoAudienceNoJob
<1>2. UNCHANGED <<worker, reached, steady, newPost>>
  BY DEF ListFollowers, GiveUpFanout
<1> QED
  BY <1>1, <1>2, FanoutInvAround

LEMMA InsertAtOnceSafe ==
  ASSUME FanoutInv, InsertAtOnce
  PROVE  FanoutInv'
<1>1. audience \in SUBSET Followers /\ steady \subseteq Followers
  BY DEF FanoutInv, FanoutTypeOK
<1>2. /\ newPost' \in [Followers -> Nat] /\ NotifiedOnce'
      /\ \A u \in Followers : newPost[u] = 1 => newPost'[u] = 1
  BY <1>1, CreateManyNotifies DEF InsertAtOnce
<1>3. FanoutTypeOK' /\ NoAudienceNoJob'
  BY <1>2 DEF InsertAtOnce, FanoutInv, FanoutTypeOK, NoAudienceNoJob
<1>4. UNCHANGED <<worker, reached, steady>>
  BY DEF InsertAtOnce
<1> QED
  BY <1>1, <1>2, <1>3, <1>4, FanoutInvAround

LEMMA TakeJobSafe ==
  ASSUME FanoutInv, NEW w \in Workers, TakeJob(w)
  PROVE  FanoutInv'
<1> USE DEF TakeJob
<1>1. Followers # {}
  BY SomeFollower
<1>2. FanoutTypeOK'
  BY DEF FanoutInv, FanoutTypeOK
<1>3. NotifiedOnce' /\ FanoutReaches' /\ NoAudienceNoJob'
  BY <1>1 DEF FanoutInv, NotifiedOnce, FanoutReaches, NoAudienceNoJob
<1>4. worker'[w].at = "read" /\ worker'[w].cursor = None
  BY DEF FanoutInv, FanoutTypeOK, Idle
<1>5. \A u \in steady' : ~(u <= None)
  BY <1>2, FanoutAssumption DEF FanoutTypeOK, None
<1>6. WorkerInv(w)'
  BY <1>4, <1>5 DEF WorkerInv, PageInv
<1>7. \A v \in Workers \ {w} : worker'[v] = worker[v]
  BY DEF FanoutInv, FanoutTypeOK
<1> QED
  BY <1>2, <1>3, <1>6, <1>7, FanoutInvWorker

\* A worker that completes the job, having notified the steady followers up to
\* upTo at least.
LEMMA CompleteSafe ==
  ASSUME FanoutInv, NEW w \in Workers, NEW upTo \in Followers, Complete(w, upTo),
         UNCHANGED <<accounts, follows, publish, audience, steady>>,
         newPost' \in [Followers -> Nat], NotifiedOnce',
         \A u \in steady : newPost[u] = 1 => newPost'[u] = 1,
         \A u \in steady : u <= upTo => newPost'[u] = 1
  PROVE  FanoutInv'
<1> USE DEF Complete
<1>a. Idle \in [at : {"idle", "read", "insert"}, cursor : Followers \cup {None}, batch : SUBSET Followers]
  BY DEF Idle
<1>1. worker' \in [Workers -> [at : {"idle", "read", "insert"}, cursor : Followers \cup {None},
                               batch : SUBSET Followers]]
  BY <1>a DEF FanoutInv, FanoutTypeOK
<1>d. job \in [at : {"none", "waiting", "active", "done", "failed"}, left : 1..JobTries,
               stalls : 0..1, owner : Workers \cup {None}]
  BY DEF FanoutInv, FanoutTypeOK
<1>e. job' = job \/ job' = [job EXCEPT !.at = "done", !.owner = None]
  OBVIOUS
<1>b. job' \in [at : {"none", "waiting", "active", "done", "failed"}, left : 1..JobTries,
                stalls : 0..1, owner : Workers \cup {None}]
  <2> HIDE DEF Complete
  <2> QED
    BY <1>d, <1>e
<1>f. reached \in [done : BOOLEAN, upTo : Followers \cup {None}]
  BY DEF FanoutInv, FanoutTypeOK
<1>g. reached' = reached \/ reached' = [done |-> TRUE, upTo |-> upTo]
  OBVIOUS
<1>c. reached' \in [done : BOOLEAN, upTo : Followers \cup {None}]
  <2> HIDE DEF Complete
  <2>1. [done |-> TRUE, upTo |-> upTo] \in [done : BOOLEAN, upTo : Followers \cup {None}]
    OBVIOUS
  <2> QED
    BY <1>f, <1>g, <2>1, Zenon
<1>2. job' \in [at : {"none", "waiting", "active", "done", "failed"}, left : 1..JobTries,
                stalls : 0..1, owner : Workers \cup {None}]
      /\ reached' \in [done : BOOLEAN, upTo : Followers \cup {None}]
  BY <1>b, <1>c
<1>3. FanoutTypeOK'
  BY <1>1, <1>2 DEF FanoutInv, FanoutTypeOK
<1>4. NoAudienceNoJob'
  BY DEF NoAudienceNoJob
<1>5. FanoutReaches'
  BY DEF FanoutInv, FanoutReaches
<1>6. worker'[w] = Idle /\ \A v \in Workers \ {w} : worker'[v] = worker[v]
  BY DEF FanoutInv, FanoutTypeOK
<1>7. WorkerInv(w)'
  BY <1>3, <1>6, WorkerInvIdle
<1> QED
  BY <1>3, <1>4, <1>5, <1>6, <1>7, FanoutInvWorker

LEMMA ReadFollowersSafe ==
  ASSUME FanoutInv, NEW w \in Workers, ReadFollowers(w)
  PROVE  FanoutInv'
<1> DEFINE cursor == worker[w].cursor
           batch == NextPage(cursor)
<1>1. worker[w].at = "read" /\ worker[w] # Idle /\ cursor \in Followers \cup {None}
  BY DEF ReadFollowers, FanoutInv, FanoutTypeOK, Idle
<1>2. Max(Followers) \in Followers /\ Followers # {}
  BY <1>1, SomeFollower
<1>3. UNCHANGED <<accounts, follows, newPost, publish, audience, steady>>
  BY DEF ReadFollowers
<1>4. /\ FanoutTypeOK /\ steady \subseteq follows /\ follows \subseteq Followers
      /\ newPost \in [Followers -> Nat] /\ NotifiedOnce
      /\ WorkerInv(w)
  BY DEF FanoutInv, FanoutTypeOK
<1>5. CASE batch = {}
  <2> DEFINE upTo == IF cursor \in follows \cup {None} THEN Max(Followers) ELSE cursor
  <2>1. Complete(w, upTo) /\ upTo \in Followers
    BY <1>1, <1>2, <1>5 DEF ReadFollowers
  <2>2. cursor \in follows \cup {None} => \A u \in follows : u <= cursor
    BY <1>1, <1>4, <1>5, NextPageComplete
  <2>3. \A u \in steady : u <= upTo => newPost[u] = 1
    BY <1>4, <2>2 DEF WorkerInv
  <2>4. newPost' \in [Followers -> Nat] /\ NotifiedOnce' /\ newPost' = newPost
    BY <1>3, <1>4 DEF NotifiedOnce
  <2> HIDE DEF upTo
  <2> QED
    BY <1>3, <2>1, <2>3, <2>4, CompleteSafe
<1>6. CASE batch # {}
  <2>1. /\ worker' = [worker EXCEPT ![w].at = "insert", ![w].batch = batch]
        /\ UNCHANGED <<job, reached>>
    BY <1>6 DEF ReadFollowers
  <2>2. /\ batch \in SUBSET Followers
        /\ \A u \in follows :
             u > cursor /\ (u <= Max(batch) \/ Cardinality(batch) < Page) => u \in batch
    BY <1>1, <1>4, <1>6, NextPageComplete
  <2> HIDE DEF batch
  <2>a. worker' \in [Workers -> [at : {"idle", "read", "insert"}, cursor : Followers \cup {None},
                                 batch : SUBSET Followers]]
    <3>1. worker \in [Workers -> [at : {"idle", "read", "insert"}, cursor : Followers \cup {None},
                                  batch : SUBSET Followers]]
      BY DEF FanoutInv, FanoutTypeOK
    <3> QED
      BY <2>1, <2>2, <3>1
  <2>3. FanoutTypeOK'
    BY <1>3, <2>1, <2>a DEF FanoutInv, FanoutTypeOK
  <2>4. NotifiedOnce' /\ FanoutReaches' /\ NoAudienceNoJob'
    BY <1>2, <1>3, <2>1 DEF FanoutInv, NotifiedOnce, FanoutReaches, NoAudienceNoJob
  <2>5. /\ worker'[w].cursor = cursor /\ worker'[w].batch = batch
        /\ \A v \in Workers \ {w} : worker'[v] = worker[v]
    BY <2>1 DEF FanoutInv, FanoutTypeOK
  <2>6. WorkerInv(w)'
    BY <1>3, <1>4, <1>6, <2>2, <2>5 DEF WorkerInv, PageInv
  <2> QED
    BY <1>3, <2>3, <2>4, <2>5, <2>6, FanoutInvWorker
<1> QED
  BY <1>5, <1>6

LEMMA InsertPageSafe ==
  ASSUME FanoutInv, NEW w \in Workers, InsertPage(w)
  PROVE  FanoutInv'
<1> DEFINE cursor == worker[w].cursor
           batch == worker[w].batch
<1>1. /\ worker[w].at = "insert" /\ worker[w] # Idle
      /\ cursor \in Followers \cup {None} /\ batch \in SUBSET Followers
  BY DEF InsertPage, FanoutInv, FanoutTypeOK, Idle
<1>2. Max(Followers) \in Followers /\ Followers # {}
  BY <1>1, SomeFollower
<1>3. UNCHANGED <<accounts, follows, publish, audience, steady>>
  BY DEF InsertPage
<1>4. /\ newPost' \in [Followers -> Nat] /\ NotifiedOnce'
      /\ \A u \in Followers : newPost[u] = 1 => newPost'[u] = 1
      /\ \A u \in batch : newPost'[u] = 1
  BY <1>1, CreateManyNotifies DEF InsertPage
<1>5. /\ steady \subseteq Followers /\ Followers \subseteq Nat
      /\ \A u \in steady : u <= cursor => newPost[u] = 1
      /\ batch # {}
      /\ \A u \in steady :
           u > cursor /\ (u <= Max(batch) \/ Cardinality(batch) < Page) => u \in batch
  BY <1>1, FanoutAssumption DEF FanoutInv, FanoutTypeOK, WorkerInv, PageInv
<1>6. cursor \in Nat /\ \A u \in steady : u \in Nat
  <2>1. cursor \in Followers \/ cursor = 0
    BY <1>1 DEF None
  <2>2. Followers \in SUBSET Nat /\ steady \in SUBSET Followers
    BY <1>5
  <2> HIDE DEF cursor, batch
  <2>3. 0 \in Nat
    OBVIOUS
  <2>4. cursor \in Nat
    BY <2>1, <2>2, <2>3, Zenon
  <2>5. \A u \in steady : u \in Nat
    BY <2>2, Zenon
  <2> QED
    BY <2>4, <2>5
<1>7. \A u \in steady : u <= Max(batch) \/ Cardinality(batch) < Page => newPost'[u] = 1
  BY <1>4, <1>5, <1>6
<1>8. CASE Cardinality(batch) < Page
  <2>1. Complete(w, Max(Followers))
    BY <1>8 DEF InsertPage, TurnPage
  <2> QED
    BY <1>2, <1>3, <1>4, <1>5, <1>7, <1>8, <2>1, CompleteSafe
<1>9. CASE ~(Cardinality(batch) < Page)
  <2>1. /\ worker' = [worker EXCEPT ![w] = [at |-> "read", cursor |-> Max(batch), batch |-> {}]]
        /\ UNCHANGED <<job, reached>>
    BY <1>9 DEF InsertPage, TurnPage
  <2>2. IsFiniteSet(batch) /\ batch \in SUBSET Nat
    BY <1>1, FinitePart
  <2>3. Max(batch) \in Followers
    BY <1>1, <1>5, <2>2, MaxOfSet
  <2> HIDE DEF batch
  <2>4. [at |-> "read", cursor |-> Max(batch), batch |-> {}]
          \in [at : {"idle", "read", "insert"}, cursor : Followers \cup {None}, batch : SUBSET Followers]
    BY <2>3
  <2>5. FanoutTypeOK'
    BY <1>3, <1>4, <2>1, <2>4 DEF FanoutInv, FanoutTypeOK
  <2>6. FanoutReaches'
    BY <1>3, <1>4, <1>5, <2>1 DEF FanoutInv, FanoutReaches
  <2>7. NoAudienceNoJob'
    BY <1>2 DEF NoAudienceNoJob
  <2>8. /\ worker'[w] = [at |-> "read", cursor |-> Max(batch), batch |-> {}]
        /\ \A v \in Workers \ {w} : worker'[v] = worker[v]
    BY <2>1 DEF FanoutInv, FanoutTypeOK
  <2>9. WorkerInv(w)'
    BY <1>3, <1>7, <2>8 DEF WorkerInv, PageInv
  <2> QED
    BY <1>3, <1>4, <1>5, <2>5, <2>6, <2>7, <2>8, <2>9, FanoutInvWorker
<1> QED
  BY <1>8, <1>9

LEMMA FailAttemptSafe ==
  ASSUME FanoutInv, NEW w \in Workers, FailAttempt(w)
  PROVE  FanoutInv'
<1>1. Idle \in [at : {"idle", "read", "insert"}, cursor : Followers \cup {None}, batch : SUBSET Followers]
  BY DEF Idle
<1>2. worker' \in [Workers -> [at : {"idle", "read", "insert"}, cursor : Followers \cup {None},
                               batch : SUBSET Followers]]
  BY <1>1 DEF FailAttempt, FanoutInv, FanoutTypeOK
<1>3. job' \in [at : {"none", "waiting", "active", "done", "failed"}, left : 1..JobTries,
                stalls : 0..1, owner : Workers \cup {None}]
  <2>1. job \in [at : {"none", "waiting", "active", "done", "failed"}, left : 1..JobTries,
                 stalls : 0..1, owner : Workers \cup {None}]
    BY DEF FanoutInv, FanoutTypeOK
  <2>2. \/ job' = job
        \/ job.left > 1 /\ job' = [job EXCEPT !.at = "waiting", !.left = @ - 1, !.owner = None]
        \/ job' = [job EXCEPT !.at = "failed", !.owner = None]
    BY DEF FailAttempt
  <2>3. JobTries \in Nat /\ job.left \in 1..JobTries /\ (job.left > 1 => job.left - 1 \in 1..JobTries)
    BY <2>1, FanoutAssumption
  <2> QED
    BY <2>1, <2>2, <2>3
<1>4. UNCHANGED <<accounts, follows, newPost, publish, audience, steady, reached>> /\ worker[w] # Idle
  BY DEF FailAttempt
<1>5. FanoutTypeOK'
  BY <1>2, <1>3, <1>4 DEF FanoutInv, FanoutTypeOK
<1>6. NotifiedOnce' /\ FanoutReaches'
  BY <1>4 DEF FanoutInv, NotifiedOnce, FanoutReaches
<1>7. NoAudienceNoJob'
  BY <1>4, SomeFollower DEF NoAudienceNoJob
<1>8. worker'[w] = Idle /\ \A v \in Workers \ {w} : worker'[v] = worker[v]
  BY DEF FailAttempt, FanoutInv, FanoutTypeOK
<1>9. WorkerInv(w)'
  BY <1>5, <1>8, WorkerInvIdle
<1> QED
  BY <1>4, <1>5, <1>6, <1>7, <1>8, <1>9, FanoutInvWorker

LEMMA StallSafe ==
  ASSUME FanoutInv, Stall
  PROVE  FanoutInv'
<1>1. Idle \in [at : {"idle", "read", "insert"}, cursor : Followers \cup {None}, batch : SUBSET Followers]
  BY DEF Idle
<1>2. worker' \in [Workers -> [at : {"idle", "read", "insert"}, cursor : Followers \cup {None},
                               batch : SUBSET Followers]]
  BY <1>1 DEF Stall, FanoutInv, FanoutTypeOK
<1>3. job' \in [at : {"none", "waiting", "active", "done", "failed"}, left : 1..JobTries,
                stalls : 0..1, owner : Workers \cup {None}]
  <2>1. job \in [at : {"none", "waiting", "active", "done", "failed"}, left : 1..JobTries,
                 stalls : 0..1, owner : Workers \cup {None}]
    BY DEF FanoutInv, FanoutTypeOK
  <2>2. \/ job.stalls > 0 /\ job' = [job EXCEPT !.at = "waiting", !.stalls = @ - 1, !.owner = None]
        \/ job' = [job EXCEPT !.at = "failed", !.owner = None]
    BY DEF Stall
  <2>3. job.stalls \in 0..1 /\ (job.stalls > 0 => job.stalls - 1 \in 0..1)
    BY <2>1
  <2> QED
    BY <2>1, <2>2, <2>3
<1>4. UNCHANGED <<accounts, follows, newPost, publish, audience, steady, reached>> /\ job.at # "none"
  BY DEF Stall
<1>5. FanoutTypeOK'
  BY <1>2, <1>3, <1>4 DEF FanoutInv, FanoutTypeOK
<1>6. NotifiedOnce' /\ FanoutReaches'
  BY <1>4 DEF FanoutInv, NotifiedOnce, FanoutReaches
<1>7. NoAudienceNoJob'
  BY <1>4, SomeFollower DEF NoAudienceNoJob
<1>8. \A w \in Workers : worker'[w] = Idle \/ worker'[w] = worker[w]
  BY DEF Stall, FanoutInv, FanoutTypeOK
<1>9. \A w \in Workers : WorkerInv(w)'
  BY <1>4, <1>5, <1>8, WorkerInvIdle, WorkerInvKept
<1> QED
  BY <1>5, <1>6, <1>7, <1>9 DEF FanoutInv

LEMMA FollowersChangeSafe ==
  ASSUME FanoutInv, NEW u \in Followers, FollowAuthor(u) \/ UnfollowAuthor(u) \/ DeleteFollower(u)
  PROVE  FanoutInv'
<1>1. steady' \subseteq steady /\ UNCHANGED <<worker, reached, job>>
  BY DEF FollowAuthor, UnfollowAuthor, DeleteFollower
<1>2. FanoutTypeOK'
  BY DEF FollowAuthor, UnfollowAuthor, DeleteFollower, FanoutInv, FanoutTypeOK
<1>3. NoAudienceNoJob'
  BY <1>1 DEF FanoutInv, NoAudienceNoJob
<1>4. NotifiedOnce'
  BY DEF FollowAuthor, UnfollowAuthor, DeleteFollower, FanoutInv, FanoutTypeOK, NotifiedOnce
<1>5. steady \subseteq Followers
  BY DEF FanoutInv, FanoutTypeOK
<1>6. \A v \in steady' : newPost[v] = 1 => newPost'[v] = 1
  BY <1>5 DEF FollowAuthor, UnfollowAuthor, DeleteFollower, FanoutInv, FanoutTypeOK
<1> QED
  BY <1>1, <1>2, <1>3, <1>4, <1>6, FanoutInvAround

LEMMA FanoutInvStep == FanoutInv /\ [FanoutNext]_fanoutVars => FanoutInv'
<1> SUFFICES ASSUME FanoutInv, [FanoutNext]_fanoutVars
             PROVE  FanoutInv'
  OBVIOUS
<1>1. CASE CountFollowers
  BY <1>1, CountFollowersSafe
<1>2. CASE ListFollowers \/ GiveUpFanout
  BY <1>2, ListFollowersSafe
<1>3. CASE InsertAtOnce
  BY <1>3, InsertAtOnceSafe
<1>4. CASE Stall
  BY <1>4, StallSafe
<1>5. ASSUME NEW w \in Workers, TakeJob(w) \/ WorkerStep(w)
      PROVE  FanoutInv'
  BY <1>5, TakeJobSafe, ReadFollowersSafe, InsertPageSafe, FailAttemptSafe DEF WorkerStep
<1>6. ASSUME NEW u \in Followers, FollowAuthor(u) \/ UnfollowAuthor(u) \/ DeleteFollower(u)
      PROVE  FanoutInv'
  BY <1>6, FollowersChangeSafe
<1>7. CASE UNCHANGED fanoutVars
  <2>1. FanoutTypeOK' /\ NotifiedOnce' /\ NoAudienceNoJob'
    BY <1>7 DEF fanoutVars, FanoutInv, FanoutTypeOK, NotifiedOnce, NoAudienceNoJob
  <2> QED
    BY <1>7, <2>1, FanoutInvAround DEF fanoutVars
<1> QED
  BY <1>1, <1>2, <1>3, <1>4, <1>5, <1>6, <1>7 DEF FanoutNext

LEMMA FanoutInvariant == FanoutSpec => []FanoutInv
BY FanoutInvInit, FanoutInvStep, PTL DEF FanoutSpec

\* What the fan-out holds keeps its type: an attempt is never counted below one,
\* and the cursor of a worker is a follower's id.
THEOREM FanoutTypeCorrect == FanoutSpec => []FanoutTypeOK
<1>1. FanoutInv => FanoutTypeOK
  BY DEF FanoutInv
<1> QED
  BY <1>1, FanoutInvariant, PTL

\* Nobody is notified of a post twice, however often the job is retried or run
\* by two workers at once.
THEOREM FanoutNotifiesOnce == FanoutSpec => []NotifiedOnce
<1>1. FanoutInv => NotifiedOnce
  BY DEF FanoutInv
<1> QED
  BY <1>1, FanoutInvariant, PTL

\* A job that completed has notified all who followed throughout, up to where a
\* vanished cursor row ended its walk.
THEOREM FanoutCoversSteady == FanoutSpec => []FanoutReaches
<1>1. FanoutInv => FanoutReaches
  BY DEF FanoutInv
<1> QED
  BY <1>1, FanoutInvariant, PTL

-----------------------------------------------------------------------------
(* The event streams.  The stream of a tab is a connection of its own,     *)
(* which its instance listens to, and each instance counts what listens.   *)

ConnState == [tab : Tabs, inst : Instances] \cup {NoConn}
TabState ==
  [on : BOOLEAN, list : {"none", "asked", "sent", "done"},
   answer : SUBSET Events, shown : SUBSET Events,
   stream : {"off", "connecting", "open", "waiting", "stopped"},
   via : Conns \cup {NoStream}, attempts : 0..(MaxAttempts + 1)]

ServerTypes ==
  /\ stored \subseteq Events
  /\ pushing \subseteq Events \X Instances
  /\ subscribed \subseteq Instances
  /\ attached \in [Instances -> SUBSET Conns]
  /\ conn \in [Conns -> ConnState]
  /\ wire \in [Conns -> Seq(Events)]

InstanceInv(i) ==
  /\ attached[i] = {c \in Conns : conn[c] # NoConn /\ conn[c].inst = i}
  /\ refs[i] = Cardinality(attached[i])

ShownOrComing(t) ==
  due[t] \subseteq tab[t].shown \cup
    (IF tab[t].via = NoStream THEN {} ELSE ToSet(wire[tab[t].via]))

TabInv(t) ==
  /\ tab[t] \in TabState
  /\ due[t] \subseteq Events
  /\ tab[t].via # NoStream <=> tab[t].stream = "open"
  /\ tab[t].via # NoStream => conn[tab[t].via] # NoConn /\ conn[tab[t].via].tab = t
  /\ tab[t].list # "done" => due[t] = {}
  /\ ~tab[t].on => tab[t].list = "none"
  /\ tab[t].stream # "stopped" => tab[t].attempts <= MaxAttempts
  /\ ShownOrComing(t)

InboxInv ==
  /\ ServerTypes
  /\ DOMAIN refs = Instances /\ refs = [i \in Instances |-> refs[i]]
  /\ tab = [t \in Tabs |-> tab[t]]
  /\ due = [t \in Tabs |-> due[t]]
  /\ \A i \in Instances : InstanceInv(i)
  /\ \A t \in Tabs : TabInv(t)

LEMMA ToSetGrows ==
  ASSUME NEW S, NEW s \in Seq(S), NEW e \in S
  PROVE  ToSet(s) \subseteq ToSet(Append(s, e)) /\ e \in ToSet(Append(s, e))
BY DEF ToSet

LEMMA ToSetConcat ==
  ASSUME NEW S, NEW r \in Seq(S), NEW s \in Seq(S)
  PROVE  ToSet(r) \subseteq ToSet(r \o s) /\ ToSet(s) \subseteq ToSet(r \o s)
<1>1. Range(r \o s) = Range(r) \cup Range(s)
  BY RangeConcatenation
<1>2. ToSet(r \o s) = Range(r \o s) /\ ToSet(r) = Range(r) /\ ToSet(s) = Range(s)
  BY DEF ToSet, Range
<1> QED
  BY <1>1, <1>2

LEMMA ToSetShrinks ==
  ASSUME NEW S, NEW s \in Seq(S), s # <<>>
  PROVE  ToSet(s) \subseteq {Head(s)} \cup ToSet(Tail(s)) /\ Head(s) \in S /\ Tail(s) \in Seq(S)
<1>1. Head(s) \in S /\ Tail(s) \in Seq(S) /\ Len(Tail(s)) = Len(s) - 1 /\ Head(s) = s[1]
  OBVIOUS
<1>2. ASSUME NEW i \in 1..Len(s), i # 1
      PROVE  i - 1 \in 1..Len(Tail(s)) /\ Tail(s)[i - 1] = s[i]
  BY <1>2
<1>3. ASSUME NEW i \in 1..Len(s)
      PROVE  s[i] \in {Head(s)} \cup ToSet(Tail(s))
  <2>1. CASE i = 1
    BY <1>1, <2>1
  <2>2. CASE i # 1
    <3>1. i - 1 \in DOMAIN Tail(s)
      BY <1>1, <1>2, <2>2
    <3> QED
      BY <1>2, <2>2, <3>1 DEF ToSet
  <2> QED
    BY <2>1, <2>2
<1>4. DOMAIN s = 1..Len(s)
  OBVIOUS
<1>5. ToSet(s) \subseteq {Head(s)} \cup ToSet(Tail(s))
  BY <1>3, <1>4 DEF ToSet
<1> QED
  BY <1>1, <1>5

LEMMA ToSetWithin ==
  ASSUME NEW S, NEW s \in Seq(S)
  PROVE  ToSet(s) \subseteq S
BY DEF ToSet

\* The invariant contains what the runs check.
LEMMA InboxInvImplies == InboxInv => InboxTypeOK /\ LiveDelivery
<1> SUFFICES ASSUME InboxInv PROVE InboxTypeOK /\ LiveDelivery
  OBVIOUS
<1>1. refs \in [Instances -> 0..Cardinality(Conns)]
  <2>1. ASSUME NEW i \in Instances PROVE refs[i] \in 0..Cardinality(Conns)
    <3>1. attached[i] \in SUBSET Conns /\ refs[i] = Cardinality(attached[i])
      BY DEF InboxInv, ServerTypes, InstanceInv
    <3> QED
      BY <3>1, InboxAssumption, FS_Subset, FS_CardinalityType
  <2> QED
    BY <2>1 DEF InboxInv
<1>2. \A c \in Conns : ToSet(wire[c]) \subseteq Events
  BY ToSetWithin DEF InboxInv, ServerTypes
<1>3. tab \in [Tabs -> TabState] /\ due \in [Tabs -> SUBSET Events]
  BY DEF InboxInv, TabInv
<1>4. LiveDelivery
  BY DEF InboxInv, TabInv, ShownOrComing, LiveDelivery
<1> QED
  BY <1>1, <1>2, <1>3, <1>4 DEF InboxInv, InboxTypeOK, ServerTypes, TabState, ConnState

LEMMA InboxInvInit == InboxInit => InboxInv
<1> SUFFICES ASSUME InboxInit PROVE InboxInv
  OBVIOUS
<1> USE DEF InboxInit
<1>1. ServerTypes
  BY DEF ServerTypes, ConnState
<1>2. \A i \in Instances : InstanceInv(i)
  BY FS_EmptySet DEF InstanceInv
<1>3. \A t \in Tabs : TabInv(t)
  BY InboxAssumption DEF TabInv, TabState, ClosedTab, NoStream, ShownOrComing
<1> QED
  BY <1>1, <1>2, <1>3 DEF InboxInv

\* A tab that is left alone keeps its part of the invariant while its wire grows.
LEMMA TabInvKept ==
  ASSUME InboxInv, NEW t \in Tabs, tab'[t] = tab[t], due'[t] = due[t],
         tab[t].via # NoStream =>
           conn'[tab[t].via] = conn[tab[t].via]
           /\ ToSet(wire[tab[t].via]) \subseteq ToSet(wire'[tab[t].via])
  PROVE  TabInv(t)'
<1>1. TabInv(t)
  BY DEF InboxInv
<1>2. ShownOrComing(t)'
  BY <1>1 DEF TabInv, ShownOrComing
<1> QED
  BY <1>1, <1>2 DEF TabInv

\* What is left to show of a step that touches only the tab t.
LEMMA InboxInvTab ==
  ASSUME InboxInv, NEW t \in Tabs, UNCHANGED <<stored, pushing, serverVars>>,
         wire' \in [Conns -> Seq(Events)],
         \A c \in Conns : conn[c] # NoConn /\ conn[c].tab # t => wire'[c] = wire[c],
         NEW r, tab' = [tab EXCEPT ![t] = r],
         NEW D, due' = [due EXCEPT ![t] = D],
         TabInv(t)'
  PROVE  InboxInv'
<1>1. ServerTypes'
  BY DEF serverVars, InboxInv, ServerTypes
<1>2. /\ DOMAIN refs' = Instances /\ refs' = [i \in Instances |-> refs'[i]]
      /\ \A i \in Instances : InstanceInv(i)'
  BY DEF serverVars, InboxInv, InstanceInv
<1>3. /\ tab' = [u \in Tabs |-> tab'[u]] /\ due' = [u \in Tabs |-> due'[u]]
      /\ \A u \in Tabs \ {t} : tab'[u] = tab[u] /\ due'[u] = due[u]
  BY DEF InboxInv
<1>4. ASSUME NEW u \in Tabs \ {t}
      PROVE  TabInv(u)'
  <2>1. TabInv(u)
    BY DEF InboxInv
  <2>2. tab[u].via # NoStream => tab[u].via \in Conns /\ wire'[tab[u].via] = wire[tab[u].via]
    BY <2>1 DEF TabInv, TabState
  <2>3. conn' = conn
    BY DEF serverVars
  <2> QED
    BY <1>3, <2>2, <2>3, TabInvKept
<1> QED
  BY <1>1, <1>2, <1>3, <1>4 DEF InboxInv

\* The steps of a tab that do not touch its connection.
LEMMA TabAlone ==
  ASSUME InboxInv, NEW t \in Tabs, UNCHANGED <<stored, pushing, serverVars, wire>>,
         NEW r \in TabState, tab' = [tab EXCEPT ![t] = r],
         NEW D \in SUBSET Events, due' = [due EXCEPT ![t] = D],
         r.via \in {tab[t].via, NoStream}, r.via # NoStream <=> r.stream = "open",
         r.list # "done" => D = {},
         ~r.on => r.list = "none",
         r.stream # "stopped" => r.attempts <= MaxAttempts,
         D \subseteq r.shown
           \cup (IF r.via = NoStream THEN {} ELSE ToSet(wire[r.via]))
  PROVE  InboxInv'
<1>1. tab'[t] = r /\ due'[t] = D /\ wire' = wire /\ conn' = conn
  BY DEF InboxInv, serverVars
<1>2. TabInv(t)
  BY DEF InboxInv
<1>3. TabInv(t)'
  BY <1>1, <1>2 DEF TabInv, ShownOrComing
<1>4. wire' \in [Conns -> Seq(Events)]
  BY <1>1 DEF InboxInv, ServerTypes
<1> QED
  BY <1>1, <1>3, <1>4, InboxInvTab

\* An error ends the stream of a tab that had one, or was connecting.
LEMMA AfterErrorOK ==
  ASSUME NEW r \in TabState, r.stream \in {"connecting", "open"}, r.attempts <= MaxAttempts
  PROVE  LET e == AfterError(r)
         IN /\ e \in TabState /\ e.via = NoStream /\ e.stream \in {"waiting", "stopped"}
            /\ e.list = r.list /\ e.on = r.on /\ e.shown = r.shown
            /\ e.stream # "stopped" => e.attempts <= MaxAttempts
<1>1. r.attempts \in Nat /\ r.attempts + 1 \in 0..(MaxAttempts + 1)
  BY InboxAssumption DEF TabState
<1> DEFINE e == AfterError(r)
<1>2. /\ DOMAIN r = {"on", "list", "answer", "shown", "stream", "via", "attempts"}
      /\ r.on \in BOOLEAN /\ r.list \in {"none", "asked", "sent", "done"}
      /\ r.answer \in SUBSET Events /\ r.shown \in SUBSET Events
  BY DEF TabState
<1>3. e = [on |-> r.on, list |-> r.list, answer |-> r.answer, shown |-> r.shown,
           stream |-> IF r.attempts + 1 > MaxAttempts THEN "stopped" ELSE "waiting",
           via |-> NoStream, attempts |-> r.attempts + 1]
  <2>1. DOMAIN e = DOMAIN r
    BY DEF AfterError
  <2>2. /\ e.on = r.on /\ e.list = r.list /\ e.answer = r.answer /\ e.shown = r.shown
        /\ e.via = NoStream /\ e.attempts = r.attempts + 1
        /\ e.stream = IF r.attempts + 1 > MaxAttempts THEN "stopped" ELSE "waiting"
    BY <1>2 DEF AfterError
  <2>3. e = [f \in DOMAIN e |-> e[f]]
    BY DEF AfterError
  <2> HIDE DEF e
  <2> QED
    BY <1>2, <2>1, <2>2, <2>3
<1>4. e \in TabState
  BY <1>1, <1>2, <1>3 DEF TabState
<1>5. e.stream # "stopped" => e.attempts <= MaxAttempts
  BY <1>1, <1>3, InboxAssumption
<1> QED
  BY <1>3, <1>4, <1>5

LEMMA TabStepsSafe ==
  ASSUME InboxInv, NEW t \in Tabs,
         OpenTab(t) \/ CloseTab(t) \/ ReadList(t) \/ ListArrives(t) \/ ListFails(t)
           \/ StreamFails(t) \/ RetryTimer(t)
  PROVE  InboxInv'
<1>1. TabInv(t) /\ tab[t] \in TabState /\ due[t] \in SUBSET Events /\ stored \in SUBSET Events
  BY DEF InboxInv, TabInv, ServerTypes
<1>2. due = [due EXCEPT ![t] = due[t]] /\ MaxAttempts \in Nat
  BY InboxAssumption DEF InboxInv
<1>3. ASSUME OpenTab(t) PROVE InboxInv'
  <2> DEFINE r == [ClosedTab EXCEPT !.on = TRUE, !.list = "asked", !.stream = "connecting"]
  <2>1. /\ tab' = [tab EXCEPT ![t] = r] /\ due' = [due EXCEPT ![t] = due[t]]
        /\ UNCHANGED <<stored, pushing, serverVars, wire>> /\ due[t] = {}
    BY <1>1, <1>2, <1>3 DEF OpenTab, TabInv
  <2>a. r = [on |-> TRUE, list |-> "asked", answer |-> {}, shown |-> {},
             stream |-> "connecting", via |-> NoStream, attempts |-> 0]
    <3>1. DOMAIN r = {"on", "list", "answer", "shown", "stream", "via", "attempts"}
      BY DEF ClosedTab
    <3>2. /\ r.on = TRUE /\ r.list = "asked" /\ r.answer = {} /\ r.shown = {}
          /\ r.stream = "connecting" /\ r.via = NoStream /\ r.attempts = 0
      BY DEF ClosedTab
    <3>3. r = [f \in DOMAIN r |-> r[f]]
      OBVIOUS
    <3> HIDE DEF r
    <3> QED
      BY <3>1, <3>2, <3>3
  <2> HIDE DEF r
  <2>b. r \in TabState
    BY <1>2, <2>a DEF TabState
  <2>c. r.on
    BY <2>a
  <2>d. r.via = NoStream /\ r.stream = "connecting" /\ r.attempts <= MaxAttempts
    BY <1>2, <2>a
  <2>2. /\ r \in TabState /\ r.via = NoStream /\ r.stream = "connecting" /\ r.on
        /\ r.attempts <= MaxAttempts
    BY <2>b, <2>c, <2>d
  <2> HIDE DEF r
  <2> QED
    BY <1>1, <1>2, <2>1, <2>2, TabAlone
<1>4. ASSUME CloseTab(t) PROVE InboxInv'
  <2>1. /\ tab' = [tab EXCEPT ![t] = ClosedTab] /\ due' = [due EXCEPT ![t] = {}]
        /\ UNCHANGED <<stored, pushing, serverVars, wire>>
    BY <1>4 DEF CloseTab
  <2>2. /\ ClosedTab \in TabState /\ ClosedTab.via = NoStream /\ ClosedTab.stream = "off"
        /\ ClosedTab.list = "none" /\ ClosedTab.attempts <= MaxAttempts
    BY <1>2 DEF ClosedTab, TabState, NoStream
  <2>3. {} \in SUBSET Events
    OBVIOUS
  <2> QED
    BY <2>1, <2>2, <2>3, TabAlone
<1>5. ASSUME ReadList(t) PROVE InboxInv'
  <2> DEFINE r == [tab[t] EXCEPT !.list = "sent", !.answer = stored]
  <2>1. /\ tab' = [tab EXCEPT ![t] = r] /\ due' = [due EXCEPT ![t] = due[t]]
        /\ UNCHANGED <<stored, pushing, serverVars, wire>> /\ due[t] = {} /\ tab[t].on
    BY <1>1, <1>2, <1>5 DEF ReadList, TabInv, InboxInv
  <2>2. /\ r \in TabState /\ r.via = tab[t].via /\ r.stream = tab[t].stream /\ r.on = tab[t].on
        /\ r.attempts = tab[t].attempts /\ r.list = "sent"
    BY <1>1 DEF TabState
  <2> HIDE DEF r
  <2> QED
    BY <1>1, <2>1, <2>2, TabAlone DEF TabInv
<1>6. ASSUME ListArrives(t) PROVE InboxInv'
  <2> DEFINE r == [tab[t] EXCEPT !.list = "done", !.shown = tab[t].answer, !.answer = {}]
  <2>1. /\ tab' = [tab EXCEPT ![t] = r] /\ due' = [due EXCEPT ![t] = due[t]]
        /\ UNCHANGED <<stored, pushing, serverVars, wire>> /\ due[t] = {} /\ tab[t].on
    BY <1>1, <1>2, <1>6 DEF ListArrives, TabInv, InboxInv
  <2>2. /\ r \in TabState /\ r.via = tab[t].via /\ r.stream = tab[t].stream /\ r.on = tab[t].on
        /\ r.attempts = tab[t].attempts /\ r.list = "done"
    BY <1>1 DEF TabState
  <2> HIDE DEF r
  <2> QED
    BY <1>1, <2>1, <2>2, TabAlone DEF TabInv
<1>7. ASSUME ListFails(t) PROVE InboxInv'
  <2> DEFINE r == [tab[t] EXCEPT !.list = "done", !.answer = {}]
  <2>1. /\ tab' = [tab EXCEPT ![t] = r] /\ due' = [due EXCEPT ![t] = due[t]]
        /\ UNCHANGED <<stored, pushing, serverVars, wire>> /\ due[t] = {} /\ tab[t].on
    BY <1>1, <1>2, <1>7 DEF ListFails, TabInv, InboxInv
  <2>2. /\ r \in TabState /\ r.via = tab[t].via /\ r.stream = tab[t].stream /\ r.on = tab[t].on
        /\ r.attempts = tab[t].attempts /\ r.list = "done"
    BY <1>1 DEF TabState
  <2> HIDE DEF r
  <2> QED
    BY <1>1, <2>1, <2>2, TabAlone DEF TabInv
<1>8. ASSUME StreamFails(t) PROVE InboxInv'
  <2> DEFINE r == AfterError(tab[t])
             D == due[t] \cap tab[t].shown
  <2>1. /\ tab' = [tab EXCEPT ![t] = r] /\ due' = [due EXCEPT ![t] = D]
        /\ UNCHANGED <<stored, pushing, serverVars, wire>>
    BY <1>8 DEF StreamFails, InboxInv
  <2>2. tab[t].stream \in {"connecting", "open"} /\ tab[t].attempts <= MaxAttempts
    BY <1>1, <1>8 DEF StreamFails, TabInv
  <2>3. /\ r \in TabState /\ r.via = NoStream /\ r.stream \in {"waiting", "stopped"}
        /\ r.list = tab[t].list /\ r.on = tab[t].on /\ r.shown = tab[t].shown
        /\ r.stream # "stopped" => r.attempts <= MaxAttempts
    BY <1>1, <2>2, AfterErrorOK
  <2>4. D \in SUBSET Events /\ D \subseteq r.shown /\ (r.list # "done" => D = {})
    BY <1>1, <2>3 DEF TabInv
  <2> HIDE DEF r, D
  <2> QED
    BY <1>1, <2>1, <2>3, <2>4, TabAlone DEF TabInv
<1>9. ASSUME RetryTimer(t) PROVE InboxInv'
  <2> DEFINE r == [tab[t] EXCEPT !.stream = "connecting"]
  <2>1. /\ tab' = [tab EXCEPT ![t] = r] /\ due' = [due EXCEPT ![t] = due[t]]
        /\ UNCHANGED <<stored, pushing, serverVars, wire>> /\ tab[t].stream = "waiting"
    BY <1>2, <1>9 DEF RetryTimer, InboxInv
  <2>2. /\ r \in TabState /\ r.via = tab[t].via /\ r.stream = "connecting" /\ r.on = tab[t].on
        /\ r.attempts = tab[t].attempts /\ r.list = tab[t].list /\ r.shown = tab[t].shown
    BY <1>1 DEF TabState
  <2>3. r.via = NoStream /\ r.attempts <= MaxAttempts
    BY <1>1, <2>1, <2>2 DEF TabInv
  <2>4. due[t] \subseteq r.shown
    BY <1>1, <2>2, <2>3 DEF TabInv, ShownOrComing
  <2> HIDE DEF r
  <2> QED
    BY <1>1, <2>1, <2>2, <2>3, <2>4, TabAlone DEF TabInv
<1> QED
  BY <1>3, <1>4, <1>5, <1>6, <1>7, <1>8, <1>9

\* What is left to show of a step that leaves the tabs and what they are due alone.
LEMMA InboxInvQuiet ==
  ASSUME InboxInv, ServerTypes', UNCHANGED <<refs, attached, conn, wire, tab, due>>
  PROVE  InboxInv'
<1>1. \A t \in Tabs : TabInv(t)'
  BY TabInvKept
<1>2. \A i \in Instances : InstanceInv(i)'
  BY DEF InboxInv, InstanceInv
<1> QED
  BY <1>1, <1>2 DEF InboxInv

\* The tabs an event is meant for have it on their wires.
LEMMA PushSafe ==
  ASSUME InboxInv, NEW e \in Events, NEW insts \in SUBSET Instances, Told(e, insts),
         UNCHANGED <<stored, serverVars, tab>>, pushing' \subseteq pushing,
         wire' \in [Conns -> Seq(Events)],
         \A c \in Conns : ToSet(wire[c]) \subseteq ToSet(wire'[c]),
         \A i \in insts : \A c \in attached[i] : e \in ToSet(wire'[c])
  PROVE  InboxInv'
<1>1. ServerTypes'
  BY DEF serverVars, InboxInv, ServerTypes
<1>2. UNCHANGED <<refs, attached, conn, tab>>
  BY DEF serverVars
<1>3. \A i \in Instances : InstanceInv(i)'
  BY <1>2 DEF InboxInv, InstanceInv
<1>4. due' = [t \in Tabs |-> due'[t]]
  BY DEF Told
<1>5. ASSUME NEW t \in Tabs
      PROVE  TabInv(t)'
  <2>1. TabInv(t)
    BY DEF InboxInv
  <2>2. tab[t].via # NoStream => tab[t].via \in Conns
    BY <2>1 DEF TabInv, TabState
  <2>3. CASE due'[t] = due[t]
    BY <1>2, <2>2, <2>3, TabInvKept
  <2>4. CASE due'[t] # due[t]
    <3>1. /\ tab[t].list = "done" /\ tab[t].stream = "open" /\ conn[tab[t].via].inst \in insts
          /\ due'[t] = due[t] \cup {e}
      BY <2>4 DEF Told
    <3>2. tab[t].via # NoStream /\ tab[t].via \in Conns
      BY <2>1, <2>2, <3>1 DEF TabInv
    <3>3. conn[tab[t].via] # NoConn
      BY <2>1, <3>2 DEF TabInv
    <3>4. tab[t].via \in attached[conn[tab[t].via].inst]
      BY <3>1, <3>2, <3>3 DEF InboxInv, InstanceInv
    <3>5. e \in ToSet(wire'[tab[t].via]) /\ ToSet(wire[tab[t].via]) \subseteq ToSet(wire'[tab[t].via])
      BY <3>1, <3>2, <3>4
    <3>6. ShownOrComing(t)'
      BY <1>2, <2>1, <3>1, <3>2, <3>5 DEF TabInv, ShownOrComing
    <3> QED
      BY <1>2, <2>1, <3>1, <3>6 DEF TabInv
  <2> QED
    BY <2>3, <2>4
<1> QED
  BY <1>1, <1>2, <1>3, <1>4, <1>5 DEF InboxInv

LEMMA NotificationStepsSafe ==
  ASSUME InboxInv, NEW e \in Events, NEW i \in Instances,
         StoreNotification(e, i) \/ PushToStream(e, i) \/ PushTwice(e, i) \/ PushLost(e, i)
  PROVE  InboxInv'
<1>0. /\ subscribed \in SUBSET Instances /\ {i} \in SUBSET Instances
      /\ wire \in [Conns -> Seq(Events)] /\ attached \in [Instances -> SUBSET Conns]
  BY DEF InboxInv, ServerTypes
<1>1. CASE StoreNotification(e, i) \/ PushLost(e, i)
  <2>1. ServerTypes'
    BY <1>1 DEF StoreNotification, PushLost, serverVars, InboxInv, ServerTypes
  <2> QED
    BY <1>1, <2>1, InboxInvQuiet DEF StoreNotification, PushLost, serverVars
<1>2. CASE PushToStream(e, i)
  <2>1. PICK insts \in {subscribed, {i}} : Send(e, insts) /\ Told(e, insts)
    BY <1>2 DEF PushToStream
  <2>2. insts \in SUBSET Instances
    BY <1>0, <2>1
  <2>3. /\ wire' = [c \in Conns |-> wire'[c]]
        /\ \A c \in Conns : wire'[c] = Append(wire[c], e) \/ wire'[c] = wire[c]
        /\ \A j \in insts : \A c \in attached[j] : c \in Conns /\ wire'[c] = Append(wire[c], e)
    BY <1>0, <2>1, <2>2 DEF Send
  <2>4. \A c \in Conns : /\ wire[c] \in Seq(Events) /\ Append(wire[c], e) \in Seq(Events)
                         /\ ToSet(wire[c]) \subseteq ToSet(Append(wire[c], e))
                         /\ e \in ToSet(Append(wire[c], e))
    BY <1>0, ToSetGrows
  <2>5. wire' \in [Conns -> Seq(Events)] /\ \A c \in Conns : ToSet(wire[c]) \subseteq ToSet(wire'[c])
    BY <2>3, <2>4
  <2>6. \A j \in insts : \A c \in attached[j] : e \in ToSet(wire'[c])
    BY <2>3, <2>4
  <2>7. UNCHANGED <<stored, serverVars, tab>> /\ pushing' \subseteq pushing
    BY <1>2 DEF PushToStream
  <2> QED
    BY <2>1, <2>2, <2>5, <2>6, <2>7, PushSafe
<1>3. CASE PushTwice(e, i)
  <2> DEFINE insts == subscribed \cup {i}
             first(c) == IF \E j \in subscribed : c \in attached[j] THEN <<e>> ELSE <<>>
             second(c) == IF c \in attached[i] THEN <<e>> ELSE <<>>
  <2>1. insts \in SUBSET Instances /\ Told(e, insts)
    BY <1>0, <1>3 DEF PushTwice
  <2>2. wire' = [c \in Conns |-> wire[c] \o first(c) \o second(c)]
    BY <1>3 DEF PushTwice
  <2>3. ASSUME NEW c \in Conns
        PROVE  /\ wire'[c] \in Seq(Events) /\ ToSet(wire[c]) \subseteq ToSet(wire'[c])
               /\ \A j \in insts : c \in attached[j] => e \in ToSet(wire'[c])
    <3>1. wire[c] \in Seq(Events) /\ first(c) \in Seq(Events) /\ second(c) \in Seq(Events)
      BY <1>0
    <3>2. wire[c] \o first(c) \in Seq(Events) /\ wire[c] \o first(c) \o second(c) \in Seq(Events)
      BY <3>1
    <3>3. /\ ToSet(wire[c]) \subseteq ToSet(wire[c] \o first(c))
          /\ ToSet(first(c)) \subseteq ToSet(wire[c] \o first(c))
      BY <3>1, ToSetConcat
    <3>4. /\ ToSet(wire[c] \o first(c)) \subseteq ToSet(wire[c] \o first(c) \o second(c))
          /\ ToSet(second(c)) \subseteq ToSet(wire[c] \o first(c) \o second(c))
      BY <3>1, <3>2, ToSetConcat
    <3>5. e \in ToSet(<<e>>)
      BY DEF ToSet
    <3>6. \A j \in insts : c \in attached[j] => first(c) = <<e>> \/ second(c) = <<e>>
      OBVIOUS
    <3>7. wire'[c] = wire[c] \o first(c) \o second(c)
      BY <2>2
    <3> HIDE DEF first, second, insts
    <3> QED
      BY <3>2, <3>3, <3>4, <3>5, <3>6, <3>7
  <2>4. wire' \in [Conns -> Seq(Events)]
    BY <2>2, <2>3
  <2>5. UNCHANGED <<stored, serverVars, tab>> /\ pushing' \subseteq pushing
    BY <1>3 DEF PushTwice
  <2>6. \A j \in insts : \A c \in attached[j] : e \in ToSet(wire'[c])
    BY <1>0, <2>1, <2>3
  <2>7. \A c \in Conns : ToSet(wire[c]) \subseteq ToSet(wire'[c])
    BY <2>3
  <2> HIDE DEF insts
  <2> QED
    BY <2>1, <2>4, <2>5, <2>6, <2>7, PushSafe
<1> QED
  BY <1>1, <1>2, <1>3

LEMMA EventArrivesSafe ==
  ASSUME InboxInv, NEW t \in Tabs, EventArrives(t)
  PROVE  InboxInv'
<1> DEFINE via == tab[t].via
           e == Head(wire[via])
           r == [tab[t] EXCEPT !.shown = @ \cup {e}]
<1>1. TabInv(t) /\ wire \in [Conns -> Seq(Events)] /\ conn \in [Conns -> ConnState]
  BY DEF InboxInv, ServerTypes
<1>2. via # NoStream /\ via \in Conns /\ wire[via] # <<>> /\ tab[t] \in TabState
  BY <1>1 DEF EventArrives, TabInv, TabState
<1>3. conn[via].tab = t
  BY <1>1, <1>2 DEF TabInv
<1>4. /\ ToSet(wire[via]) \subseteq {e} \cup ToSet(Tail(wire[via]))
      /\ e \in Events /\ Tail(wire[via]) \in Seq(Events)
  BY <1>1, <1>2, ToSetShrinks
<1>5. /\ UNCHANGED <<stored, pushing, serverVars>>
      /\ tab' = [tab EXCEPT ![t] = r] /\ due' = [due EXCEPT ![t] = due[t]]
      /\ wire' = [wire EXCEPT ![via] = Tail(wire[via])]
  BY DEF EventArrives, InboxInv
<1>6. /\ r \in TabState /\ r.via = via /\ r.stream = tab[t].stream /\ r.on = tab[t].on
      /\ r.attempts = tab[t].attempts /\ r.list = tab[t].list /\ r.shown = tab[t].shown \cup {e}
  BY <1>2, <1>4 DEF TabState
<1> HIDE DEF via, e, r
<1>7. /\ wire' \in [Conns -> Seq(Events)] /\ wire'[via] = Tail(wire[via])
      /\ \A c \in Conns \ {via} : wire'[c] = wire[c]
  BY <1>1, <1>2, <1>4, <1>5
<1>8. tab'[t] = r /\ due'[t] = due[t] /\ conn' = conn
  BY <1>5 DEF InboxInv, serverVars
<1>9. due[t] \subseteq tab[t].shown \cup ToSet(wire[via])
  BY <1>1, <1>2 DEF TabInv, ShownOrComing, via
<1>10. ShownOrComing(t)'
  BY <1>2, <1>4, <1>6, <1>7, <1>8, <1>9 DEF ShownOrComing
<1>11. TabInv(t)'
  BY <1>1, <1>6, <1>8, <1>10 DEF TabInv, via
<1>12. \A c \in Conns : conn[c] # NoConn /\ conn[c].tab # t => wire'[c] = wire[c]
  BY <1>3, <1>7
<1> QED
  BY <1>5, <1>7, <1>11, <1>12, InboxInvTab

LEMMA CreateStreamSafe ==
  ASSUME InboxInv, NEW t \in Tabs, NEW c \in Conns, NEW i \in Instances, CreateStream(t, c, i)
  PROVE  InboxInv'
<1> DEFINE r == [tab[t] EXCEPT !.stream = "open", !.via = c, !.attempts = 0]
           new == [tab |-> t, inst |-> i]
<1>1. /\ conn \in [Conns -> ConnState] /\ attached \in [Instances -> SUBSET Conns]
      /\ conn[c] = NoConn /\ TabInv(t) /\ tab[t] \in TabState
      /\ wire' = wire /\ due' = due
  BY DEF InboxInv, ServerTypes, TabInv, CreateStream
<1>2. new # NoConn /\ new \in ConnState /\ new.tab = t /\ new.inst = i
  BY InboxAssumption DEF NoConn, ConnState
<1>3. /\ conn' = [conn EXCEPT ![c] = new] /\ refs' = [refs EXCEPT ![i] = refs[i] + 1]
      /\ tab' = [tab EXCEPT ![t] = r]
      /\ attached' = [attached EXCEPT ![i] = IF refs[i] = 0 THEN {c} ELSE attached[i] \cup {c}]
  BY DEF CreateStream, InboxInv
<1>4. /\ r \in TabState /\ r.via = c /\ r.stream = "open" /\ r.on = tab[t].on
      /\ r.attempts = 0 /\ r.list = tab[t].list /\ r.shown = tab[t].shown
  <2>1. 0 \in 0..(MaxAttempts + 1) /\ c \in Conns \cup {NoStream}
    BY InboxAssumption
  <2>2. r \in TabState
    BY <1>1, <2>1 DEF TabState
  <2> QED
    BY <1>1, <2>2 DEF TabState
<1>5. c # NoStream /\ 0 <= MaxAttempts
  BY InboxAssumption DEF NoStream
<1> HIDE DEF r, new
<1>6. /\ IsFiniteSet(attached[i]) /\ refs[i] = Cardinality(attached[i]) /\ c \notin attached[i]
      /\ attached[i] \in SUBSET Conns
  BY <1>1, InboxAssumption, FS_Subset DEF InboxInv, InstanceInv
<1>7. attached'[i] = attached[i] \cup {c} /\ attached' \in [Instances -> SUBSET Conns]
  BY <1>1, <1>3, <1>6, FS_EmptySet
<1>8. refs'[i] = Cardinality(attached'[i])
  <2>1. Cardinality(attached[i] \cup {c}) = Cardinality(attached[i]) + 1
    BY <1>6, FS_AddElement
  <2> QED
    BY <1>3, <1>6, <1>7, <2>1 DEF InboxInv
<1>9. /\ conn' \in [Conns -> ConnState] /\ conn'[c] = new
      /\ \A d \in Conns \ {c} : conn'[d] = conn[d]
  BY <1>1, <1>2, <1>3
<1>10. ASSUME NEW j \in Instances
       PROVE  InstanceInv(j)'
  <2>1. attached[j] = {d \in Conns : conn[d] # NoConn /\ conn[d].inst = j} /\ refs[j] = Cardinality(attached[j])
    BY DEF InboxInv, InstanceInv
  <2>2. CASE j = i
    <3>1. \A d \in Conns : conn'[d] # NoConn /\ conn'[d].inst = i
                             <=> d = c \/ (conn[d] # NoConn /\ conn[d].inst = i)
      BY <1>1, <1>2, <1>9
    <3>2. attached'[i] = {d \in Conns : conn'[d] # NoConn /\ conn'[d].inst = i}
      BY <1>7, <2>1, <2>2, <3>1
    <3> QED
      BY <1>8, <2>2, <3>2 DEF InstanceInv
  <2>3. CASE j # i
    <3>1. attached'[j] = attached[j] /\ refs'[j] = refs[j]
      BY <1>1, <1>3, <2>3 DEF InboxInv
    <3> QED
      BY <1>1, <1>2, <1>9, <2>1, <2>3, <3>1 DEF InstanceInv
  <2> QED
    BY <2>2, <2>3
<1>11. /\ tab' = [u \in Tabs |-> tab'[u]] /\ tab'[t] = r
       /\ \A u \in Tabs \ {t} : tab'[u] = tab[u]
  BY <1>3 DEF InboxInv
<1>12. ASSUME NEW u \in Tabs \ {t}
       PROVE  TabInv(u)'
  <2>1. tab[u].via # NoStream => tab[u].via \in Conns \ {c}
    BY <1>1 DEF InboxInv, TabInv, TabState
  <2> QED
    BY <1>1, <1>9, <1>11, <2>1, TabInvKept
<1>13. TabInv(t)'
  <2>1. due[t] \subseteq tab[t].shown
    BY <1>1 DEF TabInv, ShownOrComing, CreateStream
  <2>2. ShownOrComing(t)'
    BY <1>1, <1>4, <1>11, <2>1 DEF ShownOrComing
  <2> QED
    BY <1>1, <1>2, <1>4, <1>5, <1>9, <1>11, <2>2 DEF TabInv
<1>14. ServerTypes'
  BY <1>7, <1>9 DEF CreateStream, InboxInv, ServerTypes
<1>15. /\ DOMAIN refs' = Instances /\ refs' = [j \in Instances |-> refs'[j]]
       /\ due' = [u \in Tabs |-> due'[u]]
  BY <1>1, <1>3 DEF InboxInv
<1> QED
  BY <1>10, <1>11, <1>12, <1>13, <1>14, <1>15 DEF InboxInv

LEMMA FinalizeSafe ==
  ASSUME InboxInv, NEW c \in Conns, Finalize(c)
  PROVE  InboxInv'
<1> DEFINE i == conn[c].inst
<1>1. /\ conn \in [Conns -> ConnState] /\ attached \in [Instances -> SUBSET Conns]
      /\ wire \in [Conns -> Seq(Events)] /\ <<>> \in Seq(Events)
      /\ conn[c] # NoConn /\ tab' = tab /\ due' = due
  BY DEF InboxInv, ServerTypes, Finalize
<1>2. i \in Instances
  BY <1>1 DEF ConnState
<1>3. /\ conn' = [conn EXCEPT ![c] = NoConn] /\ wire' = [wire EXCEPT ![c] = <<>>]
      /\ refs' = [refs EXCEPT ![i] = IF refs[i] = 0 THEN 0 ELSE refs[i] - 1]
      /\ attached' = [attached EXCEPT ![i] = IF refs[i] <= 1 THEN {} ELSE attached[i] \ {c}]
  BY DEF Finalize, EndStream
<1> HIDE DEF i
<1>4. /\ attached[i] = {d \in Conns : conn[d] # NoConn /\ conn[d].inst = i}
      /\ refs[i] = Cardinality(attached[i])
  BY <1>2 DEF InboxInv, InstanceInv
<1>5. /\ IsFiniteSet(attached[i]) /\ c \in attached[i] /\ attached[i] \in SUBSET Conns
  BY <1>1, <1>2, <1>4, InboxAssumption, FS_Subset DEF i
<1>a. /\ Cardinality(attached[i] \ {c}) = Cardinality(attached[i]) - 1
      /\ IsFiniteSet(attached[i] \ {c})
  BY <1>5, FS_RemoveElement
<1>b. refs[i] \in Nat
  BY <1>4, <1>5, FS_CardinalityType
<1>6. /\ Cardinality(attached[i] \ {c}) = Cardinality(attached[i]) - 1
      /\ IsFiniteSet(attached[i] \ {c}) /\ refs[i] \in Nat
  BY <1>a, <1>b
<1>7. Cardinality(attached[i] \ {c}) \in Nat /\ (Cardinality(attached[i] \ {c}) = 0 <=> attached[i] \ {c} = {})
  BY <1>6, FS_CardinalityType, FS_EmptySet
<1>c. refs[i] >= 1 /\ (refs[i] <= 1 => attached[i] \ {c} = {})
  BY <1>4, <1>6, <1>7
<1>8. attached'[i] = attached[i] \ {c}
  BY <1>1, <1>2, <1>3, <1>c
<1>d. refs'[i] = refs[i] - 1
  BY <1>2, <1>3, <1>b, <1>c DEF InboxInv
<1>9. refs'[i] = Cardinality(attached'[i])
  BY <1>4, <1>6, <1>8, <1>d
<1>10. attached' \in [Instances -> SUBSET Conns]
  BY <1>1, <1>3, <1>5
<1>11. /\ conn' \in [Conns -> ConnState] /\ conn'[c] = NoConn
       /\ \A d \in Conns \ {c} : conn'[d] = conn[d]
  BY <1>1, <1>3 DEF ConnState
<1>12. wire' \in [Conns -> Seq(Events)] /\ \A d \in Conns \ {c} : wire'[d] = wire[d]
  BY <1>1, <1>3
<1>13. ASSUME NEW j \in Instances
       PROVE  InstanceInv(j)'
  <2>1. attached[j] = {d \in Conns : conn[d] # NoConn /\ conn[d].inst = j} /\ refs[j] = Cardinality(attached[j])
    BY DEF InboxInv, InstanceInv
  <2>2. CASE j = i
    BY <1>8, <1>9, <1>11, <2>1, <2>2 DEF InstanceInv
  <2>3. CASE j # i
    <3>1. attached'[j] = attached[j] /\ refs'[j] = refs[j]
      BY <1>1, <1>3, <2>3 DEF InboxInv
    <3> QED
      BY <1>11, <2>1, <2>3, <3>1 DEF InstanceInv, i
  <2> QED
    BY <2>2, <2>3
<1>14. ASSUME NEW t \in Tabs
       PROVE  TabInv(t)'
  <2>1. tab[t].via # c
    BY DEF Finalize
  <2>2. tab[t].via # NoStream => tab[t].via \in Conns \ {c}
    BY <2>1 DEF InboxInv, TabInv, TabState
  <2> QED
    BY <1>1, <1>11, <1>12, <2>2, TabInvKept
<1>15. ServerTypes'
  BY <1>10, <1>11, <1>12 DEF Finalize, InboxInv, ServerTypes
<1>16. DOMAIN refs' = Instances /\ refs' = [j \in Instances |-> refs'[j]]
  BY <1>3 DEF InboxInv
<1> QED
  BY <1>1, <1>13, <1>14, <1>15, <1>16 DEF InboxInv

LEMMA RestartSafe ==
  ASSUME InboxInv, NEW i \in Instances, Restart(i)
  PROVE  InboxInv'
<1> DEFINE gone == {c \in Conns : conn[c] # NoConn /\ conn[c].inst = i}
<1>1. /\ conn \in [Conns -> ConnState] /\ attached \in [Instances -> SUBSET Conns]
      /\ wire \in [Conns -> Seq(Events)] /\ NoStream \notin gone
  BY InboxAssumption DEF InboxInv, ServerTypes, NoStream
<1>2. /\ subscribed' \in {subscribed \ {i}, subscribed \cup {i}}
      /\ refs' = [refs EXCEPT ![i] = 0] /\ attached' = [attached EXCEPT ![i] = {}]
      /\ conn' = [c \in Conns |-> IF c \in gone THEN NoConn ELSE conn[c]]
      /\ wire' = [c \in Conns |-> IF c \in gone THEN <<>> ELSE wire[c]]
      /\ pushing' = {push \in pushing : push[2] # i}
      /\ tab' = [t \in Tabs |-> IF tab[t].via \in gone THEN AfterError(tab[t]) ELSE tab[t]]
      /\ due' = [t \in Tabs |-> IF tab[t].via \in gone THEN due[t] \cap tab[t].shown ELSE due[t]]
      /\ stored' = stored
  BY DEF Restart
<1>3. conn' \in [Conns -> ConnState] /\ attached' \in [Instances -> SUBSET Conns]
  BY <1>1, <1>2 DEF ConnState
<1>4. wire' \in [Conns -> Seq(Events)]
  BY <1>1, <1>2
<1>5. ServerTypes'
  BY <1>2, <1>3, <1>4 DEF InboxInv, ServerTypes
<1>6. ASSUME NEW j \in Instances
      PROVE  InstanceInv(j)'
  <2>1. attached[j] = {d \in Conns : conn[d] # NoConn /\ conn[d].inst = j} /\ refs[j] = Cardinality(attached[j])
    BY DEF InboxInv, InstanceInv
  <2>2. CASE j = i
    <3>1. attached'[j] = {} /\ refs'[j] = 0
      BY <1>1, <1>2, <2>2 DEF InboxInv
    <3>2. {d \in Conns : conn'[d] # NoConn /\ conn'[d].inst = j} = {}
      BY <1>2, <2>2
    <3> QED
      BY <3>1, <3>2, FS_EmptySet DEF InstanceInv
  <2>3. CASE j # i
    <3>1. attached'[j] = attached[j] /\ refs'[j] = refs[j]
      BY <1>1, <1>2, <2>3 DEF InboxInv
    <3>2. ASSUME NEW d \in Conns
          PROVE  conn'[d] # NoConn /\ conn'[d].inst = j <=> conn[d] # NoConn /\ conn[d].inst = j
      BY <1>2, <2>3
    <3> QED
      BY <2>1, <3>1, <3>2 DEF InstanceInv
  <2> QED
    BY <2>2, <2>3
<1>7. ASSUME NEW t \in Tabs
      PROVE  TabInv(t)'
  <2>1. TabInv(t) /\ tab[t] \in TabState
    BY DEF InboxInv, TabInv
  <2>2. CASE tab[t].via \in gone
    <3>1. tab'[t] = AfterError(tab[t]) /\ due'[t] = due[t] \cap tab[t].shown
      BY <1>2, <2>2
    <3>2. tab[t].stream = "open" /\ tab[t].attempts <= MaxAttempts
      BY <1>1, <2>1, <2>2 DEF TabInv
    <3> DEFINE r == AfterError(tab[t])
    <3>3. /\ r \in TabState /\ r.via = NoStream /\ r.stream \in {"waiting", "stopped"}
          /\ r.list = tab[t].list /\ r.on = tab[t].on /\ r.shown = tab[t].shown
          /\ r.stream # "stopped" => r.attempts <= MaxAttempts
      BY <2>1, <3>2, AfterErrorOK
    <3> HIDE DEF r
    <3>4. tab'[t] = r
      BY <3>1 DEF r
    <3>5. ShownOrComing(t)'
      BY <3>1, <3>3, <3>4 DEF ShownOrComing
    <3> QED
      BY <2>1, <3>1, <3>3, <3>4, <3>5 DEF TabInv
  <2>3. CASE tab[t].via \notin gone
    <3>1. tab'[t] = tab[t] /\ due'[t] = due[t]
      BY <1>2, <2>3
    <3>2. tab[t].via # NoStream => tab[t].via \in Conns \ gone
      BY <2>1, <2>3 DEF TabInv, TabState
    <3>3. \A c \in Conns \ gone : conn'[c] = conn[c] /\ wire'[c] = wire[c]
      BY <1>2
    <3> HIDE DEF gone
    <3> QED
      BY <3>1, <3>2, <3>3, TabInvKept
  <2> QED
    BY <2>2, <2>3
<1>8. /\ DOMAIN refs' = Instances /\ refs' = [j \in Instances |-> refs'[j]]
      /\ tab' = [t \in Tabs |-> tab'[t]] /\ due' = [t \in Tabs |-> due'[t]]
  BY <1>2 DEF InboxInv
<1> QED
  BY <1>5, <1>6, <1>7, <1>8 DEF InboxInv

LEMMA InboxInvStep == InboxInv /\ [InboxNext]_inboxVars => InboxInv'
<1> SUFFICES ASSUME InboxInv, [InboxNext]_inboxVars
             PROVE  InboxInv'
  OBVIOUS
<1>1. CASE UNCHANGED inboxVars
  <2>1. ServerTypes' /\ UNCHANGED <<refs, attached, conn, wire, tab, due>>
    BY <1>1 DEF inboxVars, InboxInv, ServerTypes
  <2> QED
    BY <2>1, InboxInvQuiet
<1>2. CASE InboxNext
  BY <1>2, NotificationStepsSafe, CreateStreamSafe, FinalizeSafe, TabStepsSafe, EventArrivesSafe,
     RestartSafe DEF InboxNext
<1> QED
  BY <1>1, <1>2

LEMMA InboxInvariant == InboxSpec => []InboxInv
BY InboxInvInit, InboxInvStep, PTL DEF InboxSpec

\* What the streams and the tabs hold keeps its type: the count of an instance
\* is never negative nor above the number of connections, and the attempts of a
\* tab stop at the limit.
THEOREM InboxTypeCorrect == InboxSpec => []InboxTypeOK
BY InboxInvImplies, InboxInvariant, PTL

\* A tab that has loaded its list loses nothing pushed to its open stream, and
\* keeps what it has shown, whatever other tabs of the user open, close or leave
\* behind on the server, and whichever instances restart.
THEOREM NothingDueIsLost == InboxSpec => []LiveDelivery
BY InboxInvImplies, InboxInvariant, PTL

-----------------------------------------------------------------------------
(* The lists a hidden post leaves, and the copies they are served from.    *)

ReaderState == [at : {"idle", "query", "set"}, has : BOOLEAN]
RefresherState == [refreshing : BOOLEAN, running : BOOLEAN, has : BOOLEAN]

LEMMA CachesTypeInit == CachesInit => CachesTypeOK
<1> SUFFICES ASSUME CachesInit PROVE CachesTypeOK
  OBVIOUS
<1>1. reader \in [ListReaders -> ReaderState]
  BY DEF CachesInit, Reading, ReaderState
<1>2. refresher \in [RefreshInstances -> RefresherState]
  BY DEF CachesInit, Resting, RefresherState
<1> QED
  BY <1>1, <1>2 DEF CachesInit, CachesTypeOK, ReaderState, RefresherState

LEMMA ServesTyped ==
  ASSUME CachesTypeOK
  PROVE  QueryHas \in BOOLEAN /\ Hidden \in BOOLEAN
<1>1. TrendingHas \in BOOLEAN /\ FeedHas \in BOOLEAN /\ Hidden \in BOOLEAN
  BY DEF CachesTypeOK, TrendingHas, FeedHas, Hidden
<1>2. QueryHas = TrendingHas \/ QueryHas = FeedHas
  BY DEF QueryHas
<1> QED
  BY <1>1, <1>2

\* A request keeps the entry one of three, and its own state typed.
LEMMA ReadersTyped ==
  ASSUME CachesTypeOK, NEW r \in ListReaders,
         CacheGet(r) \/ RunQuery(r) \/ CacheSet(r)
  PROVE  CachesTypeOK'
<1>1. CASE CacheGet(r)
  BY <1>1 DEF CachesTypeOK, CacheGet
<1>2. CASE RunQuery(r)
  BY <1>2, ServesTyped DEF CachesTypeOK, RunQuery
<1>3. CASE CacheSet(r)
  BY <1>3 DEF CachesTypeOK, CacheSet, Reading
<1> QED
  BY <1>1, <1>2, <1>3

LEMMA RefreshersTyped ==
  ASSUME CachesTypeOK, NEW i \in RefreshInstances,
         StartRefresh(i) \/ EndRefresh(i) \/ FailRefresh(i)
  PROVE  CachesTypeOK'
<1>1. CASE StartRefresh(i)
  BY <1>1 DEF CachesTypeOK, StartRefresh
<1>2. CASE EndRefresh(i)
  BY <1>2 DEF CachesTypeOK, EndRefresh, Resting
<1>3. CASE FailRefresh(i)
  BY <1>3 DEF CachesTypeOK, FailRefresh, Resting
<1> QED
  BY <1>1, <1>2, <1>3

LEMMA CachesTypeStep == CachesTypeOK /\ [CachesNext]_cachesVars => CachesTypeOK'
<1> SUFFICES ASSUME CachesTypeOK, [CachesNext]_cachesVars PROVE CachesTypeOK'
  OBVIOUS
<1>1. CASE EntryExpires
  BY <1>1 DEF CachesTypeOK, EntryExpires
<1>2. CASE RefreshLockExpires
  BY <1>2 DEF CachesTypeOK, RefreshLockExpires
<1>3. CASE Moderate
  BY <1>3 DEF CachesTypeOK, Moderate
<1>4. CASE UNCHANGED cachesVars
  BY <1>4 DEF CachesTypeOK, cachesVars
<1> QED
  BY <1>1, <1>2, <1>3, <1>4, ReadersTyped, RefreshersTyped DEF CachesNext

\* What a hidden post is served from, NoCopy and NoView rule out.
LEMMA AwayNotServed ==
  /\ CachesTypeOK /\ AwayRemoved => ~Serves
  /\ CachesTypeOK /\ AwayBanned => ~Serves
BY DEF CachesTypeOK, AwayRemoved, AwayBanned, NoCopy, NoView, Serves, QueryHas, TrendingHas, FeedHas, Hidden

\* A request that finds no post puts none into the entry.
LEMMA NoCopyStep ==
  ASSUME CachesTypeOK, NoCopy, ~QueryHas, [CachesNext]_cachesVars
  PROVE  NoCopy'
<1>1. ASSUME NEW r \in ListReaders, CacheGet(r)
      PROVE  NoCopy'
  BY <1>1 DEF CachesTypeOK, NoCopy, CacheGet
<1>2. ASSUME NEW r \in ListReaders, RunQuery(r)
      PROVE  NoCopy'
  BY <1>2 DEF CachesTypeOK, NoCopy, RunQuery
<1>3. ASSUME NEW r \in ListReaders, CacheSet(r)
      PROVE  NoCopy'
  BY <1>3 DEF CachesTypeOK, NoCopy, CacheSet, Reading
<1>4. CASE UNCHANGED reader /\ (entry' = "absent" \/ UNCHANGED entry)
  BY <1>4 DEF NoCopy
<1> QED
  BY <1>1, <1>2, <1>3, <1>4 DEF CachesNext, StartRefresh, EndRefresh, FailRefresh, EntryExpires, RefreshLockExpires,
     Moderate, cachesVars

\* A refresh that starts after the removal does not bring the post back.
LEMMA NoViewStep ==
  ASSUME CachesTypeOK, NoView, removed, [CachesNext]_cachesVars
  PROVE  NoView'
<1>1. ASSUME NEW i \in RefreshInstances, StartRefresh(i)
      PROVE  NoView'
  BY <1>1 DEF CachesTypeOK, NoView, StartRefresh
<1>2. ASSUME NEW i \in RefreshInstances, EndRefresh(i)
      PROVE  NoView'
  BY <1>2 DEF CachesTypeOK, NoView, EndRefresh, Resting
<1>3. ASSUME NEW i \in RefreshInstances, FailRefresh(i)
      PROVE  NoView'
  BY <1>3 DEF CachesTypeOK, NoView, FailRefresh, Resting
<1>4. CASE UNCHANGED <<list, view, refresher>>
  BY <1>4 DEF NoView
<1> QED
  BY <1>1, <1>2, <1>3, <1>4 DEF CachesNext, CacheGet, RunQuery, CacheSet, EntryExpires, RefreshLockExpires,
     Moderate, cachesVars

\* A post no copy has any more stays away as long as it stays hidden: only what was read
\* before the moderation can bring it back to a list, for any requests and refreshes.
THEOREM HiddenNeverReturns == CachesSpec => HiddenStaysAway
<1>1. ASSUME CachesTypeOK, [CachesNext]_cachesVars
      PROVE  /\ AwayRemoved /\ removed' => AwayRemoved' /\ ~Serves'
             /\ AwayBanned /\ banned' => AwayBanned' /\ ~Serves'
  <2>1. CachesTypeOK'
    BY <1>1, CachesTypeStep
  <2>2. AwayRemoved => ~QueryHas
    BY <1>1, AwayNotServed DEF Serves
  <2>3. AwayBanned => ~QueryHas
    BY <1>1, AwayNotServed DEF Serves
  <2>4. AwayRemoved /\ removed' => AwayRemoved'
    BY <1>1, <2>2, NoCopyStep, NoViewStep DEF AwayRemoved
  <2>5. AwayBanned /\ banned' => AwayBanned'
    BY <1>1, <2>3, NoCopyStep DEF AwayBanned
  <2>6. (AwayRemoved' => ~Serves') /\ (AwayBanned' => ~Serves')
    BY <2>1 DEF CachesTypeOK, AwayRemoved, AwayBanned, NoCopy, NoView, Serves, QueryHas, TrendingHas, FeedHas, Hidden
  <2> QED
    BY <2>4, <2>5, <2>6
<1> QED
  BY <1>1, CachesTypeInit, CachesTypeStep, PTL DEF CachesSpec, HiddenStaysAway

-----------------------------------------------------------------------------
(* The recount of a counter.  A request moves rows and counter alike, and  *)
(* deletions and recounts leave the counter at most |Items| too low.       *)

LEMMA FewOfOne ==
  ASSUME NEW o, NEW R \in SUBSET (Items \X {o})
  PROVE  IsFiniteSet(R) /\ Cardinality(R) \in 0..Cardinality(Items)
<1>1. IsFiniteSet({o}) /\ Cardinality({o}) = 1
  BY FS_Singleton
<1>2. /\ IsFiniteSet(Items \X {o})
      /\ Cardinality(Items \X {o}) = Cardinality(Items) * Cardinality({o})
  BY <1>1, ReconciliationAssumption, FS_Product
<1>3. Cardinality(Items) \in Nat
  BY ReconciliationAssumption, FS_CardinalityType
<1>4. IsFiniteSet(R) /\ Cardinality(R) \in Nat /\ Cardinality(R) <= Cardinality(Items \X {o})
  BY <1>2, FS_Subset, FS_CardinalityType
<1> QED
  BY <1>1, <1>2, <1>3, <1>4

\* The rows of an owner are at most one of each item, before a step and after it.
LEMMA FewRows ==
  ASSUME counted \subseteq Items \X Owners, NEW o \in Owners
  PROVE  IsFiniteSet(RowsCounted(o)) /\ RowsOf(o) \in 0..Cardinality(Items)
<1>1. RowsCounted(o) \in SUBSET (Items \X {o})
  BY DEF RowsCounted
<1> QED
  BY <1>1, FewOfOne DEF RowsOf

LEMMA FewRowsNext ==
  ASSUME counted' \subseteq Items \X Owners, NEW o \in Owners
  PROVE  RowsOf(o)' \in 0..Cardinality(Items)
<1>1. RowsCounted(o)' \in SUBSET (Items \X {o})
  BY DEF RowsCounted
<1> QED
  BY <1>1, FewOfOne DEF RowsOf

RecountState == [at : {"asleep", "count", "write", "none", "zero"},
                 found : SUBSET Owners, count : [Owners -> 0..Cardinality(Items)]]

\* The bounds of a counter.
Low == -Cardinality(Items)
High == Cardinality(Items) + MaxDrift

CounterTyped(o) ==
  /\ counter[o] \in Low..High
  /\ counter[o] >= RowsOf(o) - Cardinality(Items)

CountersTyped ==
  /\ counter = [o \in Owners |-> counter[o]]
  /\ \A o \in Owners : CounterTyped(o)

ReconciliationInv ==
  /\ counted \subseteq Items \X Owners
  /\ CountersTyped
  /\ settled \in BOOLEAN /\ reconcileLock \in BOOLEAN
  /\ recount \in [ReconcileInstances -> RecountState]

LEMMA ItemsFew == Cardinality(Items) \in Nat /\ MaxDrift \in Nat
BY ReconciliationAssumption, FS_CardinalityType

LEMMA ReconciliationTyped == ReconciliationInv => ReconciliationTypeOK
BY DEF ReconciliationInv, ReconciliationTypeOK, CountersTyped, CounterTyped, RecountState, Low, High

LEMMA AsleepTyped ==
  /\ Asleep \in RecountState
  /\ [Asleep EXCEPT !.at = "none"] \in RecountState
BY ItemsFew DEF Asleep, RecountState

LEMMA ReconciliationInvInit == ReconciliationInit => ReconciliationInv
<1> SUFFICES ASSUME ReconciliationInit PROVE ReconciliationInv
  OBVIOUS
<1>1. counted \subseteq Items \X Owners
  BY DEF ReconciliationInit, TallyInit
<1>2. ASSUME NEW o \in Owners PROVE CounterTyped(o)
  BY <1>1, FewRows, ItemsFew DEF ReconciliationInit, TallyInit, CounterTyped, Low, High
<1> QED
  BY <1>1, <1>2, AsleepTyped DEF ReconciliationInit, TallyInit, ReconciliationInv, CountersTyped

\* Put and Take move the rows of one owner by one, and its counter with them.
LEMMA RequestSafe ==
  ASSUME ReconciliationInv, Request
  PROVE  ReconciliationInv'
<1>1. PICK row \in Items \X Owners : Put(row) \/ Take(row)
  BY DEF Request, TallyNext
<1>2. counted' \subseteq Items \X Owners
  BY <1>1 DEF Put, Take, ReconciliationInv
<1>3. counter' = [o \in Owners |-> counter'[o]]
  BY <1>1 DEF Put, Take, ReconciliationInv, CountersTyped
<1>4. ASSUME NEW o \in Owners PROVE CounterTyped(o)'
  <2>1. CounterTyped(o) /\ RowsOf(o) \in 0..Cardinality(Items) /\ RowsOf(o)' \in 0..Cardinality(Items)
    BY <1>2, FewRows, FewRowsNext DEF ReconciliationInv, CountersTyped
  <2>2. counter'[o] <= High
    BY DEF Request, High
  <2>3. IsFiniteSet(RowsCounted(o))
    BY FewRows DEF ReconciliationInv
  <2>4. CASE row[2] # o
    <3>1. counter'[o] = counter[o] /\ RowsCounted(o)' = RowsCounted(o)
      BY <1>1, <2>4 DEF Put, Take, RowsCounted, ReconciliationInv, CountersTyped
    <3> QED
      BY <2>1, <3>1 DEF CounterTyped, RowsOf
  <2>5. CASE row[2] = o /\ Put(row)
    <3>1. counter'[o] = counter[o] + 1
      BY <2>5 DEF Put, ReconciliationInv, CountersTyped
    <3>2. RowsCounted(o)' = RowsCounted(o) \cup {row} /\ row \notin RowsCounted(o)
      BY <2>5 DEF Put, RowsCounted
    <3>3. RowsOf(o)' = RowsOf(o) + 1
      BY <2>3, <3>2, FS_AddElement DEF RowsOf
    <3> QED
      BY <2>1, <2>2, <3>1, <3>3, ItemsFew DEF CounterTyped, Low, High
  <2>6. CASE row[2] = o /\ Take(row)
    <3>1. counter'[o] = counter[o] - 1
      BY <2>6 DEF Take, ReconciliationInv, CountersTyped
    <3>2. RowsCounted(o)' = RowsCounted(o) \ {row} /\ row \in RowsCounted(o)
      BY <2>6 DEF Take, RowsCounted
    <3>3. RowsOf(o)' = RowsOf(o) - 1
      BY <2>3, <3>2, FS_RemoveElement DEF RowsOf
    <3> QED
      BY <2>1, <2>2, <3>1, <3>3, ItemsFew DEF CounterTyped, Low, High
  <2> QED
    BY <1>1, <2>4, <2>5, <2>6
<1> QED
  BY <1>2, <1>3, <1>4 DEF Request, ReconciliationInv, CountersTyped

\* Rows that go with an account leave the counter further above them.
LEMMA DeleteAccountSafe ==
  ASSUME ReconciliationInv, DeleteAccount
  PROVE  ReconciliationInv'
<1>1. counted' \subseteq counted /\ counted' \subseteq Items \X Owners /\ UNCHANGED counter
  BY DEF DeleteAccount, ReconciliationInv
<1>2. ASSUME NEW o \in Owners PROVE CounterTyped(o)'
  <2>1. CounterTyped(o) /\ RowsOf(o) \in 0..Cardinality(Items)
    BY FewRows DEF ReconciliationInv, CountersTyped
  <2>2. RowsCounted(o)' \in SUBSET RowsCounted(o) /\ IsFiniteSet(RowsCounted(o))
    BY <1>1, FewRows DEF RowsCounted, ReconciliationInv
  <2>3. RowsOf(o)' <= RowsOf(o) /\ RowsOf(o)' \in Nat
    BY <2>2, FS_Subset, FS_CardinalityType DEF RowsOf
  <2> QED
    BY <1>1, <2>1, <2>3, ItemsFew DEF CounterTyped, Low, High
<1> QED
  BY <1>1, <1>2 DEF DeleteAccount, ReconciliationInv, CountersTyped

\* What a statement writes is a number of rows, of now or of an earlier time.
LEMMA WriteFoundSafe ==
  ASSUME ReconciliationInv, NEW i \in ReconcileInstances, WriteFound(i), UNCHANGED counted
  PROVE  CountersTyped'
<1>1. counter' = [o \in Owners |-> counter'[o]]
  BY DEF WriteFound
<1>2. ASSUME NEW o \in Owners PROVE CounterTyped(o)'
  <2>1. recount[i].count[o] \in 0..Cardinality(Items)
    BY DEF ReconciliationInv, RecountState
  <2>2. CounterTyped(o) /\ RowsOf(o) \in 0..Cardinality(Items) /\ RowsOf(o)' = RowsOf(o)
    BY FewRows DEF ReconciliationInv, CountersTyped, RowsOf, RowsCounted
  <2>3. counter'[o] \in {counter[o], recount[i].count[o]}
    BY DEF WriteFound
  <2>4. CASE counter'[o] = counter[o]
    BY <2>2, <2>4 DEF CounterTyped
  <2>5. CASE counter'[o] = recount[i].count[o]
    BY <2>1, <2>2, <2>5, ItemsFew DEF CounterTyped, Low, High
  <2> QED
    BY <2>3, <2>4, <2>5
<1> QED
  BY <1>1, <1>2 DEF CountersTyped

LEMMA CountersKept ==
  ASSUME ReconciliationInv, UNCHANGED <<counted, counter>>
  PROVE  CountersTyped'
BY DEF ReconciliationInv, CountersTyped, CounterTyped, RowsOf, RowsCounted

LEMMA RecountSafe ==
  ASSUME ReconciliationInv, NEW i \in ReconcileInstances,
         StartReconcile(i) \/ Recount(i) \/ FailReconcile(i)
  PROVE  ReconciliationInv'
<1>1. CountersTyped'
  BY WriteFoundSafe, CountersKept
     DEF StartReconcile, Recount, CountRows, WriteCounts, CountNone, WriteZeros, FailReconcile, tallyVars
<1>2. recount' \in [ReconcileInstances -> RecountState]
  <2>1. CASE StartReconcile(i)
    BY <2>1 DEF StartReconcile, ReconciliationInv, RecountState
  <2>2. CASE CountRows(i)
    <3>1. [o \in Owners |-> RowsOf(o)] \in [Owners -> 0..Cardinality(Items)]
      BY FewRows DEF ReconciliationInv
    <3>2. [at |-> "write", found |-> {o \in Owners : RowsOf(o) > 0 /\ counter[o] # RowsOf(o)},
           count |-> [o \in Owners |-> RowsOf(o)]] \in RecountState
      BY <3>1 DEF RecountState
    <3> QED
      BY <2>2, <3>2 DEF CountRows, ReconciliationInv
  <2>3. CASE CountNone(i)
    <3>1. [Asleep EXCEPT !.at = "zero", !.found = {o \in Owners : RowsOf(o) = 0 /\ counter[o] # 0}] \in RecountState
      BY AsleepTyped DEF RecountState
    <3> QED
      BY <2>3, <3>1 DEF CountNone, ReconciliationInv
  <2>4. CASE WriteCounts(i) \/ WriteZeros(i) \/ FailReconcile(i)
    BY <2>4, AsleepTyped DEF WriteCounts, WriteZeros, FailReconcile, ReconciliationInv
  <2> QED
    BY <2>1, <2>2, <2>3, <2>4 DEF Recount
<1>3. UNCHANGED <<counted, settled>> /\ reconcileLock' \in BOOLEAN
  BY DEF StartReconcile, Recount, CountRows, WriteCounts, CountNone, WriteZeros, FailReconcile, tallyVars, ReconciliationInv
<1> QED
  BY <1>1, <1>2, <1>3 DEF ReconciliationInv

LEMMA ReconciliationInvStep == ReconciliationInv /\ [ReconciliationNext]_reconciliationVars => ReconciliationInv'
<1> SUFFICES ASSUME ReconciliationInv, [ReconciliationNext]_reconciliationVars PROVE ReconciliationInv'
  OBVIOUS
<1>1. CASE Settle \/ ReconcileLockExpires \/ UNCHANGED reconciliationVars
  <2>1. UNCHANGED <<counted, counter, recount>> /\ settled' \in BOOLEAN /\ reconcileLock' \in BOOLEAN
    BY <1>1 DEF Settle, ReconcileLockExpires, reconciliationVars, tallyVars, ReconciliationInv
  <2> QED
    BY <2>1, CountersKept DEF ReconciliationInv
<1> QED
  BY <1>1, RequestSafe, DeleteAccountSafe, RecountSafe DEF ReconciliationNext

\* A step of the healing phase: no statement gets a stale number to write, the rows stay,
\* and no counter that is right is put off.
LEMMA HealingStep ==
  ASSUME ReconciliationInv, [ReconciliationNext]_reconciliationVars, NothingStale
  PROVE  /\ NothingStale' /\ \A o : RowsOf(o)' = RowsOf(o)
         /\ \A o \in Owners : counter[o] = RowsOf(o) => counter'[o] = RowsOf(o)'
<1>1. settled /\ settled' /\ UNCHANGED counted
  BY DEF NothingStale, ReconciliationNext, Request, DeleteAccount, Settle, ReconcileLockExpires, StartReconcile,
     Recount, CountRows, WriteCounts, CountNone, WriteZeros, FailReconcile, reconciliationVars, tallyVars
<1>2. \A o : RowsOf(o)' = RowsOf(o)
  BY <1>1 DEF RowsOf, RowsCounted
<1>3. UNCHANGED counter \/ \E i \in ReconcileInstances : WriteFound(i)
  BY <1>1 DEF ReconciliationNext, Request, DeleteAccount, Settle, ReconcileLockExpires, StartReconcile,
     Recount, CountRows, WriteCounts, CountNone, WriteZeros, FailReconcile, reconciliationVars, tallyVars
<1>4. ASSUME NEW o \in Owners, counter[o] = RowsOf(o) PROVE counter'[o] = RowsOf(o)'
  <2>1. CASE UNCHANGED counter
    BY <1>2, <1>4, <2>1
  <2>2. ASSUME NEW i \in ReconcileInstances, WriteFound(i) PROVE counter'[o] = RowsOf(o)'
    BY <1>2, <1>4, <2>2 DEF WriteFound, NothingStale
  <2> QED
    BY <1>3, <2>1, <2>2
<1>5. ASSUME NEW i \in ReconcileInstances, NEW o \in recount'[i].found
      PROVE  recount'[i].count[o] = RowsOf(o)'
  <2>1. recount[i] \in RecountState /\ recount'[i] \in RecountState
    BY ReconciliationInvStep DEF ReconciliationInv
  <2>2. o \in Owners
    BY <2>1 DEF RecountState
  <2>3. CASE recount'[i].found = recount[i].found /\ recount'[i].count = recount[i].count
    BY <1>2, <2>3 DEF NothingStale
  <2>4. CASE recount'[i].found = {}
    BY <2>4
  <2>5. CASE CountRows(i)
    BY <1>2, <2>2, <2>5 DEF CountRows, ReconciliationInv
  <2>6. CASE CountNone(i)
    BY <1>2, <2>2, <2>6 DEF CountNone, ReconciliationInv, Asleep
  <2>7. ASSUME NEW j \in ReconcileInstances, StartReconcile(j) \/ Recount(j) \/ FailReconcile(j)
        PROVE  \/ recount'[i].found = {} \/ CountRows(i) \/ CountNone(i)
               \/ recount'[i].found = recount[i].found /\ recount'[i].count = recount[i].count
    <3>1. CASE j # i
      BY <2>7, <3>1 DEF StartReconcile, Recount, CountRows, WriteCounts, CountNone, WriteZeros, FailReconcile, ReconciliationInv
    <3>2. CASE j = i /\ StartReconcile(i)
      BY <2>1, <3>2 DEF StartReconcile, ReconciliationInv, RecountState
    <3>3. CASE j = i /\ (WriteCounts(i) \/ WriteZeros(i) \/ FailReconcile(i))
      BY <3>3 DEF WriteCounts, WriteZeros, FailReconcile, ReconciliationInv, Asleep
    <3> QED
      BY <2>7, <3>1, <3>2, <3>3 DEF Recount
  <2>8. CASE UNCHANGED recount
    BY <2>3, <2>8
  <2> QED
    BY <2>3, <2>4, <2>5, <2>6, <2>7, <2>8
       DEF ReconciliationNext, Request, DeleteAccount, Settle, ReconcileLockExpires, reconciliationVars
<1> QED
  BY <1>1, <1>2, <1>4, <1>5 DEF NothingStale

\* Once nothing comes and no statement carries a number of an earlier time, a recount
\* never puts off a counter that is right, whichever instances recount at once: the
\* counters only get better, and the deletions of before are the last to matter.
THEOREM RecountsOnlyHeal == ReconciliationSpec => OnlyHeals
<1>1. ReconciliationInv /\ [ReconciliationNext]_reconciliationVars =>
        (NothingStale => NothingStale' /\ \A o \in Owners : CounterRight(o) => CounterRight(o)')
  BY HealingStep DEF CounterRight
<1> QED
  BY <1>1, ReconciliationInvInit, ReconciliationInvStep, PTL DEF ReconciliationSpec, OnlyHeals

\* The step of another instance changes nothing of what this one has found.
LEMMA OthersKeepCourse ==
  ASSUME ReconciliationInv, [ReconciliationNext]_reconciliationVars, NothingStale,
         NEW i \in ReconcileInstances, OnCourse(i), recount'[i] = recount[i]
  PROVE  OnCourse(i)'
<1>1. \A o \in Owners : /\ RowsOf(o)' = RowsOf(o)
                        /\ counter[o] = RowsOf(o) => counter'[o] = RowsOf(o)'
  BY HealingStep
<1> QED
  BY <1>1 DEF OnCourse, CounterRight

LEMMA OwnCourse ==
  ASSUME ReconciliationInv, [ReconciliationNext]_reconciliationVars, NothingStale,
         NEW i \in ReconcileInstances, OnCourse(i), StartReconcile(i) \/ Recount(i)
  PROVE  OnCourse(i)' \/ CounterMatches'
<1>1. \A o \in Owners : /\ RowsOf(o)' = RowsOf(o) /\ RowsOf(o) \in Nat
                        /\ counter[o] = RowsOf(o) => counter'[o] = RowsOf(o)'
  BY HealingStep, FewRows, ItemsFew DEF ReconciliationInv
<1>2. \A o \in recount[i].found : recount[i].count[o] = RowsOf(o)
  BY DEF NothingStale
<1>3. CASE StartReconcile(i)
  BY <1>3 DEF StartReconcile, OnCourse
<1>4. CASE CountRows(i)
  <2>1. /\ recount'[i].at = "write"
        /\ recount'[i].found = {o \in Owners : RowsOf(o) > 0 /\ counter[o] # RowsOf(o)}
        /\ UNCHANGED counter
    BY <1>4 DEF CountRows, ReconciliationInv, tallyVars
  <2> QED
    BY <1>1, <2>1 DEF OnCourse, CounterRight
<1>5. CASE WriteCounts(i)
  <2>1. recount'[i].at = "none" /\ recount[i].at = "write"
    BY <1>5 DEF WriteCounts, ReconciliationInv, Asleep
  <2>2. \A o \in Owners : o \in recount[i].found => counter'[o] = RowsOf(o)'
    BY <1>1, <1>2, <1>5 DEF WriteCounts, WriteFound
  <2> QED
    BY <1>1, <2>1, <2>2 DEF OnCourse, CounterRight
<1>6. CASE CountNone(i)
  <2>1. /\ recount[i].at = "none" /\ recount'[i].at = "zero"
        /\ recount'[i].found = {o \in Owners : RowsOf(o) = 0 /\ counter[o] # 0}
        /\ UNCHANGED counter
    BY <1>6 DEF CountNone, ReconciliationInv, tallyVars, Asleep
  <2> QED
    BY <1>1, <2>1 DEF OnCourse, CounterRight
<1>7. CASE WriteZeros(i)
  <2>1. recount[i].at = "zero"
    BY <1>7 DEF WriteZeros
  <2>2. \A o \in Owners : o \in recount[i].found => counter'[o] = RowsOf(o)'
    BY <1>1, <1>2, <1>7 DEF WriteZeros, WriteFound
  <2> QED
    BY <1>1, <2>1, <2>2 DEF OnCourse, CounterRight, CounterMatches
<1> QED
  BY <1>3, <1>4, <1>5, <1>6, <1>7 DEF Recount

\* In that phase a run that begins to count is not disturbed by the others: it leaves
\* every counter right unless it fails.  So one whole run is enough, and which of the
\* instances makes it, and what the others write meanwhile, does not matter.
THEOREM RunsStayOnCourse == ReconciliationSpec => RunsHeal
<1>1. ASSUME ReconciliationInv, [ReconciliationNext]_reconciliationVars
      PROVE  \A i \in ReconcileInstances :
               NothingStale /\ OnCourse(i) => OnCourse(i)' \/ CounterMatches' \/ FailReconcile(i)
  <2> SUFFICES ASSUME NEW i \in ReconcileInstances, NothingStale, OnCourse(i)
               PROVE  OnCourse(i)' \/ CounterMatches' \/ FailReconcile(i)
    OBVIOUS
  <2>1. CASE StartReconcile(i) \/ Recount(i)
    BY <1>1, <2>1, OwnCourse
  <2>2. CASE recount'[i] = recount[i]
    BY <1>1, <2>2, OthersKeepCourse
  <2>3. ASSUME NEW j \in ReconcileInstances, j # i, StartReconcile(j) \/ Recount(j) \/ FailReconcile(j)
        PROVE  recount'[i] = recount[i]
    BY <1>1, <2>3 DEF StartReconcile, Recount, CountRows, WriteCounts, CountNone, WriteZeros, FailReconcile, ReconciliationInv
  <2>4. recount'[i] = recount[i] \/ StartReconcile(i) \/ Recount(i) \/ FailReconcile(i)
    BY <1>1, <2>3 DEF ReconciliationNext, Request, DeleteAccount, Settle, ReconcileLockExpires, reconciliationVars
  <2> QED
    BY <2>1, <2>2, <2>4
<1> QED
  BY <1>1, ReconciliationInvInit, ReconciliationInvStep, PTL DEF ReconciliationSpec, RunsHeal

-----------------------------------------------------------------------------
(* The sweep of old rows.  A sweep works with limits of the past, so what  *)
(* is due to it is old now, and a short chunk is all there is left of it.  *)

SweepState ==
  [at : {"rest", "pick", "delete", "notices", "sessions"}, due : SUBSET Logs,
   age : 0..2, picked : SUBSET Logs]

SweepInv(i) ==
  /\ sweep[i] \in SweepState
  /\ sweep[i].age <= age
  /\ \A l \in sweep[i].due : logs[l] # "young"
  /\ sweep[i].at = "delete" /\ Cardinality(sweep[i].picked) < LogBatch
     => sweep[i].due \cap OldLogs \subseteq sweep[i].picked

RowsTyped ==
  /\ logs \in [Logs -> {"young", "old", "gone"}]
  /\ age \in 0..2
  /\ notice \in {"unread", "read", "gone"}
  /\ device \in BOOLEAN /\ sweepLock \in BOOLEAN

RetentionInv ==
  /\ RowsTyped
  /\ sweep = [i \in Sweepers |-> sweep[i]]
  /\ \A i \in Sweepers : SweepInv(i)

LEMMA RetentionTyped == RetentionInv => RetentionTypeOK
BY DEF RetentionInv, RowsTyped, SweepInv, SweepState, RetentionTypeOK

LEMMA AtRestInv ==
  ASSUME RowsTyped', NEW i \in Sweepers, sweep'[i] = AtRest
  PROVE  SweepInv(i)'
BY DEF RowsTyped, SweepInv, SweepState, AtRest

LEMMA RetentionInvInit == RetentionInit => RetentionInv
<1> SUFFICES ASSUME RetentionInit PROVE RetentionInv
  OBVIOUS
<1>1. RowsTyped
  <2>1. device \in BOOLEAN /\ sweepLock \in BOOLEAN
    BY DEF RetentionInit
  <2> QED
    BY <2>1 DEF RetentionInit, RowsTyped
<1>2. ASSUME NEW i \in Sweepers PROVE SweepInv(i)
  BY <1>1 DEF RetentionInit, RowsTyped, SweepInv, SweepState, AtRest
<1> QED
  BY <1>1, <1>2 DEF RetentionInit, RetentionInv

\* Rows only age and go: what a sweep knows of them stays true.
LEMMA RowsOnlyAge ==
  ASSUME RetentionInv, RowsTyped', age <= age', UNCHANGED sweep,
         \A l \in Logs : \/ logs'[l] = logs[l]
                         \/ logs[l] = "young" /\ logs'[l] = "old"
                         \/ logs'[l] = "gone"
  PROVE  RetentionInv'
<1>1. ASSUME NEW i \in Sweepers PROVE SweepInv(i)'
  <2>1. SweepInv(i) /\ sweep'[i] = sweep[i] /\ sweep[i].due \subseteq Logs /\ sweep[i].age \in 0..2
    BY DEF RetentionInv, SweepInv, SweepState
  <2>2. sweep[i].due \cap OldLogs' \subseteq sweep[i].due \cap OldLogs
    BY <2>1 DEF SweepInv, OldLogs
  <2>3. \A l \in sweep[i].due : logs'[l] # "young"
    BY <2>1 DEF SweepInv
  <2>4. sweep[i].age <= age'
    BY <2>1 DEF SweepInv, RetentionInv, RowsTyped
  <2> QED
    BY <2>1, <2>2, <2>3, <2>4 DEF SweepInv
<1> QED
  BY <1>1 DEF RetentionInv

\* A chunk shorter than the limit of the subquery is all that is due.
LEMMA ChunkComplete ==
  ASSUME NEW S \in SUBSET Logs
  PROVE  Chunk(S) \subseteq S /\ (Cardinality(Chunk(S)) < LogBatch => Chunk(S) = S)
<1>1. IsFiniteSet(S) /\ S \in SUBSET Nat
  BY LogsAssumption, FS_Subset
<1>2. LogBatch \in Nat
  BY LogBatchAssumption
<1>3. Chunk(S) = FirstOf(S, LogBatch)
  BY DEF Chunk, FirstOf
<1> QED
  BY <1>1, <1>2, <1>3, FirstOfAll DEF FirstOf

\* A step of one sweep leaves the others what they are, if it deletes no young log.
LEMMA SweepsApart ==
  ASSUME RetentionInv, RowsTyped', UNCHANGED age, NEW i \in Sweepers,
         NEW s, sweep' = [sweep EXCEPT ![i] = s],
         \A l \in Logs : logs'[l] = logs[l] \/ logs'[l] = "gone",
         SweepInv(i)'
  PROVE  RetentionInv'
<1>1. ASSUME NEW j \in Sweepers, j # i PROVE SweepInv(j)'
  <2>1. SweepInv(j) /\ sweep'[j] = sweep[j] /\ sweep[j].due \subseteq Logs
    BY <1>1 DEF RetentionInv, SweepInv, SweepState
  <2>2. sweep[j].due \cap OldLogs' \subseteq sweep[j].due \cap OldLogs
    BY <2>1 DEF SweepInv, OldLogs
  <2>3. \A l \in sweep[j].due : logs'[l] # "young"
    BY <2>1 DEF SweepInv
  <2> QED
    BY <2>1, <2>2, <2>3 DEF SweepInv
<1> QED
  BY <1>1 DEF RetentionInv

LEMMA StartSweepSafe ==
  ASSUME RetentionInv, NEW i \in Sweepers, StartSweep(i)
  PROVE  RetentionInv'
<1>1. RowsTyped'
  BY DEF StartSweep, RetentionInv, RowsTyped
<1>2. sweep' = [sweep EXCEPT ![i] = Cutoffs] /\ sweep'[i] = Cutoffs
  BY DEF StartSweep, RetentionInv
<1>3. Cutoffs \in SweepState
  BY DEF Cutoffs, SweepState, OldLogs, RetentionInv, RowsTyped
<1>4. UNCHANGED <<logs, age>> /\ \A l \in OldLogs : logs[l] = "old"
  BY DEF StartSweep, OldLogs
<1>5. SweepInv(i)'
  BY <1>1, <1>2, <1>3, <1>4 DEF SweepInv, Cutoffs, RowsTyped
<1> QED
  BY <1>1, <1>2, <1>4, <1>5, SweepsApart

LEMMA PickLogsSafe ==
  ASSUME RetentionInv, NEW i \in Sweepers, PickLogs(i)
  PROVE  RetentionInv'
<1> DEFINE chunk == Chunk(sweep[i].due \cap OldLogs)
           s == [sweep[i] EXCEPT !.picked = chunk, !.at = "delete"]
<1>1. RowsTyped' /\ UNCHANGED <<logs, age>> /\ OldLogs' = OldLogs
  BY DEF PickLogs, RetentionInv, RowsTyped, OldLogs
<1>2. sweep' = [sweep EXCEPT ![i] = s] /\ sweep'[i] = s
  BY DEF PickLogs, RetentionInv
<1>3. SweepInv(i)
  BY DEF RetentionInv
<1>4. sweep[i].due \cap OldLogs \in SUBSET Logs
  BY DEF OldLogs
<1>5. /\ chunk \subseteq sweep[i].due \cap OldLogs
      /\ Cardinality(chunk) < LogBatch => chunk = sweep[i].due \cap OldLogs
  BY <1>4, ChunkComplete
<1> HIDE DEF chunk
<1>6. s \in SweepState /\ s.due = sweep[i].due /\ s.age = sweep[i].age /\ s.picked = chunk
  BY <1>3, <1>4, <1>5 DEF SweepInv, SweepState
<1> HIDE DEF s
<1>7. SweepInv(i)'
  BY <1>1, <1>2, <1>3, <1>5, <1>6 DEF SweepInv
<1> QED
  BY <1>1, <1>2, <1>7, SweepsApart

\* The logs the DELETE finds, and whether the loop goes on.
FoundLogs(i) == sweep[i].picked \cap OldLogs

LEMMA DeleteLogsSafe ==
  ASSUME RetentionInv, NEW i \in Sweepers, DeleteLogs(i)
  PROVE  RetentionInv'
<1> DEFINE s == IF Cardinality(FoundLogs(i)) < LogBatch
                THEN [sweep[i] EXCEPT !.at = "notices", !.due = {}, !.picked = {}]
                ELSE [sweep[i] EXCEPT !.at = "pick", !.picked = {}]
<1>1. /\ logs' = [l \in Logs |-> IF l \in FoundLogs(i) THEN "gone" ELSE logs[l]]
      /\ UNCHANGED <<age, notice, device, sweepLock>>
  BY DEF DeleteLogs, FoundLogs
<1>2. sweep' = [sweep EXCEPT ![i] = s] /\ sweep'[i] = s
  BY DEF DeleteLogs, FoundLogs, RetentionInv
<1>3. RowsTyped'
  BY <1>1 DEF RetentionInv, RowsTyped
<1>4. SweepInv(i)
  BY DEF RetentionInv
<1>5. /\ s \in SweepState /\ s.due \subseteq sweep[i].due /\ s.due \subseteq Logs
      /\ s.age = sweep[i].age /\ s.at # "delete"
  BY <1>4 DEF SweepInv, SweepState
<1> HIDE DEF s
<1>6. SweepInv(i)'
  BY <1>1, <1>2, <1>4, <1>5 DEF SweepInv
<1> QED
  BY <1>1, <1>2, <1>3, <1>6, SweepsApart

LEMMA SweepRestSafe ==
  ASSUME RetentionInv, NEW i \in Sweepers, SweepNotices(i) \/ SweepDevices(i) \/ FailSweep(i)
  PROVE  RetentionInv'
<1>1. RowsTyped' /\ UNCHANGED <<logs, age>>
  BY DEF SweepNotices, SweepDevices, FailSweep, RetentionInv, RowsTyped
<1>2. CASE SweepNotices(i)
  <2> DEFINE s == [sweep[i] EXCEPT !.at = "sessions"]
  <2>1. sweep' = [sweep EXCEPT ![i] = s] /\ sweep'[i] = s
    BY <1>2 DEF SweepNotices, RetentionInv
  <2>2. SweepInv(i)
    BY DEF RetentionInv
  <2>3. s \in SweepState /\ s.due = sweep[i].due /\ s.age = sweep[i].age /\ s.at # "delete"
    BY <2>2 DEF SweepInv, SweepState
  <2> HIDE DEF s
  <2>4. SweepInv(i)'
    BY <1>1, <2>1, <2>2, <2>3 DEF SweepInv
  <2> QED
    BY <1>1, <2>1, <2>4, SweepsApart
<1>3. CASE SweepDevices(i) \/ FailSweep(i)
  <2>1. sweep' = [sweep EXCEPT ![i] = AtRest] /\ sweep'[i] = AtRest
    BY <1>3 DEF SweepDevices, FailSweep, RetentionInv
  <2> QED
    BY <1>1, <2>1, AtRestInv, SweepsApart
<1> QED
  BY <1>2, <1>3

LEMMA RetentionInvStep == RetentionInv /\ [RetentionNext]_retentionVars => RetentionInv'
<1> SUFFICES ASSUME RetentionInv, [RetentionNext]_retentionVars PROVE RetentionInv'
  OBVIOUS
<1>1. ASSUME NEW l \in Logs, AgeLog(l)
      PROVE  RetentionInv'
  <2>1. RowsTyped' /\ UNCHANGED <<age, sweep>>
    BY <1>1 DEF AgeLog, RetentionInv, RowsTyped
  <2>2. \A k \in Logs : logs'[k] = logs[k] \/ (logs[k] = "young" /\ logs'[k] = "old")
    BY <1>1 DEF AgeLog, RetentionInv, RowsTyped
  <2>3. age <= age'
    BY <2>1 DEF RetentionInv, RowsTyped
  <2> QED
    BY <2>1, <2>2, <2>3, RowsOnlyAge
<1>2. CASE AgeRows \/ ReadNotice \/ SweepLockExpires \/ UNCHANGED retentionVars
  <2>1. device' \in BOOLEAN /\ sweepLock' \in BOOLEAN
    BY <1>2 DEF AgeRows, ReadNotice, SweepLockExpires, retentionVars, RetentionInv, RowsTyped
  <2>2. age' \in 0..2 /\ age <= age'
    BY <1>2 DEF AgeRows, ReadNotice, SweepLockExpires, retentionVars, RetentionInv, RowsTyped
  <2>3. notice' \in {"unread", "read", "gone"} /\ UNCHANGED <<logs, sweep>>
    BY <1>2 DEF AgeRows, ReadNotice, SweepLockExpires, retentionVars, RetentionInv, RowsTyped
  <2>4. RowsTyped'
    BY <2>1, <2>2, <2>3 DEF RetentionInv, RowsTyped
  <2> QED
    BY <2>2, <2>3, <2>4, RowsOnlyAge
<1> QED
  BY <1>1, <1>2, StartSweepSafe, PickLogsSafe, DeleteLogsSafe, SweepRestSafe DEF RetentionNext

\* No row goes before its limit, for any logs, chunks and sweeps that overlap: a sweep's
\* limits are of the past, and a row that was old then is old now.
THEOREM NothingYoungGoes == RetentionSpec => OnlyDueRowsGo
<1>1. ASSUME RetentionInv, [RetentionNext]_retentionVars
      PROVE  /\ \A l \in Logs : logs[l] = "young" => logs'[l] # "gone"
             /\ notice # "gone" /\ notice' = "gone" => age = 2 \/ (age = 1 /\ notice = "read")
             /\ device /\ ~device' => age # 0
  <2> USE <1>1
  <2>1. ASSUME NEW l \in Logs, logs[l] = "young" PROVE logs'[l] # "gone"
    BY <2>1 DEF RetentionInv, RowsTyped, RetentionNext, AgeLog, AgeRows, ReadNotice, StartSweep, PickLogs, DeleteLogs,
       SweepNotices, SweepDevices, FailSweep, SweepLockExpires, retentionVars, OldLogs
  <2>2. ASSUME notice # "gone", notice' = "gone"
        PROVE  age = 2 \/ (age = 1 /\ notice = "read")
    <3>1. PICK i \in Sweepers : SweepNotices(i)
      BY <2>2 DEF RetentionInv, RowsTyped, RetentionNext, AgeLog, AgeRows, ReadNotice, StartSweep, PickLogs, DeleteLogs,
         SweepDevices, FailSweep, SweepLockExpires, retentionVars
    <3>2. NoticeDue(i)
      BY <2>2, <3>1 DEF SweepNotices
    <3>3. sweep[i].age \in 0..2 /\ sweep[i].age <= age /\ age \in 0..2
      BY DEF RetentionInv, RowsTyped, SweepInv, SweepState
    <3> QED
      BY <3>2, <3>3 DEF NoticeDue
  <2>3. ASSUME device, ~device' PROVE age # 0
    <3>1. PICK i \in Sweepers : SweepDevices(i)
      BY <2>3 DEF RetentionInv, RowsTyped, RetentionNext, AgeLog, AgeRows, ReadNotice, StartSweep, PickLogs, DeleteLogs,
         SweepNotices, FailSweep, SweepLockExpires, retentionVars
    <3>2. sweep[i].age # 0
      BY <2>3, <3>1 DEF SweepDevices
    <3>3. sweep[i].age \in 0..2 /\ sweep[i].age <= age /\ age \in 0..2
      BY DEF RetentionInv, RowsTyped, SweepInv, SweepState
    <3> QED
      BY <3>2, <3>3
  <2> QED
    BY <2>1, <2>2, <2>3
<1> QED
  BY <1>1, RetentionInvInit, RetentionInvStep, PTL DEF RetentionSpec, OnlyDueRowsGo

\* A loop that no other sweep overtakes deletes all it set out to, whatever the size of
\* a chunk: the short chunk that ends it is the last one.
THEOREM LoopsEndWhenDone == RetentionSpec => LoopClears
<1>1. ASSUME RetentionInv, [RetentionNext]_retentionVars, NEW i \in Sweepers,
             sweep[i].at = "delete", sweep'[i].at = "notices", sweep[i].picked \subseteq OldLogs,
             NEW l \in sweep[i].due
      PROVE  logs'[l] = "gone"
  <2> USE <1>1
  <2>1. sweep[i] \in SweepState /\ SweepInv(i)
    BY DEF RetentionInv, SweepInv
  <2>2. sweep'[i] # sweep[i] /\ sweep'[i] # AtRest
    BY DEF AtRest
  <2>3. DeleteLogs(i)
    <3>1. ASSUME NEW j \in Sweepers, StartSweep(j) \/ PickLogs(j) \/ DeleteLogs(j) \/ SweepNotices(j)
                                    \/ SweepDevices(j) \/ FailSweep(j)
          PROVE  i = j
      BY <2>2, <3>1 DEF RetentionInv, StartSweep, PickLogs, DeleteLogs, SweepNotices, SweepDevices, FailSweep
    <3>2. PICK j \in Sweepers : StartSweep(j) \/ PickLogs(j) \/ DeleteLogs(j) \/ SweepNotices(j)
                                    \/ SweepDevices(j) \/ FailSweep(j)
      BY <2>2 DEF RetentionNext, AgeLog, AgeRows, ReadNotice, SweepLockExpires, retentionVars
    <3>3. StartSweep(i) \/ PickLogs(i) \/ DeleteLogs(i) \/ SweepNotices(i) \/ SweepDevices(i) \/ FailSweep(i)
      BY <3>1, <3>2
    <3>4. ~StartSweep(i) /\ ~SweepDevices(i) /\ ~FailSweep(i)
      BY <2>2 DEF RetentionInv, StartSweep, SweepDevices, FailSweep, AtRest
    <3>5. ~PickLogs(i) /\ ~SweepNotices(i)
      BY DEF PickLogs, SweepNotices
    <3> QED
      BY <3>3, <3>4, <3>5
  <2>4. FoundLogs(i) = sweep[i].picked
    BY DEF FoundLogs
  <2>5. Cardinality(sweep[i].picked) < LogBatch
    BY <2>1, <2>3, <2>4 DEF DeleteLogs, FoundLogs, RetentionInv, SweepState
  <2>6. l \in Logs /\ logs[l] \in {"old", "gone"}
    BY <2>1 DEF SweepInv, SweepState, RetentionInv, RowsTyped
  <2>7. logs[l] = "old" => l \in FoundLogs(i)
    BY <2>1, <2>4, <2>5, <2>6 DEF SweepInv, OldLogs
  <2> QED
    BY <2>3, <2>6, <2>7 DEF DeleteLogs, FoundLogs
<1>2. ASSUME RetentionInv, [RetentionNext]_retentionVars
      PROVE  \A i \in Sweepers :
               /\ sweep[i].at = "delete" /\ sweep'[i].at = "notices"
               /\ sweep[i].picked \subseteq OldLogs
               => \A l \in sweep[i].due : logs'[l] = "gone"
  BY <1>1, <1>2
<1> QED
  BY <1>2, RetentionInvInit, RetentionInvStep, PTL DEF RetentionSpec, LoopClears

-----------------------------------------------------------------------------
(* An account and the tokens mailed for it.  A request makes a token only  *)
(* where there was none that is good, and closes that door behind it: as   *)
(* many are made as requests had passed it, for each account that was      *)
(* created and each token that expired.                                    *)

Held == InUse \ {Nil}

\* Another request that asks now would make a token.
Open == account.id # Nil /\ ~account.verified /\ NeedsToken

\* The requests that are to make one whatever they find, and how many there can be yet.
Renewing == {r \in Callers : caller[r].at = "renew" /\ caller[r].id = account.id}
Renewals == IF Open THEN Cardinality(Callers) ELSE Cardinality(Renewing)

Budget == Cardinality(Callers) * (created + expiries)

AccountState(n) == [id : 0..n, verified : BOOLEAN, token : Tokens \cup {Nil}, fresh : BOOLEAN]
CallState(n) ==
  [at : {"idle", "register", "provider", "renew", "mail"}, id : 0..n,
   token : Tokens \cup {Nil}, trusted : BOOLEAN]

CallInv(r) ==
  /\ caller[r] \in CallState(created)
  /\ caller[r].at = "renew" => caller[r].id # Nil
  /\ caller[r].at = "mail" <=> caller[r].token # Nil

AccountsKept ==
  /\ account \in AccountState(created)
  /\ caller = [r \in Callers |-> caller[r]]
  /\ \A r \in Callers : CallInv(r)
  /\ outbox \subseteq Tokens /\ IsFiniteSet(outbox)
  /\ inbox \in Tokens \cup {Nil}
  /\ opening \in 0..created
  /\ created \in 0..MaxAccounts /\ expiries \in 0..MaxExpiries

TokensWithinBudget == Cardinality(Held) + Renewals <= Budget

AccountsInv == AccountsKept /\ TokensWithinBudget

LEMMA CallersFinite ==
  /\ IsFiniteSet(Callers) /\ Cardinality(Callers) \in Nat
  /\ \A r \in Callers : Cardinality(Callers) >= 1
  /\ MaxAccounts \in Nat /\ MaxExpiries \in Nat
<1>1. IsFiniteSet(Callers) /\ MaxAccounts \in Nat /\ MaxExpiries \in Nat
  BY AccountsAssumption
<1>2. Cardinality(Callers) \in Nat
  BY <1>1, FS_CardinalityType
<1>3. ASSUME NEW r \in Callers PROVE Cardinality(Callers) >= 1
  BY <1>1, <1>2, FS_EmptySet
<1> QED
  BY <1>1, <1>2, <1>3

\* Finitely many tokens are held, each of them one of Tokens.
LEMMA HeldFinite ==
  ASSUME AccountsKept
  PROVE  IsFiniteSet(Held) /\ Held \in SUBSET Tokens /\ Cardinality(Held) \in Nat
<1> DEFINE asked == {caller[r].token : r \in Callers}
           f == [r \in Callers |-> caller[r].token]
<1>1. f \in Surjection(Callers, asked)
  BY DEF Surjection
<1>2. IsFiniteSet(asked)
  BY <1>1, CallersFinite, FS_Surjection
<1>3. IsFiniteSet({inbox, account.token})
  <2>1. {inbox, account.token} = {inbox} \cup {account.token}
    OBVIOUS
  <2>2. IsFiniteSet({inbox}) /\ IsFiniteSet({account.token})
    BY FS_Singleton
  <2> QED
    BY <2>1, <2>2, FS_Union
<1>4. IsFiniteSet(outbox \cup {inbox, account.token})
  BY <1>3, FS_Union DEF AccountsKept
<1>5. InUse = (outbox \cup {inbox, account.token}) \cup asked
  BY DEF InUse
<1> HIDE DEF asked
<1>6. IsFiniteSet(InUse)
  BY <1>2, <1>4, <1>5, FS_Union
<1>7. IsFiniteSet(Held)
  BY <1>6, FS_Subset DEF Held
<1>8. Held \in SUBSET Tokens
  BY DEF Held, InUse, AccountsKept, AccountState, CallInv, CallState
<1> QED
  BY <1>7, <1>8, FS_CardinalityType

LEMMA Products ==
  ASSUME NEW c \in Nat, NEW n \in Nat, NEW m \in Nat, n <= m
  PROVE  c * n \in Nat /\ c * m \in Nat /\ c * n <= c * m /\ c * (n + 1) = c * n + c
OBVIOUS

LEMMA BudgetLimited ==
  ASSUME AccountsKept
  PROVE  /\ Budget \in Nat
         /\ Cardinality(Callers) * (MaxAccounts + MaxExpiries) \in Nat
         /\ Budget <= Cardinality(Callers) * (MaxAccounts + MaxExpiries)
<1>1. created + expiries \in Nat /\ MaxAccounts + MaxExpiries \in Nat
  BY CallersFinite DEF AccountsKept
<1>2. created + expiries <= MaxAccounts + MaxExpiries
  BY CallersFinite DEF AccountsKept
<1> QED
  BY <1>1, <1>2, CallersFinite, Products DEF Budget

\* What one more account, or one more token that expires, allows for.
LEMMA BudgetGrows ==
  ASSUME AccountsKept, created' + expiries' = created + expiries + 1
  PROVE  Budget' = Budget + Cardinality(Callers)
<1>1. created + expiries \in Nat
  BY CallersFinite DEF AccountsKept
<1>2. Cardinality(Callers) * ((created + expiries) + 1) = Cardinality(Callers) * (created + expiries) + Cardinality(Callers)
  BY <1>1, CallersFinite, Products
<1> QED
  BY <1>2 DEF Budget

LEMMA RenewalsFew ==
  /\ IsFiniteSet(Renewing) /\ Cardinality(Renewing) \in 0..Cardinality(Callers)
  /\ Renewals \in 0..Cardinality(Callers) /\ Cardinality(Renewing) <= Renewals
<1>1. Renewing \in SUBSET Callers
  BY DEF Renewing
<1>2. IsFiniteSet(Renewing) /\ Cardinality(Renewing) \in 0..Cardinality(Callers)
  BY <1>1, CallersFinite, FS_Subset, FS_CardinalityType
<1> QED
  BY <1>2, CallersFinite DEF Renewals

LEMMA RenewalsFewNext ==
  /\ Renewals' \in 0..Cardinality(Callers)
  /\ ~Open' => Renewals' = Cardinality(Renewing')
<1>1. Renewing' \in SUBSET Callers
  BY DEF Renewing
<1>2. Cardinality(Renewing') \in 0..Cardinality(Callers)
  BY <1>1, CallersFinite, FS_Subset, FS_CardinalityType
<1> QED
  BY <1>2, CallersFinite DEF Renewals

\* There are tokens left, so that a request that makes one gets a new one.
LEMMA TokensLeft ==
  ASSUME AccountsInv
  PROVE  Tokens \ InUse # {} /\ NewToken \in Tokens /\ NewToken \notin InUse
<1>1. SUFFICES ASSUME Tokens \subseteq InUse PROVE FALSE
  BY DEF NewToken
<1>2. Tokens = Held
  BY <1>1, AccountsAssumption, HeldFinite DEF Held, AccountsInv
<1>3. IsFiniteSet(Tokens) /\ Cardinality(Tokens) \in Nat
  BY <1>2, HeldFinite DEF AccountsInv
<1>4. Cardinality(Tokens) > Cardinality(Callers) * (MaxAccounts + MaxExpiries)
  BY <1>3, AccountsAssumption
<1>5. Cardinality(Tokens) <= Budget
  BY <1>2, <1>3, RenewalsFew, CallersFinite, BudgetLimited DEF AccountsInv, TokensWithinBudget
<1> QED
  BY <1>3, <1>4, <1>5, BudgetLimited DEF AccountsInv

LEMMA AccountsTyped == AccountsInv => AccountsTypeOK
<1> SUFFICES ASSUME AccountsInv PROVE AccountsTypeOK
  OBVIOUS
<1>1. created \in Nat /\ created <= MaxAccounts /\ 0..created \subseteq 0..MaxAccounts
  BY CallersFinite DEF AccountsInv, AccountsKept
<1>2. account \in AccountState(MaxAccounts)
  BY <1>1 DEF AccountsInv, AccountsKept, AccountState
<1>3. caller \in [Callers -> CallState(MaxAccounts)]
  BY <1>1 DEF AccountsInv, AccountsKept, CallInv, CallState
<1>4. Tokens \ InUse # {}
  BY TokensLeft
<1>5. opening \in 0..MaxAccounts
  BY <1>1 DEF AccountsInv, AccountsKept
<1> QED
  BY <1>2, <1>3, <1>4, <1>5 DEF AccountsInv, AccountsKept, AccountsTypeOK, AccountState, CallState

LEMMA AccountsInvInit == AccountsInit => AccountsInv
<1> SUFFICES ASSUME AccountsInit PROVE AccountsInv
  OBVIOUS
<1>1. AccountsKept
  <2>1. NoAccount \in AccountState(0) /\ NoCall \in CallState(0)
    BY DEF NoAccount, NoCall, AccountState, CallState, Nil
  <2>2. ASSUME NEW r \in Callers PROVE CallInv(r)
    BY <2>1 DEF AccountsInit, CallInv, NoCall, Nil
  <2>3. created \in 0..MaxAccounts /\ expiries \in 0..MaxExpiries /\ opening \in 0..created
    BY CallersFinite DEF AccountsInit, Nil
  <2> QED
    BY <2>1, <2>2, <2>3, FS_EmptySet DEF AccountsInit, AccountsKept
<1>2. Held = {} /\ Renewing = {} /\ ~Open
  BY DEF AccountsInit, Held, InUse, NoAccount, NoCall, Renewing, Open
<1>3. Cardinality(Held) = 0 /\ Renewals = 0
  BY <1>2, FS_EmptySet DEF Renewals
<1> QED
  BY <1>1, <1>3, BudgetLimited DEF AccountsInv, TokensWithinBudget

-----------------------------------------------------------------------------
\* A step that makes no token and opens no way to make one.
LEMMA NoTokenMade ==
  ASSUME AccountsInv, AccountsKept', Held' \subseteq Held, UNCHANGED <<created, expiries>>,
         Open \/ (~Open' /\ Renewing' \subseteq Renewing)
  PROVE  AccountsInv'
<1>1. Cardinality(Held') <= Cardinality(Held) /\ Cardinality(Held') \in Nat /\ Cardinality(Held) \in Nat
  BY HeldFinite, FS_Subset, FS_CardinalityType DEF AccountsInv
<1>2. Renewals' <= Renewals /\ Renewals' \in Nat /\ Renewals \in Nat
  <2>1. CASE Open
    BY <2>1, RenewalsFew, RenewalsFewNext, CallersFinite DEF Renewals
  <2>2. CASE ~Open' /\ Renewing' \subseteq Renewing
    <3>1. Cardinality(Renewing') <= Cardinality(Renewing)
      BY <2>2, RenewalsFew, FS_Subset
    <3> QED
      BY <2>2, <3>1, RenewalsFew, RenewalsFewNext, CallersFinite
  <2> QED
    BY <2>1, <2>2
<1>3. Budget' = Budget /\ Budget \in Nat
  BY BudgetLimited DEF Budget, AccountsInv
<1> QED
  BY <1>1, <1>2, <1>3 DEF AccountsInv, TokensWithinBudget

\* At most one token more is held.
LEMMA OneTokenMore ==
  ASSUME AccountsInv, NEW t, Held' \subseteq Held \cup {t}
  PROVE  Cardinality(Held') \in Nat /\ Cardinality(Held') <= Cardinality(Held) + 1
<1>1. /\ IsFiniteSet(Held \cup {t})
      /\ Cardinality(Held \cup {t}) <= Cardinality(Held) + 1
      /\ Cardinality(Held) \in Nat
  BY HeldFinite, FS_AddElement, FS_CardinalityType DEF AccountsInv
<1>2. IsFiniteSet(Held') /\ Cardinality(Held') <= Cardinality(Held \cup {t})
  BY <1>1, FS_Subset
<1> QED
  BY <1>1, <1>2, FS_CardinalityType

\* What is held after a step of a request.
LEMMA HeldAfterCall ==
  ASSUME AccountsKept, NEW r \in Callers, NEW call, Goes(r, call)
  PROVE  /\ caller'[r] = call /\ \A q \in Callers \ {r} : caller'[q] = caller[q]
         /\ caller' = [q \in Callers |-> caller'[q]]
         /\ Held' = (outbox' \cup {inbox', account'.token} \cup {call.token}
                     \cup {caller[q].token : q \in Callers \ {r}}) \ {Nil}
<1>1. caller'[r] = call /\ \A q \in Callers \ {r} : caller'[q] = caller[q]
  BY DEF Goes, AccountsKept
<1>2. {caller'[q].token : q \in Callers} = {call.token} \cup {caller[q].token : q \in Callers \ {r}}
  BY <1>1
<1> QED
  BY <1>1, <1>2 DEF Held, InUse, Goes, AccountsKept

\* The request that stepped has a state of its type, and nothing else moved.
LEMMA CallKept ==
  ASSUME AccountsKept, NEW r \in Callers, NEW call \in CallState(created), Goes(r, call),
         call.at = "renew" => call.id # Nil, call.at = "mail" <=> call.token # Nil,
         UNCHANGED created
  PROVE  caller' = [q \in Callers |-> caller'[q]] /\ \A q \in Callers : CallInv(q)'
<1>1. \A q \in Callers \ {r} : CallInv(q)'
  BY HeldAfterCall DEF AccountsKept, CallInv
<1>2. CallInv(r)'
  BY HeldAfterCall DEF CallInv
<1> QED
  BY <1>1, <1>2, HeldAfterCall

\* Requests that begin, queue their mail, or fail.
LEMMA RequestsMove ==
  ASSUME AccountsInv, NEW r \in Callers, Register(r) \/ QueueMail(r) \/ CallFails(r)
  PROVE  AccountsInv'
<1> USE DEF AccountsInv
<1> DEFINE call == caller'[r]
<1>1. Goes(r, call) /\ UNCHANGED <<account, inbox, opening, created, expiries>>
  BY DEF Register, QueueMail, CallFails, Goes, AccountsKept
<1>2. call \in CallState(created) /\ call.at \in {"register", "idle"} /\ call.token = Nil
  <2>1. call \in {NoCall, [NoCall EXCEPT !.at = "register"]}
    BY DEF Register, QueueMail, CallFails, Goes, AccountsKept
  <2>2. 0 \in 0..created
    BY CallersFinite DEF AccountsKept
  <2>3. CASE call = NoCall
    BY <2>2, <2>3 DEF NoCall, CallState, Nil
  <2>4. CASE call = [NoCall EXCEPT !.at = "register"]
    BY <2>2, <2>4 DEF NoCall, CallState, Nil
  <2> QED
    BY <2>1, <2>3, <2>4
<1>3. outbox' = outbox \/ (outbox' = outbox \cup {caller[r].token} /\ caller[r].token # Nil)
  BY DEF Register, QueueMail, CallFails, AccountsKept, CallInv
<1>4. caller[r].token \in Tokens \cup {Nil}
  BY DEF AccountsKept, CallInv, CallState
<1> HIDE DEF call
<1>5. AccountsKept'
  <2>1. outbox' \subseteq Tokens /\ IsFiniteSet(outbox')
    BY <1>3, <1>4, FS_AddElement DEF AccountsKept
  <2> QED
    BY <1>1, <1>2, <2>1, CallKept DEF AccountsKept
<1>6. Held' \subseteq Held
  <2>1. outbox' \ {Nil} \subseteq Held
    BY <1>3 DEF Held, InUse
  <2> QED
    BY <1>1, <1>2, <2>1, HeldAfterCall DEF Held, InUse
<1>7. Open' = Open /\ Renewing' \subseteq Renewing
  BY <1>1, <1>2, HeldAfterCall DEF Open, NeedsToken, Renewing
<1> QED
  BY <1>1, <1>5, <1>6, <1>7, NoTokenMade

\* Sign-in with a provider, where it creates no account: it may verify the one there is.
LEMMA SignInSafe ==
  ASSUME AccountsInv, NEW r \in Callers, NEW trusted \in BOOLEAN, SignInWithProvider(r, trusted)
  PROVE  AccountsInv'
<1> USE DEF AccountsInv
<1>1. UNCHANGED <<outbox, inbox, opening, created, expiries>>
  BY DEF SignInWithProvider
<1>2. CASE NoSuchUser /\ Goes(r, [NoCall EXCEPT !.at = "provider", !.trusted = trusted]) /\ UNCHANGED account
  <2> DEFINE call == [NoCall EXCEPT !.at = "provider", !.trusted = trusted]
  <2>1. 0 \in 0..created
    BY CallersFinite DEF AccountsKept
  <2>2. call \in CallState(created) /\ call.at = "provider" /\ call.token = Nil
    BY <2>1 DEF NoCall, CallState, Nil
  <2>3. Goes(r, call) /\ UNCHANGED account
    BY <1>2
  <2> HIDE DEF call
  <2>4. AccountsKept'
    BY <1>1, <2>2, <2>3, CallKept DEF AccountsKept
  <2>5. Held' \subseteq Held
    BY <1>1, <2>2, <2>3, HeldAfterCall DEF Held, InUse
  <2>6. Open' = Open /\ Renewing' \subseteq Renewing
    BY <2>2, <2>3, HeldAfterCall DEF Open, NeedsToken, Renewing
  <2> QED
    BY <1>1, <2>4, <2>5, <2>6, NoTokenMade
<1>3. CASE account' = [account EXCEPT !.verified = TRUE] /\ UNCHANGED caller
  <2>1. account' \in AccountState(created) /\ account'.verified /\ account'.id = account.id
        /\ account'.token = account.token
    BY <1>3 DEF AccountsKept, AccountState
  <2>2. AccountsKept'
    BY <1>1, <1>3, <2>1 DEF AccountsKept, CallInv
  <2>3. Held' = Held /\ ~Open' /\ Renewing' = Renewing
    BY <1>1, <1>3, <2>1 DEF Held, InUse, Open, Renewing
  <2> QED
    BY <1>1, <2>2, <2>3, NoTokenMade
<1> QED
  BY <1>2, <1>3 DEF SignInWithProvider

\* Asking for the mail: where this finds that a token is to be made, another request
\* could have found that too.
LEMMA AskAgainSafe ==
  ASSUME AccountsInv, NEW r \in Callers, AskAgain(r)
  PROVE  AccountsInv'
<1> USE DEF AccountsInv
<1> DEFINE call == caller'[r]
<1>1. Goes(r, call) /\ UNCHANGED <<account, outbox, inbox, opening, created, expiries>>
  BY DEF AskAgain, Goes, AccountsKept
<1>2. \/ NeedsToken /\ call = [NoCall EXCEPT !.at = "renew", !.id = account.id]
      \/ ~NeedsToken /\ call = [NoCall EXCEPT !.at = "mail", !.token = account.token]
  BY DEF AskAgain, Goes, AccountsKept
<1> HIDE DEF call
<1>3. 0 \in 0..created /\ account.id \in 0..created /\ account.token \in Tokens \cup {Nil}
  BY CallersFinite DEF AccountsKept, AccountState
<1>4. CASE NeedsToken /\ call = [NoCall EXCEPT !.at = "renew", !.id = account.id]
  <2>1. /\ call \in CallState(created) /\ call.at = "renew" /\ call.id # Nil /\ call.token = Nil
    BY <1>3, <1>4 DEF AskAgain, NoCall, CallState, Nil
  <2>2. AccountsKept'
    BY <1>1, <2>1, CallKept DEF AccountsKept
  <2>3. Held' \subseteq Held
    BY <1>1, <2>1, HeldAfterCall DEF Held, InUse
  <2>4. Open
    BY <1>4 DEF AskAgain, Open
  <2> QED
    BY <1>1, <2>2, <2>3, <2>4, NoTokenMade
<1>5. CASE ~NeedsToken /\ call = [NoCall EXCEPT !.at = "mail", !.token = account.token]
  <2>1. /\ call \in CallState(created) /\ call.at = "mail" /\ call.token = account.token /\ call.token # Nil
    BY <1>3, <1>5 DEF NeedsToken, NoCall, CallState, Nil
  <2>2. AccountsKept'
    BY <1>1, <2>1, CallKept DEF AccountsKept
  <2>3. Held' \subseteq Held
    BY <1>1, <2>1, HeldAfterCall DEF Held, InUse
  <2>4. Open' = Open /\ Renewing' \subseteq Renewing
    BY <1>1, <2>1, HeldAfterCall DEF Open, NeedsToken, Renewing
  <2> QED
    BY <1>1, <2>2, <2>3, <2>4, NoTokenMade
<1> QED
  BY <1>2, <1>4, <1>5

\* A token made anew is good, which ends the asking for others.
LEMMA RenewTokenSafe ==
  ASSUME AccountsInv, NEW r \in Callers, RenewToken(r)
  PROVE  AccountsInv'
<1> DEFINE call == [NoCall EXCEPT !.at = "mail", !.token = NewToken]
<1>1. /\ Goes(r, call) /\ UNCHANGED <<outbox, inbox, opening, created, expiries>>
      /\ account' = [account EXCEPT !.token = NewToken, !.fresh = TRUE]
      /\ r \in Renewing /\ account.id # Nil
  BY DEF RenewToken, Renewing, AccountsInv, AccountsKept, CallInv
<1>2. NewToken \in Tokens /\ NewToken # Nil
  BY TokensLeft, AccountsAssumption
<1>3. 0 \in 0..created
  BY CallersFinite DEF AccountsInv, AccountsKept
<1>4. call \in CallState(created) /\ call.at = "mail" /\ call.token = NewToken
  BY <1>2, <1>3 DEF NoCall, CallState, Nil
<1> HIDE DEF call
<1>5. /\ account' \in AccountState(created) /\ account'.id = account.id
      /\ account'.token = NewToken /\ account'.fresh
  BY <1>1, <1>2 DEF AccountsInv, AccountsKept, AccountState
<1>6. AccountsKept'
  BY <1>1, <1>2, <1>4, <1>5, CallKept DEF AccountsInv, AccountsKept
<1>7. ~Open' /\ Renewing' \subseteq Renewing \ {r}
  BY <1>1, <1>2, <1>4, <1>5, HeldAfterCall DEF Open, NeedsToken, Renewing, AccountsInv
<1>8. Held' \subseteq Held \cup {NewToken}
  BY <1>1, <1>4, <1>5, HeldAfterCall DEF Held, InUse, AccountsInv
<1>9. Cardinality(Renewing') <= Cardinality(Renewing) - 1
  <2>1. IsFiniteSet(Renewing \ {r}) /\ Cardinality(Renewing \ {r}) = Cardinality(Renewing) - 1
    BY <1>1, RenewalsFew, FS_RemoveElement
  <2>2. Cardinality(Renewing') <= Cardinality(Renewing \ {r})
    BY <1>7, <2>1, FS_Subset
  <2> QED
    BY <2>1, <2>2
<1>10. Renewals' <= Renewals - 1 /\ Renewals' \in Nat /\ Renewals \in Nat
  BY <1>7, <1>9, RenewalsFew, RenewalsFewNext, CallersFinite
<1>11. Budget' = Budget /\ Budget \in Nat
  BY <1>1, BudgetLimited DEF Budget, AccountsInv
<1>12. Cardinality(Held') <= Cardinality(Held) + 1 /\ Cardinality(Held') \in Nat /\ Cardinality(Held) \in Nat
  BY <1>8, OneTokenMore, HeldFinite DEF AccountsInv
<1> QED
  BY <1>6, <1>10, <1>11, <1>12 DEF AccountsInv, TokensWithinBudget

\* An account is created: the budget grows by a token of each request.
LEMMA InsertSafe ==
  ASSUME AccountsInv, NEW r \in Callers, InsertRegistered(r) \/ InsertByProvider(r)
  PROVE  AccountsInv'
<1> DEFINE call == caller'[r]
<1>1. /\ Goes(r, call) /\ UNCHANGED <<outbox, inbox, opening, expiries>>
      /\ created' = created + 1 /\ created < MaxAccounts /\ account.id = Nil
  BY DEF InsertRegistered, InsertByProvider, InsertAccount, Goes, AccountsInv, AccountsKept
<1>2. \/ /\ account' = [id |-> created + 1, verified |-> FALSE, token |-> NewToken, fresh |-> NewToken # Nil]
         /\ call = [NoCall EXCEPT !.at = "mail", !.token = NewToken]
      \/ /\ account' = [id |-> created + 1, verified |-> caller[r].trusted, token |-> Nil, fresh |-> Nil # Nil]
         /\ call = NoCall
  BY DEF InsertRegistered, InsertByProvider, InsertAccount, Goes, AccountsInv, AccountsKept
<1> HIDE DEF call
<1>3. NewToken \in Tokens /\ NewToken # Nil
  BY TokensLeft, AccountsAssumption
<1>4. /\ created \in Nat /\ created' \in 0..MaxAccounts /\ 0 \in 0..created' /\ created + 1 \in 0..created'
      /\ 0..created \subseteq 0..created'
  BY <1>1, CallersFinite DEF AccountsInv, AccountsKept
<1>5. /\ account' \in AccountState(created') /\ account'.id = created + 1
      /\ account'.token = call.token /\ (call.at = "mail" => account'.fresh)
  <2>1. caller[r].trusted \in BOOLEAN
    BY DEF AccountsInv, AccountsKept, CallInv, CallState
  <2>2. CASE /\ account' = [id |-> created + 1, verified |-> FALSE, token |-> NewToken, fresh |-> NewToken # Nil]
             /\ call = [NoCall EXCEPT !.at = "mail", !.token = NewToken]
    BY <1>3, <1>4, <2>2 DEF AccountState, NoCall
  <2>3. CASE /\ account' = [id |-> created + 1, verified |-> caller[r].trusted, token |-> Nil, fresh |-> Nil # Nil]
             /\ call = NoCall
    BY <1>4, <2>1, <2>3 DEF AccountState, NoCall
  <2> QED
    BY <1>2, <2>2, <2>3
<1>6. /\ call \in CallState(created') /\ call.at \in {"mail", "idle"}
      /\ (call.at = "mail" <=> call.token # Nil) /\ call.token \in {Nil, NewToken}
  <2>1. CASE call = [NoCall EXCEPT !.at = "mail", !.token = NewToken]
    BY <1>3, <1>4, <2>1 DEF CallState, NoCall, Nil
  <2>2. CASE call = NoCall
    BY <1>4, <2>2 DEF CallState, NoCall, Nil
  <2> QED
    BY <1>2, <2>1, <2>2
<1>7. AccountsKept'
  <2>1. ASSUME NEW q \in Callers \ {r} PROVE CallInv(q)'
    BY <1>1, <1>4, HeldAfterCall DEF AccountsInv, AccountsKept, CallInv, CallState
  <2>2. CallInv(r)'
    BY <1>1, <1>6, HeldAfterCall DEF AccountsInv, CallInv
  <2> QED
    BY <1>1, <1>4, <1>5, <2>1, <2>2, HeldAfterCall DEF AccountsInv, AccountsKept
<1>8. Held' \subseteq Held \cup {NewToken}
  BY <1>1, <1>5, <1>6, HeldAfterCall DEF Held, InUse, AccountsInv
<1>9. call.at = "idle" => Held' \subseteq Held
  BY <1>1, <1>5, <1>6, HeldAfterCall DEF Held, InUse, AccountsInv
<1>10. call.at = "mail" => ~Open' /\ Renewing' = {}
  <2>1. \A q \in Callers \ {r} : caller'[q].id # account'.id
    BY <1>1, <1>4, <1>5, HeldAfterCall DEF AccountsInv, AccountsKept, CallInv, CallState
  <2>2. call.at = "mail" => ~Open'
    BY <1>5, <1>6 DEF Open, NeedsToken
  <2>3. call.at = "mail" => Renewing' = {}
    BY <1>1, <2>1, HeldAfterCall DEF Renewing, AccountsInv
  <2> QED
    BY <2>2, <2>3
<1>11. Budget' = Budget + Cardinality(Callers) /\ Budget \in Nat
  <2>1. created' + expiries' = created + expiries + 1
    BY <1>1, <1>4, CallersFinite DEF AccountsInv, AccountsKept
  <2> QED
    BY <2>1, BudgetGrows, BudgetLimited DEF AccountsInv
<1>12. /\ Cardinality(Held) \in Nat /\ Renewals \in Nat /\ Cardinality(Callers) \in Nat /\ Cardinality(Callers) >= 1
       /\ Cardinality(Held) + Renewals <= Budget
  BY HeldFinite, RenewalsFew, CallersFinite DEF AccountsInv, TokensWithinBudget
<1>13. CASE call.at = "mail"
  <2>1. Renewals' = 0
    BY <1>10, <1>13, RenewalsFewNext, FS_EmptySet
  <2>2. Cardinality(Held') <= Cardinality(Held) + 1 /\ Cardinality(Held') \in Nat
    BY <1>8, OneTokenMore
  <2> QED
    BY <1>7, <1>11, <1>12, <2>1, <2>2 DEF AccountsInv, TokensWithinBudget
<1>14. CASE call.at = "idle"
  <2>1. Cardinality(Held') <= Cardinality(Held) /\ Cardinality(Held') \in Nat
    BY <1>9, <1>14, HeldFinite, FS_Subset, FS_CardinalityType DEF AccountsInv
  <2>2. Renewals' \in Nat /\ Renewals' <= Cardinality(Callers)
    BY RenewalsFewNext, CallersFinite
  <2> QED
    BY <1>7, <1>11, <1>12, <2>1, <2>2 DEF AccountsInv, TokensWithinBudget
<1> QED
  BY <1>6, <1>13, <1>14

\* A token that expires is the other thing the budget grows by.
LEMMA TokenExpiresSafe ==
  ASSUME AccountsInv, TokenExpires
  PROVE  AccountsInv'
<1>1. /\ UNCHANGED <<caller, outbox, inbox, opening, created>>
      /\ account' = [account EXCEPT !.fresh = FALSE]
      /\ expiries' = expiries + 1 /\ expiries < MaxExpiries
  BY DEF TokenExpires
<1>2. account' \in AccountState(created) /\ account'.token = account.token
  BY <1>1 DEF AccountsInv, AccountsKept, AccountState
<1>3. AccountsKept'
  BY <1>1, <1>2, CallersFinite DEF AccountsInv, AccountsKept, CallInv
<1>4. Held' = Held
  BY <1>1, <1>2 DEF Held, InUse
<1>5. Budget' = Budget + Cardinality(Callers) /\ Budget \in Nat
  <2>1. created' + expiries' = created + expiries + 1
    BY <1>1, CallersFinite DEF AccountsInv, AccountsKept
  <2> QED
    BY <2>1, BudgetGrows, BudgetLimited DEF AccountsInv
<1> QED
  BY <1>3, <1>4, <1>5, HeldFinite, RenewalsFew, RenewalsFewNext, CallersFinite DEF AccountsInv, TokensWithinBudget

\* The mails, the links in them, and the removal of the account.
LEMMA LinksSafe ==
  ASSUME AccountsInv, OpenLink \/ MarkVerified \/ RemoveAccount \/ \E t \in Tokens : SendMail(t)
  PROVE  AccountsInv'
<1> USE DEF AccountsInv
<1>1. UNCHANGED <<caller, created, expiries>>
  BY DEF OpenLink, MarkVerified, RemoveAccount, SendMail
<1>2. CASE OpenLink
  <2>1. opening' \in 0..created /\ UNCHANGED <<account, outbox, inbox>>
    BY <1>2 DEF OpenLink, AccountsKept, AccountState
  <2>2. AccountsKept'
    BY <1>1, <2>1 DEF AccountsKept, CallInv
  <2>3. Held' = Held /\ Open' = Open /\ Renewing' = Renewing
    BY <1>1, <2>1 DEF Held, InUse, Open, NeedsToken, Renewing
  <2> QED
    BY <1>1, <2>2, <2>3, NoTokenMade
<1>3. ASSUME NEW t \in Tokens, SendMail(t)
      PROVE  AccountsInv'
  <2>1. UNCHANGED <<account, opening>> /\ outbox' \subseteq outbox /\ inbox' \in {inbox, t} /\ t \in outbox
    BY <1>3 DEF SendMail
  <2>2. AccountsKept'
    BY <1>1, <2>1, FS_Subset DEF AccountsKept, CallInv
  <2>3. Held' \subseteq Held /\ Open' = Open /\ Renewing' = Renewing
    BY <1>1, <2>1 DEF Held, InUse, Open, NeedsToken, Renewing
  <2> QED
    BY <1>1, <2>2, <2>3, NoTokenMade
<1>4. CASE MarkVerified /\ account.id = opening
  <2>1. UNCHANGED <<outbox, inbox>> /\ opening' = Nil
        /\ account' = [account EXCEPT !.verified = TRUE, !.token = Nil, !.fresh = FALSE]
    BY <1>4 DEF MarkVerified
  <2>2. /\ account' \in AccountState(created) /\ account'.id = account.id /\ account'.verified
        /\ account'.token = Nil
    BY <2>1 DEF AccountsKept, AccountState
  <2>3. AccountsKept'
    BY <1>1, <2>1, <2>2, CallersFinite DEF AccountsKept, CallInv, Nil
  <2>4. Held' \subseteq Held /\ ~Open' /\ Renewing' = Renewing
    BY <1>1, <2>1, <2>2 DEF Held, InUse, Open, Renewing
  <2> QED
    BY <1>1, <2>3, <2>4, NoTokenMade
<1>5. CASE MarkVerified /\ account.id # opening
  <2>1. UNCHANGED <<account, outbox, inbox>> /\ opening' = Nil
    BY <1>5 DEF MarkVerified
  <2>2. AccountsKept'
    BY <1>1, <2>1, CallersFinite DEF AccountsKept, CallInv, Nil
  <2>3. Held' = Held /\ Open' = Open /\ Renewing' = Renewing
    BY <1>1, <2>1 DEF Held, InUse, Open, NeedsToken, Renewing
  <2> QED
    BY <1>1, <2>2, <2>3, NoTokenMade
<1>6. CASE RemoveAccount
  <2>1. UNCHANGED <<outbox, inbox, opening>> /\ account' = NoAccount
    BY <1>6 DEF RemoveAccount
  <2>2. account' \in AccountState(created) /\ account'.id = Nil /\ account'.token = Nil
    BY <2>1, CallersFinite DEF NoAccount, AccountState, AccountsKept, Nil
  <2>3. AccountsKept'
    BY <1>1, <2>1, <2>2 DEF AccountsKept, CallInv
  <2>4. Held' \subseteq Held /\ ~Open' /\ Renewing' = {}
    BY <1>1, <2>1, <2>2 DEF Held, InUse, Open, Renewing, AccountsKept, CallInv
  <2> QED
    BY <1>1, <2>3, <2>4, NoTokenMade
<1> QED
  BY <1>2, <1>3, <1>4, <1>5, <1>6

LEMMA AccountsInvStep == AccountsInv /\ [AccountsNext]_accountsVars => AccountsInv'
<1> SUFFICES ASSUME AccountsInv, [AccountsNext]_accountsVars PROVE AccountsInv'
  OBVIOUS
<1>1. CASE UNCHANGED accountsVars
  <2>1. AccountsKept' /\ Held' = Held /\ Open' = Open /\ Renewing' = Renewing
    BY <1>1 DEF accountsVars, AccountsInv, AccountsKept, CallInv, Held, InUse, Open, NeedsToken, Renewing
  <2> QED
    BY <1>1, <2>1, NoTokenMade DEF accountsVars
<1> QED
  BY <1>1, RequestsMove, SignInSafe, AskAgainSafe, RenewTokenSafe, InsertSafe, TokenExpiresSafe, LinksSafe
     DEF AccountsNext

\* Requests that pass one another never make more tokens than the budget, which is the
\* number of requests for each account created and each token expired: one that was made
\* anew is good, and is mailed again.
THEOREM TokensStayFew == AccountsSpec => []TokensWithinBudget
<1>1. AccountsInv => TokensWithinBudget
  BY DEF AccountsInv
<1> QED
  BY <1>1, AccountsInvInit, AccountsInvStep, PTL DEF AccountsSpec

-----------------------------------------------------------------------------
(* The badge and the page that marks notifications as read.                *)

LEMMA NoticesFinite ==
  /\ Cardinality(Notices) \in Nat
  /\ MaxPushed \in Nat /\ MaxBadge \in Nat /\ MaxMarks \in Nat
  /\ Cardinality(Notices) <= MaxBadge
BY UnreadAssumption, FS_CardinalityType

LEMMA UnreadRowsFew == Cardinality(UnreadRows) \in 0..Cardinality(Notices)
<1>1. UnreadRows \in SUBSET Notices
  BY DEF UnreadRows
<1> QED
  BY <1>1, UnreadAssumption, FS_Subset, FS_CardinalityType, NoticesFinite

MarksTyped(m) ==
  /\ m \in [sent : Nat, done : Nat, orphaned : Nat]
  /\ m.sent + m.done + m.orphaned <= MaxMarks

CountTyped(c) == counts[c] \in [at : {"none", "asked", "read"}, n : 0..Cardinality(Notices)]

FlagsTyped == known \in BOOLEAN /\ listening \in BOOLEAN

\* What UnreadTypeOK says, with the requests to mark counted by their sum.
UnreadInv ==
  /\ notices \in [Notices -> {"none", "unread", "read"}]
  /\ FlagsTyped
  /\ pushed \in 0..MaxPushed
  /\ badge \in 0..MaxBadge
  /\ counts = [c \in CountRequests |-> counts[c]]
  /\ \A c \in CountRequests : CountTyped(c)
  /\ page \in {"away", "unmarked", "marked"}
  /\ MarksTyped(marks)

LEMMA UnreadTyped == UnreadInv => UnreadTypeOK
<1> SUFFICES ASSUME UnreadInv PROVE UnreadTypeOK
  OBVIOUS
<1>1. counts \in [CountRequests -> [at : {"none", "asked", "read"}, n : 0..Cardinality(Notices)]]
  BY DEF UnreadInv, CountTyped
<1>2. /\ marks \in [sent : 0..MaxMarks, done : 0..MaxMarks, orphaned : 0..MaxMarks]
      /\ marks.sent + marks.done + marks.orphaned <= MaxMarks
  BY NoticesFinite DEF UnreadInv, MarksTyped
<1> QED
  BY <1>1, <1>2 DEF UnreadInv, UnreadTypeOK, FlagsTyped

LEMMA UnreadInvInit == UnreadInit => UnreadInv
<1> SUFFICES ASSUME UnreadInit PROVE UnreadInv
  OBVIOUS
<1>1. \A c \in CountRequests : CountTyped(c)
  BY NoticesFinite DEF UnreadInit, CountTyped, NoCount
<1>2. MarksTyped(marks)
  BY NoticesFinite DEF UnreadInit, MarksTyped
<1>3. FlagsTyped
  BY DEF UnreadInit, FlagsTyped
<1> QED
  BY <1>1, <1>2, <1>3, NoticesFinite DEF UnreadInit, UnreadInv

\* The flags are set and taken back, whatever else a step does.
LEMMA FlagsStep ==
  ASSUME UnreadInv, [UnreadNext]_unreadVars
  PROVE  FlagsTyped'
<1>1. CASE known' \in {FALSE, TRUE, known} /\ listening' \in {FALSE, TRUE, listening}
  BY <1>1 DEF UnreadInv, FlagsTyped
<1> QED
  BY <1>1 DEF UnreadNext, Notify, MarkRead, MarkAllRead, MarkFails, ReadCount, SetUser, CountArrives, CountFails,
     Reload, DropUser, OpenStream, BreakStream, PushArrives, MarkArrives, OpenPage, LeavePage, unreadVars

\* Requests to mark end, or become done, without becoming more.
LEMMA MarksEnd ==
  ASSUME UnreadInv, MarkAllRead \/ MarkFails
  PROVE  MarksTyped(marks)'
<1>1. marks \in [sent : Nat, done : Nat, orphaned : Nat] /\ marks.sent + marks.done + marks.orphaned <= MaxMarks
  BY DEF UnreadInv, MarksTyped
<1> USE NoticesFinite DEF MarksTyped
<1>2. CASE marks.sent > 0 /\ marks' = [marks EXCEPT !.sent = @ - 1, !.done = @ + 1]
  <2>1. marks' = [sent |-> marks.sent - 1, done |-> marks.done + 1, orphaned |-> marks.orphaned]
    BY <1>1, <1>2
  <2> QED
    BY <1>1, <1>2, <2>1
<1>3. CASE marks.sent > 0 /\ marks' = [marks EXCEPT !["sent"] = @ - 1]
  <2>1. marks' = [sent |-> marks.sent - 1, done |-> marks.done, orphaned |-> marks.orphaned]
    BY <1>1, <1>3
  <2> QED
    BY <1>1, <1>3, <2>1
<1>4. CASE marks.done > 0 /\ marks' = [marks EXCEPT !["done"] = @ - 1]
  <2>1. marks' = [sent |-> marks.sent, done |-> marks.done - 1, orphaned |-> marks.orphaned]
    BY <1>1, <1>4
  <2> QED
    BY <1>1, <1>4, <2>1
<1>5. CASE marks.orphaned > 0 /\ marks' = [marks EXCEPT !["orphaned"] = @ - 1]
  <2>1. marks' = [sent |-> marks.sent, done |-> marks.done, orphaned |-> marks.orphaned - 1]
    BY <1>1, <1>5
  <2> QED
    BY <1>1, <1>5, <2>1
<1> QED
  BY <1>2, <1>3, <1>4, <1>5 DEF MarkAllRead, MarkFails

\* The effect of the page keeps the requests to mark within their bound.
LEMMA AfterRenderTyped ==
  ASSUME NEW p \in {"away", "unmarked", "marked"}, NEW n \in Nat,
         NEW m \in [sent : Nat, done : Nat, orphaned : Nat], AfterRender(p, n, m)
  PROVE  page' \in {"away", "unmarked", "marked"} /\ MarksTyped(marks)'
<1>1. page' \in {"away", "unmarked", "marked"}
  BY DEF AfterRender
<1>2. /\ marks' \in [sent : Nat, done : Nat, orphaned : Nat]
      /\ marks'.done = m.done /\ marks'.orphaned = m.orphaned
  BY DEF AfterRender
<1>3. marks'.sent + marks'.done + marks'.orphaned <= MaxMarks
  BY <1>2 DEF AfterRender
<1> QED
  BY <1>1, <1>2, <1>3 DEF MarksTyped

\* A request for the count is asked, read, or none again; the number read is one of rows.
LEMMA CountStepTyped ==
  ASSUME UnreadInv, NEW c \in CountRequests,
         \/ counts' = [counts EXCEPT ![c] = [at |-> "read", n |-> Cardinality(UnreadRows)]]
         \/ counts' = [counts EXCEPT ![c].at = "asked"]
         \/ counts' = [counts EXCEPT ![c] = NoCount]
  PROVE  /\ counts' = [d \in CountRequests |-> counts'[d]]
         /\ \A d \in CountRequests : CountTyped(d)'
<1>1. [at |-> "read", n |-> Cardinality(UnreadRows)] \in [at : {"none", "asked", "read"}, n : 0..Cardinality(Notices)]
  BY UnreadRowsFew
<1>2. NoCount \in [at : {"none", "asked", "read"}, n : 0..Cardinality(Notices)]
  BY NoticesFinite DEF NoCount
<1> QED
  BY <1>1, <1>2 DEF UnreadInv, CountTyped

LEMMA CountsTyped ==
  ASSUME UnreadInv, FlagsTyped', NEW c \in CountRequests,
         ReadCount(c) \/ SetUser(c) \/ CountArrives(c) \/ CountFails(c)
  PROVE  UnreadInv'
<1>1. /\ counts' = [d \in CountRequests |-> counts'[d]]
      /\ \A d \in CountRequests : CountTyped(d)'
  BY CountStepTyped DEF ReadCount, SetUser, CountArrives, CountFails
<1>2. CASE ReadCount(c) \/ CountFails(c)
  BY <1>1, <1>2 DEF ReadCount, CountFails, UnreadInv, MarksTyped
<1>3. CASE SetUser(c)
  BY <1>1, <1>3, NoticesFinite DEF SetUser, UnreadInv, MarksTyped
<1>4. CASE CountArrives(c)
  <2>1. counts[c].n \in 0..Cardinality(Notices)
    BY DEF UnreadInv, CountTyped
  <2>2. page' \in {"away", "unmarked", "marked"} /\ MarksTyped(marks)'
    BY <1>4, <2>1, AfterRenderTyped, NoticesFinite DEF CountArrives, UnreadInv, MarksTyped
  <2> QED
    BY <1>1, <1>4, <2>1, <2>2, NoticesFinite DEF CountArrives, UnreadInv
<1> QED
  BY <1>2, <1>3, <1>4

\* The server moves rows and requests, and pushes within the bound.
LEMMA ServerMarksTyped ==
  ASSUME UnreadInv, FlagsTyped', MarkAllRead \/ MarkFails \/ \E e \in Notices : Notify(e) \/ MarkRead(e)
  PROVE  UnreadInv'
<1>1. ASSUME NEW e \in Notices, Notify(e) \/ MarkRead(e)
      PROVE  UnreadInv'
  <2>1. notices' \in [Notices -> {"none", "unread", "read"}] /\ pushed' \in 0..MaxPushed
    BY <1>1, NoticesFinite DEF UnreadInv, Notify, MarkRead
  <2> QED
    BY <1>1, <2>1 DEF UnreadInv, Notify, MarkRead, MarksTyped, CountTyped
<1>2. CASE MarkAllRead
  <2>1. MarksTyped(marks)'
    BY <1>2, MarksEnd
  <2>2. notices' \in [Notices -> {"none", "unread", "read"}]
    BY <1>2 DEF MarkAllRead, UnreadInv, AllRead
  <2> QED
    BY <1>2, <2>1, <2>2 DEF MarkAllRead, UnreadInv, CountTyped
<1>3. CASE MarkFails
  <2>1. MarksTyped(marks)'
    BY <1>3, MarksEnd
  <2> QED
    BY <1>3, <2>1 DEF MarkFails, UnreadInv, CountTyped
<1> QED
  BY <1>1, <1>2, <1>3

LEMMA TabStepsTyped ==
  ASSUME UnreadInv, FlagsTyped',
         Reload \/ DropUser \/ OpenStream \/ BreakStream \/ PushArrives \/ MarkArrives \/ OpenPage \/ LeavePage
  PROVE  UnreadInv'
<1>1. CASE Reload
  <2>1. page' \in {"away", "unmarked", "marked"} /\ MarksTyped(marks)'
    <3> DEFINE p == IF page = "away" THEN "away" ELSE "unmarked"
               m == [sent |-> 0, done |-> 0, orphaned |-> marks.orphaned + marks.sent]
    <3>1. p \in {"away", "unmarked", "marked"} /\ m \in [sent : Nat, done : Nat, orphaned : Nat]
      BY DEF UnreadInv, MarksTyped
    <3>2. AfterRender(p, 0, m)
      BY <1>1 DEF Reload
    <3> HIDE DEF p, m
    <3> QED
      BY <3>1, <3>2, AfterRenderTyped
  <2>2. \A c \in CountRequests : CountTyped(c)'
    BY <1>1, NoticesFinite DEF Reload, CountTyped, NoCount
  <2> QED
    BY <1>1, <2>1, <2>2, NoticesFinite DEF Reload, UnreadInv
<1>2. CASE DropUser \/ OpenStream \/ BreakStream \/ LeavePage
  BY <1>2, NoticesFinite DEF DropUser, OpenStream, BreakStream, LeavePage, UnreadInv, CountTyped, MarksTyped
<1>3. CASE PushArrives
  <2>1. badge + 1 \in Nat /\ marks \in [sent : Nat, done : Nat, orphaned : Nat]
    BY DEF UnreadInv, MarksTyped
  <2>2. page' \in {"away", "unmarked", "marked"} /\ MarksTyped(marks)'
    BY <1>3, <2>1, AfterRenderTyped DEF PushArrives, UnreadInv
  <2> QED
    BY <1>3, <2>2, NoticesFinite DEF PushArrives, UnreadInv, CountTyped
<1>4. CASE MarkArrives
  <2>1. [marks EXCEPT !.done = @ - 1] \in [sent : Nat, done : Nat, orphaned : Nat]
    BY <1>4 DEF MarkArrives, UnreadInv, MarksTyped
  <2>2. page' \in {"away", "unmarked", "marked"} /\ MarksTyped(marks)'
    BY <1>4, <2>1, AfterRenderTyped DEF MarkArrives, UnreadInv
  <2> QED
    BY <1>4, <2>2, NoticesFinite DEF MarkArrives, UnreadInv, CountTyped
<1>5. CASE OpenPage
  <2>1. page' \in {"away", "unmarked", "marked"} /\ MarksTyped(marks)'
    BY <1>5, AfterRenderTyped DEF OpenPage, UnreadInv, MarksTyped
  <2> QED
    BY <1>5, <2>1 DEF OpenPage, UnreadInv, CountTyped
<1> QED
  BY <1>1, <1>2, <1>3, <1>4, <1>5

LEMMA UnreadInvStep == UnreadInv /\ [UnreadNext]_unreadVars => UnreadInv'
<1> SUFFICES ASSUME UnreadInv, [UnreadNext]_unreadVars PROVE UnreadInv'
  OBVIOUS
<1>1. CASE UNCHANGED unreadVars
  BY <1>1 DEF unreadVars, UnreadInv, CountTyped, MarksTyped, FlagsTyped
<1> QED
  BY <1>1, FlagsStep, CountsTyped, ServerMarksTyped, TabStepsTyped DEF UnreadNext

-----------------------------------------------------------------------------
(* The parts side by side: a step of one leaves the others alone.          *)

MaintenanceInv ==
  FanoutInv /\ CachesTypeOK /\ ReconciliationInv /\ RetentionInv /\ AccountsInv /\ UnreadInv

LEMMA MaintenanceInvStep == MaintenanceInv /\ [Next]_vars => MaintenanceInv'
<1> SUFFICES ASSUME MaintenanceInv, [Next]_vars PROVE MaintenanceInv'
  OBVIOUS
<1> USE DEF Next, vars, InFanout, InCaches, InReconciliation, InRetention, InAccounts, InUnread, InCreatePost
<1>1. [FanoutNext]_fanoutVars
  OBVIOUS
<1>2. [CachesNext]_cachesVars
  OBVIOUS
<1>3. [ReconciliationNext]_reconciliationVars
  OBVIOUS
<1>4. [RetentionNext]_retentionVars
  OBVIOUS
<1>5. [AccountsNext]_accountsVars
  OBVIOUS
<1>6. [UnreadNext]_unreadVars
  OBVIOUS
<1> QED
  BY <1>1, <1>2, <1>3, <1>4, <1>5, <1>6, FanoutInvStep, CachesTypeStep, ReconciliationInvStep, RetentionInvStep,
     AccountsInvStep, UnreadInvStep DEF MaintenanceInv

LEMMA MaintenanceInvariant == Spec => []MaintenanceInv
<1>1. Init => MaintenanceInv
  BY FanoutInvInit, CachesTypeInit, ReconciliationInvInit, RetentionInvInit, AccountsInvInit, UnreadInvInit
     DEF Init, MaintenanceInv
<1> QED
  BY <1>1, MaintenanceInvStep, PTL DEF Spec

\* All that the background work keeps has its type, for every value of the constants: a
\* counter is never further below zero than there are items, the badge and the requests
\* to mark stay within their bounds, and there is always a token left for a request.
THEOREM MaintenanceTypeCorrect == Spec => []TypeOK
<1>1. MaintenanceInv => TypeOK
  BY ReconciliationTyped, RetentionTyped, AccountsTyped, UnreadTyped DEF MaintenanceInv, FanoutInv, TypeOK
<1> QED
  BY <1>1, MaintenanceInvariant, PTL

=============================================================================
