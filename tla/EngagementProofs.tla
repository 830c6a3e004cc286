-------------------------- MODULE EngagementProofs --------------------------
(***************************************************************************)
(* react implements Tally, for any users, posts and requests, and so the   *)
(* like counters are the numbers of reactions.                             *)
(*                                                                         *)
(* A step of the refinement is right if the request still knows what it    *)
(* asked for: a reaction in r_create has a post and a type.  RequestsOK    *)
(* says so; that a counter never drops below zero follows afterwards, from *)
(* what it counts.                                                         *)
(***************************************************************************)
EXTENDS Engagement, FiniteSetTheorems, TLAPS

\* What TallyProofs proves of the counters of the likes.
LikeProofs == INSTANCE TallyProofs WITH
  Items <- Users, Owners <- Posts,
  counted <- {k \in Keys : reaction[k] # NoReaction}, counter <- likeCount

\* Where a request wants a reaction.
Reacting == {"r_visible", "r_blocks", "r_read", "r_create", "r_delete", "r_switch", "r_notify"}

\* A request under way is about somebody and a post, and a reaction about a type.
RequestsOK ==
  \A r \in Requests :
    /\ pc[r] \notin Answers => key[r] \in Keys
    /\ pc[r] \in Reacting => want[r] \in Types

\* TypeOK, but for the sign of the counter.
RowsOK ==
  /\ AccessTypeOK
  /\ reaction \in [Keys -> Types \cup {NoReaction}]
  /\ likeCount \in [Posts -> Int]
  /\ bookmarks \subseteq Keys
  /\ shareCount \in [Posts -> 0..MaxShares]
  /\ likeNotified \subseteq Keys
  /\ pc \in [Requests -> PCs]
  /\ key \in [Requests -> Keys \cup {NoKey}]
  /\ want \in [Requests -> Wants \cup {"none"}]

IInv == RowsOK /\ RequestsOK

-----------------------------------------------------------------------------
\* The invariant holds at the start.
LEMMA InitInv == Init => IInv
  BY EngagementAssumption
  DEF Init, AccessInit, IInv, RowsOK, RequestsOK, AccessTypeOK, Answers, PCs, Reacting, Keys

\* An answer forgets the request.
LEMMA AnswerOK ==
  ASSUME IInv, NEW r \in Requests, NEW a \in Answers, Answer(r, a)
  PROVE  /\ pc' \in [Requests -> PCs]
         /\ key' \in [Requests -> Keys \cup {NoKey}]
         /\ want' \in [Requests -> Wants \cup {"none"}]
         /\ RequestsOK'
  BY DEF IInv, RowsOK, RequestsOK, Answer, Answers, PCs, Reacting

\* A request that goes on knows what it asked for.
LEMMA GotoOK ==
  ASSUME IInv, NEW r \in Requests, NEW next \in PCs, Goto(r, next),
         pc[r] \notin Answers, next \in Reacting => pc[r] \in Reacting
  PROVE  /\ pc' \in [Requests -> PCs]
         /\ key' \in [Requests -> Keys \cup {NoKey}]
         /\ want' \in [Requests -> Wants \cup {"none"}]
         /\ RequestsOK'
  BY DEF IInv, RowsOK, RequestsOK, Goto

\* A request that arrives asks for something.
LEMMA StartOK ==
  ASSUME IInv, NEW r \in Requests, NEW k \in Keys,
         ReactStart(r, k) \/ BookmarkStart(r, k) \/ ShareStart(r, k)
  PROVE  IInv'
<1> USE DEF IInv, RowsOK, RequestsOK, Start, AccessTypeOK, accessVars, rows, PCs, Answers, Wants, Reacting
<1>1. CASE ReactStart(r, k)
  BY <1>1 DEF ReactStart
<1>2. CASE BookmarkStart(r, k)
  BY <1>2 DEF BookmarkStart
<1>3. CASE ShareStart(r, k)
  BY <1>3 DEF ShareStart
<1> QED
  BY <1>1, <1>2, <1>3

-----------------------------------------------------------------------------
(* One lemma per action: what the request keeps, and what Tally makes of it. *)

\* A step of the counter and its rows, or none.
Tallied == [LikeTally!TallyNext]_(LikeTally!tallyVars)

\* A step that touches no reaction and no counter is a stutter of Tally.
LEMMA Untallied ==
  ASSUME UNCHANGED <<reaction, likeCount>>
  PROVE  Tallied
  BY DEF Tallied, LikeTally!tallyVars

\* The checks and the read move the request only.
LEMMA ChecksKeep ==
  ASSUME IInv, NEW r \in Requests, CheckVisible(r) \/ CheckBlocks(r) \/ ReadReaction(r)
  PROVE  IInv' /\ Tallied
<1>1. UNCHANGED <<accessVars, rows>>
  BY DEF CheckVisible, CheckBlocks, ReadReaction
<1>2. \/ \E a \in Answers : Answer(r, a)
      \/ \E next \in PCs : /\ Goto(r, next)
                           /\ pc[r] \notin Answers
                           /\ next \in Reacting => pc[r] \in Reacting
  BY DEF CheckVisible, CheckBlocks, ReadReaction, Answers, PCs, Reacting
<1>3. /\ pc' \in [Requests -> PCs]
      /\ key' \in [Requests -> Keys \cup {NoKey}]
      /\ want' \in [Requests -> Wants \cup {"none"}]
      /\ RequestsOK'
  BY <1>2, AnswerOK, GotoOK
<1> QED
  BY <1>1, <1>3, Untallied DEF IInv, RowsOK, AccessTypeOK, accessVars, rows

\* A reaction that is added is a row that comes: it was not there, and has a type.
LEMMA CreateKeeps ==
  ASSUME IInv, NEW r \in Requests, CreateReaction(r)
  PROVE  IInv' /\ Tallied
<1> DEFINE k == key[r]
<1>1. k \in Keys /\ k[2] \in Posts /\ want[r] \in Types /\ want[r] # NoReaction
  BY EngagementAssumption DEF CreateReaction, IInv, RequestsOK, Answers, Reacting, Keys
<1>2. CASE reaction[k] = NoReaction
  <2>1. /\ reaction' = [reaction EXCEPT ![k] = want[r]]
        /\ likeCount' = [likeCount EXCEPT ![k[2]] = @ + 1]
        /\ Goto(r, "r_notify")
    BY <1>2 DEF CreateReaction
  <2>2. /\ reaction' \in [Keys -> Types \cup {NoReaction}]
        /\ likeCount' \in [Posts -> Int]
    BY <1>1, <2>1 DEF IInv, RowsOK
  <2>3. /\ pc' \in [Requests -> PCs]
        /\ key' \in [Requests -> Keys \cup {NoKey}]
        /\ want' \in [Requests -> Wants \cup {"none"}]
        /\ RequestsOK'
    BY <2>1, GotoOK DEF CreateReaction, PCs, Answers, Reacting
  <2>4. IInv'
    BY <2>2, <2>3 DEF CreateReaction, IInv, RowsOK, AccessTypeOK, accessVars
  <2>5. {x \in Keys : reaction'[x] # NoReaction} = {x \in Keys : reaction[x] # NoReaction} \cup {k}
    BY <1>1, <2>1 DEF IInv, RowsOK
  <2>6. LikeTally!Put(k)
    BY <1>2, <2>1, <2>5 DEF LikeTally!Put
  <2>7. LikeTally!TallyNext
    BY <1>1, <2>6 DEF Keys, LikeTally!TallyNext, LikeTally!Put
  <2> QED
    BY <2>4, <2>7 DEF Tallied
<1>3. CASE reaction[k] # NoReaction
  <2>1. Answer(r, "ok") /\ UNCHANGED <<accessVars, rows>>
    BY <1>3 DEF CreateReaction, rows
  <2>2. /\ pc' \in [Requests -> PCs]
        /\ key' \in [Requests -> Keys \cup {NoKey}]
        /\ want' \in [Requests -> Wants \cup {"none"}]
        /\ RequestsOK'
    BY <2>1, AnswerOK DEF Answers
  <2> QED
    BY <2>1, <2>2, Untallied DEF IInv, RowsOK, AccessTypeOK, accessVars, rows
<1> QED
  BY <1>2, <1>3

\* A reaction that is deleted is a row that goes, whatever its type.
LEMMA DeleteKeeps ==
  ASSUME IInv, NEW r \in Requests, DeleteReaction(r)
  PROVE  IInv' /\ Tallied
<1> DEFINE k == key[r]
<1>1. k \in Keys /\ k[2] \in Posts
  BY DEF DeleteReaction, IInv, RequestsOK, Answers, Keys
<1>2. /\ pc' \in [Requests -> PCs]
      /\ key' \in [Requests -> Keys \cup {NoKey}]
      /\ want' \in [Requests -> Wants \cup {"none"}]
      /\ RequestsOK'
  BY AnswerOK DEF DeleteReaction, Answers
<1>3. CASE reaction[k] # NoReaction
  <2>1. /\ reaction' = [reaction EXCEPT ![k] = NoReaction]
        /\ likeCount' = [likeCount EXCEPT ![k[2]] = @ - 1]
    BY <1>3 DEF DeleteReaction
  <2>2. /\ reaction' \in [Keys -> Types \cup {NoReaction}]
        /\ likeCount' \in [Posts -> Int]
    BY <1>1, <2>1 DEF IInv, RowsOK
  <2>3. IInv'
    BY <1>2, <2>2 DEF DeleteReaction, IInv, RowsOK, AccessTypeOK, accessVars
  <2>4. {x \in Keys : reaction'[x] # NoReaction} = {x \in Keys : reaction[x] # NoReaction} \ {k}
    BY <1>1, <2>1 DEF IInv, RowsOK
  <2>5. LikeTally!Take(k)
    BY <1>1, <1>3, <2>1, <2>4 DEF LikeTally!Take
  <2>6. LikeTally!TallyNext
    BY <1>1, <2>5 DEF Keys, LikeTally!TallyNext, LikeTally!Take
  <2> QED
    BY <2>3, <2>6 DEF Tallied
<1>4. CASE reaction[k] = NoReaction
  <2>1. UNCHANGED <<accessVars, rows>>
    BY <1>4 DEF DeleteReaction, rows
  <2> QED
    BY <1>2, <2>1, Untallied DEF IInv, RowsOK, AccessTypeOK, accessVars, rows
<1> QED
  BY <1>3, <1>4

\* A switch leaves the rows there are: only the type changes.
LEMMA SwitchKeeps ==
  ASSUME IInv, NEW r \in Requests, SwitchReaction(r)
  PROVE  IInv' /\ Tallied
<1> DEFINE k == key[r]
<1>1. k \in Keys /\ want[r] \in Types /\ want[r] # NoReaction
  BY EngagementAssumption DEF SwitchReaction, IInv, RequestsOK, Answers, Reacting
<1>2. /\ pc' \in [Requests -> PCs]
      /\ key' \in [Requests -> Keys \cup {NoKey}]
      /\ want' \in [Requests -> Wants \cup {"none"}]
      /\ RequestsOK'
  BY AnswerOK DEF SwitchReaction, Answers
<1>3. \/ reaction[k] # NoReaction /\ reaction' = [reaction EXCEPT ![k] = want[r]]
      \/ UNCHANGED reaction
  BY DEF SwitchReaction
<1>4. /\ reaction' \in [Keys -> Types \cup {NoReaction}]
      /\ {x \in Keys : reaction'[x] # NoReaction} = {x \in Keys : reaction[x] # NoReaction}
  BY <1>1, <1>3 DEF IInv, RowsOK
<1>5. IInv'
  BY <1>2, <1>4 DEF SwitchReaction, IInv, RowsOK, AccessTypeOK, accessVars
<1> QED
  BY <1>4, <1>5 DEF SwitchReaction, Tallied, LikeTally!tallyVars

\* The other writes, and failures, are about other rows.
LEMMA OthersKeep ==
  ASSUME IInv, NEW r \in Requests, NotifyLike(r) \/ WriteBookmark(r) \/ WriteShare(r) \/ Fail(r)
  PROVE  IInv' /\ Tallied
<1>1. /\ UNCHANGED <<accessVars, reaction, likeCount>>
      /\ \E a \in Answers : Answer(r, a)
  BY DEF NotifyLike, WriteBookmark, WriteShare, Fail, rows, Answers
<1>2. /\ pc' \in [Requests -> PCs]
      /\ key' \in [Requests -> Keys \cup {NoKey}]
      /\ want' \in [Requests -> Wants \cup {"none"}]
      /\ RequestsOK'
  BY <1>1, AnswerOK
<1>3. pc[r] \notin Answers => key[r] \in Keys /\ key[r][2] \in Posts
  BY DEF IInv, RequestsOK, Keys
<1>4. bookmarks' \subseteq Keys /\ likeNotified' \subseteq Keys
  BY <1>3 DEF NotifyLike, WriteBookmark, WriteShare, Fail, rows, IInv, RowsOK, Answers
<1>5. shareCount' \in [Posts -> 0..MaxShares]
  BY <1>3, EngagementAssumption
  DEF NotifyLike, WriteBookmark, WriteShare, Fail, rows, IInv, RowsOK, Answers
<1> QED
  BY <1>1, <1>2, <1>4, <1>5, Untallied DEF IInv, RowsOK, AccessTypeOK, accessVars

\* What moderators, authors and users do meanwhile.
LEMMA AccessKeeps ==
  ASSUME IInv, AccessNext, UNCHANGED <<rows, pc, key, want>>
  PROVE  IInv' /\ Tallied
<1>1. AccessTypeOK'
  BY DEF IInv, RowsOK, AccessTypeOK, AccessNext, RemovePost, RestorePost, Ban, Unban, Block, Unblock
<1> QED
  BY <1>1, Untallied DEF IInv, RowsOK, RequestsOK, rows

LEMMA NextKeeps ==
  ASSUME IInv, [Next]_vars
  PROVE  IInv' /\ Tallied
<1>1. ASSUME NEW r \in Requests, Step(r)
      PROVE  IInv' /\ Tallied
  BY <1>1, ChecksKeep, CreateKeeps, DeleteKeeps, SwitchKeeps, OthersKeep DEF Step
<1>2. ASSUME NEW r \in Requests, NEW k \in Keys,
             ReactStart(r, k) \/ BookmarkStart(r, k) \/ ShareStart(r, k)
      PROVE  IInv' /\ Tallied
  <2>1. UNCHANGED rows
    BY <1>2 DEF ReactStart, BookmarkStart, ShareStart, Start
  <2> QED
    BY <1>2, <2>1, StartOK, Untallied DEF rows
<1>3. CASE UNCHANGED vars
  BY <1>3, Untallied DEF vars, rows, accessVars, IInv, RowsOK, RequestsOK, AccessTypeOK
<1> QED
  BY <1>1, <1>2, <1>3, AccessKeeps DEF Next

LEMMA InvariantHolds == Spec => []IInv
<1>1. IInv /\ [Next]_vars => IInv'
  BY NextKeeps
<1> QED
  BY <1>1, InitInv, PTL DEF Spec

-----------------------------------------------------------------------------
\* react implements Tally: every step adds or removes at most one reaction and moves
\* the counter of its post, and no other, with it, whatever requests overlap.
THEOREM ReactImplementsTally == Spec => LikesTallied
<1>1. Init => LikeTally!TallyInit
  BY DEF Init, LikeTally!TallyInit
<1>2. IInv /\ [Next]_vars => [LikeTally!TallyNext]_(LikeTally!tallyVars)
  BY NextKeeps DEF Tallied
<1> QED
  BY <1>1, <1>2, InvariantHolds, PTL DEF Spec, LikesTallied, LikeTally!TallySpec

\* Tally's count of a post is the number of users who react to it.
LEMMA ReactionsOfPost ==
  ASSUME NEW p \in Posts
  PROVE  LikeProofs!RowsOf(p) = Cardinality({u \in Users : reaction[<<u, p>>] # NoReaction})
<1> DEFINE U == {u \in Users : reaction[<<u, p>>] # NoReaction}
           R == LikeProofs!RowsCounted(p)
           f == [u \in U |-> <<u, p>>]
<1>1. ASSUME NEW u \in U
      PROVE  <<u, p>> \in R
  BY DEF LikeProofs!RowsCounted, Keys
<1>2. ASSUME NEW row \in R
      PROVE  row[1] \in U /\ row = <<row[1], p>>
  BY DEF LikeProofs!RowsCounted, Keys
<1>3. f \in [U -> R] /\ \A u, v \in U : f[u] = f[v] => u = v
  BY <1>1
<1>4. \A row \in R : \E u \in U : f[u] = row
  BY <1>2
<1>5. f \in Bijection(U, R)
  BY <1>3, <1>4 DEF Bijection, Injection, Surjection, IsInjective
<1>6. IsFiniteSet(U)
  BY AccessAssumption, FS_Subset
<1>7. Cardinality(R) = Cardinality(U)
  BY <1>5, <1>6, FS_Bijection DEF ExistsBijection
<1> QED
  BY <1>7 DEF LikeProofs!RowsOf, LikeProofs!Cardinality, Cardinality, LikeProofs!IsFiniteSet, IsFiniteSet

\* posts.like_count is the number of reaction rows of the post, whatever double taps,
\* toggles and switches overlap on the rows they read before.
THEOREM LikeCountAlwaysMatches == Spec => []LikeCountMatches
<1>1. LikesTallied => []LikeProofs!CounterMatches
  <2>1. LikeTally!TallyInit => LikeProofs!TallyInit
    BY DEF LikeTally!TallyInit, LikeProofs!TallyInit
  <2>2. [LikeTally!TallyNext]_(LikeTally!tallyVars) => [LikeProofs!TallyNext]_(LikeProofs!tallyVars)
    BY DEF LikeTally!TallyNext, LikeTally!tallyVars, LikeTally!Put, LikeTally!Take,
       LikeProofs!TallyNext, LikeProofs!tallyVars, LikeProofs!Put, LikeProofs!Take
  <2> QED
    BY <2>1, <2>2, LikeProofs!TallyCounts, PTL
    DEF LikesTallied, LikeTally!TallySpec, LikeProofs!TallySpec
<1>2. LikeProofs!CounterMatches => LikeCountMatches
  BY ReactionsOfPost DEF LikeProofs!CounterMatches, LikeCountMatches
<1> QED
  BY <1>1, <1>2, ReactImplementsTally, PTL

\* No reaction, bookmark or share is ever of an unexpected kind, and no counter negative.
THEOREM EngagementTypeCorrect == Spec => []TypeOK
<1>1. IInv /\ LikeCountMatches => TypeOK
  <2> SUFFICES ASSUME IInv, LikeCountMatches PROVE TypeOK
    OBVIOUS
  <2>1. ASSUME NEW p \in Posts
        PROVE  likeCount[p] \in Nat
    <3>1. IsFiniteSet({u \in Users : reaction[<<u, p>>] # NoReaction})
      BY AccessAssumption, FS_Subset
    <3> QED
      BY <3>1, FS_CardinalityType DEF LikeCountMatches
  <2> QED
    BY <2>1 DEF IInv, RowsOK, TypeOK
<1> QED
  BY <1>1, InvariantHolds, LikeCountAlwaysMatches, PTL
=============================================================================
