----------------------------- MODULE Engagement -----------------------------
(***************************************************************************)
(* Reactions, bookmarks and shares: SocialService.react, setBookmark and   *)
(* share, run by concurrent requests.                                      *)
(*                                                                         *)
(* Each awaited statement is one step.  The $transactions here are one     *)
(* step each: their first statement inserts or deletes the reaction row    *)
(* under its lock and so decides the outcome, the second only moves a      *)
(* counter, and all of them take the two rows in the same order.           *)
(* What is read before a step may be stale when the step runs.             *)
(***************************************************************************)
EXTENDS PostAccess

CONSTANTS
  Types,      \* ReactionType
  NoReaction, \* no row in reactions
  Requests,   \* HTTP requests that can be in flight at once
  MaxShares   \* bound on share_count

ASSUME EngagementAssumption == NoReaction \notin Types /\ MaxShares \in Nat

VARIABLES
  reaction,      \* <<user, post>> -> the type of its row, or NoReaction
  likeCount,     \* posts.like_count: all reactions of the post
  bookmarks,     \* rows of bookmarks: <<user, post>>
  shareCount,    \* posts.share_count
  likeNotified,  \* rows of notifications of type LIKE: <<actor, post>>
  pc,            \* where each request is, or how it was last answered
  key,           \* <<caller, post>> of each request under way
  want           \* the reaction type, or the end state of the bookmark

rows == <<reaction, likeCount, bookmarks, shareCount, likeNotified>>
vars == <<accessVars, rows, pc, key, want>>

Keys == Users \X Posts
Answers == {"idle", "ok", "refused", "failed"}
PCs == Answers \cup {"r_visible", "r_blocks", "r_read", "r_create", "r_delete",
                     "r_switch", "r_notify", "b_visible", "b_blocks", "b_write",
                     "s_visible", "s_write"}
Wants == Types \cup {"set", "clear"}
NoKey == <<>>

Init ==
  /\ AccessInit
  /\ reaction = [k \in Keys |-> NoReaction]
  /\ likeCount = [p \in Posts |-> 0]
  /\ bookmarks = {}
  /\ shareCount = [p \in Posts |-> 0]
  /\ likeNotified = {}
  /\ pc = [r \in Requests |-> "idle"]
  /\ key = [r \in Requests |-> NoKey]
  /\ want = [r \in Requests |-> "none"]

\* The request goes on at statement `next`.
Goto(r, next) ==
  /\ pc' = [pc EXCEPT ![r] = next]
  /\ UNCHANGED <<key, want>>

\* The request is answered; nothing of it stays in memory.
Answer(r, answer) ==
  /\ pc' = [pc EXCEPT ![r] = answer]
  /\ key' = [key EXCEPT ![r] = NoKey]
  /\ want' = [want EXCEPT ![r] = "none"]

-----------------------------------------------------------------------------

\* A request arrives: `first` is its first statement.
Start(r, k, w, first) ==
  /\ pc[r] \in Answers
  /\ pc' = [pc EXCEPT ![r] = first]
  /\ key' = [key EXCEPT ![r] = k]
  /\ want' = [want EXCEPT ![r] = w]
  /\ UNCHANGED <<accessVars, rows>>

ReactStart(r, k) == \E t \in Types : Start(r, k, t, "r_visible")
BookmarkStart(r, k) == \E w \in {"set", "clear"} : Start(r, k, w, "b_visible")
ShareStart(r, k) == Start(r, k, "none", "s_visible")

\* assertPostVisible, the first statement of the three handlers.
CheckVisible(r) ==
  /\ pc[r] \in {"r_visible", "b_visible", "s_visible"}
  /\ \/ /\ ~PostVisible(key[r][2])
        /\ Answer(r, "refused")
     \/ /\ PostVisible(key[r][2])
        /\ \/ pc[r] = "r_visible" /\ Goto(r, "r_blocks")
           \/ pc[r] = "b_visible" /\ Goto(r, "b_blocks")
           \/ pc[r] = "s_visible" /\ Goto(r, "s_write")
  /\ UNCHANGED <<accessVars, rows>>

\* assertNotBlocked of react and setBookmark.
CheckBlocks(r) ==
  /\ pc[r] \in {"r_blocks", "b_blocks"}
  /\ IF BlockedEitherWay(key[r][1], Author[key[r][2]])
     THEN Answer(r, "refused")
     ELSE Goto(r, IF pc[r] = "r_blocks" THEN "r_read" ELSE "b_write")
  /\ UNCHANGED <<accessVars, rows>>

\* The existing row decides the branch: add, toggle off, or switch.
ReadReaction(r) ==
  /\ pc[r] = "r_read"
  /\ LET existing == reaction[key[r]]
     IN Goto(r, IF existing = NoReaction THEN "r_create"
                ELSE IF existing = want[r] THEN "r_delete" ELSE "r_switch")
  /\ UNCHANGED <<accessVars, rows>>

\* Mutant: an upsert in the place of the INSERT that fails on a duplicate.
UpsertReaction(r) ==
  /\ pc[r] = "r_create"
  /\ reaction' = [reaction EXCEPT ![key[r]] = want[r]]
  /\ likeCount' = [likeCount EXCEPT ![key[r][2]] = @ + 1]
  /\ Goto(r, "r_notify")
  /\ UNCHANGED <<accessVars, bookmarks, shareCount, likeNotified>>

\* A row of the same key is a P2002: swallowed, counter untouched.
CreateReaction(r) ==
  /\ pc[r] = "r_create"
  /\ \/ /\ reaction[key[r]] = NoReaction
        /\ reaction' = [reaction EXCEPT ![key[r]] = want[r]]
        /\ likeCount' = [likeCount EXCEPT ![key[r][2]] = @ + 1]
        /\ Goto(r, "r_notify")
     \/ /\ reaction[key[r]] # NoReaction
        /\ Answer(r, "ok")
        /\ UNCHANGED <<reaction, likeCount>>
  /\ UNCHANGED <<accessVars, bookmarks, shareCount, likeNotified>>

\* Best effort, an upsert on (recipient, actor, LIKE, post); never to oneself.
NotifyLike(r) ==
  /\ pc[r] = "r_notify"
  /\ \/ UNCHANGED likeNotified
     \/ /\ key[r][1] # Author[key[r][2]]
        /\ likeNotified' = likeNotified \cup {key[r]}
  /\ Answer(r, "ok")
  /\ UNCHANGED <<accessVars, reaction, likeCount, bookmarks, shareCount>>

\* Mutant: deleteMany, which does not fail on a row that is gone.
DeleteManyReaction(r) ==
  /\ pc[r] = "r_delete"
  /\ reaction' = [reaction EXCEPT ![key[r]] = NoReaction]
  /\ likeCount' = [likeCount EXCEPT ![key[r][2]] = @ - 1]
  /\ Answer(r, "ok")
  /\ UNCHANGED <<accessVars, bookmarks, shareCount, likeNotified>>

\* The row is deleted by its key, whatever its type is by now.  A row that is
\* gone is a P2025: swallowed, the transaction is rolled back.
DeleteReaction(r) ==
  /\ pc[r] = "r_delete"
  /\ \/ /\ reaction[key[r]] # NoReaction
        /\ reaction' = [reaction EXCEPT ![key[r]] = NoReaction]
        /\ likeCount' = [likeCount EXCEPT ![key[r][2]] = @ - 1]
     \/ /\ reaction[key[r]] = NoReaction
        /\ UNCHANGED <<reaction, likeCount>>
  /\ Answer(r, "ok")
  /\ UNCHANGED <<accessVars, bookmarks, shareCount, likeNotified>>

\* A row that is gone is a P2025 here too, but nothing catches it.
SwitchReaction(r) ==
  /\ pc[r] = "r_switch"
  /\ \/ /\ reaction[key[r]] # NoReaction
        /\ reaction' = [reaction EXCEPT ![key[r]] = want[r]]
        /\ Answer(r, "ok")
     \/ /\ reaction[key[r]] = NoReaction
        /\ Answer(r, "failed")
        /\ UNCHANGED reaction
  /\ UNCHANGED <<accessVars, likeCount, bookmarks, shareCount, likeNotified>>

\* Create or delete, whichever the caller asked for; P2002 and P2025 are
\* success.
WriteBookmark(r) ==
  /\ pc[r] = "b_write"
  /\ bookmarks' = IF want[r] = "set" THEN bookmarks \cup {key[r]} ELSE bookmarks \ {key[r]}
  /\ Answer(r, "ok")
  /\ UNCHANGED <<accessVars, reaction, likeCount, shareCount, likeNotified>>

WriteShare(r) ==
  /\ pc[r] = "s_write"
  /\ shareCount[key[r][2]] < MaxShares
  /\ shareCount' = [shareCount EXCEPT ![key[r][2]] = @ + 1]
  /\ Answer(r, "ok")
  /\ UNCHANGED <<accessVars, reaction, likeCount, bookmarks, likeNotified>>

\* A database error or a crash: the statement under way leaves nothing behind.
Fail(r) ==
  /\ pc[r] \notin Answers
  /\ Answer(r, "failed")
  /\ UNCHANGED <<accessVars, rows>>

Step(r) ==
  \/ CheckVisible(r) \/ CheckBlocks(r)
  \/ ReadReaction(r) \/ CreateReaction(r) \/ NotifyLike(r)
  \/ DeleteReaction(r) \/ SwitchReaction(r)
  \/ WriteBookmark(r) \/ WriteShare(r)
  \/ Fail(r)

Next ==
  \/ \E r \in Requests : Step(r)
  \/ \E r \in Requests, k \in Keys :
       ReactStart(r, k) \/ BookmarkStart(r, k) \/ ShareStart(r, k)
  \/ AccessNext /\ UNCHANGED <<rows, pc, key, want>>

Spec == Init /\ [][Next]_vars

-----------------------------------------------------------------------------

TypeOK ==
  /\ AccessTypeOK
  /\ reaction \in [Keys -> Types \cup {NoReaction}]
  /\ likeCount \in [Posts -> Nat]
  /\ bookmarks \subseteq Keys
  /\ shareCount \in [Posts -> 0..MaxShares]
  /\ likeNotified \subseteq Keys
  /\ pc \in [Requests -> PCs]
  /\ key \in [Requests -> Keys \cup {NoKey}]
  /\ want \in [Requests -> Wants \cup {"none"}]

\* posts.like_count is the number of reaction rows of the post, whatever
\* double taps, toggles and switches overlap on the rows they read before.
LikeCountMatches ==
  \A p \in Posts :
    likeCount[p] = Cardinality({u \in Users : reaction[<<u, p>>] # NoReaction})

\* The like counters of the posts, over the reactions of the users.
LikeTally == INSTANCE Tally WITH
  Items <- Users, Owners <- Posts,
  counted <- {k \in Keys : reaction[k] # NoReaction}, counter <- likeCount

\* react implements Tally: whatever requests overlap, every step adds or removes at
\* most one reaction, and moves the counter of that post, and no other, by one with
\* it; switching the type, and a request that lost a race, move none.
LikesTallied == LikeTally!TallySpec

\* social.service.ts:198 calls the loser of a concurrent double tap idempotent:
\* it is answered as if its reaction were stored.
DoubleTapIdempotent ==
  [][\A r \in Requests :
       pc[r] = "r_create" /\ pc'[r] = "ok" => reaction'[key[r]] = want[r]]_vars
=============================================================================
