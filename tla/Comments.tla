------------------------------ MODULE Comments ------------------------------
(***************************************************************************)
(* Comments: SocialService.addComment, deleteComment, adminDeleteComment   *)
(* and restoreComment, run by concurrent requests.                         *)
(*                                                                         *)
(* Each awaited statement is one step.  The transactions are one step      *)
(* each: creating inserts a new row, deleting and restoring flip           *)
(* deleted_at by an UPDATE that re-checks it under the row lock, and what  *)
(* follows in the same transaction only moves the counter of the post.     *)
(***************************************************************************)
EXTENDS PostAccess, Sequences

CONSTANTS
  Requests,     \* HTTP requests that can be in flight at once
  Admin,        \* the moderator
  MaxComments   \* bound on the comments ever created

ASSUME CommentsAssumption ==
  Admin \notin Users /\ "nobody" \notin Users \cup {Admin} /\ MaxComments \in Nat

VARIABLES
  comments,      \* the comments table, by id: see Comment
  commentCount,  \* posts.comment_count
  pc,            \* where each request is
  arg            \* the arguments of each request under way: see Arguments

vars == <<accessVars, comments, commentCount, pc, arg>>

NoParent == 0
Nobody == "nobody"
Ids == 1..MaxComments

\* deletedBy stands for deleted_at and deleted_by_id together.
Comment == [author : Users, post : Posts, parent : Ids \cup {NoParent},
            deletedBy : Users \cup {Admin, Nobody}]

Live(c) == comments[c].deletedBy = Nobody

PCs == {"idle", "c_visible", "c_blocks", "c_parent", "c_insert", "c_emit",
        "d_read", "d_flip", "d_emit", "u_read", "u_flip"}

\* Adding: who, where, under which parent.  Deleting and restoring: who, which.
\* Broadcasting: which.
Arguments ==
  (Users \X Posts \X (Ids \cup {NoParent})) \cup ((Users \cup {Admin}) \X Ids)
    \cup {<<c>> : c \in Ids} \cup {<<>>}

Init ==
  /\ AccessInit
  /\ comments = <<>>
  /\ commentCount = [p \in Posts |-> 0]
  /\ pc = [r \in Requests |-> "idle"]
  /\ arg = [r \in Requests |-> <<>>]

Start(r, a, first) ==
  /\ pc[r] = "idle"
  /\ pc' = [pc EXCEPT ![r] = first]
  /\ arg' = [arg EXCEPT ![r] = a]
  /\ UNCHANGED <<accessVars, comments, commentCount>>

Goto(r, next) == pc' = [pc EXCEPT ![r] = next] /\ UNCHANGED arg

\* The request is answered, with success or an error; nothing of it stays.
Answer(r) ==
  /\ pc' = [pc EXCEPT ![r] = "idle"]
  /\ arg' = [arg EXCEPT ![r] = <<>>]

-----------------------------------------------------------------------------
(* addComment(user, post, parent) *)

AddStart(r, u, p, parent) == Start(r, <<u, p, parent>>, "c_visible")

AddCheckVisible(r) ==
  /\ pc[r] = "c_visible"
  /\ IF PostVisible(arg[r][2]) THEN Goto(r, "c_blocks") ELSE Answer(r)
  /\ UNCHANGED <<accessVars, comments, commentCount>>

AddCheckBlocks(r) ==
  /\ pc[r] = "c_blocks"
  /\ IF BlockedEitherWay(arg[r][1], Author[arg[r][2]])
     THEN Answer(r)
     ELSE Goto(r, IF arg[r][3] = NoParent THEN "c_insert" ELSE "c_parent")
  /\ UNCHANGED <<accessVars, comments, commentCount>>

\* Mutant: replies to replies are let through.
ValidParentAnyDepth(parent, p) ==
  /\ parent \in 1..Len(comments)
  /\ comments[parent].post = p
  /\ Live(parent)

\* The parent must be a live top-level comment of the same post.
ValidParent(parent, p) ==
  /\ parent \in 1..Len(comments)
  /\ comments[parent].post = p
  /\ Live(parent)
  /\ comments[parent].parent = NoParent

AddCheckParent(r) ==
  /\ pc[r] = "c_parent"
  /\ IF ValidParent(arg[r][3], arg[r][2]) THEN Goto(r, "c_insert") ELSE Answer(r)
  /\ UNCHANGED <<accessVars, comments, commentCount>>

\* By now the post may be removed, its author banned or blocking, and the
\* parent removed: the transaction does not look again.
AddInsert(r) ==
  /\ pc[r] = "c_insert"
  /\ Len(comments) < MaxComments
  /\ comments' = Append(comments, [author |-> arg[r][1], post |-> arg[r][2],
                                   parent |-> arg[r][3], deletedBy |-> Nobody])
  /\ commentCount' = [commentCount EXCEPT ![arg[r][2]] = @ + 1]
  /\ pc' = [pc EXCEPT ![r] = "c_emit"]
  /\ arg' = [arg EXCEPT ![r] = <<Len(comments) + 1>>]
  /\ UNCHANGED accessVars

\* comment:new to the viewers of the post, some time after the transaction
\* committed, and the author's COMMENT notification, whose failure is swallowed.
EmitNew(r) ==
  /\ pc[r] = "c_emit"
  /\ Answer(r)
  /\ UNCHANGED <<accessVars, comments, commentCount>>

-----------------------------------------------------------------------------
(* deleteComment and adminDeleteComment *)

DeleteStart(r, u, c) == Start(r, <<u, c>>, "d_read")

\* Gone or already removed is a 404; only an admin removes others' comments.
DeleteRead(r) ==
  LET c == arg[r][2]
  IN  /\ pc[r] = "d_read"
      /\ IF /\ c \in 1..Len(comments)
            /\ Live(c)
            /\ arg[r][1] \in {comments[c].author, Admin}
         THEN Goto(r, "d_flip")
         ELSE Answer(r)
      /\ UNCHANGED <<accessVars, comments, commentCount>>

\* Mutants: the UPDATE does not look at deleted_at again ...
DeleteFlipUnchecked(r) ==
  LET c == arg[r][2]
  IN  /\ pc[r] = "d_flip"
      /\ comments' = [comments EXCEPT ![c].deletedBy = arg[r][1]]
      /\ commentCount' = [commentCount EXCEPT ![comments[c].post] = @ - 1]
      /\ pc' = [pc EXCEPT ![r] = "d_emit"]
      /\ arg' = [arg EXCEPT ![r] = <<c>>]
      /\ UNCHANGED accessVars

\* ... or only the counter does.
DeleteFlipOverwrites(r) ==
  LET c == arg[r][2]
  IN  /\ pc[r] = "d_flip"
      /\ comments' = [comments EXCEPT ![c].deletedBy = arg[r][1]]
      /\ commentCount' = [commentCount EXCEPT ![comments[c].post] = IF Live(c) THEN @ - 1 ELSE @]
      /\ Answer(r)
      /\ UNCHANGED accessVars

\* softDeleteComment: only the request that flips the row moves the counter,
\* the loser of a race answers success without a broadcast.
DeleteFlip(r) ==
  LET c == arg[r][2]
  IN  /\ pc[r] = "d_flip"
      /\ \/ /\ Live(c)
            /\ comments' = [comments EXCEPT ![c].deletedBy = arg[r][1]]
            /\ commentCount' = [commentCount EXCEPT ![comments[c].post] = @ - 1]
            /\ pc' = [pc EXCEPT ![r] = "d_emit"]
            /\ arg' = [arg EXCEPT ![r] = <<c>>]
         \/ /\ ~Live(c)
            /\ Answer(r)
            /\ UNCHANGED <<comments, commentCount>>
      /\ UNCHANGED accessVars

\* comment:deleted to the viewers of the post, after the transaction committed.
EmitDeleted(r) ==
  /\ pc[r] = "d_emit"
  /\ Answer(r)
  /\ UNCHANGED <<accessVars, comments, commentCount>>

-----------------------------------------------------------------------------
(* restoreComment, by an admin *)

RestoreStart(r, c) == Start(r, <<Admin, c>>, "u_read")

RestoreRead(r) ==
  LET c == arg[r][2]
  IN  /\ pc[r] = "u_read"
      /\ IF c \in 1..Len(comments) /\ ~Live(c)
         THEN Goto(r, "u_flip")
         ELSE Answer(r)
      /\ UNCHANGED <<accessVars, comments, commentCount>>

\* Mutant: the UPDATE does not look at deleted_at again.
RestoreFlipUnchecked(r) ==
  LET c == arg[r][2]
  IN  /\ pc[r] = "u_flip"
      /\ comments' = [comments EXCEPT ![c].deletedBy = Nobody]
      /\ commentCount' = [commentCount EXCEPT ![comments[c].post] = @ + 1]
      /\ Answer(r)
      /\ UNCHANGED accessVars

\* The loser of a race is a 404 and leaves the counter alone.
RestoreFlip(r) ==
  LET c == arg[r][2]
  IN  /\ pc[r] = "u_flip"
      /\ \/ /\ ~Live(c)
            /\ comments' = [comments EXCEPT ![c].deletedBy = Nobody]
            /\ commentCount' = [commentCount EXCEPT ![comments[c].post] = @ + 1]
            /\ Answer(r)
         \/ /\ Live(c)
            /\ Answer(r)
            /\ UNCHANGED <<comments, commentCount>>
      /\ UNCHANGED accessVars

\* A database error or a crash: the statement under way leaves nothing behind.
Fail(r) ==
  /\ pc[r] # "idle"
  /\ Answer(r)
  /\ UNCHANGED <<accessVars, comments, commentCount>>

Step(r) ==
  \/ AddCheckVisible(r) \/ AddCheckBlocks(r) \/ AddCheckParent(r)
  \/ AddInsert(r) \/ EmitNew(r)
  \/ DeleteRead(r) \/ DeleteFlip(r) \/ EmitDeleted(r)
  \/ RestoreRead(r) \/ RestoreFlip(r)
  \/ Fail(r)

Begin(r) ==
  \/ \E u \in Users, p \in Posts, parent \in Ids \cup {NoParent} : AddStart(r, u, p, parent)
  \/ \E u \in Users \cup {Admin}, c \in Ids : DeleteStart(r, u, c)
  \/ \E c \in Ids : RestoreStart(r, c)

Next ==
  \/ \E r \in Requests : Begin(r) \/ Step(r)
  \/ AccessNext /\ UNCHANGED <<comments, commentCount, pc, arg>>

Spec == Init /\ [][Next]_vars

-----------------------------------------------------------------------------

TypeOK ==
  /\ AccessTypeOK
  /\ comments \in Seq(Comment) /\ Len(comments) <= MaxComments
  /\ commentCount \in [Posts -> Nat]
  /\ pc \in [Requests -> PCs]
  /\ arg \in [Requests -> Arguments]

\* The comment counters of the posts, over the comments not removed.
CommentTally == INSTANCE Tally WITH
  Items <- Ids, Owners <- Posts,
  counted <- {<<c, comments[c].post>> : c \in {d \in 1..Len(comments) : Live(d)}},
  counter <- commentCount

\* Adding, deleting and restoring implement Tally: whatever deletions and restorations
\* of one comment overlap, every step makes at most one comment live or removed, and
\* moves the counter of its post by one with it.  So comment_count is the number of the
\* comments of the post that are not removed (TallyCounts in TallyProofs).
CommentsTallied == CommentTally!TallySpec

\* Threads are one level deep and never span posts: the replies listed under a
\* comment are all the replies there are.
RepliesOneLevel ==
  \A c \in 1..Len(comments) :
    comments[c].parent # NoParent =>
      /\ comments[c].parent < c
      /\ comments[comments[c].parent].parent = NoParent
      /\ comments[comments[c].parent].post = comments[c].post

\* Who removed a comment stays on record until it is restored: a self-deletion
\* that races a moderator's removal does not take it over.
RemovalAttributionStable ==
  [][\A c \in 1..Len(comments) :
       ~Live(c) => comments'[c].deletedBy \in {comments[c].deletedBy, Nobody}]_vars
=============================================================================
