--------------------------- MODULE CommentsProofs ---------------------------
(***************************************************************************)
(* Adding, deleting and restoring comments implement Tally, threads stay   *)
(* one level deep, and a removal stays attributed, for any users, posts    *)
(* and requests and any number of comments.                                *)
(*                                                                         *)
(* None of this is inductive alone.  The check of a parent and the read    *)
(* before a removal are steps of their own, and what they found must still *)
(* hold when the write comes: ArgsOK says that it does, because a comment  *)
(* keeps its post and its parent for good and no row is ever taken away.   *)
(* What may change in between, that it is live, the write checks again.    *)
(***************************************************************************)
EXTENDS Comments, SequenceTheorems, FiniteSetTheorems, TLAPS

\* What TallyProofs proves of the counters of the comments.
CommentProofs == INSTANCE TallyProofs WITH
  Items <- Ids, Owners <- Posts,
  counted <- {<<c, comments[c].post>> : c \in {d \in 1..Len(comments) : Live(d)}},
  counter <- commentCount

Adding == {"c_visible", "c_blocks", "c_parent", "c_insert"}
Flipping == {"d_read", "d_flip", "u_read", "u_flip"}

\* A parent that will do: it stays one, also after it is removed.
TopLevelOf(parent, p) ==
  /\ parent \in 1..Len(comments)
  /\ comments[parent].post = p
  /\ comments[parent].parent = NoParent

\* What a request at `at` with arguments `a` knows.
Knows(at, a) ==
  /\ at \in Adding => a \in Users \X Posts \X (Ids \cup {NoParent})
  /\ at = "c_insert" /\ a[3] # NoParent => TopLevelOf(a[3], a[2])
  /\ at \in Flipping => a \in (Users \cup {Admin}) \X Ids
  /\ at \in {"d_flip", "u_flip"} => a[2] \in 1..Len(comments)

ArgsOK == \A r \in Requests : Knows(pc[r], arg[r])

\* TypeOK, but for the sign of the counter.
RowsOK ==
  /\ AccessTypeOK
  /\ comments \in Seq(Comment) /\ Len(comments) <= MaxComments
  /\ commentCount \in [Posts -> Int]
  /\ pc \in [Requests -> PCs]
  /\ arg \in [Requests -> Arguments]

IInv == RowsOK /\ ArgsOK /\ RepliesOneLevel

-----------------------------------------------------------------------------
LEMMA InitInv == Init => IInv
<1> SUFFICES ASSUME Init PROVE IInv
  OBVIOUS
<1>1. comments \in Seq(Comment) /\ Len(comments) = 0
  BY EmptySeq DEF Init
<1>2. RowsOK
  BY <1>1, CommentsAssumption DEF Init, AccessInit, RowsOK, AccessTypeOK, PCs, Arguments
<1>3. ArgsOK
  BY DEF Init, ArgsOK, Knows, Adding, Flipping
<1>4. RepliesOneLevel
  BY <1>1 DEF RepliesOneLevel
<1> QED
  BY <1>2, <1>3, <1>4 DEF IInv

\* No comment goes away, and each keeps its post and its parent.
Kept ==
  /\ Len(comments) <= Len(comments')
  /\ \A c \in 1..Len(comments) :
       comments'[c].post = comments[c].post /\ comments'[c].parent = comments[c].parent

\* A request that moves, and still knows what it has to, moves ArgsOK along.
LEMMA RequestKeeps ==
  ASSUME IInv, Kept, comments' \in Seq(Comment),
         NEW r \in Requests, NEW at \in PCs, NEW a \in Arguments,
         pc' = [pc EXCEPT ![r] = at], arg' = [arg EXCEPT ![r] = a],
         Knows(at, a)'
  PROVE  pc' \in [Requests -> PCs] /\ arg' \in [Requests -> Arguments] /\ ArgsOK'
<1>1. pc' \in [Requests -> PCs] /\ arg' \in [Requests -> Arguments]
  BY DEF IInv, RowsOK
<1>2. Len(comments) \in Nat /\ Len(comments') \in Nat
  BY LenProperties DEF IInv, RowsOK
<1>3. ASSUME NEW s \in Requests
      PROVE  Knows(pc[s], arg[s])'
  <2>1. CASE s = r
    BY <2>1 DEF IInv, RowsOK
  <2>2. CASE s # r
    <3>1. pc'[s] = pc[s] /\ arg'[s] = arg[s] /\ Knows(pc[s], arg[s])
      BY <2>2 DEF IInv, RowsOK, ArgsOK
    <3> QED
      BY <1>2, <3>1 DEF Kept, Knows, TopLevelOf
  <2> QED
    BY <2>1, <2>2
<1> QED
  BY <1>1, <1>3 DEF ArgsOK

\* An answer forgets the request.
LEMMA AnswerKeeps ==
  ASSUME IInv, Kept, comments' \in Seq(Comment), NEW r \in Requests, Answer(r)
  PROVE  pc' \in [Requests -> PCs] /\ arg' \in [Requests -> Arguments] /\ ArgsOK'
<1>1. Knows("idle", <<>>)'
  BY DEF Knows, Adding, Flipping
<1>2. "idle" \in PCs /\ <<>> \in Arguments
  BY DEF PCs, Arguments
<1> QED
  BY <1>1, <1>2, RequestKeeps DEF Answer

\* A request that goes on with what it has.
LEMMA GotoKeeps ==
  ASSUME IInv, UNCHANGED comments, NEW r \in Requests, NEW next \in PCs, Goto(r, next),
         NEW a, a = arg[r], Knows(next, a)
  PROVE  pc' \in [Requests -> PCs] /\ arg' \in [Requests -> Arguments] /\ ArgsOK'
<1>1. Kept /\ comments' \in Seq(Comment)
  BY LenProperties DEF Kept, IInv, RowsOK
<1>2. Knows(next, a)'
  BY DEF Knows, TopLevelOf
<1>3. a \in Arguments /\ arg' = [arg EXCEPT ![r] = a] /\ pc' = [pc EXCEPT ![r] = next]
  BY DEF Goto, IInv, RowsOK
<1> QED
  BY <1>1, <1>2, <1>3, RequestKeeps

-----------------------------------------------------------------------------
(* What a step does to the comments. *)

\* A step of the counter and its rows, or none.
Tallied == [CommentTally!TallyNext]_(CommentTally!tallyVars)

\* No removal is taken over.
Attributed ==
  \A c \in 1..Len(comments) :
    ~Live(c) => comments'[c].deletedBy \in {comments[c].deletedBy, Nobody}

\* What is to be shown of every step that touches the comments.
Good == Kept /\ comments' \in Seq(Comment) /\ Len(comments') <= MaxComments
          /\ commentCount' \in [Posts -> Int] /\ RepliesOneLevel' /\ Tallied /\ Attributed

\* Most steps leave the comments alone.
LEMMA UntouchedGood ==
  ASSUME IInv, UNCHANGED <<comments, commentCount>>
  PROVE  Good
<1>1. Len(comments) \in Nat
  BY LenProperties DEF IInv, RowsOK
<1>2. Kept /\ Attributed
  BY <1>1 DEF Kept, Attributed
<1>3. RepliesOneLevel'
  BY DEF IInv, RepliesOneLevel
<1>4. Tallied
  BY DEF Tallied, CommentTally!tallyVars, Live
<1> QED
  BY <1>2, <1>3, <1>4 DEF Good, IInv, RowsOK

\* What a comment is made of.
LEMMA CommentParts ==
  ASSUME IInv, NEW c \in 1..Len(comments)
  PROVE  /\ comments[c] \in Comment
         /\ comments[c].post \in Posts
         /\ comments[c].parent \in Ids \cup {NoParent}
         /\ Len(comments) \in Nat
         /\ c \in Ids
<1>1. comments \in Seq(Comment) /\ Len(comments) <= MaxComments /\ Len(comments) \in Nat
  BY LenProperties DEF IInv, RowsOK
<1>2. comments[c] \in Comment
  BY <1>1, ElementOfSeq
<1> QED
  BY <1>1, <1>2, CommentsAssumption DEF Comment, Ids

\* Setting deletedBy of one comment: it is live after it if it was not before.
LEMMA FlipGood ==
  ASSUME IInv, NEW c \in 1..Len(comments), NEW by \in Users \cup {Admin, Nobody},
         comments' = [comments EXCEPT ![c].deletedBy = by],
         by = Nobody <=> ~Live(c),
         commentCount' = [commentCount EXCEPT ![comments[c].post] = @ + (IF by = Nobody THEN 1 ELSE -1)]
  PROVE  Good
<1> DEFINE new == [comments[c] EXCEPT !.deletedBy = by]
<1>1. /\ comments \in Seq(Comment) /\ Len(comments) <= MaxComments /\ Len(comments) \in Nat
      /\ comments[c] \in Comment /\ comments[c].post \in Posts /\ c \in Ids
  BY CommentParts DEF IInv, RowsOK
<1>2. new \in Comment /\ new.post = comments[c].post /\ new.parent = comments[c].parent /\ new.deletedBy = by
  BY <1>1 DEF Comment
<1>3. comments' = [comments EXCEPT ![c] = new]
  OBVIOUS
<1>4. /\ comments' \in Seq(Comment)
      /\ Len(comments') = Len(comments)
      /\ \A d \in 1..Len(comments) : comments'[d] = IF d = c THEN new ELSE comments[d]
  <2>1. ASSUME NEW e \in Comment
        PROVE  /\ [comments EXCEPT ![c] = e] \in Seq(Comment)
               /\ Len([comments EXCEPT ![c] = e]) = Len(comments)
               /\ \A d \in 1..Len(comments) : [comments EXCEPT ![c] = e][d] = IF d = c THEN e ELSE comments[d]
    BY <1>1, ExceptSeq
  <2> QED
    BY <1>2, <1>3, <2>1
<1> HIDE DEF new
<1>5. Kept
  BY <1>1, <1>2, <1>4 DEF Kept
<1>6. Attributed
  BY <1>1, <1>2, <1>4 DEF Attributed, Live
<1>7. RepliesOneLevel'
  <2> SUFFICES ASSUME NEW d \in 1..Len(comments'), comments'[d].parent # NoParent
               PROVE  /\ comments'[d].parent < d
                      /\ comments'[comments'[d].parent].parent = NoParent
                      /\ comments'[comments'[d].parent].post = comments'[d].post
    BY DEF RepliesOneLevel
  <2>1. comments[d].parent # NoParent /\ comments'[d].parent = comments[d].parent
    BY <1>4, <1>5 DEF Kept
  <2>2. /\ comments[d].parent < d
        /\ comments[comments[d].parent].parent = NoParent
        /\ comments[comments[d].parent].post = comments[d].post
    BY <1>4, <2>1 DEF IInv, RepliesOneLevel
  <2>3. comments[d].parent \in 1..Len(comments)
    BY <1>1, <1>4, <2>1, <2>2, CommentParts DEF Ids, NoParent
  <2> QED
    BY <1>4, <1>5, <2>1, <2>2, <2>3 DEF Kept
<1>8. commentCount' \in [Posts -> Int]
  BY <1>1 DEF IInv, RowsOK
<1>9. Tallied
  <2> DEFINE row == <<c, comments[c].post>>
  <2>1. row \in Ids \X Posts
    BY <1>1
  <2>2. \A d \in 1..Len(comments) : comments'[d].post = comments[d].post
    BY <1>5 DEF Kept
  <2>3. \A d \in 1..Len(comments) : Live(d)' <=> IF d = c THEN by = Nobody ELSE Live(d)
    BY <1>2, <1>4 DEF Live
  <2>4. CASE by = Nobody
    <3>1. CommentTally!Put(row)
      BY <1>4, <2>2, <2>3, <2>4 DEF CommentTally!Put
    <3> QED
      BY <2>1, <3>1 DEF Tallied, CommentTally!TallyNext, CommentTally!Put
  <2>5. CASE by # Nobody
    <3>1. Live(c)
      BY <2>5
    <3>2. row \in {<<d, comments[d].post>> : d \in {e \in 1..Len(comments) : Live(e)}}
      BY <3>1
    <3>3. {<<d, comments[d].post>> : d \in {e \in 1..Len(comments) : Live(e)}}'
            = {<<d, comments[d].post>> : d \in {e \in 1..Len(comments) : Live(e)}} \ {row}
      BY <1>4, <2>2, <2>3, <2>5
    <3>4. commentCount' = [commentCount EXCEPT ![row[2]] = @ - 1]
      BY <1>1, <2>5 DEF IInv, RowsOK
    <3>5. CommentTally!Take(row)
      BY <3>2, <3>3, <3>4 DEF CommentTally!Take
    <3> QED
      BY <2>1, <3>5 DEF Tallied, CommentTally!TallyNext, CommentTally!Take
  <2> QED
    BY <2>4, <2>5
<1> QED
  BY <1>1, <1>4, <1>5, <1>6, <1>7, <1>8, <1>9 DEF Good

\* A comment that is added is live, and its parent, if any, is top-level and of its post.
LEMMA AppendGood ==
  ASSUME IInv, Len(comments) < MaxComments, NEW new \in Comment, new.deletedBy = Nobody,
         new.parent # NoParent => TopLevelOf(new.parent, new.post),
         comments' = Append(comments, new),
         commentCount' = [commentCount EXCEPT ![new.post] = @ + 1]
  PROVE  Good
<1> DEFINE n == Len(comments) + 1
<1>1. comments \in Seq(Comment) /\ Len(comments) \in Nat /\ n \in Ids /\ new.post \in Posts
  BY LenProperties, CommentsAssumption DEF IInv, RowsOK, Ids, Comment
<1>2. /\ comments' \in Seq(Comment)
      /\ Len(comments') = n
      /\ \A c \in 1..Len(comments) : comments'[c] = comments[c]
      /\ comments'[n] = new
  BY <1>1, AppendProperties
<1>3. Kept /\ Attributed
  BY <1>1, <1>2 DEF Kept, Attributed
<1>4. RepliesOneLevel'
  <2> SUFFICES ASSUME NEW d \in 1..Len(comments'), comments'[d].parent # NoParent
               PROVE  /\ comments'[d].parent < d
                      /\ comments'[comments'[d].parent].parent = NoParent
                      /\ comments'[comments'[d].parent].post = comments'[d].post
    BY DEF RepliesOneLevel
  <2>1. CASE d = n
    BY <1>1, <1>2, <2>1 DEF TopLevelOf
  <2>2. CASE d # n
    <3>1. d \in 1..Len(comments) /\ comments'[d] = comments[d]
      BY <1>1, <1>2, <2>2
    <3>2. /\ comments[d].parent < d
          /\ comments[comments[d].parent].parent = NoParent
          /\ comments[comments[d].parent].post = comments[d].post
      BY <3>1 DEF IInv, RepliesOneLevel
    <3>3. comments[d].parent \in 1..Len(comments)
      BY <1>1, <3>1, <3>2, CommentParts DEF Ids, NoParent
    <3> QED
      BY <1>2, <3>1, <3>2, <3>3
  <2> QED
    BY <2>1, <2>2
<1>5. commentCount' \in [Posts -> Int]
  BY <1>1 DEF IInv, RowsOK
<1>6. Tallied
  <2> DEFINE row == <<n, new.post>>
  <2>1. \A c \in 1..Len(comments) : Live(c)' <=> Live(c)
    BY <1>2 DEF Live
  <2>2. \A c \in 1..Len(comments') : c = n => Live(c)'
    BY <1>2 DEF Live
  <2>3. row \notin {<<c, comments[c].post>> : c \in {d \in 1..Len(comments) : Live(d)}}
    BY <1>1
  <2>4. {<<c, comments[c].post>> : c \in {d \in 1..Len(comments) : Live(d)}}'
          = {<<c, comments[c].post>> : c \in {d \in 1..Len(comments) : Live(d)}} \cup {row}
    BY <1>1, <1>2, <2>1, <2>2
  <2>5. commentCount' = [commentCount EXCEPT ![row[2]] = @ + 1]
    OBVIOUS
  <2>6. CommentTally!Put(row)
    BY <2>3, <2>4, <2>5 DEF CommentTally!Put
  <2> QED
    BY <1>1, <2>6 DEF Tallied, CommentTally!TallyNext, CommentTally!Put
<1> QED
  BY <1>1, <1>2, <1>3, <1>4, <1>5, <1>6, CommentsAssumption DEF Good

-----------------------------------------------------------------------------
(* The actions. *)

\* A step that is good for the comments and for the request keeps the invariant.
LEMMA GoodKeeps ==
  ASSUME IInv, Good, AccessTypeOK',
         pc' \in [Requests -> PCs] /\ arg' \in [Requests -> Arguments] /\ ArgsOK'
  PROVE  IInv'
  BY DEF Good, IInv, RowsOK

\* A request arrives with arguments.
LEMMA BeginKeeps ==
  ASSUME IInv, NEW r \in Requests, Begin(r)
  PROVE  IInv' /\ Good
<1>1. Good
  BY UntouchedGood DEF Begin, AddStart, DeleteStart, RestoreStart, Start
<1>2. AccessTypeOK'
  BY DEF Begin, AddStart, DeleteStart, RestoreStart, Start, accessVars, AccessTypeOK, IInv, RowsOK
<1>3. PICK at \in {"c_visible", "d_read", "u_read"}, a \in Arguments :
        /\ pc' = [pc EXCEPT ![r] = at] /\ arg' = [arg EXCEPT ![r] = a]
        /\ at = "c_visible" => a \in Users \X Posts \X (Ids \cup {NoParent})
        /\ at # "c_visible" => a \in (Users \cup {Admin}) \X Ids
  <2>1. ASSUME NEW u \in Users, NEW p \in Posts, NEW parent \in Ids \cup {NoParent}
        PROVE  <<u, p, parent>> \in Users \X Posts \X (Ids \cup {NoParent}) /\ <<u, p, parent>> \in Arguments
    BY DEF Arguments
  <2>2. ASSUME NEW u \in Users \cup {Admin}, NEW c \in Ids
        PROVE  <<u, c>> \in (Users \cup {Admin}) \X Ids /\ <<u, c>> \in Arguments
    BY DEF Arguments
  <2>3. CASE \E u \in Users, p \in Posts, parent \in Ids \cup {NoParent} : AddStart(r, u, p, parent)
    BY <2>1, <2>3 DEF AddStart, Start
  <2>4. CASE \E u \in Users \cup {Admin}, c \in Ids : DeleteStart(r, u, c)
    BY <2>2, <2>4 DEF DeleteStart, Start
  <2>5. CASE \E c \in Ids : RestoreStart(r, c)
    BY <2>2, <2>5 DEF RestoreStart, Start
  <2> QED
    BY <2>3, <2>4, <2>5 DEF Begin
<1>4. at \in PCs /\ Knows(at, a)'
  BY <1>3 DEF PCs, Knows, Adding, Flipping
<1> QED
  BY <1>1, <1>2, <1>3, <1>4, RequestKeeps, GoodKeeps DEF Good

\* The checks of addComment.  What the last one finds of the parent stays true.
LEMMA AddChecksKeep ==
  ASSUME IInv, NEW r \in Requests, AddCheckVisible(r) \/ AddCheckBlocks(r) \/ AddCheckParent(r)
  PROVE  IInv' /\ Good
<1> DEFINE a == arg[r]
<1>1. UNCHANGED <<accessVars, comments, commentCount>>
  BY DEF AddCheckVisible, AddCheckBlocks, AddCheckParent
<1>2. Good /\ AccessTypeOK'
  BY <1>1, UntouchedGood DEF accessVars, AccessTypeOK, IInv, RowsOK
<1>3. a \in Users \X Posts \X (Ids \cup {NoParent})
  BY DEF AddCheckVisible, AddCheckBlocks, AddCheckParent, IInv, ArgsOK, Knows, Adding
<1>4. \/ Answer(r)
      \/ \E next \in PCs : Goto(r, next) /\ Knows(next, a)
  <2>1. CASE AddCheckVisible(r)
    BY <1>3, <2>1 DEF AddCheckVisible, Knows, Adding, Flipping, PCs
  <2>2. CASE AddCheckBlocks(r)
    BY <1>3, <2>2 DEF AddCheckBlocks, Knows, Adding, Flipping, PCs
  <2>3. CASE AddCheckParent(r)
    BY <1>3, <2>3 DEF AddCheckParent, ValidParent, TopLevelOf, Knows, Adding, Flipping, PCs
  <2> QED
    BY <2>1, <2>2, <2>3
<1>5. pc' \in [Requests -> PCs] /\ arg' \in [Requests -> Arguments] /\ ArgsOK'
  BY <1>1, <1>2, <1>4, AnswerKeeps, GotoKeeps DEF Good
<1> QED
  BY <1>2, <1>5, GoodKeeps

LEMMA AddInsertKeeps ==
  ASSUME IInv, NEW r \in Requests, AddInsert(r)
  PROVE  IInv' /\ Good
<1> DEFINE new == [author |-> arg[r][1], post |-> arg[r][2], parent |-> arg[r][3], deletedBy |-> Nobody]
<1>1. /\ arg[r] \in Users \X Posts \X (Ids \cup {NoParent})
      /\ arg[r][3] # NoParent => TopLevelOf(arg[r][3], arg[r][2])
  BY DEF AddInsert, IInv, ArgsOK, Knows, Adding
<1>2. /\ new \in Comment /\ new.deletedBy = Nobody
      /\ new.parent # NoParent => TopLevelOf(new.parent, new.post)
  BY <1>1 DEF Comment
<1>3. Len(comments) < MaxComments /\ comments' = Append(comments, new)
  BY DEF AddInsert
<1>4. commentCount' = [commentCount EXCEPT ![new.post] = @ + 1]
  BY DEF AddInsert
<1>5. Good
  <2> HIDE DEF new
  <2> QED
    BY <1>2, <1>3, <1>4, AppendGood DEF TopLevelOf
<1>6. AccessTypeOK'
  BY DEF AddInsert, accessVars, AccessTypeOK, IInv, RowsOK
<1>7. Len(comments) + 1 \in Ids
  BY <1>3, LenProperties, CommentsAssumption DEF IInv, RowsOK, Ids
<1>8. PICK a \in Arguments : arg' = [arg EXCEPT ![r] = a]
  BY <1>7 DEF AddInsert, Arguments
<1>9. pc' = [pc EXCEPT ![r] = "c_emit"] /\ "c_emit" \in PCs /\ Knows("c_emit", a)'
  BY DEF AddInsert, PCs, Knows, Adding, Flipping
<1> QED
  BY <1>5, <1>6, <1>8, <1>9, RequestKeeps, GoodKeeps DEF Good

\* Broadcasting, and failing, end the request.
LEMMA EndKeeps ==
  ASSUME IInv, NEW r \in Requests, EmitNew(r) \/ EmitDeleted(r) \/ Fail(r)
  PROVE  IInv' /\ Good
<1>1. Answer(r) /\ UNCHANGED <<accessVars, comments, commentCount>>
  BY DEF EmitNew, EmitDeleted, Fail
<1>2. Good /\ AccessTypeOK'
  BY <1>1, UntouchedGood DEF accessVars, AccessTypeOK, IInv, RowsOK
<1> QED
  BY <1>1, <1>2, AnswerKeeps, GoodKeeps DEF Good

\* A removal or a restoration finds its comment there.
LEMMA ReadsKeep ==
  ASSUME IInv, NEW r \in Requests, DeleteRead(r) \/ RestoreRead(r)
  PROVE  IInv' /\ Good
<1> DEFINE a == arg[r]
<1>1. UNCHANGED <<accessVars, comments, commentCount>>
  BY DEF DeleteRead, RestoreRead
<1>2. Good /\ AccessTypeOK'
  BY <1>1, UntouchedGood DEF accessVars, AccessTypeOK, IInv, RowsOK
<1>3. a \in (Users \cup {Admin}) \X Ids
  BY DEF DeleteRead, RestoreRead, IInv, ArgsOK, Knows, Flipping
<1>4. \/ Answer(r)
      \/ \E next \in PCs : Goto(r, next) /\ Knows(next, a)
  BY <1>3 DEF DeleteRead, RestoreRead, Knows, Adding, Flipping, PCs
<1>5. pc' \in [Requests -> PCs] /\ arg' \in [Requests -> Arguments] /\ ArgsOK'
  BY <1>1, <1>2, <1>4, AnswerKeeps, GotoKeeps DEF Good
<1> QED
  BY <1>2, <1>5, GoodKeeps

LEMMA DeleteFlipKeeps ==
  ASSUME IInv, NEW r \in Requests, DeleteFlip(r)
  PROVE  IInv' /\ Good
<1>1. PICK c : c = arg[r][2]
  OBVIOUS
<1>2. PICK by : by = arg[r][1]
  OBVIOUS
<1>3. c \in 1..Len(comments) /\ by \in Users \cup {Admin} /\ by # Nobody
  BY <1>1, <1>2, CommentsAssumption DEF DeleteFlip, IInv, ArgsOK, Knows, Flipping, Nobody
<1>4. AccessTypeOK'
  BY DEF DeleteFlip, accessVars, AccessTypeOK, IInv, RowsOK
<1>5. CASE Live(c)
  <2>1. /\ comments' = [comments EXCEPT ![c].deletedBy = by]
        /\ commentCount' = [commentCount EXCEPT ![comments[c].post] = @ - 1]
        /\ pc' = [pc EXCEPT ![r] = "d_emit"]
        /\ arg' = [arg EXCEPT ![r] = <<c>>]
    BY <1>1, <1>2, <1>5 DEF DeleteFlip
  <2>2. commentCount' = [commentCount EXCEPT ![comments[c].post] = @ + (IF by = Nobody THEN 1 ELSE -1)]
    BY <1>3, <2>1, CommentParts DEF IInv, RowsOK
  <2>3. Good
    <3>1. by \in Users \cup {Admin, Nobody} /\ (by = Nobody <=> ~Live(c))
      BY <1>3, <1>5
    <3> QED
      BY <1>3, <2>1, <2>2, <3>1, FlipGood
  <2>4. "d_emit" \in PCs /\ <<c>> \in Arguments /\ Knows("d_emit", <<c>>)'
    BY <1>3, CommentParts DEF PCs, Arguments, Knows, Adding, Flipping
  <2> QED
    BY <1>4, <2>1, <2>3, <2>4, RequestKeeps, GoodKeeps DEF Good
<1>6. CASE ~Live(c)
  <2>1. Answer(r) /\ UNCHANGED <<comments, commentCount>>
    BY <1>1, <1>6 DEF DeleteFlip
  <2> QED
    BY <1>4, <2>1, UntouchedGood, AnswerKeeps, GoodKeeps DEF Good
<1> QED
  BY <1>5, <1>6

LEMMA RestoreFlipKeeps ==
  ASSUME IInv, NEW r \in Requests, RestoreFlip(r)
  PROVE  IInv' /\ Good
<1>1. PICK c : c = arg[r][2]
  OBVIOUS
<1>2. c \in 1..Len(comments)
  BY <1>1 DEF RestoreFlip, IInv, ArgsOK, Knows
<1>3. AccessTypeOK'
  BY DEF RestoreFlip, accessVars, AccessTypeOK, IInv, RowsOK
<1>4. CASE ~Live(c)
  <2>1. /\ comments' = [comments EXCEPT ![c].deletedBy = Nobody]
        /\ commentCount' = [commentCount EXCEPT ![comments[c].post] = @ + 1]
        /\ Answer(r)
    BY <1>1, <1>4 DEF RestoreFlip
  <2>2. Good
    BY <1>2, <1>4, <2>1, FlipGood
  <2> QED
    BY <1>3, <2>1, <2>2, AnswerKeeps, GoodKeeps DEF Good
<1>5. CASE Live(c)
  <2>1. Answer(r) /\ UNCHANGED <<comments, commentCount>>
    BY <1>1, <1>5 DEF RestoreFlip
  <2> QED
    BY <1>3, <2>1, UntouchedGood, AnswerKeeps, GoodKeeps DEF Good
<1> QED
  BY <1>4, <1>5

LEMMA NextKeeps ==
  ASSUME IInv, [Next]_vars
  PROVE  IInv' /\ Good
<1>1. ASSUME NEW r \in Requests, Step(r)
      PROVE  IInv' /\ Good
  BY <1>1, AddChecksKeep, AddInsertKeeps, EndKeeps, ReadsKeep, DeleteFlipKeeps, RestoreFlipKeeps DEF Step
<1>2. CASE AccessNext /\ UNCHANGED <<comments, commentCount, pc, arg>>
  <2>1. AccessTypeOK'
    BY <1>2 DEF IInv, RowsOK, AccessTypeOK, AccessNext, RemovePost, RestorePost, Ban, Unban, Block, Unblock
  <2>2. ArgsOK'
    BY <1>2 DEF IInv, ArgsOK, Knows, TopLevelOf
  <2> QED
    BY <1>2, <2>1, <2>2, UntouchedGood, GoodKeeps DEF IInv, RowsOK
<1>3. CASE UNCHANGED vars
  <2>1. AccessTypeOK' /\ ArgsOK'
    BY <1>3 DEF vars, accessVars, IInv, RowsOK, AccessTypeOK, ArgsOK, Knows, TopLevelOf
  <2> QED
    BY <1>3, <2>1, UntouchedGood, GoodKeeps DEF vars, IInv, RowsOK
<1> QED
  BY <1>1, <1>2, <1>3, BeginKeeps DEF Next

LEMMA InvariantHolds == Spec => []IInv
<1>1. IInv /\ [Next]_vars => IInv'
  BY NextKeeps
<1> QED
  BY <1>1, InitInv, PTL DEF Spec

-----------------------------------------------------------------------------
\* Threads are one level deep and never span posts, although the parent of a reply
\* is looked at in a statement before the one that inserts the reply.
THEOREM RepliesStayOneLevel == Spec => []RepliesOneLevel
<1>1. IInv => RepliesOneLevel
  BY DEF IInv
<1> QED
  BY <1>1, InvariantHolds, PTL

\* Who removed a comment stays on record until it is restored, however the removals
\* by its author and by moderators overlap.
THEOREM RemovalStaysAttributed == Spec => RemovalAttributionStable
<1>1. IInv /\ [Next]_vars =>
        [\A c \in 1..Len(comments) :
           ~Live(c) => comments'[c].deletedBy \in {comments[c].deletedBy, Nobody}]_vars
  BY NextKeeps DEF Good, Attributed
<1> QED
  BY <1>1, InvariantHolds, PTL DEF Spec, RemovalAttributionStable

\* Adding, deleting and restoring implement Tally: every step makes at most one comment
\* live or removed, and moves the counter of its post, and no other, with it.
THEOREM CommentsImplementTally == Spec => CommentsTallied
<1>1. Init => CommentTally!TallyInit
  <2> SUFFICES ASSUME Init PROVE CommentTally!TallyInit
    OBVIOUS
  <2>1. Len(comments) = 0
    BY EmptySeq DEF Init
  <2> QED
    BY <2>1 DEF Init, CommentTally!TallyInit
<1>2. IInv /\ [Next]_vars => [CommentTally!TallyNext]_(CommentTally!tallyVars)
  BY NextKeeps DEF Good, Tallied
<1> QED
  BY <1>1, <1>2, InvariantHolds, PTL DEF Spec, CommentsTallied, CommentTally!TallySpec

\* posts.comment_count is the number of the comments of the post that are not removed.
THEOREM CommentCountAlwaysMatches == Spec => []CommentProofs!CounterMatches
<1>1. CommentTally!TallyInit => CommentProofs!TallyInit
  BY DEF CommentTally!TallyInit, CommentProofs!TallyInit
<1>2. [CommentTally!TallyNext]_(CommentTally!tallyVars)
        => [CommentProofs!TallyNext]_(CommentProofs!tallyVars)
  BY DEF CommentTally!TallyNext, CommentTally!tallyVars, CommentTally!Put, CommentTally!Take,
     CommentProofs!TallyNext, CommentProofs!tallyVars, CommentProofs!Put, CommentProofs!Take
<1> QED
  BY <1>1, <1>2, CommentsImplementTally, CommentProofs!TallyCounts, PTL
  DEF CommentsTallied, CommentTally!TallySpec, CommentProofs!TallySpec

\* No comment, request or counter is ever of an unexpected kind; in particular no counter
\* is negative, since it counts.
THEOREM CommentsTypeCorrect == Spec => []TypeOK
<1>1. IInv /\ CommentProofs!CounterMatches => TypeOK
  <2> SUFFICES ASSUME IInv, CommentProofs!CounterMatches PROVE TypeOK
    OBVIOUS
  <2>1. ASSUME NEW p \in Posts
        PROVE  commentCount[p] \in Nat
    <3> DEFINE R == CommentProofs!RowsCounted(p)
    <3>1. Len(comments) \in Nat /\ Len(comments) <= MaxComments
      BY LenProperties DEF IInv, RowsOK
    <3>2. IsFiniteSet(Ids \X Posts)
      <4>1. IsFiniteSet(Ids)
        BY CommentsAssumption, FS_Interval DEF Ids
      <4> QED
        BY <4>1, AccessAssumption, FS_Product
    <3>3. R \in SUBSET (Ids \X Posts)
      BY <3>1, CommentParts DEF CommentProofs!RowsCounted
    <3>4. Cardinality(R) \in Nat
      BY <3>2, <3>3, FS_Subset, FS_CardinalityType
    <3> QED
      BY <3>4 DEF CommentProofs!CounterMatches, CommentProofs!RowsOf,
         CommentProofs!Cardinality, Cardinality, CommentProofs!IsFiniteSet, IsFiniteSet
  <2> QED
    BY <2>1 DEF IInv, RowsOK, TypeOK
<1> QED
  BY <1>1, InvariantHolds, CommentCountAlwaysMatches, PTL
=============================================================================
