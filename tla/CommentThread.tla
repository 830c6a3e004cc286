--------------------------- MODULE CommentThread ---------------------------
(***************************************************************************)
(* The comment section of a post in one tab of the browser: the list it    *)
(* loads, the answers to its own requests, and the events of the room it   *)
(* has joined on the socket, which all change the same state in the order  *)
(* in which they happen to arrive.                                         *)
(*                                                                         *)
(* The server is reduced to what it commits and, after that, emits to the  *)
(* room; requests emit independently, so events of one comment may be sent *)
(* in either order.  A restoration is not sent.  All top-level comments    *)
(* fit on one page here: the walk through the pages is in module Pages.    *)
(* `outdated` is no state of the system: it holds the comments about which *)
(* a late answer or a lost event may have misled the tab.                  *)
(***************************************************************************)
EXTENDS Lists

CONSTANTS
  Comments,     \* ids, in the order of creation
  ParentOf,     \* parent of each comment, 0 for a top-level one
  RepliesPage,  \* REPLIES_PAGE_SIZE
  MaxWire,      \* bound on the events under way
  MaxRestores   \* bound on the restorations

ASSUME ThreadAssumption ==
  /\ IsFiniteSet(Comments) /\ Comments \subseteq Nat \ {0}
  /\ ParentOf \in [Comments -> Comments \cup {0}]
  /\ \A c \in Comments : ParentOf[c] # 0 => ParentOf[ParentOf[c]] = 0
  /\ RepliesPage \in Nat \ {0} /\ MaxWire \in Nat /\ MaxRestores \in Nat

VARIABLES
  made,      \* comments committed
  deleted,   \* those with deleted_at set
  restores,  \* restorations so far
  unsent,    \* events committed but not yet emitted
  joined,    \* the tab is in the room
  events,    \* events on their way to the tab
  view,      \* the state of the section
  listReq,   \* the request for the list, and its answer
  moreReq,   \* the request for more replies, and its answer
  ownReq,    \* the request of the user, and its answer
  outdated

threadVars == <<made, deleted, restores, unsent, joined, events, view, listReq, moreReq, ownReq, outdated>>
serverState == <<made, deleted, restores, unsent>>

Tops == {c \in Comments : ParentOf[c] = 0}
Of(t) == {c \in Comments : ParentOf[c] = t}

\* `gone` holds the placeholders, `count` is replyCount.
EmptyView == [tops |-> <<>>, gone |-> {}, replies |-> [t \in Tops |-> <<>>], count |-> [t \in Tops |-> 0]]

NoList == [at |-> "none", view |-> EmptyView]
NoMore == [at |-> "none", top |-> 0, data |-> <<>>]
NoOwn == [at |-> "none", id |-> 0]

ThreadInit ==
  /\ made \in {{}, Comments}
  /\ deleted = {} /\ restores = 0 /\ unsent = {}
  /\ joined = FALSE /\ events = <<>>
  /\ view = EmptyView
  /\ listReq = [NoList EXCEPT !.at = "asked"]
  /\ moreReq = NoMore
  /\ ownReq = NoOwn
  /\ outdated = {}

-----------------------------------------------------------------------------
\* How the section changes.

\* Mutant: no look at the comments that are there.
UpsertTopTwice(v, c) ==
  [v EXCEPT !.tops = <<c>> \o @, !.replies[c] = <<>>, !.count[c] = 0]

UpsertTopLevelComment(v, c) ==
  IF c \in ToSet(v.tops) THEN v
  ELSE [v EXCEPT !.tops = <<c>> \o @, !.replies[c] = <<>>, !.count[c] = 0]

UpsertReply(v, c) ==
  LET t == ParentOf[c]
  IN IF t \notin ToSet(v.tops) \/ c \in ToSet(v.replies[t]) THEN v
     ELSE [v EXCEPT !.replies[t] = Append(@, c), !.count[t] = @ + 1]

Upsert(v, c) == IF ParentOf[c] = 0 THEN UpsertTopLevelComment(v, c) ELSE UpsertReply(v, c)

\* Mutant: replies are not looked through.
DeletionTopOnly(v, c) ==
  IF ParentOf[c] = 0 /\ c \in ToSet(v.tops)
  THEN IF v.replies[c] # <<>> THEN [v EXCEPT !.gone = @ \cup {c}]
       ELSE [v EXCEPT !.tops = Without(@, c), !.gone = @ \ {c}]
  ELSE v

\* A deleted comment with loaded replies stays as a placeholder.  replyCount
\* stays as it is.
ApplyCommentDeletion(v, c) ==
  IF ParentOf[c] # 0 THEN [v EXCEPT !.replies[ParentOf[c]] = Without(@, c)]
  ELSE IF c \notin ToSet(v.tops) THEN v
  ELSE IF v.replies[c] # <<>> THEN [v EXCEPT !.gone = @ \cup {c}]
  ELSE [v EXCEPT !.tops = Without(@, c), !.gone = @ \ {c}]

\* The section shows c as a comment, not as a placeholder.
Shows(v, c) ==
  IF ParentOf[c] = 0 THEN c \in ToSet(v.tops) /\ c \notin v.gone
  ELSE ParentOf[c] \in ToSet(v.tops) /\ c \in ToSet(v.replies[ParentOf[c]])

IsLive(c) == c \in made \ deleted

\* The section becomes v by an answer or event that tells of comments made, which
\* may be late: a deletion that is no longer to come has passed it.
ViewTold(v) ==
  /\ view' = v
  /\ outdated' = outdated \cup
       {c \in Comments : Shows(v, c) /\ ~Shows(view, c) /\ ~IsLive(c)
                         /\ <<"deleted", c>> \notin unsent \cup ToSet(events)}

-----------------------------------------------------------------------------
\* The server.

LiveReplies(t) == {c \in Of(t) : IsLive(c)}
FirstReplies(S) == FirstN(InOrder(S), RepliesPage)

\* getComments: newest first, a deleted comment with live replies as a placeholder.
Listed ==
  LET tops == {t \in Tops \cap made : t \notin deleted \/ LiveReplies(t) # {}}
  IN [tops |-> Reverse(InOrder(tops)),
      gone |-> tops \cap deleted,
      replies |-> [t \in Tops |-> IF t \in tops THEN FirstReplies(LiveReplies(t)) ELSE <<>>],
      count |-> [t \in Tops |-> IF t \in tops THEN Cardinality(LiveReplies(t)) ELSE 0]]

\* addComment, of this user or another.
Commit(c) ==
  /\ c \notin made
  /\ ParentOf[c] # 0 => IsLive(ParentOf[c])
  /\ made' = made \cup {c}
  /\ unsent' = unsent \cup {<<"new", c>>}
  /\ UNCHANGED <<deleted, restores>>

\* deleteComment by the author, or by a moderator.
Delete(c) ==
  /\ IsLive(c)
  /\ deleted' = deleted \cup {c}
  /\ unsent' = unsent \cup {<<"deleted", c>>}
  /\ UNCHANGED <<made, restores>>

Elsewhere(c) ==
  /\ Commit(c) \/ Delete(c)
  /\ UNCHANGED <<joined, events, view, listReq, moreReq, ownReq, outdated>>

\* restoreComment, of one row, whatever became of its parent.
Restore(c) ==
  /\ c \in deleted
  /\ restores < MaxRestores
  /\ restores' = restores + 1
  /\ deleted' = deleted \ {c}
  /\ UNCHANGED <<made, unsent, joined, events, view, listReq, moreReq, ownReq, outdated>>

\* emitNewComment and emitCommentDeleted, to those in the room.
Emit(e) ==
  /\ e \in unsent
  /\ Len(events) < MaxWire
  /\ unsent' = unsent \ {e}
  /\ events' = IF joined THEN Append(events, e) ELSE events
  /\ outdated' = IF joined THEN outdated ELSE outdated \cup {e[2]}
  /\ UNCHANGED <<made, deleted, restores, joined, view, listReq, moreReq, ownReq>>

\* join-post, on mount and on every reconnection.
JoinRoom ==
  /\ ~joined
  /\ joined' = TRUE
  /\ UNCHANGED <<serverState, events, view, listReq, moreReq, ownReq, outdated>>

\* The socket is disconnected.
Disconnect ==
  /\ joined
  /\ joined' = FALSE
  /\ events' = <<>>
  /\ outdated' = outdated \cup {e[2] : e \in ToSet(events)}
  /\ UNCHANGED <<serverState, view, listReq, moreReq, ownReq>>

-----------------------------------------------------------------------------
\* The tab.

ReadComments ==
  /\ listReq.at = "asked"
  /\ listReq' = [at |-> "answered", view |-> Listed]
  /\ UNCHANGED <<serverState, joined, events, view, moreReq, ownReq, outdated>>

CommentsArrive ==
  /\ listReq.at = "answered"
  /\ ViewTold(listReq.view)
  /\ listReq' = [NoList EXCEPT !.at = "done"]
  /\ UNCHANGED <<serverState, joined, events, moreReq, ownReq>>

CommentsFail ==
  /\ listReq.at \in {"asked", "answered"}
  /\ listReq' = [NoList EXCEPT !.at = "done"]
  /\ UNCHANGED <<serverState, joined, events, view, moreReq, ownReq, outdated>>

\* onNew and onDeleted.
OnEvent ==
  /\ events # <<>>
  /\ events' = Tail(events)
  /\ LET e == Head(events)
     IN IF e[1] = "new" THEN ViewTold(Upsert(view, e[2]))
        ELSE view' = ApplyCommentDeletion(view, e[2]) /\ UNCHANGED outdated
  /\ UNCHANGED <<serverState, joined, listReq, moreReq, ownReq>>

\* addTopComment and reply: one at a time.
Submit(c) ==
  /\ ownReq.at = "none"
  /\ Commit(c)
  /\ ownReq' = [at |-> "added", id |-> c]
  /\ UNCHANGED <<joined, events, view, listReq, moreReq, outdated>>

RemoveOwn(c) ==
  /\ ownReq.at = "none"
  /\ Shows(view, c)
  /\ Delete(c)
  /\ ownReq' = [at |-> "removed", id |-> c]
  /\ UNCHANGED <<joined, events, view, listReq, moreReq, outdated>>

OwnAnswer ==
  /\ ownReq.at \in {"added", "removed"}
  /\ \/ ownReq.at = "added" /\ ViewTold(Upsert(view, ownReq.id))
     \/ ownReq.at = "removed" /\ view' = ApplyCommentDeletion(view, ownReq.id) /\ UNCHANGED outdated
     \/ UNCHANGED <<view, outdated>>
  /\ ownReq' = NoOwn
  /\ UNCHANGED <<serverState, joined, events, listReq, moreReq>>

\* loadMoreReplies, while replyCount says there are more.
AskMoreReplies(t) ==
  /\ moreReq.at = "none"
  /\ t \in ToSet(view.tops)
  /\ view.count[t] > Len(view.replies[t])
  /\ LET loaded == view.replies[t]
         after == IF loaded = <<>> THEN 0 ELSE Last(loaded)
     IN moreReq' = [at |-> "asked", top |-> t, data |-> <<after>>]
  /\ UNCHANGED <<serverState, joined, events, view, listReq, ownReq, outdated>>

ReadReplies ==
  /\ moreReq.at = "asked"
  /\ moreReq' = [moreReq EXCEPT !.at = "answered",
       !.data = FirstReplies({c \in LiveReplies(moreReq.top) : c > moreReq.data[1]})]
  /\ UNCHANGED <<serverState, joined, events, view, listReq, ownReq, outdated>>

RepliesArrive ==
  /\ moreReq.at = "answered"
  /\ LET t == moreReq.top
         fresh == Only(moreReq.data, Comments \ ToSet(view.replies[t]))
     IN ViewTold(IF t \in ToSet(view.tops) THEN [view EXCEPT !.replies[t] = @ \o fresh] ELSE view)
  /\ moreReq' = NoMore
  /\ UNCHANGED <<serverState, joined, events, listReq, ownReq>>

RepliesFail ==
  /\ moreReq.at \in {"asked", "answered"}
  /\ moreReq' = NoMore
  /\ UNCHANGED <<serverState, joined, events, view, listReq, ownReq, outdated>>

ThreadNext ==
  \/ \E c \in Comments : Elsewhere(c) \/ Restore(c) \/ Submit(c) \/ RemoveOwn(c) \/ AskMoreReplies(c)
  \/ \E e \in unsent : Emit(e)
  \/ JoinRoom \/ Disconnect
  \/ ReadComments \/ CommentsArrive \/ CommentsFail
  \/ OnEvent \/ OwnAnswer \/ ReadReplies \/ RepliesArrive \/ RepliesFail

ThreadSpec == ThreadInit /\ [][ThreadNext]_threadVars

-----------------------------------------------------------------------------
ThreadTypeOK ==
  /\ deleted \subseteq made /\ made \subseteq Comments
  /\ unsent \subseteq {"new", "deleted"} \X Comments
  /\ ToSet(events) \subseteq {"new", "deleted"} \X Comments
  /\ joined \in BOOLEAN /\ restores \in 0..MaxRestores
  /\ ToSet(view.tops) \subseteq Tops /\ view.gone \subseteq ToSet(view.tops)
  /\ \A t \in Tops : ToSet(view.replies[t]) \subseteq Of(t) /\ view.count[t] \in Nat
  /\ listReq.at \in {"asked", "answered", "done"}
  /\ moreReq.at \in {"none", "asked", "answered"} /\ moreReq.top \in Tops \cup {0}
  /\ ownReq \in [at : {"none", "added", "removed"}, id : Comments \cup {0}]
  /\ outdated \subseteq Comments

\* Whichever of the list, the answer to the request that made it, more replies
\* and the event of the room comes first, no comment is shown twice.
NoCommentTwice ==
  /\ IsInjective(view.tops)
  /\ \A t \in Tops : IsInjective(view.replies[t])

\* A deleted comment disappears, or becomes a placeholder, once the event of its
\* deletion has arrived, unless the event was lost or had arrived before an
\* answer or event that still told of the comment.
DeletedDisappears ==
  \A c \in deleted :
    Shows(view, c) => c \in outdated \/ <<"deleted", c>> \in unsent \cup ToSet(events)
=============================================================================
