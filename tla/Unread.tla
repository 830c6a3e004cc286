------------------------------- MODULE Unread -------------------------------
\* The unread notifications of a user: the rows, the badge that useNotifications keeps
\* in the one tab of the user, and the notifications page, which marks them all as
\* read.  The badge is a count read once, plus what the stream brings; neither is ever
\* compared with the other again.
EXTENDS Naturals, FiniteSets

CONSTANTS
  Notices,        \* the notifications there can be
  CountRequests,  \* requests for the unread count that can be under way at once
  MaxPushed,      \* bound on the events on their way to the tab
  MaxBadge,       \* bound on the badge
  MaxMarks        \* bound on the requests to mark all that are under way

ASSUME UnreadAssumption ==
  /\ IsFiniteSet(Notices)
  /\ {MaxPushed, MaxBadge, MaxMarks} \subseteq Nat
  /\ MaxBadge >= Cardinality(Notices)

VARIABLES
  notices,    \* notification -> "none", or whether its row is "unread" or "read"
  known,      \* whether the tab knows the user (`user` of useAuth)
  listening,  \* whether its stream is open
  pushed,     \* number of events on their way
  badge,      \* unreadCount
  counts,     \* requests for the count: none, asked, or the number read
  page,       \* the notifications page: "away", or there, with hasMarked or without
  marks       \* requests to mark all: sent, executed, or sent by a page that is gone

unreadVars == <<notices, known, listening, pushed, badge, counts, page, marks>>

NoCount == [at |-> "none", n |-> 0]

UnreadInit ==
  /\ notices = [e \in Notices |-> "none"]
  /\ known = FALSE /\ listening = FALSE
  /\ pushed = 0 /\ badge = 0
  /\ counts = [c \in CountRequests |-> NoCount]
  /\ page = "away"
  /\ marks = [sent |-> 0, done |-> 0, orphaned |-> 0]

UnreadRows == {e \in Notices : notices[e] = "unread"}

-----------------------------------------------------------------------------
\* The server.

\* create stores a row; a like or follow repeated makes the row it has unread again.
\* The push that follows reaches the tab, or is lost.
Notify(e) ==
  /\ notices' = [notices EXCEPT ![e] = "unread"]
  /\ \/ UNCHANGED pushed
     \/ listening /\ pushed < MaxPushed /\ pushed' = pushed + 1
  /\ UNCHANGED <<known, listening, badge, counts, page, marks>>

\* A caller of the API marks one of them.
MarkRead(e) ==
  /\ notices[e] # "none"
  /\ notices' = [notices EXCEPT ![e] = "read"]
  /\ UNCHANGED <<known, listening, pushed, badge, counts, page, marks>>

ReadCount(c) ==
  /\ counts[c].at = "asked"
  /\ counts' = [counts EXCEPT ![c] = [at |-> "read", n |-> Cardinality(UnreadRows)]]
  /\ UNCHANGED <<notices, known, listening, pushed, badge, page, marks>>

AllRead == [e \in Notices |-> IF e \in UnreadRows THEN "read" ELSE notices[e]]

MarkAllRead ==
  /\ \/ marks.sent > 0 /\ marks' = [marks EXCEPT !.sent = @ - 1, !.done = @ + 1]
     \/ marks.orphaned > 0 /\ marks' = [marks EXCEPT !.orphaned = @ - 1]
  /\ notices' = AllRead
  /\ UNCHANGED <<known, listening, pushed, badge, counts, page>>

\* Such a request does not arrive, or its answer does not: the badge stays.
MarkFails ==
  /\ \E at \in {"sent", "done", "orphaned"} : marks[at] > 0 /\ marks' = [marks EXCEPT ![at] = @ - 1]
  /\ UNCHANGED <<notices, known, listening, pushed, badge, counts, page>>

-----------------------------------------------------------------------------
\* The tab.

\* Mutant of AfterRender: hasMarked is set whether or not there is something to mark, as
\* an effect of the first rendering alone would.
AfterFirstRender(p, n, m) ==
  /\ page' = IF p = "unmarked" THEN "marked" ELSE p
  /\ marks' = IF p = "unmarked" /\ n > 0 THEN [m EXCEPT !.sent = @ + 1] ELSE m
  /\ marks'.sent + m.done + m.orphaned <= MaxMarks

\* The effect of the page, in state p with the badge n: it marks all as read the first
\* time there are any.
AfterRender(p, n, m) ==
  /\ page' = IF p = "unmarked" /\ n > 0 THEN "marked" ELSE p
  /\ marks' = IF p = "unmarked" /\ n > 0 THEN [m EXCEPT !.sent = @ + 1] ELSE m
  /\ marks'.sent + m.done + m.orphaned <= MaxMarks

\* A page is loaded: what the tab held and what it waits for is gone, and requests to mark
\* that are under way are executed or not.
Reload ==
  /\ AfterRender(IF page = "away" THEN "away" ELSE "unmarked", 0,
                 [sent |-> 0, done |-> 0, orphaned |-> marks.orphaned + marks.sent])
  /\ known' = FALSE /\ listening' = FALSE /\ pushed' = 0 /\ badge' = 0
  /\ counts' = [c \in CountRequests |-> NoCount]
  /\ UNCHANGED notices

\* The effect of `user`: at a login, when the answer who is signed in comes, and again when
\* the profile was saved.  It opens a stream and asks for the count.
SetUser(c) ==
  /\ counts[c] = NoCount
  /\ known' = TRUE
  /\ counts' = [counts EXCEPT ![c].at = "asked"]
  /\ listening' = FALSE /\ pushed' = 0
  /\ UNCHANGED <<notices, badge, page, marks>>

\* The user signs out; a count that was asked for still comes.
DropUser ==
  /\ known
  /\ known' = FALSE /\ listening' = FALSE /\ pushed' = 0 /\ badge' = 0
  /\ UNCHANGED <<notices, counts, page, marks>>

\* The stream opens or breaks; the count is not asked for again.
OpenStream ==
  /\ known /\ ~listening
  /\ listening' = TRUE
  /\ UNCHANGED <<notices, known, pushed, badge, counts, page, marks>>

BreakStream ==
  /\ listening
  /\ listening' = FALSE /\ pushed' = 0
  /\ UNCHANGED <<notices, known, badge, counts, page, marks>>

CountArrives(c) ==
  /\ counts[c].at = "read"
  /\ badge' = counts[c].n
  /\ counts' = [counts EXCEPT ![c] = NoCount]
  /\ AfterRender(page, counts[c].n, marks)
  /\ UNCHANGED <<notices, known, listening, pushed>>

CountFails(c) ==
  /\ counts[c] # NoCount
  /\ counts' = [counts EXCEPT ![c] = NoCount]
  /\ UNCHANGED <<notices, known, listening, pushed, badge, page, marks>>

\* onmessage: one more, whatever the count had in it.
PushArrives ==
  /\ pushed > 0 /\ badge < MaxBadge
  /\ pushed' = pushed - 1
  /\ badge' = badge + 1
  /\ AfterRender(page, badge + 1, marks)
  /\ UNCHANGED <<notices, known, listening, counts>>

\* The answer to a request to mark all: what came since the update is zeroed with it.
MarkArrives ==
  /\ marks.done > 0
  /\ badge' = 0
  /\ AfterRender(page, 0, [marks EXCEPT !.done = @ - 1])
  /\ UNCHANGED <<notices, known, listening, pushed, counts>>

\* UnreadBadge, at the link to the page.
BadgeShown == known /\ badge > 0

OpenPage ==
  /\ page = "away"
  /\ AfterRender("unmarked", badge, marks)
  /\ UNCHANGED <<notices, known, listening, pushed, badge, counts>>

LeavePage ==
  /\ page # "away"
  /\ page' = "away"
  /\ UNCHANGED <<notices, known, listening, pushed, badge, counts, marks>>

UnreadNext ==
  \/ \E e \in Notices : Notify(e) \/ MarkRead(e)
  \/ MarkAllRead \/ MarkFails
  \/ \E c \in CountRequests : ReadCount(c) \/ SetUser(c) \/ CountArrives(c) \/ CountFails(c)
  \/ Reload \/ DropUser \/ OpenStream \/ BreakStream
  \/ PushArrives \/ MarkArrives \/ OpenPage \/ LeavePage

UnreadSpec == UnreadInit /\ [][UnreadNext]_unreadVars

-----------------------------------------------------------------------------
UnreadTypeOK ==
  /\ notices \in [Notices -> {"none", "unread", "read"}]
  /\ known \in BOOLEAN /\ listening \in BOOLEAN
  /\ pushed \in 0..MaxPushed
  /\ badge \in 0..MaxBadge
  /\ counts \in [CountRequests ->
       [at : {"none", "asked", "read"}, n : 0..Cardinality(Notices)]]
  /\ page \in {"away", "unmarked", "marked"}
  /\ marks \in [sent : 0..MaxMarks, done : 0..MaxMarks, orphaned : 0..MaxMarks]
  /\ marks.sent + marks.done + marks.orphaned <= MaxMarks

\* No notification stays unread: all are marked as read again and again by a user who
\* opens the application, and now and then the page when the badge shows:
\* notifications/page.tsx:35-37 and use-notifications.ts:91-93.  The badge does miss rows, when a push is lost, when a
\* stale count or answer overwrites it, and when one comes while a request to mark is under
\* way; whatever it missed, the count of a later load has to bring back.
ReadInTheEnd == []<>(UnreadRows = {})
=============================================================================
