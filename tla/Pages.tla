------------------------------- MODULE Pages -------------------------------
(***************************************************************************)
(* The paged listings of the API, and the lists the web client builds from *)
(* them page by page while the rows behind them change: posts and users    *)
(* are hidden, restored and deleted, bookmarks and notifications move back *)
(* to the top, counters change the rank of a post.                         *)
(*                                                                         *)
(* Each page is one read.  Prisma's cursor is the key of the cursor's row  *)
(* at that moment (a subquery, NULL once the row is deleted), and `skip: 1`*)
(* is an OFFSET among the rows that pass the filter then.  The pages of    *)
(* explore and of the feed may come from the cache, each as it was when    *)
(* some request read it: neighbouring pages of one walk are then read at   *)
(* different times, the later one first perhaps, and before the walk began.*)
(*                                                                         *)
(* What a walk missed is counted in `missed`, `cut` and `slid`.  These,    *)
(* `steady`, `last`, `taken`, `put`, and `since`, `ahead`, `taken` and     *)
(* `put` of a page, are no state of the system.                            *)
(***************************************************************************)
EXTENDS Lists

CONSTANTS
  Items,       \* rows by their ids, oldest first: 1..n
  PageLimit,   \* rows of a page
  MaxKey,      \* bound on the sort keys other than the id
  MaxChanges,  \* bound on the writes to the rows
  MaxCopies    \* bound on the pages in the cache at a time

ASSUME PagesAssumption ==
  /\ IsFiniteSet(Items) /\ Items # {} /\ Items = 1..Cardinality(Items)
  /\ PageLimit \in Nat \ {0} /\ MaxKey \in Nat /\ MaxChanges \in Nat /\ MaxCopies \in Nat

-----------------------------------------------------------------------------
\* The listings: their order, what their cursor is, and how the client joins
\* the pages.

FindAll(sortBy) ==
  [order |-> IF sortBy = "createdAt" THEN "newest" ELSE "ranked", cursor |-> "row", join |-> "dedupe", cached |-> FALSE]

QuerySearch == [order |-> "newest", cursor |-> "id", join |-> "dedupe", cached |-> FALSE]
QueryExplore == [order |-> "ranked", cursor |-> "offset", join |-> "dedupe", cached |-> TRUE]
QueryFeed == [order |-> "newest", cursor |-> "row", join |-> "dedupe", cached |-> TRUE]
GetUserPosts == [order |-> "newest", cursor |-> "row", join |-> "dedupe", cached |-> FALSE]

ListBookmarks == [order |-> "recent", cursor |-> "row", join |-> "append", cached |-> FALSE]
ListNotifications == [order |-> "recent", cursor |-> "row", join |-> "append", cached |-> FALSE]
GetComments == [order |-> "newest", cursor |-> "row", join |-> "dedupe", cached |-> FALSE]
GetReplies == [order |-> "oldest", cursor |-> "row", join |-> "dedupe", cached |-> FALSE]

ListDeletedPosts == [order |-> "newest", cursor |-> "row", join |-> "append", cached |-> FALSE]
ListDeletedComments == [order |-> "newest", cursor |-> "row", join |-> "append", cached |-> FALSE]
ListLockedUsers == [order |-> "newest", cursor |-> "row", join |-> "append", cached |-> FALSE]

Listings ==
  {FindAll("createdAt"), FindAll("likeCount"), QuerySearch, QueryExplore, QueryFeed, GetUserPosts,
   ListBookmarks, ListNotifications, GetComments, GetReplies,
   ListDeletedPosts, ListDeletedComments, ListLockedUsers}

-----------------------------------------------------------------------------
VARIABLES
  listing,   \* the listing the client walks
  rows,      \* rows that exist
  listed,    \* those the filter of the listing lets through
  key,       \* creation or bump time, or score, of each row
  changes,   \* writes made so far
  copies,    \* pages in the cache, or read by a request about to put them there
  taken,     \* how often a row left the rows before an offset
  put,       \* how often a row joined them
  phase,     \* "idle", "asked", "answered", "failed" or "end"
  shown,     \* the list on the screen
  cursor,    \* cursor of the next page
  page,      \* the page under way to the client
  last,      \* the page shown last
  steady,    \* rows listed, and not written, since the first read of a page shown
  missed,    \* how many rows the walk may have stepped over
  cut,       \* the cursor's row was deleted: the listing ended there
  slid,      \* the cursor's row moved down: the rows it passed are skipped
  raised     \* the cursor's row moved up: rows come again

rowVars == <<rows, listed, key, changes, taken, put>>
walkVars == <<last, steady, missed, cut, slid, raised>>
pagesVars == <<listing, rowVars, copies, phase, shown, cursor, page, walkVars>>

NoCursor == 0

\* The offsets at which a page can begin, but for the first.
Lines == {o \in Items : \E k \in Items : o = k * PageLimit}
NoneYet == [o \in Lines |-> 0]

NoPage == [for |-> NoCursor, data |-> <<>>, next |-> NoCursor, over |-> 0, cut |-> FALSE,
           since |-> {}, ahead |-> {}, taken |-> NoneYet, put |-> NoneYet]

PagesInit ==
  /\ listing \in Listings
  /\ rows = Items \ {Cardinality(Items)}
  /\ listed = rows
  /\ \E k \in 0..MaxKey : key = [i \in Items |-> k] /\ (listing.order # "ranked" => k = 0)
  /\ changes = 0
  /\ copies = {} /\ taken = NoneYet /\ put = NoneYet
  /\ phase = "idle"
  /\ shown = <<>>
  /\ cursor = NoCursor
  /\ page = NoPage /\ last = NoPage
  /\ steady = {} /\ missed = 0
  /\ cut = FALSE /\ slid = FALSE /\ raised = FALSE

Before(i, j) ==
  \/ key[i] > key[j]
  \/ key[i] = key[j] /\ IF listing.order = "oldest" THEN i < j ELSE i > j

Order == {p \in Items \X Items : Before(p[1], p[2])}
Sorted(S) == SortBy(S, Order)

\* LIMIT and OFFSET of a page query, which asks for one row more than the page.
From(s, n) == FirstN(SubSeq(s, n, Len(s)), PageLimit + 1)

\* The rows the page query of cursor c returns.
Fetched(c) ==
  CASE c = NoCursor -> From(Sorted(listed), 1)
    [] c # NoCursor /\ listing.cursor = "offset" -> From(Sorted(listed), c + 1)
    [] c # NoCursor /\ listing.cursor = "id" -> From(Sorted({i \in listed : i < c}), 1)
    [] c # NoCursor /\ listing.cursor = "row" ->
         IF c \in rows THEN From(Sorted({i \in listed : i = c \/ Before(c, i)}), 2) ELSE <<>>

\* Mutant: the cursor is the extra row, not the last row of the page.
NextCursorExtra(c, s) ==
  IF Len(s) <= PageLimit THEN NoCursor
  ELSE IF listing.cursor = "offset" THEN c + PageLimit ELSE s[PageLimit + 1]

NextCursor(c, s) ==
  IF Len(s) <= PageLimit THEN NoCursor
  ELSE IF listing.cursor = "offset" THEN c + PageLimit ELSE s[PageLimit]

\* A page after c depends on the row of c.
Held(c) == listing.cursor = "row" /\ c # NoCursor

\* The rows before offset o.
Leading(o) ==
  {i \in listed : listing.cursor = "offset" /\ Cardinality({j \in listed : Before(j, i)}) < o}

\* The page after c, as it is now: its rows and the next cursor, whether it
\* steps over a row or ends at a deleted one; and, of the moment it is read,
\* the rows listed since then, those before it, and the counts of `taken` and `put`.
PageOf(c) ==
  LET s == Fetched(c)
  IN [for |-> c, data |-> FirstN(s, PageLimit), next |-> NextCursor(c, s),
      over |-> IF Held(c) /\ c \in rows \ listed THEN 1 ELSE 0,
      cut |-> Held(c) /\ c \notin rows,
      since |-> listed, ahead |-> Leading(c), taken |-> taken, put |-> put]

-----------------------------------------------------------------------------
\* Writes to the rows.

\* Row i is the cursor the client holds or is about to.
CursorRow(i) == listing.cursor = "row" /\ i \in {cursor, page.next}

Aged(p, i) == [p EXCEPT !.since = @ \ {i}]

Counted(n, S) == [o \in Lines |-> n[o] + IF o \in S THEN 1 ELSE 0]

\* Row i, and no other, is written.
Change(i) ==
  /\ changes < MaxChanges
  /\ changes' = changes + 1
  /\ UNCHANGED <<listing, phase, shown, cursor, last, missed, cut>>
  /\ steady' = steady \ {i}
  /\ page' = Aged(page, i)
  /\ copies' = {Aged(p, i) : p \in copies}
  /\ taken' = Counted(taken, {o \in Lines : i \in Leading(o) /\ i \notin Leading(o)'})
  /\ put' = Counted(put, {o \in Lines : i \notin Leading(o) /\ i \in Leading(o)'})

\* A row is hidden: soft deletion, a ban, an unfollow or a block.
Hide(i) ==
  /\ i \in listed
  /\ listed' = listed \ {i}
  /\ UNCHANGED <<rows, key, slid, raised>>
  /\ Change(i)

Unhide(i) ==
  /\ i \in rows \ listed
  /\ listed' = listed \cup {i}
  /\ UNCHANGED <<rows, key, slid, raised>>
  /\ Change(i)

\* A row is deleted: a bookmark, or anything of a deleted account.
Drop(i) ==
  /\ i \in rows
  /\ rows' = rows \ {i}
  /\ listed' = listed \ {i}
  /\ UNCHANGED <<key, slid, raised>>
  /\ Change(i)

Insert(i) ==
  /\ i = Cardinality(Items) /\ i \notin rows
  /\ rows' = rows \cup {i}
  /\ listed' = listed \cup {i}
  /\ UNCHANGED <<key, slid, raised>>
  /\ Change(i)

Move(i, k) ==
  /\ key' = [key EXCEPT ![i] = k]
  /\ slid' = (slid \/ (CursorRow(i) /\ k < key[i]))
  /\ raised' = (raised \/ (CursorRow(i) /\ k > key[i]))
  /\ Change(i)

\* A post bookmarked anew, a notification repeated: back to the top.
Bump(i) ==
  /\ listing.order = "recent"
  /\ rows' = rows \cup {i}
  /\ listed' = listed \cup {i}
  /\ \E k \in 1..MaxKey :
       /\ \A j \in Items \ {i} : key[j] < k
       /\ key[i] < k
       /\ Move(i, k)

\* A counter of a post changes its rank.
Rank(i) ==
  /\ listing.order = "ranked"
  /\ i \in rows
  /\ UNCHANGED <<rows, listed>>
  /\ \E k \in 0..MaxKey \ {key[i]} : Move(i, k)

-----------------------------------------------------------------------------
\* The cache.  A key is the cursor, so an offset's page is shared by all viewers.

\* An empty page is not kept.
Store(p) ==
  /\ listing.cached
  /\ p.data # <<>>
  /\ Cardinality(copies) < MaxCopies
  /\ copies' = copies \cup {p}

\* Another request finds no copy and reads a page.
OtherReads ==
  /\ \E c \in {NoCursor} \cup IF listing.cursor = "offset" THEN Lines ELSE Items : Store(PageOf(c))
  /\ UNCHANGED <<listing, rowVars, phase, shown, cursor, page, walkVars>>

\* Its time is up.
Expire ==
  /\ \E p \in copies : copies' = copies \ {p}
  /\ UNCHANGED <<listing, rowVars, phase, shown, cursor, page, walkVars>>

-----------------------------------------------------------------------------
\* The walk.

\* The end of the list scrolls into view, or "more" or "retry" is clicked.
FetchNextPage ==
  /\ phase \in {"idle", "failed"}
  /\ phase' = "asked"
  /\ UNCHANGED <<listing, rowVars, copies, shown, cursor, page, walkVars>>

\* A copy answers; or there is none, or Redis fails, and the rows are read,
\* and kept unless Redis fails.
ReadPage ==
  /\ phase = "asked"
  /\ phase' = "answered"
  /\ \/ page' \in {p \in copies : p.for = cursor} /\ UNCHANGED copies
     \/ page' = PageOf(cursor) /\ (UNCHANGED copies \/ Store(page'))
  /\ UNCHANGED <<listing, rowVars, shown, cursor, walkVars>>

\* Mutant: the pages are joined as they come.
JoinAppend(data) == shown \o data

\* LoadMorePosts leaves out what an earlier page has shown.
Join(data) ==
  IF listing.join = "append" THEN shown \o data
  ELSE shown \o Only(data, Items \ ToSet(shown))

\* What the offset of page q may have stepped over after page p: rows that
\* left from before it between the reads of p and of q, or, where q is the older,
\* joined those before it.
Lost(p, q) ==
  IF q.for \notin Lines THEN 0
  ELSE LET gone == q.taken[q.for] - p.taken[q.for]
           come == p.put[q.for] - q.put[q.for]
       IN (IF gone > 0 THEN gone ELSE 0) + (IF come > 0 THEN come ELSE 0)

Receive ==
  /\ phase = "answered"
  /\ shown' = Join(page.data)
  /\ cursor' = page.next
  /\ page' = NoPage
  /\ phase' = IF page.next = NoCursor THEN "end" ELSE "idle"
  /\ last' = page
  /\ steady' = IF cursor = NoCursor THEN page.since ELSE steady \cap page.since
  /\ missed' = missed + page.over + Lost(last, page)
  /\ cut' = (cut \/ page.cut)
  /\ UNCHANGED <<listing, rowVars, copies, slid, raised>>

\* The request fails: nothing is shown, and nothing is fetched before a click.
LoadFails ==
  /\ phase \in {"asked", "answered"}
  /\ phase' = "failed"
  /\ page' = NoPage
  /\ UNCHANGED <<listing, rowVars, copies, shown, cursor, walkVars>>

\* The list is opened anew.
Reopen ==
  /\ phase = "end"
  /\ phase' = "idle" /\ shown' = <<>> /\ cursor' = NoCursor
  /\ last' = NoPage /\ steady' = {} /\ missed' = 0 /\ cut' = FALSE /\ slid' = FALSE /\ raised' = FALSE
  /\ UNCHANGED <<listing, rowVars, copies, page>>

PagesNext ==
  \/ \E i \in Items : Hide(i) \/ Unhide(i) \/ Drop(i) \/ Insert(i) \/ Bump(i) \/ Rank(i)
  \/ OtherReads \/ Expire
  \/ FetchNextPage \/ ReadPage \/ Receive \/ LoadFails \/ Reopen

PagesSpec == PagesInit /\ [][PagesNext]_pagesVars

-----------------------------------------------------------------------------
PagesTypeOK ==
  /\ listing \in Listings
  /\ listed \subseteq rows /\ rows \subseteq Items
  /\ key \in [Items -> 0..MaxKey]
  /\ changes \in 0..MaxChanges
  /\ phase \in {"idle", "asked", "answered", "failed", "end"}
  /\ ToSet(shown) \subseteq Items
  /\ cursor \in Nat
  /\ \A p \in copies \cup {page, last} :
       /\ ToSet(p.data) \subseteq Items /\ p.since \subseteq Items
       /\ {p.for, p.next, p.over} \subseteq Nat /\ p.cut \in BOOLEAN
  /\ \A o \in Lines : taken[o] \in Nat /\ put[o] \in Nat
  /\ steady \subseteq listed /\ missed \in Nat
  /\ {cut, slid, raised} \subseteq BOOLEAN

\* A list scrolled to its end shows every row that was listed and untouched
\* since the first of its pages was read, be it before the walk and for another
\* request, whatever else changed meanwhile.  Excepted are one row for each page
\* read after its cursor's row was hidden, and, at an offset, one for each time
\* a row crossed it between the reads of the two pages it divides, the way that
\* takes rows out of both; and a cursor's row that was deleted or moved down.
EndReachesAll ==
  phase = "end" /\ ~cut /\ ~slid => Cardinality(steady \ ToSet(shown)) <= missed

\* No row is shown twice.  Where the client joins the pages as they come, this
\* rests on the cursor's row not moving up while it is the cursor.
NoRowTwice == ~raised \/ listing.join = "dedupe" => IsInjective(shown)
=============================================================================
