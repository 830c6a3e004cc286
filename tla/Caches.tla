------------------------------- MODULE Caches -------------------------------
(***************************************************************************)
(* How a post that is removed, or whose author is banned, leaves a list    *)
(* that is served from copies: the explore and following feeds and the     *)
(* trending list, cached for a time by `cached` of PostsService and        *)
(* getFeed of FeedService, the last over a materialized view that the      *)
(* instances of TrendingRefreshService refresh by turns.                   *)
(*                                                                         *)
(* One list and one post: the lists have keys of their own.                *)
(***************************************************************************)
EXTENDS Integers

CONSTANTS
  ListReaders,     \* requests for the list in flight at once
  RefreshInstances \* backend processes

VARIABLES
  list,        \* the list under study, for good
  removed,     \* the post is deleted
  banned,      \* its author is banned
  view,        \* the materialized view has the post
  entry,       \* the cache entry: "absent", or whether it has the post
  reader,      \* what each request does, and the result it has read
  refreshLock, \* the lock of the refresh is taken
  refresher    \* what each instance does, and what its refresh has read

cachesVars == <<list, removed, banned, view, entry, reader, refreshLock, refresher>>

Lists == {"explore", "trending", "feed"}
Reading == [at |-> "idle", has |-> FALSE]
Resting == [refreshing |-> FALSE, running |-> FALSE, has |-> FALSE]

Hidden == removed \/ banned

CachesInit ==
  /\ list \in Lists
  /\ removed = FALSE
  /\ banned = FALSE
  /\ view \in BOOLEAN
  /\ entry = "absent"
  /\ reader = [r \in ListReaders |-> Reading]
  /\ refreshLock = FALSE
  /\ refresher = [i \in RefreshInstances |-> Resting]

-----------------------------------------------------------------------------
\* The trending list reads the view, and the author afresh.
TrendingHas == view /\ ~banned
\* The feeds read the post and its author; how they rank the posts is left out.
FeedHas == ~Hidden

QueryHas == IF list = "trending" THEN TrendingHas ELSE FeedHas

\* A hit answers the request.  A miss, or an error of Redis, leads to the database.
CacheGet(r) ==
  /\ reader[r].at = "idle"
  /\ reader' = [reader EXCEPT ![r] = [at |-> "query", has |-> FALSE]]
  /\ UNCHANGED <<list, removed, banned, view, entry, refreshLock, refresher>>

RunQuery(r) ==
  /\ reader[r].at = "query"
  /\ reader' = [reader EXCEPT ![r] = [at |-> "set", has |-> QueryHas]]
  /\ UNCHANGED <<list, removed, banned, view, entry, refreshLock, refresher>>

\* The result is kept, unless it is empty or Redis does not answer.
CacheSet(r) ==
  /\ reader[r].at = "set"
  /\ \/ entry' = IF reader[r].has THEN "with" ELSE "without"
     \/ entry' = entry
  /\ reader' = [reader EXCEPT ![r] = Reading]
  /\ UNCHANGED <<list, removed, banned, view, refreshLock, refresher>>

\* The time to live is over.
EntryExpires ==
  /\ entry # "absent"
  /\ entry' = "absent"
  /\ UNCHANGED <<list, removed, banned, view, reader, refreshLock, refresher>>

-----------------------------------------------------------------------------
\* The refresh of the view, every five minutes in every instance.

\* The instance is not refreshing, and takes the lock, or Redis does not answer.
\* The statement sees what is committed now.
StartRefresh(i) ==
  /\ ~refresher[i].refreshing
  /\ \/ ~refreshLock /\ refreshLock' = TRUE
     \/ UNCHANGED refreshLock
  /\ refresher' = [refresher EXCEPT ![i] = [refreshing |-> TRUE, running |-> TRUE, has |-> ~removed]]
  /\ UNCHANGED <<list, removed, banned, view, entry, reader>>

EndRefresh(i) ==
  /\ refresher[i].running
  /\ view' = refresher[i].has
  /\ refresher' = [refresher EXCEPT ![i] = Resting]
  /\ UNCHANGED <<list, removed, banned, entry, reader, refreshLock>>

\* Mutant: the flag is not taken back after a failure.
FailRefreshStuck(i) ==
  /\ refresher[i].running
  /\ refresher' = [refresher EXCEPT ![i].running = FALSE]
  /\ UNCHANGED <<list, removed, banned, view, entry, reader, refreshLock>>

\* The statement fails, or the instance dies.
FailRefresh(i) ==
  /\ refresher[i].running
  /\ refresher' = [refresher EXCEPT ![i] = Resting]
  /\ UNCHANGED <<list, removed, banned, view, entry, reader, refreshLock>>

\* Nobody releases the lock.
RefreshLockExpires ==
  /\ refreshLock
  /\ refreshLock' = FALSE
  /\ UNCHANGED <<list, removed, banned, view, entry, reader, refresher>>

Moderate ==
  /\ \/ removed' \in BOOLEAN /\ UNCHANGED banned
     \/ banned' \in BOOLEAN /\ UNCHANGED removed
  /\ UNCHANGED <<list, view, entry, reader, refreshLock, refresher>>

CachesNext ==
  \/ \E r \in ListReaders : CacheGet(r) \/ RunQuery(r) \/ CacheSet(r)
  \/ \E i \in RefreshInstances : StartRefresh(i) \/ EndRefresh(i) \/ FailRefresh(i)
  \/ EntryExpires \/ RefreshLockExpires \/ Moderate

CachesSpec == CachesInit /\ [][CachesNext]_cachesVars

-----------------------------------------------------------------------------
CachesTypeOK ==
  /\ list \in Lists
  /\ removed \in BOOLEAN /\ banned \in BOOLEAN /\ view \in BOOLEAN
  /\ entry \in {"absent", "with", "without"}
  /\ reader \in [ListReaders -> [at : {"idle", "query", "set"}, has : BOOLEAN]]
  /\ refreshLock \in BOOLEAN
  /\ refresher \in [RefreshInstances -> [refreshing : BOOLEAN, running : BOOLEAN, has : BOOLEAN]]

\* What a request could be answered with now.
Serves == entry = "with" \/ QueryHas

\* A post that stays removed, or whose author stays banned, is in the end served
\* from no copy: requests that read it before and store it after, refreshes that overlap,
\* fail or are skipped, and outages of Redis only delay that.
HiddenDisappears == <>[]removed \/ <>[]banned => <>[]~Serves

\* What can bring the post back: the entry, a result that is still to be stored and,
\* for the trending list, which does not look at the removal, the view and its refreshes.
NoCopy == entry # "with" /\ \A r \in ListReaders : ~reader[r].has
NoView == list = "trending" => ~view /\ \A i \in RefreshInstances : ~refresher[i].has

AwayRemoved == removed /\ NoCopy /\ NoView
AwayBanned == banned /\ NoCopy

\* Once no copy has the post and nothing under way does, it stays away until it is
\* restored, or its author is.
HiddenStaysAway ==
  [][/\ AwayRemoved /\ removed' => AwayRemoved' /\ ~Serves'
     /\ AwayBanned /\ banned' => AwayBanned' /\ ~Serves']_cachesVars
=============================================================================
