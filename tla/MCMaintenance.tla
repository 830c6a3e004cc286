--------------------------- MODULE MCMaintenance ----------------------------
\* Model-checking instance of what the system has to finish: the fan-out of a post's
\* notifications, the lists a hidden post leaves, the recount of the counters, the
\* sweep of old rows, the verification of an account, the marking of notifications as
\* read, and the scrape of a product while a post is written.  They share nothing; a
\* behaviour is one of them, chosen at the start.
EXTENDS Fanout, Caches, Reconciliation, Retention, Accounts, Unread, CreatePost, TLC

VARIABLE part

vars == <<part, fanoutVars, cachesVars, reconciliationVars, retentionVars, accountsVars,
          unreadVars, createPostVars>>

Init ==
  /\ part \in {"fanout", "caches", "reconciliation", "retention", "accounts", "unread", "create"}
  /\ FanoutInit /\ CachesInit /\ ReconciliationInit
  /\ RetentionInit /\ AccountsInit /\ UnreadInit /\ CreatePostInit
  /\ \A l \in Logs : logs[l] = IF part = "retention" /\ l = 1 THEN "old" ELSE "young"
  \* What the other parts choose at the start does not matter.
  /\ part # "fanout" => follows = {}
  /\ part # "caches" => list = "feed" /\ view = FALSE

\* A step of one part.
InFanout(A) ==
  /\ part = "fanout" /\ A
  /\ UNCHANGED <<part, cachesVars, reconciliationVars, retentionVars,
                 accountsVars, unreadVars, createPostVars>>

InCaches(A) ==
  /\ part = "caches" /\ A
  /\ UNCHANGED <<part, fanoutVars, reconciliationVars, retentionVars,
                 accountsVars, unreadVars, createPostVars>>

InReconciliation(A) ==
  /\ part = "reconciliation" /\ A
  /\ UNCHANGED <<part, fanoutVars, cachesVars, retentionVars,
                 accountsVars, unreadVars, createPostVars>>

InRetention(A) ==
  /\ part = "retention" /\ A
  /\ UNCHANGED <<part, fanoutVars, cachesVars, reconciliationVars,
                 accountsVars, unreadVars, createPostVars>>

InAccounts(A) ==
  /\ part = "accounts" /\ A
  /\ UNCHANGED <<part, fanoutVars, cachesVars, reconciliationVars,
                 retentionVars, unreadVars, createPostVars>>

InUnread(A) ==
  /\ part = "unread" /\ A
  /\ UNCHANGED <<part, fanoutVars, cachesVars, reconciliationVars,
                 retentionVars, accountsVars, createPostVars>>

InCreatePost(A) ==
  /\ part = "create" /\ A
  /\ UNCHANGED <<part, fanoutVars, cachesVars, reconciliationVars,
                 retentionVars, accountsVars, unreadVars>>

Next ==
  \/ InFanout(FanoutNext)
  \/ InCaches(CachesNext)
  \/ InReconciliation(ReconciliationNext)
  \/ InRetention(RetentionNext)
  \/ InAccounts(AccountsNext)
  \/ InUnread(UnreadNext)
  \/ InCreatePost(CreatePostNext)

\* Workers take jobs, a statement returns or fails, and the queue notices a dead
\* worker.
FanoutFairness ==
  /\ WF_fanoutVars(part = "fanout" /\ \E w \in Workers : TakeJob(w))
  /\ WF_fanoutVars(part = "fanout" /\ job.at = "active" /\ worker[job.owner] = Idle /\ Stall)
  /\ \A w \in Workers : WF_fanoutVars(part = "fanout" /\ WorkerStep(w))

\* Redis drops what has expired, and the schedule goes on.
CachesFairness ==
  /\ WF_cachesVars(part = "caches" /\ EntryExpires)
  /\ WF_cachesVars(part = "caches" /\ RefreshLockExpires)
  /\ WF_cachesVars(part = "caches" /\ \E i \in RefreshInstances : StartRefresh(i))

ReconciliationFairness ==
  /\ WF_reconciliationVars(part = "reconciliation" /\ ReconcileLockExpires)
  /\ WF_reconciliationVars(part = "reconciliation" /\ \E i \in ReconcileInstances : StartReconcile(i))

RetentionFairness ==
  /\ WF_retentionVars(part = "retention" /\ SweepLockExpires)
  /\ WF_retentionVars(part = "retention" /\ \E i \in Sweepers : StartSweep(i))

\* The owner of the address goes on asking and opens the mail that came last.
AccountsFairness ==
  /\ WF_accountsVars(part = "accounts" /\ \E r \in Callers : AskAgain(r))
  /\ WF_accountsVars(part = "accounts" /\ OpenLink)

\* The user opens the application again and again, and is known to it in the end.
UnreadFairness ==
  /\ WF_unreadVars(part = "unread" /\ Reload)
  /\ WF_unreadVars(part = "unread" /\ ~known /\ \E c \in CountRequests : SetUser(c))

\* The client gets an answer or an error, and polls on; the queue promises nothing.
CreatePostFairness ==
  \A i \in Slots : WF_createPostVars(part = "create" /\ (RequestScrape(i) \/ PollScrape(i)))

\* No statement of a job or of a request fails every time it is tried, not every mail is
\* lost; a user now and then stays signed in until the badge shows, and then opens the
\* page.  A behaviour is one part, so one condition says it of an action of each: the
\* first of all parts, the second, and so on.
StatementFairness ==
  /\ SF_vars(\/ InCaches(\E i \in RefreshInstances : EndRefresh(i))
             \/ InReconciliation(\E i \in ReconcileInstances : CountRows(i))
             \/ InRetention(\E i \in Sweepers : PickLogs(i))
             \/ InAccounts(\E r \in Callers : RenewToken(r))
             \/ InUnread(known /\ \E c \in CountRequests : ReadCount(c)))
  /\ SF_vars(\/ InReconciliation(\E i \in ReconcileInstances : WriteCounts(i))
             \/ InRetention(\E i \in Sweepers : DeleteLogs(i))
             \/ InAccounts(\E r \in Callers : QueueMail(r))
             \/ InUnread(known /\ \E c \in CountRequests : CountArrives(c)))
  /\ SF_vars(\/ InReconciliation(\E i \in ReconcileInstances : CountNone(i))
             \/ InRetention(\E i \in Sweepers : SweepNotices(i))
             \/ InAccounts(\E t \in Tokens : Delivered(t))
             \/ InUnread(BadgeShown /\ OpenPage))
  /\ SF_vars(\/ InReconciliation(\E i \in ReconcileInstances : WriteZeros(i))
             \/ InRetention(\E i \in Sweepers : SweepDevices(i))
             \/ InAccounts(MarkVerified)
             \/ InUnread(MarkAllRead))

Spec ==
  /\ Init /\ [][Next]_vars
  /\ FanoutFairness /\ CachesFairness /\ ReconciliationFairness /\ RetentionFairness
  /\ AccountsFairness /\ UnreadFairness /\ CreatePostFairness /\ StatementFairness

\* The types of the post form are among those of MCClient, with wider bounds.
TypeOK ==
  /\ FanoutTypeOK /\ CachesTypeOK /\ ReconciliationTypeOK
  /\ RetentionTypeOK /\ AccountsTypeOK /\ UnreadTypeOK
=============================================================================
