----------------------------- MODULE Moderation -----------------------------
(***************************************************************************)
(* Reports and what administrators do about them: the report dialog,       *)
(* ReportsService, the actions of AdminService, and the administration     *)
(* page, whose lists go stale.                                             *)
(*                                                                         *)
(* Each action is several statements: read the target, write it, note it   *)
(* in the audit log and resolve the pending reports about it.  A failure   *)
(* after the write leaves the rest undone, and since the target is in its  *)
(* new state a second try may be refused.  `owed` and `dropped` are no     *)
(* state of the system.                                                    *)
(***************************************************************************)
EXTENDS Integers, FiniteSets

CONSTANTS
  Reporters,  \* users with a report dialog
  Admins,     \* administrators, one request at a time each
  Paged,      \* those who use the administration page; the others call the API
  Subjects    \* posts, comments and users that are reported

Kinds == {"POST", "COMMENT", "USER"}

ASSUME ModerationAssumption == Paged \subseteq Admins /\ Subjects # {}

VARIABLES
  kindOf,   \* type of each subject, for good
  marks,    \* subject -> "deleted", "suspended", "banned"
  gone,     \* subjects whose row went with an account
  reports,  \* <<reporter, subject>> -> status
  dialog,   \* reporter -> what the report dialog is doing, and about which subject
  page,     \* what each administration page shows, and the lists on their way to it
  act,      \* administrator -> request under way
  owed,     \* reports that were pending when their subject was acted on, not reopened since
  dropped   \* those whose request died before it resolved them

moderationVars == <<kindOf, marks, gone, reports, dialog, page, act, owed, dropped>>

Keys == Reporters \X Subjects
NoReport == "none"
NoKey == <<>>
Statuses == {"PENDING", "RESOLVED", "DISMISSED"}

\* The mark an action sets or clears.
MarkOf == [delete |-> "deleted", restore |-> "deleted", suspend |-> "suspended",
           unsuspend |-> "suspended", ban |-> "banned", unban |-> "banned"]
Sets == {"delete", "suspend", "ban"}
\* After these the reports about the subject are settled.
Resolving == {"delete", "suspend", "ban"}
\* Mutant of Decisions: a name the enum does not have.
DecisionsRenamed == {"RESOLVED", "REJECTED"}

\* The buttons of a report offer these; the API takes any status.
Decisions == {"RESOLVED", "DISMISSED"}
Acts == DOMAIN MarkOf \cup {"verify"} \cup Statuses

SomeSubject == CHOOSE s \in Subjects : TRUE
NoDialog == [at |-> "idle", about |-> SomeSubject]
NoAct == [at |-> "idle", does |-> "delete", on |-> SomeSubject, key |-> NoKey]
\* `acting`: the request under way was sent by the tab that is open.
ClosedPage == [tab |-> "reports", rows |-> {}, loads |-> {}, acting |-> FALSE]

ModerationInit ==
  /\ kindOf \in [Subjects -> Kinds]
  /\ marks = [s \in Subjects |-> {}]
  /\ gone = {}
  /\ reports = [k \in Keys |-> NoReport]
  /\ dialog = [u \in Reporters |-> NoDialog]
  /\ page = [d \in Paged |-> ClosedPage]
  /\ act = [d \in Admins |-> NoAct]
  /\ owed = {}
  /\ dropped = {}

-----------------------------------------------------------------------------
\* The report dialog and ReportsService.create.

DialogAt(u, at) == dialog' = [dialog EXCEPT ![u].at = at]

SubmitReport(u, s) ==
  /\ \/ dialog[u] = NoDialog
     \/ dialog[u] = [at |-> "error", about |-> s]
  /\ dialog' = [dialog EXCEPT ![u] = [at |-> "sending", about |-> s]]
  /\ UNCHANGED <<kindOf, marks, gone, reports, page, act, owed, dropped>>

\* targetExists: a removed subject still has its row.  Without one there is
\* nothing to store, and the answer is the same.
TargetExists(u) ==
  /\ dialog[u].at = "sending"
  /\ DialogAt(u, IF dialog[u].about \in gone THEN "done" ELSE "insert")
  /\ UNCHANGED <<kindOf, marks, gone, reports, page, act, owed, dropped>>

\* A second report of the same subject is ignored.
CreateReport(u) ==
  /\ dialog[u].at = "insert"
  /\ reports' = [reports EXCEPT ![<<u, dialog[u].about>>] = IF @ = NoReport THEN "PENDING" ELSE @]
  /\ DialogAt(u, "done")
  /\ UNCHANGED <<kindOf, marks, gone, page, act, owed, dropped>>

ReportFails(u) ==
  /\ dialog[u].at \in {"sending", "insert"}
  /\ DialogAt(u, "error")
  /\ UNCHANGED <<kindOf, marks, gone, reports, page, act, owed, dropped>>

CloseDialog(u) ==
  /\ dialog[u].at \in {"done", "error"}
  /\ dialog' = [dialog EXCEPT ![u] = NoDialog]
  /\ UNCHANGED <<kindOf, marks, gone, reports, page, act, owed, dropped>>

-----------------------------------------------------------------------------
\* The administration page.

\* The rows of a tab: reports that are pending; removed or locked subjects, and what
\* may be done about each.  The two lists of the removed are one here.
Listed(tab) ==
  CASE tab = "reports" -> {k \in Keys : reports[k] = "PENDING"}
    [] tab = "deleted" -> {<<s, "restore">> : s \in {t \in Subjects \ gone : "deleted" \in marks[t]}}
    [] tab = "locked"  -> {<<s, IF "banned" \in marks[s] THEN "unban" ELSE "unsuspend">> :
                             s \in {t \in Subjects \ gone : marks[t] \cap {"suspended", "banned"} # {}}}

\* Opening a tab shows it empty until its list arrives.
OpenTabOf(d, tab) ==
  /\ tab # page[d].tab \/ page[d] = ClosedPage
  /\ page' = [page EXCEPT ![d] = [tab |-> tab, rows |-> {}, loads |-> {Listed(tab)}, acting |-> FALSE]]
  /\ UNCHANGED <<kindOf, marks, gone, reports, dialog, act, owed, dropped>>

\* Lists that were asked for arrive in any order; the last to arrive is shown.
RowsArrive(d) ==
  /\ \E rows \in page[d].loads :
       page' = [page EXCEPT ![d].rows = rows, ![d].loads = @ \ {rows}]
  /\ UNCHANGED <<kindOf, marks, gone, reports, dialog, act, owed, dropped>>

RowsFail(d) ==
  /\ \E rows \in page[d].loads : page' = [page EXCEPT ![d].loads = @ \ {rows}]
  /\ UNCHANGED <<kindOf, marks, gone, reports, dialog, act, owed, dropped>>

\* What the buttons of a report do about its subject.
Offered(kind) == IF kind = "USER" THEN {"suspend", "ban"} ELSE {"delete"}

\* While a request is under way (`busy`) all buttons are disabled.
Click(d, tab, at, a, s, key) ==
  /\ page[d].tab = tab /\ act[d] = NoAct
  /\ act' = [act EXCEPT ![d] = [at |-> at, does |-> a, on |-> s, key |-> key]]
  /\ page' = [page EXCEPT ![d].acting = TRUE]
  /\ UNCHANGED <<kindOf, marks, gone, reports, dialog, owed, dropped>>

ClickReport(d) ==
  \E row \in page[d].rows :
    \/ \E a \in Offered(kindOf[row[2]]) : Click(d, "reports", "check", a, row[2], NoKey)
    \/ \E a \in Decisions : Click(d, "reports", "decide", a, row[2], row)

ClickRestore(d) == \E row \in page[d].rows : Click(d, "deleted", "check", row[2], row[1], NoKey)

ClickUnlock(d) == \E row \in page[d].rows : Click(d, "locked", "check", row[2], row[1], NoKey)

\* A call of the API may name any subject or report; only it gives the badge, or
\* sets a report back to pending.
Call(d) ==
  /\ act[d] = NoAct
  /\ \/ \E s \in Subjects :
          \E a \in IF kindOf[s] = "USER"
                   THEN {"suspend", "unsuspend", "ban", "unban", "verify"}
                   ELSE {"delete", "restore"} :
            act' = [act EXCEPT ![d] = [at |-> "check", does |-> a, on |-> s, key |-> NoKey]]
     \/ \E k \in Keys : \E a \in Statuses :
          act' = [act EXCEPT ![d] = [at |-> "decide", does |-> a, on |-> k[2], key |-> k]]
  /\ UNCHANGED <<kindOf, marks, gone, reports, dialog, page, owed, dropped>>

\* After a success the reports are asked for again; elsewhere the row is dropped.  A
\* tab that was closed meanwhile shows nothing of it.
Succeed(d) ==
  /\ act' = [act EXCEPT ![d] = NoAct]
  /\ IF d \in Paged /\ page[d].acting
     THEN IF page[d].tab = "reports"
          THEN page' = [page EXCEPT ![d].loads = @ \cup {Listed("reports")}, ![d].acting = FALSE]
          ELSE page' = [page EXCEPT ![d].rows = {row \in @ : row[1] # act[d].on}, ![d].acting = FALSE]
     ELSE UNCHANGED page

\* After an error the page shows what it did.
Refuse(d) ==
  /\ act' = [act EXCEPT ![d] = NoAct]
  /\ page' = IF d \in Paged THEN [page EXCEPT ![d].acting = FALSE] ELSE page

-----------------------------------------------------------------------------
\* AdminService, behind AdminGuard.

Goto(d, at) == act' = [act EXCEPT ![d].at = at] /\ UNCHANGED page

\* A removal needs a subject that is not removed, a restoration one that is.
Removable(s) == s \notin gone /\ "deleted" \notin marks[s]
Restorable(s) == s \notin gone /\ "deleted" \in marks[s]

\* A user only has to exist: no administrator is among the subjects.
Check(d) ==
  /\ act[d].at = "check"
  /\ LET found == CASE act[d].does = "delete" -> Removable(act[d].on)
                    [] act[d].does = "restore" -> Restorable(act[d].on)
                    [] OTHER -> act[d].on \notin gone
     IN IF found THEN Goto(d, "write") ELSE Refuse(d)
  /\ UNCHANGED <<kindOf, marks, gone, reports, dialog, owed, dropped>>

\* The marks of a subject after an action.  Nothing here reads the badge, which is not
\* kept.
Marked(s, a) ==
  CASE a \in Sets   -> marks[s] \cup {MarkOf[a]}
    [] a = "verify" -> marks[s]
    [] OTHER        -> marks[s] \ {MarkOf[a]}

\* A comment is written where it still is as it was read: a removal that finds
\* nothing to write succeeds all the same, a restoration does not.  A row that
\* is gone is an error elsewhere.
WriteSubject(d) ==
  /\ act[d].at = "write"
  /\ LET s == act[d].on
         a == act[d].does
         lost == kindOf[s] = "COMMENT" /\ (s \in gone \/ Marked(s, a) = marks[s])
     IN \/ /\ s \notin gone /\ ~lost
           /\ marks' = [marks EXCEPT ![s] = Marked(s, a)]
           /\ owed' = IF a \in Resolving
                      THEN owed \cup {k \in Keys : k[2] = s /\ reports[k] = "PENDING"} ELSE owed
           /\ Goto(d, "audit")
        \/ /\ lost /\ a = "delete"
           /\ Goto(d, "audit")
           /\ UNCHANGED <<marks, owed>>
        \/ /\ s \in gone \/ lost
           /\ ~(lost /\ a = "delete")
           /\ Refuse(d)
           /\ UNCHANGED <<marks, owed>>
  /\ UNCHANGED <<kindOf, gone, reports, dialog, dropped>>

\* resolveReport: the status is written whatever it was.
Decide(d) ==
  /\ act[d].at = "decide"
  /\ LET k == act[d].key
     IN IF reports[k] = NoReport
        THEN Refuse(d) /\ UNCHANGED <<reports, owed, dropped>>
        ELSE LET reopened == {j \in {k} : act[d].does = "PENDING" /\ reports[k] # "PENDING"}
             IN /\ reports' = [reports EXCEPT ![k] = act[d].does]
                /\ owed' = owed \ reopened
                /\ dropped' = dropped \ reopened
                /\ Goto(d, "audit")
  /\ UNCHANGED <<kindOf, marks, gone, dialog>>

\* Mutant: an error of the log is an error of the action.
AuditThrows(d) ==
  /\ act[d].at = "audit"
  /\ Refuse(d)
  /\ UNCHANGED <<kindOf, marks, gone, reports, dialog, owed, dropped>>

\* An entry of the log, or none when it cannot be written: the action goes on.  What
\* the log holds is not kept here.
Audit(d) ==
  /\ act[d].at = "audit"
  /\ IF act[d].does \in Resolving THEN Goto(d, "resolve") ELSE Succeed(d)
  /\ UNCHANGED <<kindOf, marks, gone, reports, dialog, owed, dropped>>

\* Mutant: the reports that were decided are resolved too.
AutoResolveAll(d) ==
  /\ act[d].at = "resolve"
  /\ reports' = [k \in Keys |-> IF k[2] = act[d].on /\ reports[k] # NoReport
                                THEN "RESOLVED" ELSE reports[k]]
  /\ Succeed(d)
  /\ UNCHANGED <<kindOf, marks, gone, dialog, owed, dropped>>

AutoResolve(d) ==
  /\ act[d].at = "resolve"
  /\ reports' = [k \in Keys |-> IF k[2] = act[d].on /\ reports[k] = "PENDING"
                                THEN "RESOLVED" ELSE reports[k]]
  /\ Succeed(d)
  /\ UNCHANGED <<kindOf, marks, gone, dialog, owed, dropped>>

\* A statement other than the audit's fails, or the process does.
ActFails(d) ==
  /\ act[d] # NoAct
  /\ dropped' = IF act[d].at \in {"audit", "resolve"} /\ act[d].does \in Resolving
                THEN dropped \cup {k \in owed : k[2] = act[d].on} ELSE dropped
  /\ Refuse(d)
  /\ UNCHANGED <<kindOf, marks, gone, reports, dialog, owed>>

\* The author removes the post or comment without an administrator.
RemoveOwn(s) ==
  /\ kindOf[s] # "USER" /\ s \notin gone
  /\ marks' = [marks EXCEPT ![s] = @ \cup {"deleted"}]
  /\ UNCHANGED <<kindOf, gone, reports, dialog, page, act, owed, dropped>>

ActStep(d) == Check(d) \/ WriteSubject(d) \/ Decide(d) \/ Audit(d) \/ AutoResolve(d) \/ ActFails(d)

\* The account of a subject's author is deleted: posts, comments and the user go.
\* A reporter's account takes the reports along.
DeleteSubject(s) ==
  /\ s \notin gone
  /\ gone' = gone \cup {s}
  /\ marks' = [marks EXCEPT ![s] = {}]
  /\ UNCHANGED <<kindOf, reports, dialog, page, act, owed, dropped>>

DeleteReports(u) ==
  /\ \E s \in Subjects : reports[u, s] # NoReport
  /\ reports' = [k \in Keys |-> IF k[1] = u THEN NoReport ELSE reports[k]]
  /\ owed' = {k \in owed : k[1] # u}
  /\ dropped' = {k \in dropped : k[1] # u}
  /\ UNCHANGED <<kindOf, marks, gone, dialog, page, act>>

ModerationNext ==
  \/ \E u \in Reporters :
       \/ TargetExists(u) \/ CreateReport(u) \/ ReportFails(u) \/ CloseDialog(u)
       \/ DeleteReports(u)
       \/ \E s \in Subjects : SubmitReport(u, s)
  \/ \E d \in Paged :
       \/ RowsArrive(d) \/ RowsFail(d)
       \/ page[d].tab = "reports" /\ ClickReport(d)
       \/ ClickRestore(d) \/ ClickUnlock(d)
       \/ \E tab \in {"reports", "deleted", "locked"} : OpenTabOf(d, tab)
  \/ \E d \in Admins \ Paged : Call(d)
  \/ \E d \in Admins : ActStep(d)
  \/ \E s \in Subjects : RemoveOwn(s) \/ DeleteSubject(s)

ModerationSpec == ModerationInit /\ [][ModerationNext]_moderationVars

-----------------------------------------------------------------------------
ModerationTypeOK ==
  /\ kindOf \in [Subjects -> Kinds]
  /\ marks \in [Subjects -> SUBSET {MarkOf[a] : a \in DOMAIN MarkOf}]
  /\ gone \subseteq Subjects
  /\ reports \in [Keys -> Statuses \cup {NoReport}]
  /\ dialog \in [Reporters -> [at : {"idle", "sending", "insert", "done", "error"}, about : Subjects]]
  /\ \A d \in Paged :
       /\ page[d].tab \in {"reports", "deleted", "locked"} /\ page[d].acting \in BOOLEAN
       /\ \A rows \in page[d].loads \cup {page[d].rows} :
            rows \subseteq Keys \cup (Subjects \X {"restore", "unsuspend", "unban"})
  /\ act \in [Admins -> [at : {"idle", "check", "write", "decide", "audit", "resolve"},
                         does : Acts, on : Subjects, key : Keys \cup {NoKey}]]
  /\ owed \subseteq Keys
  /\ dropped \subseteq owed

\* Acting on a subject settles the reports about it: one that was pending when a
\* post or comment was removed, or a user locked, does not stay pending, unless
\* the request that was to resolve it is still under way or died.  It is pending
\* again only where an administrator, through the API, set a settled one back.
QueueDrains ==
  \A k \in owed :
    reports[k] = "PENDING" =>
      \/ k \in dropped
      \/ \E d \in Admins : act[d].on = k[2] /\ act[d].does \in Resolving /\ act[d].at \in {"audit", "resolve"}

\* What an administrator decided about a report only an administrator's decision
\* changes, never the settling of reports that follows an action.
DecisionsStand ==
  [][\A k \in Keys :
       reports[k] \in Decisions /\ reports'[k] # reports[k] =>
         \/ reports'[k] = NoReport
         \/ \E d \in Admins : act[d].at = "decide" /\ act[d].key = k]_moderationVars
=============================================================================
