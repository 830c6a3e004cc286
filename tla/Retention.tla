------------------------------ MODULE Retention ------------------------------
\* The nightly sweep of what must not be kept: click logs in chunks, notifications,
\* sessions (retention.service.ts).  Every instance of the server runs it; the lock in
\* Redis is a courtesy, and two sweeps may overlap.  Time is what makes a row old: a
\* click log and a session have one limit, a notification two.  The notification and
\* the session modelled were made on the same day.
EXTENDS Naturals, FiniteSets

CONSTANTS
  Logs,        \* the ids of the click logs
  LogBatch,    \* CLICK_LOG_DELETE_BATCH
  Sweepers     \* the instances of the server

ASSUME LogsAssumption == Logs \subseteq Nat /\ IsFiniteSet(Logs)
ASSUME LogBatchAssumption == LogBatch \in Nat \ {0}

VARIABLES
  logs,         \* id -> "young", "old" (over 90 days) or "gone"
  age,          \* of the notification and the session: 1 over 30 days, 2 over 90
  notice,       \* the notification: "unread", "read" or "gone"
  device,       \* whether the session is there
  sweepLock,    \* whether lock:data-retention is in Redis
  sweep         \* instance -> where its sweep is, and what was old when it started

retentionVars == <<logs, age, notice, device, sweepLock, sweep>>

AtRest == [at |-> "rest", due |-> {}, age |-> 0, picked |-> {}]

RetentionInit ==
  /\ logs \in [Logs -> {"young", "old"}]
  /\ age = 0 /\ notice = "unread" /\ device = TRUE
  /\ sweepLock = FALSE
  /\ sweep = [i \in Sweepers |-> AtRest]

OldLogs == {l \in Logs : logs[l] = "old"}

-----------------------------------------------------------------------------
\* Time and the user: a row reaches its limit, a notification is read.
AgeLog(l) ==
  /\ logs[l] = "young"
  /\ logs' = [logs EXCEPT ![l] = "old"]
  /\ UNCHANGED <<age, notice, device, sweepLock, sweep>>

AgeRows ==
  /\ age < 2
  /\ age' = age + 1
  /\ UNCHANGED <<logs, notice, device, sweepLock, sweep>>

ReadNotice ==
  /\ notice = "unread"
  /\ notice' = "read"
  /\ UNCHANGED <<logs, age, device, sweepLock, sweep>>

-----------------------------------------------------------------------------
\* The sweep starts with the lock, or without it when Redis does not answer; what it
\* will delete is what is past the limits now.
Cutoffs == [at |-> "pick", due |-> OldLogs, age |-> age, picked |-> {}]

StartSweep(i) ==
  /\ sweep[i] = AtRest
  /\ \/ ~sweepLock /\ sweepLock' = TRUE
     \/ UNCHANGED sweepLock  \* Redis fails
  /\ sweep' = [sweep EXCEPT ![i] = Cutoffs]
  /\ UNCHANGED <<logs, age, notice, device>>

\* The subquery of the DELETE: the first ids that are due, as its snapshot has them.
Chunk(S) == {l \in S : Cardinality({k \in S : k < l}) < LogBatch}

PickLogs(i) ==
  /\ sweep[i].at = "pick"
  /\ sweep' = [sweep EXCEPT ![i].picked = Chunk(sweep[i].due \cap OldLogs), ![i].at = "delete"]
  /\ UNCHANGED <<logs, age, notice, device, sweepLock>>

\* The DELETE: what another sweep deleted meanwhile does not count, and fewer rows than
\* a chunk end the loop.
DeleteLogs(i) ==
  LET found == sweep[i].picked \cap OldLogs IN
  /\ sweep[i].at = "delete"
  /\ logs' = [l \in Logs |-> IF l \in found THEN "gone" ELSE logs[l]]
  /\ sweep' = [sweep EXCEPT ![i] = IF Cardinality(found) < LogBatch
                                   THEN [@ EXCEPT !.at = "notices", !.due = {}, !.picked = {}]
                                   ELSE [@ EXCEPT !.at = "pick", !.picked = {}]]
  /\ UNCHANGED <<age, notice, device, sweepLock>>

\* Mutant of NoticeDue: without the cap for those never read.
NoticeReadDue(i) == sweep[i].age >= 1 /\ notice = "read"

\* Read notifications after 30 days, any after 90.
NoticeDue(i) == sweep[i].age = 2 \/ (sweep[i].age = 1 /\ notice = "read")

SweepNotices(i) ==
  /\ sweep[i].at = "notices"
  /\ notice' = IF NoticeDue(i) THEN "gone" ELSE notice
  /\ sweep' = [sweep EXCEPT ![i].at = "sessions"]
  /\ UNCHANGED <<logs, age, device, sweepLock>>

SweepDevices(i) ==
  /\ sweep[i].at = "sessions"
  /\ device' = (device /\ sweep[i].age = 0)
  /\ sweep' = [sweep EXCEPT ![i] = AtRest]
  /\ UNCHANGED <<logs, age, notice, sweepLock>>

\* A statement fails, or the server stops: what was deleted stays deleted.
FailSweep(i) ==
  /\ sweep[i] # AtRest
  /\ sweep' = [sweep EXCEPT ![i] = AtRest]
  /\ UNCHANGED <<logs, age, notice, device, sweepLock>>

SweepLockExpires ==
  /\ sweepLock
  /\ sweepLock' = FALSE
  /\ UNCHANGED <<logs, age, notice, device, sweep>>

RetentionNext ==
  \/ \E l \in Logs : AgeLog(l)
  \/ AgeRows
  \/ ReadNotice
  \/ \E i \in Sweepers : \/ StartSweep(i)
                         \/ PickLogs(i)
                         \/ DeleteLogs(i)
                         \/ SweepNotices(i)
                         \/ SweepDevices(i)
                         \/ FailSweep(i)
  \/ SweepLockExpires

RetentionSpec == RetentionInit /\ [][RetentionNext]_retentionVars

-----------------------------------------------------------------------------
RetentionTypeOK ==
  /\ logs \in [Logs -> {"young", "old", "gone"}]
  /\ age \in 0..2
  /\ notice \in {"unread", "read", "gone"}
  /\ device \in BOOLEAN /\ sweepLock \in BOOLEAN
  /\ sweep \in [Sweepers ->
       [at : {"rest", "pick", "delete", "notices", "sessions"}, due : SUBSET Logs,
        age : 0..2, picked : SUBSET Logs]]

\* Nothing goes before its limit, although a sweep compares the rows with limits it
\* took when it started: retention.service.ts:11-21.
OnlyDueRowsGo ==
  [][/\ \A l \in Logs : logs[l] = "young" => logs'[l] # "gone"
     /\ notice # "gone" /\ notice' = "gone" => age = 2 \/ (age = 1 /\ notice = "read")
     /\ device /\ ~device' => age # 0]_retentionVars

\* A loop that ends with a chunk no other sweep took a row of leaves nothing of what it
\* set out to delete.
LoopClears ==
  [][\A i \in Sweepers :
       /\ sweep[i].at = "delete" /\ sweep'[i].at = "notices"
       /\ sweep[i].picked \subseteq OldLogs
       => \A l \in sweep[i].due : logs'[l] = "gone"]_retentionVars

\* Whatever passed its limit is gone in the end, a notification nobody reads
\* included: retention.service.ts:11-21.  Two sweeps that pick the same chunk each
\* find it short and end their loops early, and a sweep may fail on any night: the
\* next one has to make up for it.
OldRowsGo ==
  <>[](OldLogs = {} /\ (age = 2 => notice = "gone") /\ (age # 0 => ~device))
=============================================================================
