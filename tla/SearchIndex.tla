---------------------------- MODULE SearchIndex ----------------------------
(***************************************************************************)
(* The life of posts (PostsService), the bans of their authors             *)
(* (AdminService), and the Meilisearch index: a second copy of the posts,  *)
(* kept by queued jobs and best-effort calls.                              *)
(*                                                                         *)
(* A document is the version of the post it was made from.  A write of the *)
(* index acts on what its job or request read before, so two writes of one *)
(* post can arrive in either order.  `drift` is no state of the system: it *)
(* holds the posts whose last write was outdated when it was made, or was  *)
(* lost.                                                                   *)
(***************************************************************************)
EXTENDS PostAccess

CONSTANTS
  Requests,    \* HTTP requests that can be under way at once
  Slots,       \* places of the index queue
  Attempts,    \* attempts of a queued job
  MaxVersion,  \* bound on the edits of a post
  NoJob        \* an empty place of the queue

ASSUME SearchAssumption ==
  /\ Attempts \in Nat \ {0} /\ MaxVersion \in Nat \ {0}
  /\ 0 \notin Users

VARIABLES
  content,  \* version of each post's row, 0 before it is created
  index,    \* version of each post's document, 0 for none
  jobs,     \* place -> job
  pc,       \* where each request is
  known,    \* what each request holds in memory
  drift     \* posts the index may be wrong about

searchVars == <<content, index, jobs, pc, known, drift>>

Live(p) == content[p] > 0 /\ PostVisible(p)

\* What the document of a post depends on.
Row(p) == <<content[p], p \in removedPosts, Author[p] \in banned>>
RemovedRow(p) == <<content[p], TRUE, Author[p] \in banned>>
Rows == (0..MaxVersion) \X BOOLEAN \X BOOLEAN
Unread == <<>>

\* `row` is what the attempt under way has read.  A delete reads nothing: its row
\* is the one that was removed.
Job == [op : {"upsert", "delete"}, post : Posts, left : 1..Attempts, row : Rows \cup {Unread}]

ASSUME NoJobAssumption == NoJob \notin Job

WriteOf == [update |-> "update_write", remove |-> "remove_write", restore |-> "restore_write"]
PCs == {"idle"} \cup DOMAIN WriteOf \cup {WriteOf[op] : op \in DOMAIN WriteOf} \cup
       {"ban_list", "ban_delete", "unban_list", "unban_read", "rebuild", "add"}

\* `target` is a post or a user, `ids` the posts listed, `docs` their documents.
Nothing == [target |-> 0, ids |-> {}, docs |-> [p \in Posts |-> 0]]

SearchInit ==
  /\ AccessInit
  /\ content = [p \in Posts |-> 0]
  /\ index = [p \in Posts |-> 0]
  /\ jobs = [s \in Slots |-> NoJob]
  /\ pc = [r \in Requests |-> "idle"]
  /\ known = [r \in Requests |-> Nothing]
  /\ drift = {}

Goto(r, next) == pc' = [pc EXCEPT ![r] = next]

\* The request is answered, with success or not.
Answer(r) ==
  /\ Goto(r, "idle")
  /\ known' = [known EXCEPT ![r] = Nothing]

Start(r, target, first) ==
  /\ pc[r] = "idle"
  /\ Goto(r, first)
  /\ known' = [known EXCEPT ![r] = [Nothing EXCEPT !.target = target]]

\* The index takes `docs` for `ids`; version 0 deletes.
WriteIndex(ids, docs, outdated) ==
  /\ index' = [p \in Posts |-> IF p \in ids THEN docs[p] ELSE index[p]]
  /\ drift' = (drift \ ids) \cup outdated

-----------------------------------------------------------------------------

\* syncSearchIndex, not awaited by its caller.  A queue that does not answer is
\* ignored; without a queue there is one attempt, made inline.
SyncSearchIndex(op, p) ==
  \/ \E s \in Slots, n \in {1, Attempts} :
       /\ jobs[s] = NoJob
       /\ jobs' = [jobs EXCEPT ![s] =
            [op |-> op, post |-> p, left |-> n, row |-> IF op = "delete" THEN RemovedRow(p) ELSE Unread]]
       /\ UNCHANGED drift
  \/ drift' = drift \cup {p} /\ UNCHANGED jobs

\* The author's email is verified and both links lead to the shop.
Create(p) ==
  /\ content[p] = 0
  /\ content' = [content EXCEPT ![p] = 1]
  /\ UNCHANGED <<accessVars, index, pc, known>>
  /\ SyncSearchIndex("upsert", p)

\* An edit or a removal by the author, a removal or restoration by a moderator.
ChangeStart(r, p) ==
  /\ \E op \in DOMAIN WriteOf : Start(r, p, op)
  /\ UNCHANGED <<accessVars, content, index, jobs, drift>>

\* assertOwner, and the reads of adminRemovePost and restorePost.
CheckRow(r) ==
  /\ pc[r] \in DOMAIN WriteOf
  /\ LET p == known[r].target
         found == content[p] > 0 /\ (p \in removedPosts <=> pc[r] = "restore")
     IN \/ found /\ Goto(r, WriteOf[pc[r]]) /\ UNCHANGED known
        \/ ~found /\ Answer(r)
  /\ UNCHANGED <<accessVars, content, index, jobs, drift>>

Update(r) ==
  /\ pc[r] = "update_write"
  /\ LET p == known[r].target
     IN /\ content[p] < MaxVersion
        /\ content' = [content EXCEPT ![p] = @ + 1]
        /\ UNCHANGED <<accessVars, index>>
        /\ SyncSearchIndex("upsert", p)
  /\ Answer(r)

\* Written by id, whatever became of the row since the check.
SoftDelete(r) ==
  /\ pc[r] = "remove_write"
  /\ LET p == known[r].target
     IN /\ removedPosts' = removedPosts \cup {p}
        /\ UNCHANGED <<banned, blocks, content, index>>
        /\ SyncSearchIndex("delete", p)
  /\ Answer(r)

RestorePosted(r) ==
  /\ pc[r] = "restore_write"
  /\ LET p == known[r].target
     IN /\ removedPosts' = removedPosts \ {p}
        /\ UNCHANGED <<banned, blocks, content, index>>
        /\ SyncSearchIndex("upsert", p)
  /\ Answer(r)

-----------------------------------------------------------------------------

\* A worker reads the post of an upsert, whose author has not deleted the account.
ReadJob(s) ==
  /\ jobs[s] # NoJob
  /\ jobs[s].row = Unread
  /\ jobs' = [jobs EXCEPT ![s].row = Row(jobs[s].post)]
  /\ UNCHANGED <<accessVars, content, index, pc, known, drift>>

\* Mutant: the removal and the ban are not looked at.
DocUnchecked(job) == IF job.op = "delete" THEN 0 ELSE job.row[1]

\* indexPost and deletePost: a hidden post is deleted from the index instead.
Doc(job) == IF job.op = "delete" \/ job.row[2] \/ job.row[3] THEN 0 ELSE job.row[1]

WriteJob(s) ==
  /\ jobs[s] # NoJob
  /\ jobs[s].row # Unread
  /\ LET p == jobs[s].post
     IN WriteIndex({p}, [q \in Posts |-> Doc(jobs[s])], IF Row(p) = jobs[s].row THEN {} ELSE {p})
  /\ jobs' = [jobs EXCEPT ![s] = NoJob]
  /\ UNCHANGED <<accessVars, content, pc, known>>

\* Mutant: the attempts are not counted down to the last.
FailJobUncounted(s) ==
  /\ jobs[s] # NoJob
  /\ jobs' = [jobs EXCEPT ![s].left = @ - 1]
  /\ UNCHANGED <<accessVars, content, index, pc, known, drift>>

\* An attempt fails, or its worker dies and the job is handed out again.
FailJob(s) ==
  /\ jobs[s] # NoJob
  /\ \/ /\ jobs[s].left > 1
        /\ jobs' = [jobs EXCEPT ![s].left = @ - 1,
                                ![s].row = IF jobs[s].op = "delete" THEN @ ELSE Unread]
        /\ UNCHANGED drift
     \/ /\ jobs[s].left = 1
        /\ jobs' = [jobs EXCEPT ![s] = NoJob]
        /\ drift' = drift \cup {jobs[s].post}
  /\ UNCHANGED <<accessVars, content, index, pc, known>>

RunJob(s) == ReadJob(s) \/ WriteJob(s) \/ FailJob(s)

-----------------------------------------------------------------------------

PostsOf(u) == {p \in Posts : Author[p] = u /\ content[p] > 0}

\* ban and unban of a user, each followed by its own sync of the user's posts.
Lock(r, u) ==
  /\ pc[r] = "idle"
  /\ \/ u \notin banned /\ banned' = banned \cup {u} /\ Goto(r, "ban_list")
     \/ u \in banned /\ banned' = banned \ {u} /\ Goto(r, "unban_list")
  /\ UNCHANGED <<removedPosts, blocks, content, index, jobs, drift>>
  /\ known' = [known EXCEPT ![r] = [Nothing EXCEPT !.target = u]]

\* Mutant: removed posts are listed, too.
PostsListedAll(u) == PostsOf(u)

\* syncBannedUserSearchIndex lists the posts that are not removed.
PostsListed(u) == PostsOf(u) \ removedPosts

ListPosts(r) ==
  /\ pc[r] \in {"ban_list", "unban_list"}
  /\ known' = [known EXCEPT ![r].ids = PostsListed(known[r].target)]
  /\ Goto(r, IF pc[r] = "ban_list" THEN "ban_delete" ELSE "unban_read")
  /\ UNCHANGED <<accessVars, content, index, jobs, drift>>

\* deletePosts: one call for each post, any of which may fail.
DeletePosts(r) ==
  /\ pc[r] = "ban_delete"
  /\ \E done \in SUBSET known[r].ids :
       WriteIndex(done, [p \in Posts |-> 0],
                  IF known[r].target \in banned THEN known[r].ids \ done ELSE known[r].ids)
  /\ Answer(r)
  /\ UNCHANGED <<accessVars, content, jobs>>

\* reindexPosts reads the listed posts again, but not whether they are hidden.
ReadPosts(r) ==
  /\ pc[r] = "unban_read"
  /\ known' = [known EXCEPT ![r].docs = [p \in Posts |-> content[p]]]
  /\ Goto(r, "add")
  /\ UNCHANGED <<accessVars, content, index, jobs, drift>>

\* A rebuild on an administrator's demand, or at start for an empty index.
RebuildStart(r) ==
  /\ Start(r, 0, "rebuild")
  /\ UNCHANGED <<accessVars, content, index, jobs, drift>>

\* The next batch of visible posts; the walk ends with an empty one.
ReadBatch(r) ==
  /\ pc[r] = "rebuild"
  /\ \/ \E ids \in SUBSET {p \in Posts : Live(p)} \ {{}} :
          /\ known' = [known EXCEPT ![r] = [target |-> 0, ids |-> ids, docs |-> content]]
          /\ Goto(r, "add")
     \/ Answer(r)
  /\ UNCHANGED <<accessVars, content, index, jobs, drift>>

\* addDocuments of reindexPosts, which is over then, and of a batch.
AddPosts(r) ==
  /\ pc[r] = "add"
  /\ WriteIndex(known[r].ids, known[r].docs,
                {p \in known[r].ids : ~Live(p) \/ content[p] # known[r].docs[p]})
  /\ IF known[r].target = 0
     THEN Goto(r, "rebuild") /\ known' = [known EXCEPT ![r] = Nothing]
     ELSE Answer(r)
  /\ UNCHANGED <<accessVars, content, jobs>>

\* The posts a request that dies was still to write.
Abandoned(r) ==
  CASE pc[r] \in {"ban_list", "unban_list"} -> PostsOf(known[r].target)
    [] pc[r] \in {"ban_delete", "unban_read"} -> known[r].ids
    [] pc[r] = "add" /\ known[r].target # 0 -> known[r].ids
    [] OTHER -> {}

\* The database or the index fails, or the process does.
Fail(r) ==
  /\ pc[r] # "idle"
  /\ drift' = drift \cup Abandoned(r)
  /\ Answer(r)
  /\ UNCHANGED <<accessVars, content, index, jobs>>

SearchStep(r) ==
  \/ CheckRow(r) \/ Update(r) \/ SoftDelete(r) \/ RestorePosted(r)
  \/ ListPosts(r) \/ DeletePosts(r) \/ ReadPosts(r) \/ ReadBatch(r) \/ AddPosts(r)
  \/ Fail(r)

SearchNext ==
  \/ \E p \in Posts : Create(p)
  \/ \E r \in Requests, p \in Posts : ChangeStart(r, p)
  \/ \E r \in Requests, u \in Users : Lock(r, u)
  \/ \E r \in Requests : SearchStep(r) \/ RebuildStart(r)
  \/ \E s \in Slots : RunJob(s)

SearchSpec == SearchInit /\ [][SearchNext]_<<accessVars, searchVars>>

-----------------------------------------------------------------------------

SearchTypeOK ==
  /\ AccessTypeOK
  /\ content \in [Posts -> 0..MaxVersion]
  /\ index \in [Posts -> 0..MaxVersion]
  /\ jobs \in [Slots -> Job \cup {NoJob}]
  /\ pc \in [Requests -> PCs]
  /\ known \in [Requests -> [target : Posts \cup Users \cup {0}, ids : SUBSET Posts,
                             docs : [Posts -> 0..MaxVersion]]]
  /\ drift \subseteq Posts

\* Some job or request is still to write post p.
Outstanding(p) ==
  \/ \E s \in Slots : jobs[s] # NoJob /\ jobs[s].post = p
  \/ \E r \in Requests : p \in Abandoned(r)

\* Every change of a post is followed by a write that brings the index up to
\* date: when nothing is outstanding for a post, its document is its current
\* version, or none if it is hidden, unless the last write was lost or outdated
\* when it was made.  A write outdated in this sense may well put a document of a
\* hidden post into the index, or back.
IndexSettles ==
  \A p \in Posts :
    Outstanding(p) \/ p \in drift \/ index[p] = IF Live(p) THEN content[p] ELSE 0

\* Some job or request has seen post p visible and is to write it, or an unban
\* is to list it.
Reentering(p) ==
  \/ \E s \in Slots, v \in 1..MaxVersion :
       jobs[s] # NoJob /\ jobs[s].post = p /\ jobs[s].row = <<v, FALSE, FALSE>>
  \/ \E r \in Requests :
       \/ pc[r] = "unban_list" /\ p \in PostsOf(known[r].target) \ removedPosts
       \/ pc[r] \in {"unban_read", "add"} /\ p \in known[r].ids

\* A hidden post that has left the index, and those who saw it are done.
Out(p) == content[p] > 0 /\ ~PostVisible(p) /\ index[p] = 0 /\ ~Reentering(p)

\* A hidden post comes back into the index only with those who saw it before it
\* was hidden, or with an unban before a further ban.  Once it is out and none of
\* them is left, no edit, no job tried again, no rebuild and no unban of the
\* author of a removed post puts it back, before it is restored or visible again.
HiddenStaysOut ==
  [][\A p \in Posts :
       Out(p) => Out(p)' \/ PostVisible(p)' \/ p \in removedPosts \ removedPosts']_<<accessVars, searchVars>>
=============================================================================
