# Verification of shopee.review

shopee.review is a social platform for product reviews: a NestJS API over
PostgreSQL (Prisma), with Redis, BullMQ and Meilisearch beside it, and a Next.js
client. Nothing in the API locks in memory across requests. Every handler is a
row of awaited SQL statements at READ COMMITTED, several instances can run, and
so every two statements of a handler have the statements of other requests, of
jobs and of crashes between them. The client adds
answers and events that arrive in any order. These modules check what those
interleavings do to the data and to what is shown of it.

## Files

| Module | Models | Checked by | Proved in |
|---|---|---|---|
| `Follows` | `SocialService.follow`, `unfollow`; `BlocksService.block`, `unblock` | `MCFollows`, `Follows.cfg`, `FollowsAcrossBlock.cfg` | `FollowsProofs` |
| `PostAccess` | removal of posts, bans and blocks, as the interactions read them | through the next three | |
| `Engagement` | `SocialService.react`, `setBookmark`, `share` | `MCEngagement`, `Engagement.cfg`, `EngagementDoubleTap.cfg` | `EngagementProofs` |
| `Comments` | `SocialService.addComment`, `deleteComment`, `adminDeleteComment`, `restoreComment` | `MCComments`, `Comments.cfg` | `CommentsProofs` |
| `SearchIndex` | `PostsService` create, update, remove, restore; `MeilisearchService`, `IndexProcessor`, bans and their ends | `MCPosts`, `Posts.cfg` | `PostsProofs` |
| `Pages` | the paged listings and the lists the client builds from them | the same | `PostsProofs` |
| `CommentThread` | `SocialGateway` rooms, `useCommentSocket`, `CommentsSection` | the same | `PostsProofs` |
| `Lists` | ORDER BY, LIMIT and filter, for the last two | through them | `PostsProofs` |
| `Sessions` | `AuthService`, `JwtStrategy`, the locks of `AdminService`, for one account | `MCSessions`, `Sessions.cfg`, `SessionsListed.cfg` | `SessionsProofs` |
| `Inbox` | `NotificationsService` streams and pushes, `useNotifications` | `MCRealtime`, `Realtime.cfg` | `BackgroundProofs` |
| `Moderation` | report dialog, `ReportsService`, `AdminService`, administration page | `MCClient`, `Client.cfg` | `ClientProofs` |
| `Buttons` | reaction, bookmark, follow and block buttons | the same, and `RapidTaps.cfg` | `ClientProofs` |
| `Clicks` | `TrackerService` | `MCClient`, `Client.cfg` | `ClientProofs` |
| `SignIn` | `AuthProvider`, `middleware`, the pages that sign in and out | the same | `ClientProofs` |
| `CreatePost` | post form, link input, image uploader, scrape jobs | the same, and `MCMaintenance` | `ClientProofs` |
| `Fanout` | `fanoutNewPost`, `NotificationProcessor` | `MCMaintenance`, `Maintenance.cfg` | `BackgroundProofs` |
| `Caches` | the cached lists, `TrendingRefreshService` | the same | `BackgroundProofs` |
| `Unread` | unread rows, `useNotifications` count and badge, notifications page | the same | `BackgroundProofs` |
| `Tally` | what a counter column promises (abstract) | implemented by `Engagement` and `Comments`, used by the next | `TallyProofs` |
| `Reconciliation` | `ReconciliationService`, `deleteAccount` | `MCMaintenance`, `Maintenance.cfg` | `BackgroundProofs` |
| `Retention` | `RetentionService` | the same | `BackgroundProofs` |
| `Accounts` | registration, sign-in with a provider, verification and its mails | the same | `BackgroundProofs` |

`PROJECT.json` maps every definition to its lines and lists runs, mutants,
hazards, findings and theorems. An operator whose comment starts with `Mutant`
is a plausible bug of the definition that follows it; it is used by no
specification. Variables that are no state of the system, but record what a
property needs to know of the past, are named in the head of each module.

## Inventory

State lives in PostgreSQL unless said otherwise. Paths are below
`src/apps/backend/src/`.

- **Follow graph and blocks** (`social/social.service.ts`,
  `moderation/blocks.service.ts`). State: `follows`, `blocks`, the two counters
  of every user. Operations: follow, unfollow, block (tears down both follows),
  unblock. Hard: check-then-act on blocks, P2002/P2025 races, deadlocks on the
  user rows. Correct when counters equal rows, the answers are true, every
  request ends, and no follow crosses a block.
- **Reactions, bookmarks, shares** (`social/social.service.ts`). State:
  `reactions`, `bookmarks`, `posts.like_count`, `share_count`. Hard: the branch
  is chosen by a read that double taps make stale. Correct when the counter
  equals the rows and each answer matches what is stored.
- **Comments** (same file). State: `comments`, `posts.comment_count`. Hard:
  author and moderator deleting and restoring the same comment. Correct when the
  counter equals the live rows, threads stay one level deep, attribution of a
  removal is kept.
- **Login and sessions** (`auth/`). State: password hash, token version, locks,
  linked providers, reset and verification tokens, `sessions`, and the signed
  tokens in browsers. Operations: register, password and OAuth login, link,
  logout and revocation, change, reset and verify. Hard: a login checked before a
  lock and completed after it; bump and purge are two statements. Correct when
  revocation reaches every token and the list of sessions tells the truth.
- **Moderation** (`moderation/admin.service.ts`, `reports.service.ts`). State:
  `suspended_at`, `banned_at`, `deleted_at` of content, reports, audit log.
  Calls posts, social, search and reports one after another without a
  transaction. Hard: a crash between them, two moderators at once, lists of the
  administration page that are out of date. Correct when acting on something
  settles the reports about it, and decisions stand.
- **Posts** (`posts/`). State: `posts`, Redis caches of explore and trending
  pages, the trending view. Calls search (index jobs), notifications (fan-out),
  the scraper. Hard: stale caches, unconditional soft delete, pages read while
  rows come and go. Correct when a hidden post disappears from every list, and a
  list read to its end was complete.
- **Search** (`search/`, `queue/queues/index.processor.ts`). State: the
  Meilisearch index, a second copy of the posts kept by queued jobs, and a
  full-text fallback. Hard: jobs retried and reordered against removals and bans.
  Correct when the index settles on the visible posts and a hidden one that has
  left it does not come back.
- **Notifications** (`notifications/`, `queue/queues/notification.processor.ts`).
  State: rows (deduplicated for likes, follows and new posts), open streams per
  instance, Redis pub/sub. Hard: fan-out jobs that resume while followers change,
  publish failures, events out of order, streams that end unnoticed, a badge that is
  counted once and then adds up what it hears. Correct when nobody is notified of a
  post twice, a fan-out reaches whoever was there all the time, no open tab misses
  an event pushed to it, and nothing stays unread for a user who looks.
- **Realtime gateway** (`social/social.gateway.ts`). State: rooms per post.
  Comment broadcasts leave after commit, in any order.
- **Click tracker** (`tracker/`). State: `click_logs`, two counters, a Redis key
  per post and address. Hard: the claim and the count are not one transaction, and
  the log answers for Redis in an outage. Correct when an address counts once an
  hour.
- **Maintenance** (`maintenance/`). Recounts every counter, prunes logs; a Redis
  lock keeps it to one instance when Redis answers. Hard: recounting while
  requests count, two sweeps over the same rows, a night that failed. Correct when
  counters and limits come right in the end.
- **Users** (`users/`). Profiles; `deleteAccount` cascades over all of the above
  without adjusting counters.
- **Mail and verification** (`auth/mail.service.ts`, `email.processor.ts`). State:
  the verification token of the account, queued mails. Hard: a lost mail, a token
  that expires or is replaced meanwhile. Correct when whoever goes on asking is
  verified in the end.
- **Scraper and affiliate links** (`scraper/`, `scraper.processor.ts`). State: the
  product table, scrape jobs. Hard: a job nobody takes, answers for a link that
  was typed over.
- **Feed, stats, categories, uploads.** Reads, single statements or calls of
  outside services; the feed is cached.
- **Web client** (`src/apps/frontend/src`). State: who is signed in, query caches
  and lists, forms; written by answers and by pushed events in the order they
  arrive. Correct when, once everything has arrived, it shows what the server
  holds.
- **Deployment and monitoring.** Configuration only.

How they interact: handlers call each other's services directly inside one
request; search and large fan-outs go through BullMQ queues (at least once,
retried); notifications cross instances over Redis pub/sub; the gateway and the
streams push to clients; everything else meets in the database.

## What is modelled

**Common form.** `Requests` is the set of requests that can be in flight at
once; each has a program counter and what its handler holds in memory, and can
be reused when it has been answered. One awaited statement is one action,
together with the code that runs until the next `await`. `Fail` is a database
error, a timeout or a crash before the next statement: what committed stays,
what did not is gone.

**Follows** goes one level deeper. A Prisma `$transaction` is several
statements, and its row locks decide who waits. `locks[r]` holds the rows the
transaction of `r` has written, `TakeRow` is a statement that waits until its row
is free, and the writes become visible at the commit, which is the last
statement (`FollowCommit`, `UnfollowCommit`, `BlockCommit`). `removed[r]` is what
the block's transaction has deleted so far. Waiters in a cycle are aborted one at
a time (`DeadlockVictim`). Whether a unique key is taken is looked up when the
row is free, as PostgreSQL does: a duplicate insert waits for the first to end.
Foreign-key share locks are left out: they do not conflict with the updates of
counters, which leave keys alone.

**PostAccess** holds what every interaction checks first: removed posts, banned
authors, blocks. It is changed by single steps at any time, so the checks of the
handlers can be stale by the next statement.

**Engagement** and **Comments** take each of their transactions as one step. Its
first statement inserts, deletes or conditionally updates one row and decides the
outcome under that row's lock; the rest only moves a counter of the post; and all
of them take the two rows in the same order, so they cannot deadlock with one
another. Both modules keep the branch that each handler chose from its earlier read.

**Sessions** is one account. A token's `sid` is its index in `tokens`; `sessions`
are the indices that still have a row. The compare and the checks of a login act
on the row it read, so `ValidateUser` fixes the version that `Issue` signs later;
`LinkProvider` and `ChangeWrite` sign what their UPDATE returned. `job` holds what
each request remembers. A guarded request first passes the two reads of
`JwtStrategy`, and its own statements run later. Deleting all rows (`Purge`,
`PurgeThenIssue`) is a step apart from the bump that precedes it.

**SearchIndex** extends `PostAccess`. A document is the version of the post it was
made from; `jobs` are the places of the queue, and a job reads the post and
writes the index in two steps, may fail in between, and is tried again
(`ReadJob`, `WriteJob`, `FailJob`). Bans, their ends and rebuilds read and write
the index themselves. `drift` excuses a post whose last write was already
outdated when it was made, or was lost. What the code has against drift is a
rebuild an administrator asks for (`search.service.ts:53-60`, `RebuildStart`),
which writes the visible posts and so leaves the documents of hidden ones where
they are; a restart rebuilds an empty index only. `HiddenStaysOut` says which
writes may be outdated in the direction that matters: a hidden post comes back
only with a job or request that saw it visible (`Reentering`). Searches are not
modelled: each is a read whose last query filters by `VISIBLE_POST_WHERE`, whatever
the index answered.

**Pages** is one walk through one of the listings. The `listing` says how it is
ordered (newest, oldest, recently moved, ranked), what its cursor is (a row, an
id, an offset) and how the client joins the pages (`append` or `dedupe`). Rows are
hidden, shown again, deleted, bumped and re-ranked between two pages. Prisma's
cursor is the key of the cursor's row when the page is read, and `skip: 1` skips
a row that passes the filter then, so a hidden cursor costs one row (`missed`), a
deleted one the rest of the list (`cut`), and one that moved down those it passed
(`slid`). Explore and the feed keep each page in the cache by its own key
(`posts.service.ts:218-228`, `feed.service.ts:23-48`): `copies` holds pages as they
were when some request read them, this walk's or another's (`OtherReads`,
`Expire`), and `ReadPage` is answered by one of them or by the rows. A walk can so
get an old page and then a new one, or the other way round. What it must show is
what has been listed and untouched since the first of its pages was read, which
may be before it began (`since`, `steady`). At an offset neighbouring pages of
different moments leave out, or repeat, as many rows as have crossed the line
between the two reads; `taken` and `put` count them for each line.

**Inbox** is one user. Events are stored, published and pushed by each instance to
the streams it counts (`refs`, `attached`); tabs load the list, open a stream and
open it again. A connection outlives its tab until the server notices
(`EndStream`), and an instance may be without a subscription.

**CommentThread** is one tab. What the server commits becomes visible to lists at
once and is emitted later (`unsent`, `Emit`); `OnEvent`, `CommentsArrive`,
`RepliesArrive` and `OwnAnswer` change the same `view`.

**Moderation** runs an administrator's request in the steps of `AdminService`:
`Check`, `WriteSubject`, `Audit`, `AutoResolve`, or `Decide`. `page` is the
administration page with its lists on their way; an administrator outside `Paged`
calls the API with any argument it accepts. Of the statuses of a report the page
offers two, and the API takes the third, too (`admin.controller.ts:22-25`): such a
call sets a settled report back to pending (`Decide`), and since that is what was
asked for, the report is owed no more.

**Buttons** is one button of any of the four kinds. `muts` are the mutations, with
what the page and what the server made of each; `cache` and `fetch` are
TanStack Query's entry and request. The server executes a request in one step.

**Clicks** is one post and one address within an hour. **SignIn** is one browser:
`cookie`, the tokens that are `live`, what the page has `shown`, the questions and
calls under way. A document that is left forgets its calls before the server
serves them. **CreatePost** is one form with one upload of several files and
the scrapes of the links typed.

**Fanout** is one post. The worker reads a page of followers, inserts the rows and
turns the page, each a step; a job may stall and be handed on while its first
worker goes on, and `Complete` counts only for the owner. **Caches** is one list
and one post; **Reconciliation** one counter of any of the four, whose statements
count first and write later; **Retention** the click logs in chunks and one row
of each other table; **Accounts** one email address.

**Unread** is one user with one tab. `Notify` makes a row unread, or unread again
(the upsert of a repeated like or follow); the badge is the last count to arrive
(`CountArrives`) plus the pushes since (`PushArrives`), and `MarkArrives` zeroes it.
`AfterRender` is the effect of the page, which runs when the badge has changed: it
marks all as read once per visit. Requests outlive the user they were asked for
(`DropUser`), and those to mark outlive the tab (`orphaned`).

**Tally** is the abstract specification of a counter: a row and its counter move
together. `LikesTallied` and `CommentsTallied` state that `Engagement` and
`Comments` implement it (`INSTANCE Tally WITH`), and `Reconciliation` extends it,
so the requests it interleaves with are those.

**Composition.** Components that share state are composed by extension
(`PostAccess` below the interactions and the index, `Tally` below the recount).
Those that share none are run side by side in `MCPosts`, `MCClient` and
`MCMaintenance`: `part` chooses at the start which of them moves.

## Runs

| Run | Shows | Bounds |
|---|---|---|
| `follows` | counters equal rows, "blocked" answers are true, every request is answered | 2 users, 2 requests |
| `follows_across_block` (violated) | a follow can land across a block | 2 users, 2 requests |
| `engagement` | like counter equals rows and moves as `Tally` says | 1 post, 2 users, 2 types, 2 requests, 1 share |
| `engagement_double_tap` (violated) | the loser of a double tap is told a type that is not stored | as above |
| `comments` | comment counter moves with the live rows as `Tally` says, one level of replies, removal attribution kept | 1 post, 2 users, 3 comments, 2 requests |
| `sessions` | no accepted token from a replaced password; a refused login stays refused | 2 passwords, 1 provider, 2 requests, 2 logins, version up to 2 |
| `sessions_listed` (violated) | a row that no purge removes can enter the list for a login that works nowhere | as above |
| `posts` | the index settles, and a hidden post that has left it stays out; a walk to the end misses nothing but where the cursor's row itself changed or a row crossed an offset, and repeats nothing; no comment is shown twice, deletions take effect | 1 post, 2 requests, 2 jobs, 2 attempts; 5 rows, pages of 2, 2 changes, 1 cached page; 1 comment and 1 reply, 2 events |
| `realtime` | no open tab misses a pushed event | 2 tabs, 2 connections, 2 instances, 1 event |
| `client` | reports are settled and decisions stand; buttons settle; one click an hour; the page knows who is signed in; images stay within the limit | `Client.cfg`: one reporter, two administrators, one subject of any kind; 3 taps; 3 requests; 2 tokens, 2 questions; 2 images |
| `rapid_taps` (violated) | two quick taps can leave a reaction wrong on the screen | 2 taps |
| `maintenance` | what has to end or to heal does, under fairness | `Maintenance.cfg`: 3 followers, pages of 2, 2 workers, 2 attempts; 2 instances of each job; 2 requests for one address; 2 notifications |

Why these bounds are enough to be interesting: two users have both directions of
a pair and both orders of their rows; two requests make every check-then-act
race, a duplicate key, a lost row and a cycle of waiting transactions, and a
request can be reused, so a third handler runs between two steps of the first.
Three comments are a thread, a reply and an attempt to reply to a reply. Two
logins and two bumps of the version are a login before and one after a reset, a
change or a lock. Two index jobs of one post overlap and are each retried once.
Five rows in pages of two are a first, a middle and a last page, one cached
page is an old one beside a new one on either side, and two changes are one before
and one after any read, or two writes of one row. Three followers
in pages of two are a full page and a last one, so a cursor can vanish between
them, and two workers run one job at once. Two instances of each job overlap with
and without the lock. Chunks of one log make a sweep go round. Three taps are one
after a rollback of the first. Two connections of two tabs are a stale
stream beside a live one. `FewObstacles` in `MCComments` keeps at most one of
removal, ban and block at a time, and none once a second comment exists: they
only matter to the checks of a creation. The constants named `Max...` cap what
would grow for ever.

Symmetry is used where it is sound: interchangeable requests, passwords, reaction
types, places of the queue, tabs, connections and instances. `follows` and
`maintenance` check liveness and use none.

**Fairness.**

- `FairSpec` of `Follows` assumes strong fairness of the steps of each request.
  The event loop resumes every answered `await`; PostgreSQL queues the waiters of
  a row lock, so a row that becomes free again and again is eventually granted;
  and it aborts a transaction of every cycle. Nothing is assumed about `Fail` or
  the arrival of requests.
- `FanoutFairness`: workers take jobs, a statement returns or fails, and BullMQ
  notices a dead worker. Attempts are limited, so no luck is needed.
- `CachesFairness`, `ReconciliationFairness`, `RetentionFairness`: Redis drops what
  has expired (weak: the time to live runs on), and the cron of some instance
  fires (weak).
- `AccountsFairness`: the owner of the address goes on asking, and opens the mail
  that came last. That is a promise of the user, not of the code.
- `UnreadFairness` (weak): the user opens the application again and again, and the
  question who is signed in is answered. `StatementFairness` adds that the user now
  and then stays signed in until the count has come, and opens the page when the
  badge shows. Nothing is assumed of the stream.
- `StatementFairness` (strong): no statement of a job fails every time it is tried,
  and not every mail is lost. Without it nothing can be said of jobs that give up
  a night on any error. It is one condition for the statements of several parts,
  since a behaviour moves only one.
- `CreatePostFairness` (weak): a request of the client is answered or fails, and
  its timer fires; the queue and its workers promise nothing.

## Findings

- `NoFollowAcrossBlock`: `follow` checks the block list in a statement of its own
  (`social.service.ts:53`). A block that commits before the insert finds no
  follow to delete, and the follow lands afterwards.
- `DoubleTapIdempotent`: the request that loses a double tap swallows the P2002
  and answers its own type (`social.service.ts:213-215`), also when the row holds
  another one.
- `ListedSessionIsLive`: `setAuthCookie` creates the session row whatever happened
  since the account was read (`auth.service.ts:83`). After a suspension's purge
  the row stays in the list, though its token is refused.
- `RapidTapsSettle`: the reaction button promises to refetch on settle
  (`reaction-button.tsx:120-122`), but its query is disabled when the page
  brought the reaction (line 109), and invalidating it reads nothing. Two taps
  executed in the other order leave the button showing what is not stored.

Observed while modelling, and part of the models, without a run of their own:

- `resendVerification` says that it keeps a link that is still valid
  (`auth.service.ts:409-411`). Two requests that both find the token expired each
  make a new one, and the first mail's link is dead. `MailService` logs a mail
  that could not be sent and returns, so the attempts of the mail queue are never
  used; the verify page is the only one that can ask for another mail.
- `indexPost` says that a removed or banned post "must never (re-)enter the index"
  (`meilisearch.service.ts:113-116`), and checks it. `reindexPosts`, after an unban,
  does not (lines 143-156): a post removed between the listing of the posts and the
  write is put back, also when the delete job of the removal is done by then, and
  stays until its next change. A rebuild has the same window between its read and its
  write, and an upsert that has read the post before its removal, too. Searches do
  not show it.
- A page of explore from the cache, followed by a fresh one, skips rows that never
  moved when others above them went, and repeats rows when others came; the client
  leaves out the repeated ones (`load-more-posts.tsx:66`). A cached page of the feed
  leaves out what was listed after it was read, be it before the walk began.
- `PATCH /admin/reports/:id` accepts `PENDING`, which no page sends, and writes the
  caller as `resolvedBy` of a report that is open again.
- `trending` shows an author's posts for up to a minute after a ban, and a removed
  post until the next refresh of the view and the end of the cached page.
- `use-notifications.ts:26`: the list of a user who has signed out may still
  arrive, as may that of the room left in `use-comment-socket.ts:32`.
- `admin/page.tsx:194`: two quick clicks load the same page twice. The settings
  page reads its lists again on every change of the user and keeps them after a
  change of password. The search page shows whichever answer came last
  (`app/search/page.tsx:27-49`).
- The badge is 0 although a row is unread when a notification comes while a request
  to mark all is under way (`use-notifications.ts:85-89`), and the page shows it as
  read; a stream that opens again does not ask for the count it missed. Only the
  next load tells.
- The post form forgets a scrape or a removal that happens during an upload;
  answers for a link typed over still set title and product; a post whose answer
  is lost is created again by the next click.
- A question who is signed in, sent before a login or logout and answered after
  it, overrides the outcome until the next one (`auth-context.tsx:22-31`).
- A comment removal that lost its race is written to the audit log all the same.
- An address can be counted a second time when Redis answers again after an outage
  in which the log gave the hour away.
- A tap on a bookmark that is refused before the first read has nothing to put
  back.

## Proofs

`FollowsProofs` proves, for every finite set of users and any set of requests,

- `FollowsTypeCorrect`: `Spec => []TypeOK`, so no counter is ever negative;
- `CountersAlwaysMatch`: `Spec => []CountersMatch`;
- `BlockAnswersAreTrue`: `Spec => BlockAnswerMeansBlocked`, an action property.

`CountersMatch` is not inductive. A commit decrements by rows read many steps
earlier, which is right only if they are still there. `IInv` adds
`PendingRowsLocked` (what a transaction is about to insert or delete is locked
by it, and still absent or present) and `LocksExclusive` (no two transactions
lock the same row). Each action then either writes no table, or commits rows
that nobody else can have touched, and lemmas on the cardinality of `Incident`
carry the counters across. Type correctness needs the same invariant: a counter
stays in `Nat` because it equals a cardinality after the commit. The only
assumption is that `Users` is finite.

`SessionsProofs` proves, for every set of passwords, providers and requests and
for every bound,

- `SessionsTypeCorrect`: `Spec => []TypeOK`;
- `AcceptedTokensAreCurrent`: `Spec => []AcceptedTokenHasCurrentPassword`;
- `RefusedTokensStayRefused`: `Spec => RefusedStaysRefused`, an action property.

What a token promises is decided long before it is signed, so `IInv` speaks of
tokens and of what requests hold: `Sound(g, account)` says that `g` carries no
future version and, while its version is the current one, the current password
(if any) and, if it was checked, an account that is not locked. Every statement
of the module fits `Moves`: it bumps the version, or it leaves the password
alone and locks nothing. `SoundKept` is the whole argument, and each action has
only to show that it moves so and grants soundly. The action property adds
`NothingRevived`: versions never drop and the row of an existing token never
comes back. Assumed: null is no password hash, and the bounds are natural
numbers.

`TallyProofs` proves, for any items and owners,

- `TallyCounts`: `TallySpec => []CounterMatches`, every counter is the number of its
  rows.

The invariant adds that there are finitely many rows, without which their number
means nothing.

`EngagementProofs` proves, for any finite sets of posts and users, any reaction
types and requests,

- `EngagementTypeCorrect`: `Spec => []TypeOK`;
- `ReactImplementsTally`: `Spec => LikesTallied`, the refinement of `Tally` step by step;
- `LikeCountAlwaysMatches`: `Spec => []LikeCountMatches`, from the refinement and
  `TallyCounts`.

A request moves the counter in the statement that inserts or deletes the row,
and what it read before only decides which branch it takes. So the refinement
needs, besides types, only `RequestsOK`: a request still knows what it asked
for. The like counter stays in `Nat` for the same reason as a follow counter: it
equals a cardinality, so type correctness is proved after the refinement.

`CommentsProofs` proves, for any finite sets of posts and users and any number
of comments and requests,

- `CommentsTypeCorrect`: `Spec => []TypeOK`;
- `RepliesStayOneLevel`: `Spec => []RepliesOneLevel`;
- `RemovalStaysAttributed`: `Spec => RemovalAttributionStable`, an action property;
- `CommentsImplementTally` and `CommentCountAlwaysMatches`, as for likes.

The insertion of a reply relies on a parent read in an earlier statement.
`ArgsOK` says of every request that has looked that its parent exists, is of the
post of the reply, and has no parent: facts nothing takes away, since a comment
keeps its row and parent for good. `Good` collects what each step does, so that
the action property and the refinement follow from one case analysis. Assumed:
the name the model uses for "nobody" is no user's.

`PostsProofs` proves about the three parts of `MCPosts`, for any finite sets of
posts and users, any requests and places in the queue, any rows and page size, any
comments and events under way,

- `SearchTypeCorrect`: `SearchSpec => []SearchTypeOK`;
- `IndexCatchesUp`: `SearchSpec => []IndexSettles`;
- `HiddenPostsStayOut`: `SearchSpec => HiddenStaysOut`, an action property;
- `WalkReachesAll` and `WalkNeverRepeats`: `PagesSpec => []EndReachesAll` and
  `PagesSpec => []NoRowTwice`;
- `ThreadNeverRepeats` and `DeletionReachesTab`: `ThreadSpec => []NoCommentTwice` and
  `ThreadSpec => []DeletedDisappears`;
- `PostsTypeCorrect`: `Spec => []TypeOK` of the instance as a whole.

*The index.* `IndexSettles` alone is not inductive. `PostInv` is stronger: of what
a request is still to write nothing counts for a removed post, because the
listings of a ban or an unban leave removed posts out. `JobInv` adds that a queued
deletion was queued for a removed row, and `RequestInv` that a request works on
the posts of the author it names. Then the write of an attempt either had read the
row as it is now, and its document is right (`DocRight`), or the model notes it as
outdated. For `HiddenStaysOut`, three lemmas follow the two ways into the index:
no job of a hidden post reads anything but that it is hidden (`JobsOut`), no request
lists it (`OutStep`), and so no step writes it a document (`NoDocument`). The condition
`Reentering` is what makes it inductive; without it the property is false, as the
observation above tells.

*Sequences.* The library sorts with `SortSeq` and filters with `SelectSeq`, which
the prover cannot look into. `Lists` defines both without recursion, by the number
of elements that come before one, and the first lemmas say what they yield: a
sorted set has each element once and in order (`SortFacts`, by counting), a
filtered or cut sequence repeats nothing its source did not repeat (`OnlyFacts`,
`FirstNFacts`, `ConcatFacts`).

*The walk.* `EndReachesAll` speaks of the end only. Where the cursor is a row,
`RowsReached` says of every moment before it that the steady rows which lie behind
the cursor and are not shown (`Owed`) are at most as many as `missed`, and the same of
the page under way with the rows it brings. Behind a row are those that sort up to
it; a steady one leaves them only when the cursor's row moves down, and then `slid` is
set (`OwedChanges`). A page, be it a copy or fresh, leaves out no row between its
cursor and the next one that has been listed since it was read, but the one a hidden
cursor steps over (`Covers`, `PageFacts`). The feed is sorted by id, so that a change
does not move what a copy lies between.

At an offset pages of two moments do not fit each other. `Pool` is the copies, the page
under way and the last one, with the rows that are still steady. `Near` bounds what
has crossed the two ends of a page since it was read, by `taken` and `put`: a change of
one row takes at most one other over a line, and then itself goes the other way
(`OneCrosses`). `Joined` says of any two pages of the pool, where one begins at the end of
the other, that the rows which the later leaves to the earlier and the earlier did not
have are at most `Lost`: pages that are no neighbours now may be later. A fresh page
enters the pool by `PoolFresh`, a change keeps it by `PoolAged`, and `Receive` adds
`Lost` to what the walk has missed (`ReceiveOffset`).

For `NoRowTwice` where pages are appended, `Disjoint` says that what is shown sorts at or
before the cursor, and a page after it (`UptoChanges` for the rows that move to the
top meanwhile).

*The section.* `ViewOK` says that every comment stands once and under its parent, of
the view and of the list under way; `OnceOnly` adds that an answer with more
replies repeats none. `DeletedDisappears` is inductive with the types:
`DisappearanceKept` reduces each step to what it does to the events (an event that
leaves is applied, or the comment is noted in `outdated`) and to what the view
shows anew (`ViewToldSafe`, `ViewDeletedSafe`).

Assumed: the model's "no author" is no user, "no job" is no job, versions are
bounded by a positive number; rows are numbered from one and there is one, a page
has a row at least; comments are finitely many, with ids above zero, and a parent
has no parent, which `RepliesStayOneLevel` proves of what the server stores.

`BackgroundProofs` proves, for any followers, page size, workers and attempts,

- `FanoutTypeCorrect`: `FanoutSpec => []FanoutTypeOK`;
- `FanoutNotifiesOnce`: `FanoutSpec => []NotifiedOnce`;
- `FanoutCoversSteady`: `FanoutSpec => []FanoutReaches`,

and for any tabs, instances and events and finitely many connections,

- `InboxTypeCorrect`: `InboxSpec => []InboxTypeOK`;
- `NothingDueIsLost`: `InboxSpec => []LiveDelivery`.

A page is all or nothing and a row is unique by its key, which gives
`NotifiedOnce` whatever runs twice. For `FanoutReaches`, `WorkerInv` says of
each worker that the followers up to its cursor who stayed have their row, and
`PageInv` that the page it is about to write leaves none of them out up to its
greatest member, or none at all if it is not full. Both rest on lemmas on the
least and the greatest element of a set of naturals. For `LiveDelivery`,
`TabInv` says that what is due to a tab is on its page or in the channel of the
connection its open stream uses, which is its own, and `InstanceInv` that the
count of an instance is the number of its connections. Assumed: followers are
finitely many, with ids above zero; names of the model for nothing are nobody's,
and bounds are natural numbers.

About the parts of `MCMaintenance` it proves, for any requests, instances, rows and
tokens and for every bound,

- `MaintenanceTypeCorrect`: `Spec => []TypeOK` of the instance as a whole;
- `HiddenNeverReturns`: `CachesSpec => HiddenStaysAway`;
- `RecountsOnlyHeal` and `RunsStayOnCourse`: `ReconciliationSpec => OnlyHeals` and
  `ReconciliationSpec => RunsHeal`;
- `NothingYoungGoes` and `LoopsEndWhenDone`: `RetentionSpec => OnlyDueRowsGo` and
  `RetentionSpec => LoopClears`;
- `TokensStayFew`: `AccountsSpec => []TokensWithinBudget`.

All but the first and the last are action properties: the safety half of what the run
checks as `HiddenDisappears`, `CountersHeal` and `OldRowsGo`. Progress is made, given
fairness, and these say that nothing undoes it. They are stated in the modules of their
parts, and no cfg lists them.

*The caches.* `NoCopy` and `NoView` say that neither the entry, nor a request that
has read and not written yet, nor the view, nor a refresh under way has the post. A
ban needs the first only, since the queries join the author. What the theorem
leaves to liveness is that these copies go.

*The recount.* The counter may be anything a deletion or a late recount has made of
it, but never lower than its rows less the number of items (`CounterTyped`): what a
statement writes is the number of rows of some moment, and a request moves both.
That is why the counter has a type at all. `NothingStale` is the moment
from which on all is well: nothing is to come, and what every statement has found
is still so. `HealingStep` shows that it stays so and puts no counter off, and
`RunsStayOnCourse` follows a run through its two statements.

*The sweeps.* `SweepInv` says that a sweep's limits are of the past and that the logs
it found due are old or gone: rows only age and go (`RowsOnlyAge`), so a limit that
is out of date only spares rows. `ChunkComplete` is why the loop may stop at a
short chunk. It may also stop at a chunk that another sweep has shortened, which the
condition of `LoopClears` leaves out: the next night deletes the rest.

*The accounts.* `resendVerification` reads the token in one statement and makes a new
one in a later one, so requests beside each other make several. Types need that the
supply of tokens lasts. `TokensWithinBudget` counts the tokens held and those that
requests may make yet: all requests while another that asks would find no good
token (`Open`), those on their way to one (`Renewing`) when it would find one.
Only a new account and a token that expires open the way again.

*The unread count.* A badge is set to a count that may be old, so what is typed is each
count on its way as well as the badge, and the requests to mark by the sum of their
three states (`UnreadInv`).

Assumed: items, requests for an address and notices are finitely many, logs are
numbered and chunks not empty, tokens are more than the requests can make with
the accounts and expiries of the bounds, and bounds are natural numbers.

`ClientProofs` proves about the five parts of `MCClient`,

- `ClientTypeCorrect`: `Spec => []TypeOK` of the instance as a whole;
- `OneClickPerHour`: `ClicksSpec => []ClicksOncePerHour`;
- `ImagesNeverExceedLimit`: `CreatePostSpec => []ImagesWithinLimit`;
- `PageKnowsViewer`: `SignInSpec => []SignedInShown`;
- `ButtonAlwaysSettles`: `ButtonsSpec => []ButtonSettles`;
- `QueueAlwaysDrains` and `DecisionsAlwaysStand`: `ModerationSpec => []QueueDrains` and
  `ModerationSpec => DecisionsStand`.

The invariants say what holds before everything has come to rest. `OneRecorder`:
while nothing was unsure one request at most is about to record, and it holds
the key of an hour without a click. `UploadFits`: the images an upload keeps,
has and will have are together within the limit from the moment the files are
chosen, so it does not matter what the form holds when it ends. `Told`: the page
is right, or a question is on its way, or the server has ended a session and its
answer is. `ReactionRight` and `SwitchRight`: a reaction is pending, asked for,
read or right; another button has at most one tap on its way, and before the
server has done it the value to go back to is the server's. `OwedReported` and
`RowsOfTab`: a report that is owed a decision is in the table, and a page holds
only rows of its tab, so that a click names a subject. Assumed: there is a
subject and a question, the page is for administrators, the cookie that is none
is no session's, and bounds are natural numbers.

These assumptions are about names the models chose, bounds, or sets that are
finite in any deployment; TLC evaluates each of them in the runs of the module.

Model-checked only: liveness, that is `EveryRequestAnswered` of `Follows` and the
temporal properties of `maintenance`. It rests on fairness and on actions being
enabled, which are out of reach of the prover. Every safety invariant and action
property that a passing run checks is stated by a theorem.

## Not modelled

- Formatting, translations, styling, and endpoints that are one read: profiles,
  statistics, categories, status of a reaction.
- Fetching and parsing of product pages, conversion and storage of images,
  templates and delivery of mails: outside services. Their failures are in the
  models.
- The content of the audit log, and the bootstrap of the first administrator, a
  single statement at start.
- The handshake of the socket, rate limits and the limits per connection.
- Tokens without a `sid` or a version: none are signed any more.
- How lists are ranked: a rank is a number that changes. Which of two scrapes of
  one product is kept in its row.
- Seeds, migrations other than the view, deployment and monitoring: run once, or
  configuration.

## Plan

Order of work, most important behaviour first.

1. *Done*: `Follows` with proofs, `PostAccess`, `Engagement`, `Comments`,
   `Sessions` with proofs.
2. *Done*: `SearchIndex` and `Pages`; `Inbox` and `CommentThread`; `Moderation`,
   `Buttons`, `Clicks`, `SignIn` and `CreatePost`; `Fanout`, `Caches`,
   `Reconciliation`, `Retention`, `Accounts` and `Unread`; `Tally`, its refinements and
   `TallyProofs`.
3. *Done*: the refinements of `Tally` with `LikeCountMatches`, `RepliesOneLevel` and
   `RemovalAttributionStable`; `IndexSettles` and `HiddenStaysOut`; `NotifiedOnce`,
   `FanoutReaches` and `LiveDelivery`; the invariants of `MCClient`.
4. *Done*: `BlockAnswerMeansBlocked`; `Lists`, and with it the invariants of `Pages` and
   `CommentThread`.
5. *Done*: the types of `MCMaintenance`, and the safety half of what its temporal
   properties rest on.
