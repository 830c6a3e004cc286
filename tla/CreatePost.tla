----------------------------- MODULE CreatePost -----------------------------
(***************************************************************************)
(* Writing a post: the form of the web client with its image uploader and  *)
(* its link input, the scrape it asks the server for and polls, and        *)
(* PostsService.create.                                                    *)
(*                                                                         *)
(* Uploads, scrapes and typing overlap, and each upload and each scrape    *)
(* works with what the form held when it began.                            *)
(***************************************************************************)
EXTENDS Integers, FiniteSets

CONSTANTS
  Urls,       \* product links
  MaxImages,  \* images of a post
  MaxScrapes, \* bound on the scrapes
  MaxFiles,   \* bound on the files uploaded
  MaxPolls    \* polls of a scrape before it is given up

ASSUME CreatePostAssumption ==
  {MaxImages, MaxScrapes, MaxFiles, MaxPolls} \subseteq Nat

VARIABLES
  form,     \* what is typed and shown: link, title, images, and whose product data
  timer,    \* the link whose scrape is scheduled, and whether the title was empty
  scrapes,  \* scrapes: the client's side
  jobs,     \* and the job of each in the queue
  loading,  \* the link input shows that it waits
  upload,   \* the files chosen together
  files,    \* files uploaded so far
  sending,  \* the post on its way, and how many images it has
  posts     \* how many images the posts created have

createPostVars == <<form, timer, scrapes, jobs, loading, upload, files, sending, posts>>

NoUrl == "no url"
Slots == 1..MaxScrapes
NoTimer == [url |-> NoUrl, blank |-> FALSE]
NoScrape == [at |-> "unused", url |-> NoUrl, blank |-> FALSE, polls |-> 0]
NoUpload == [on |-> FALSE, base |-> {}, left |-> 0, done |-> {}]
NoPost == [at |-> "none", images |-> 0]

\* An image is a file of the viewer's or a picture of a product.
FileImage(n) == <<"file", n>>
Pictures(url) == {<<url, n>> : n \in 1..MaxImages}

CreatePostInit ==
  /\ form = [url |-> NoUrl, title |-> "none", images |-> {}, meta |-> NoUrl]
  /\ timer = NoTimer
  /\ scrapes = [i \in Slots |-> NoScrape]
  /\ jobs = [i \in Slots |-> "none"]
  /\ loading = FALSE
  /\ upload = NoUpload
  /\ files = 0
  /\ sending = NoPost
  /\ posts = {}

-----------------------------------------------------------------------------
\* The link input.

\* Typing a link schedules its scrape in place of the last one that was; clearing
\* it only cancels.
TypeUrl(url) ==
  /\ form' = [form EXCEPT !.url = url]
  /\ timer' = IF url = NoUrl THEN NoTimer ELSE [url |-> url, blank |-> form.title = "none"]
  /\ UNCHANGED <<scrapes, jobs, loading, upload, files, sending, posts>>

TypeTitle(title) ==
  /\ form' = [form EXCEPT !.title = title]
  /\ UNCHANGED <<timer, scrapes, jobs, loading, upload, files, sending, posts>>

\* runScrape, with the form of when the link was typed.
RunScrape(i) ==
  /\ timer # NoTimer
  /\ scrapes[i] = NoScrape
  /\ scrapes' = [scrapes EXCEPT ![i] = [at |-> "asked", url |-> timer.url, blank |-> timer.blank, polls |-> 0]]
  /\ timer' = NoTimer
  /\ loading' = TRUE
  /\ UNCHANGED <<form, jobs, upload, files, sending, posts>>

\* Any scrape that ends takes the sign away.
EndScrape(i) ==
  /\ scrapes' = [scrapes EXCEPT ![i].at = "over"]
  /\ loading' = FALSE

\* What a scrape finds: where both the interface and the browser fail, nothing, and
\* that is a success too.
Found(url) == {{}, Pictures(url)}

\* applyScraped.  The title is set if it was empty when the link was typed, the
\* pictures if there are no images now.
ApplyScraped(i) ==
  /\ \E pictures \in Found(scrapes[i].url) :
       form' = [form EXCEPT !.title = IF scrapes[i].blank THEN "scraped" ELSE @,
                            !.images = IF @ = {} THEN pictures ELSE @,
                            !.meta = scrapes[i].url]
  /\ EndScrape(i)

\* Without a queue the request scrapes itself, or finds the product in the table.
ScrapeAtOnce(i) == ApplyScraped(i) /\ UNCHANGED jobs

\* requestScrape: refused, answered at once, or queued.
RequestScrape(i) ==
  /\ scrapes[i].at = "asked"
  /\ \/ EndScrape(i) /\ UNCHANGED <<form, jobs>>
     \/ ScrapeAtOnce(i)
     \/ /\ scrapes' = [scrapes EXCEPT ![i].at = "polling"]
        /\ jobs' = [jobs EXCEPT ![i] = "waiting"]
        /\ UNCHANGED <<form, loading>>
  /\ UNCHANGED <<timer, upload, files, sending, posts>>

\* The processor takes a job, scrapes or finds the product in the table, and its
\* job is completed or failed; one that stalls goes back.
WorkScrape(i) ==
  /\ \/ jobs[i] = "waiting" /\ jobs' = [jobs EXCEPT ![i] = "active"]
     \/ jobs[i] = "active" /\ \E s \in {"completed", "failed", "waiting"} : jobs' = [jobs EXCEPT ![i] = s]
  /\ UNCHANGED <<form, timer, scrapes, loading, upload, files, sending, posts>>

\* Mutant: the polls are not limited.
PollScrapeForever(i) ==
  /\ scrapes[i].at = "polling"
  /\ CASE jobs[i] = "completed" -> ApplyScraped(i)
       [] jobs[i] = "failed" -> EndScrape(i) /\ UNCHANGED form
       [] OTHER -> UNCHANGED <<scrapes, loading, form>>
  /\ UNCHANGED <<timer, jobs, upload, files, sending, posts>>

\* getScrapeResult, and what the client makes of it.
PollScrape(i) ==
  /\ scrapes[i].at = "polling"
  /\ IF scrapes[i].polls = MaxPolls THEN EndScrape(i) /\ UNCHANGED form
     ELSE CASE jobs[i] = "completed" -> ApplyScraped(i)
            [] jobs[i] = "failed" -> EndScrape(i) /\ UNCHANGED form
            [] OTHER -> /\ scrapes' = [scrapes EXCEPT ![i].polls = @ + 1]
                        /\ UNCHANGED <<loading, form>>
  /\ UNCHANGED <<timer, jobs, upload, files, sending, posts>>

\* A poll that finds no job, or no server, is an error.
PollFails(i) ==
  /\ scrapes[i].at = "polling"
  /\ EndScrape(i)
  /\ UNCHANGED <<form, timer, jobs, upload, files, sending, posts>>

-----------------------------------------------------------------------------
\* The image uploader.

\* As many of the chosen files as there is room for now.
ChooseFiles(n) ==
  /\ ~upload.on
  /\ Cardinality(form.images) < MaxImages
  /\ LET room == MaxImages - Cardinality(form.images)
     IN upload' = [on |-> TRUE, base |-> form.images, left |-> IF n < room THEN n ELSE room, done |-> {}]
  /\ UNCHANGED <<form, timer, scrapes, jobs, loading, files, sending, posts>>

\* One after the other.  A failure drops those that were uploaded.
UploadImage ==
  /\ upload.on /\ upload.left > 0
  /\ \/ /\ files < MaxFiles
        /\ files' = files + 1
        /\ upload' = [upload EXCEPT !.left = @ - 1, !.done = @ \cup {FileImage(files + 1)}]
     \/ upload' = NoUpload /\ UNCHANGED files
  /\ UNCHANGED <<form, timer, scrapes, jobs, loading, sending, posts>>

\* Mutant: the uploaded images are added to those that are there now.
AppendUploaded ==
  /\ upload.on /\ upload.left = 0
  /\ form' = [form EXCEPT !.images = @ \cup upload.done]
  /\ upload' = NoUpload
  /\ UNCHANGED <<timer, scrapes, jobs, loading, files, sending, posts>>

\* The form gets the images of when the files were chosen, and the uploaded ones.
FinishUpload ==
  /\ upload.on /\ upload.left = 0
  /\ form' = [form EXCEPT !.images = upload.base \cup upload.done]
  /\ upload' = NoUpload
  /\ UNCHANGED <<timer, scrapes, jobs, loading, files, sending, posts>>

RemoveImage(x) ==
  /\ x \in form.images
  /\ form' = [form EXCEPT !.images = @ \ {x}]
  /\ UNCHANGED <<timer, scrapes, jobs, loading, upload, files, sending, posts>>

-----------------------------------------------------------------------------
\* Publishing.

Submit ==
  /\ sending = NoPost
  /\ form.url # NoUrl /\ form.title # "none" /\ form.images # {}
  /\ sending' = [at |-> "sent", images |-> Cardinality(form.images)]
  /\ UNCHANGED <<form, timer, scrapes, jobs, loading, upload, files, posts>>

\* The server checks the author's email and the links, and stores the post.
Create ==
  /\ sending.at = "sent"
  /\ \/ /\ posts' = posts \cup {sending.images}
        /\ sending' = [sending EXCEPT !.at = "answer"]
     \/ sending' = NoPost /\ UNCHANGED posts
  /\ UNCHANGED <<form, timer, scrapes, jobs, loading, upload, files>>

\* With the answer, or without it, the form can be sent again until the page changes.
CreateAnswer ==
  /\ sending.at = "answer"
  /\ sending' = NoPost
  /\ UNCHANGED <<form, timer, scrapes, jobs, loading, upload, files, posts>>

CreatePostNext ==
  \/ \E url \in Urls \cup {NoUrl} : TypeUrl(url)
  \/ \E title \in {"none", "typed"} : TypeTitle(title)
  \/ \E i \in Slots : RunScrape(i) \/ RequestScrape(i) \/ WorkScrape(i) \/ PollScrape(i) \/ PollFails(i)
  \/ \E n \in 1..MaxImages : ChooseFiles(n)
  \/ UploadImage \/ FinishUpload
  \/ \E x \in form.images : RemoveImage(x)
  \/ Submit \/ Create \/ CreateAnswer

CreatePostSpec == CreatePostInit /\ [][CreatePostNext]_createPostVars

-----------------------------------------------------------------------------
CreatePostTypeOK ==
  /\ form.url \in Urls \cup {NoUrl} /\ form.meta \in Urls \cup {NoUrl}
  /\ form.title \in {"none", "typed", "scraped"}
  /\ timer \in [url : Urls \cup {NoUrl}, blank : BOOLEAN]
  /\ scrapes \in [Slots -> [at : {"unused", "asked", "polling", "over"}, url : Urls \cup {NoUrl},
                            blank : BOOLEAN, polls : 0..MaxPolls]]
  /\ jobs \in [Slots -> {"none", "waiting", "active", "completed", "failed"}]
  /\ loading \in BOOLEAN
  /\ upload.left \in 0..MaxImages /\ upload.on \in BOOLEAN
  /\ files \in 0..MaxFiles
  /\ sending.at \in {"none", "sent", "answer"}

\* A form never holds more images than a post may have, nor does a post, however
\* uploads, scrapes and removals overlap.
ImagesWithinLimit ==
  /\ Cardinality(form.images) <= MaxImages
  /\ posts \subseteq 1..MaxImages

\* The link input does not wait for ever, even if no worker takes the job.
ScrapeEnds == loading ~> ~loading
=============================================================================
