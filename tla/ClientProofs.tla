---------------------------- MODULE ClientProofs ----------------------------
(***************************************************************************)
(* What the pages of the web client do with the server: the redirect of a  *)
(* link, who is signed in, the buttons, the report queue, and the post     *)
(* form, each for any number of requests, users, reports and images.       *)
(***************************************************************************)
EXTENDS MCClient, FiniteSetTheorems, TLAPS

-----------------------------------------------------------------------------
(* The redirect of a link.  While nothing was unsure, one request at most  *)
(* is about to record, and it holds the key of an hour without a click.    *)

OneRecorder ==
  /\ recent <= 1
  /\ recent = 1 => clickKey
  /\ \A c \in Clickers : clicker[c] = "record" => clickKey /\ recent = 0
  /\ \A c, d \in Clickers : clicker[c] = "record" /\ clicker[d] = "record" => c = d

ClicksInv == ClicksTypeOK /\ (~unsure => OneRecorder)

LEMMA ClicksInvInit == ClicksInit => ClicksInv
<1> SUFFICES ASSUME ClicksInit PROVE ClicksInv
  OBVIOUS
<1> USE DEF ClicksInit
<1>1. recent \in 0..MaxClicks
  BY ClicksAssumption
<1>2. postHidden \in BOOLEAN /\ clickKey \in BOOLEAN /\ unsure \in BOOLEAN
  OBVIOUS
<1>3. clicker \in [Clickers -> {"idle", "claim", "look", "record"}]
  OBVIOUS
<1>4. OneRecorder
  BY ClicksAssumption DEF OneRecorder
<1> QED
  BY <1>1, <1>2, <1>3, <1>4 DEF ClicksInv, ClicksTypeOK

LEMMA ClicksInvStep == ClicksInv /\ [ClicksNext]_clicksVars => ClicksInv'
<1> SUFFICES ASSUME ClicksInv, [ClicksNext]_clicksVars PROVE ClicksInv'
  OBVIOUS
<1> USE DEF ClicksInv, ClicksTypeOK, OneRecorder
<1>1. ASSUME NEW c \in Clickers, ResolvePost(c) PROVE ClicksInv'
  BY <1>1 DEF ResolvePost
<1>2. ASSUME NEW c \in Clickers, ClaimHour(c) PROVE ClicksInv'
  BY <1>2 DEF ClaimHour
<1>3. ASSUME NEW c \in Clickers, ClaimFails(c) PROVE ClicksInv'
  BY <1>3 DEF ClaimFails
<1>4. ASSUME NEW c \in Clickers, LookInLog(c) PROVE ClicksInv'
  BY <1>4 DEF LookInLog
<1>5. ASSUME NEW c \in Clickers, RecordClick(c) PROVE ClicksInv'
  BY <1>5, ClicksAssumption DEF RecordClick
<1>6. ASSUME NEW c \in Clickers, ClickFails(c) PROVE ClicksInv'
  BY <1>6 DEF ClickFails
<1>7. CASE LoseClickKey
  BY <1>7 DEF LoseClickKey
<1>8. CASE HourEnds
  <2>1. recent' \in 0..MaxClicks
    BY <1>8, ClicksAssumption DEF HourEnds
  <2>2. postHidden' \in BOOLEAN /\ clickKey' \in BOOLEAN /\ unsure' \in BOOLEAN
    BY <1>8 DEF HourEnds
  <2>3. OneRecorder'
    BY <1>8, ClicksAssumption DEF HourEnds
  <2> QED
    BY <1>8, <2>1, <2>2, <2>3 DEF HourEnds
<1>9. CASE HidePost
  BY <1>9 DEF HidePost
<1>10. CASE UNCHANGED clicksVars
  BY <1>10 DEF clicksVars
<1> QED
  BY <1>1, <1>2, <1>3, <1>4, <1>5, <1>6, <1>7, <1>8, <1>9, <1>10 DEF ClicksNext

\* An address counts once per hour, however many of its requests overlap.
THEOREM OneClickPerHour == ClicksSpec => []ClicksOncePerHour
<1>1. ClicksInv => ClicksOncePerHour
  BY DEF ClicksInv, ClicksTypeOK, OneRecorder, ClicksOncePerHour
<1> QED
  BY <1>1, ClicksInvInit, ClicksInvStep, PTL DEF ClicksSpec

-----------------------------------------------------------------------------
(* Writing a post.  The images that an upload will leave in the form are   *)
(* counted when its files are chosen, so they fit whatever the form holds  *)
(* when it ends.                                                           *)

Links == Urls \cup {NoUrl}
Image == (Links \cup {"file"}) \X Nat

FormTypeOK ==
  form \in [url : Links, title : {"none", "typed", "scraped"}, images : SUBSET Image, meta : Links]

UploadTypeOK ==
  upload \in [on : BOOLEAN, base : SUBSET Image, left : 0..MaxImages, done : SUBSET Image]

SendingTypeOK == sending \in [at : {"none", "sent", "answer"}, images : Nat]

ScrapesTypeOK ==
  /\ timer \in [url : Links, blank : BOOLEAN]
  /\ scrapes \in [Slots -> [at : {"unused", "asked", "polling", "over"}, url : Links,
                            blank : BOOLEAN, polls : 0..MaxPolls]]

\* What the form holds is within the limit.
FormFits == IsFiniteSet(form.images) /\ Cardinality(form.images) <= MaxImages

\* What the upload keeps, has and will have together is within it too.
UploadFits ==
  /\ IsFiniteSet(upload.base) /\ IsFiniteSet(upload.done)
  /\ Cardinality(upload.base) + Cardinality(upload.done) + upload.left <= MaxImages

SendingFits ==
  /\ sending.at # "none" => sending.images \in 1..MaxImages
  /\ posts \subseteq 1..MaxImages

CreateInv ==
  /\ FormTypeOK /\ UploadTypeOK /\ SendingTypeOK /\ ScrapesTypeOK /\ files \in Nat
  /\ FormFits /\ UploadFits /\ SendingFits

LEMMA LimitsNatural == MaxImages \in Nat /\ MaxScrapes \in Nat /\ MaxFiles \in Nat /\ MaxPolls \in Nat
BY CreatePostAssumption

\* A product has as many pictures as a post may have images.
LEMMA PicturesFit ==
  ASSUME NEW url \in Links
  PROVE  /\ Pictures(url) \in SUBSET Image
         /\ IsFiniteSet(Pictures(url)) /\ Cardinality(Pictures(url)) <= MaxImages
<1> DEFINE picture == [n \in 1..MaxImages |-> <<url, n>>]
<1>1. picture \in Surjection(1..MaxImages, Pictures(url))
  BY DEF Surjection, Pictures
<1>2. IsFiniteSet(1..MaxImages) /\ Cardinality(1..MaxImages) = MaxImages
  BY FS_Interval, LimitsNatural
<1>3. IsFiniteSet(Pictures(url)) /\ Cardinality(Pictures(url)) <= MaxImages
  BY <1>1, <1>2, FS_Surjection
<1>4. Pictures(url) \in SUBSET Image
  BY LimitsNatural DEF Pictures, Image, Links
<1> QED
  BY <1>3, <1>4

LEMMA FoundFits ==
  ASSUME NEW url \in Links, NEW pictures \in Found(url)
  PROVE  pictures \in SUBSET Image /\ IsFiniteSet(pictures) /\ Cardinality(pictures) <= MaxImages
<1>1. pictures = {} \/ pictures = Pictures(url)
  BY DEF Found
<1> QED
  BY <1>1, PicturesFit, FS_EmptySet, LimitsNatural

\* What a scrape finds is put only where there are no images.
LEMMA ApplyScrapedFits ==
  ASSUME FormTypeOK, FormFits, ScrapesTypeOK, NEW i \in Slots, ApplyScraped(i)
  PROVE  FormTypeOK' /\ FormFits'
<1>1. scrapes[i].url \in Links
  BY DEF ScrapesTypeOK
<1>2. PICK pictures \in Found(scrapes[i].url) :
         form' = [form EXCEPT !.title = IF scrapes[i].blank THEN "scraped" ELSE @,
                              !.images = IF @ = {} THEN pictures ELSE @,
                              !.meta = scrapes[i].url]
  BY DEF ApplyScraped
<1>3. pictures \in SUBSET Image /\ IsFiniteSet(pictures) /\ Cardinality(pictures) <= MaxImages
  BY <1>1, FoundFits
<1>4. form'.images \in SUBSET Image /\ (form'.images = pictures \/ form'.images = form.images)
  BY <1>2, <1>3 DEF FormTypeOK
<1>5. FormTypeOK'
  BY <1>1, <1>2, <1>3 DEF FormTypeOK
<1> QED
  BY <1>3, <1>4, <1>5 DEF FormFits

LEMMA CreateInvInit == CreatePostInit => CreateInv
BY FS_EmptySet, LimitsNatural DEF CreatePostInit, CreateInv, FormTypeOK, UploadTypeOK, SendingTypeOK, ScrapesTypeOK,
   FormFits, UploadFits, SendingFits, NoUpload, NoPost, NoTimer, NoScrape, Links, Image

LEMMA ScrapeStepsFit ==
  ASSUME CreateInv, NEW i \in Slots,
         RunScrape(i) \/ RequestScrape(i) \/ WorkScrape(i) \/ PollScrape(i) \/ PollFails(i)
  PROVE  CreateInv'
<1>1. UNCHANGED <<upload, files, sending, posts>>
  BY DEF RunScrape, RequestScrape, WorkScrape, PollScrape, PollFails
<1>2. UploadTypeOK' /\ SendingTypeOK' /\ files' \in Nat /\ UploadFits' /\ SendingFits'
  BY <1>1 DEF CreateInv, UploadTypeOK, SendingTypeOK, UploadFits, SendingFits
<1>3. ApplyScraped(i) \/ UNCHANGED form
  BY DEF RunScrape, RequestScrape, ScrapeAtOnce, WorkScrape, PollScrape, PollFails
<1>4. FormTypeOK' /\ FormFits'
  <2>1. CASE ApplyScraped(i)
    BY <2>1, ApplyScrapedFits DEF CreateInv
  <2>2. CASE UNCHANGED form
    BY <2>2 DEF CreateInv, FormTypeOK, FormFits
  <2> QED
    BY <1>3, <2>1, <2>2
<1>5. scrapes \in [Slots -> [at : {"unused", "asked", "polling", "over"}, url : Links,
                             blank : BOOLEAN, polls : 0..MaxPolls]]
  BY DEF CreateInv, ScrapesTypeOK
<1>6. timer \in [url : Links, blank : BOOLEAN]
  BY DEF CreateInv, ScrapesTypeOK
<1>7. EndScrape(i) => ScrapesTypeOK' \/ timer' # timer
  BY <1>5, <1>6 DEF EndScrape, ScrapesTypeOK
<1>8. ScrapesTypeOK'
  <2>1. CASE RunScrape(i)
    <3>1. [at |-> "asked", url |-> timer.url, blank |-> timer.blank, polls |-> 0]
            \in [at : {"unused", "asked", "polling", "over"}, url : Links, blank : BOOLEAN, polls : 0..MaxPolls]
      BY <1>6, LimitsNatural
    <3>2. scrapes' \in [Slots -> [at : {"unused", "asked", "polling", "over"}, url : Links,
                                  blank : BOOLEAN, polls : 0..MaxPolls]]
      BY <2>1, <3>1, <1>5 DEF RunScrape
    <3>3. timer' \in [url : Links, blank : BOOLEAN]
      BY <2>1 DEF RunScrape, NoTimer, Links
    <3> QED
      BY <3>2, <3>3 DEF ScrapesTypeOK
  <2>2. CASE RequestScrape(i)
    <3>1. timer' = timer
      BY <2>2 DEF RequestScrape
    <3>2. EndScrape(i) \/ scrapes' = [scrapes EXCEPT ![i].at = "polling"]
      BY <2>2 DEF RequestScrape, ScrapeAtOnce, ApplyScraped
    <3> QED
      BY <3>1, <3>2, <1>5, <1>6, <1>7 DEF ScrapesTypeOK
  <2>3. CASE WorkScrape(i)
    BY <2>3, <1>5, <1>6 DEF WorkScrape, ScrapesTypeOK
  <2>4. CASE PollScrape(i)
    <3>1. timer' = timer
      BY <2>4 DEF PollScrape
    <3>2. \/ EndScrape(i)
          \/ scrapes[i].polls # MaxPolls /\ scrapes' = [scrapes EXCEPT ![i].polls = @ + 1]
      BY <2>4 DEF PollScrape, ApplyScraped
    <3>3. scrapes[i].polls # MaxPolls => scrapes[i].polls + 1 \in 0..MaxPolls
      BY <1>5, LimitsNatural
    <3> QED
      BY <3>1, <3>2, <3>3, <1>5, <1>6, <1>7 DEF ScrapesTypeOK
  <2>5. CASE PollFails(i)
    BY <2>5, <1>7 DEF PollFails
  <2> QED
    BY <2>1, <2>2, <2>3, <2>4, <2>5
<1> QED
  BY <1>2, <1>4, <1>8 DEF CreateInv

LEMMA UploadStepsFit ==
  ASSUME CreateInv, (\E n \in 1..MaxImages : ChooseFiles(n)) \/ UploadImage \/ FinishUpload
  PROVE  CreateInv'
<1>1. UNCHANGED <<timer, scrapes, sending, posts>>
  BY DEF ChooseFiles, UploadImage, FinishUpload
<1>2. ScrapesTypeOK' /\ SendingTypeOK' /\ SendingFits'
  BY <1>1 DEF CreateInv, ScrapesTypeOK, SendingTypeOK, SendingFits
<1>3. FormTypeOK /\ UploadTypeOK /\ FormFits /\ UploadFits /\ files \in Nat
  BY DEF CreateInv
<1>4. /\ Cardinality(form.images) \in Nat
      /\ Cardinality(upload.base) \in Nat /\ Cardinality(upload.done) \in Nat
  BY <1>3, FS_CardinalityType DEF FormFits, UploadFits
<1>5. upload' = NoUpload => UploadTypeOK' /\ UploadFits'
  BY FS_EmptySet, LimitsNatural DEF NoUpload, UploadTypeOK, UploadFits
<1>6. ASSUME NEW n \in 1..MaxImages, ChooseFiles(n) PROVE CreateInv'
  <2>1. UNCHANGED <<form, files>>
    BY <1>6 DEF ChooseFiles
  <2>2. PICK left \in 0..MaxImages :
          /\ left <= MaxImages - Cardinality(form.images)
          /\ upload' = [on |-> TRUE, base |-> form.images, left |-> left, done |-> {}]
    <3> DEFINE room == MaxImages - Cardinality(form.images)
               left == IF n < room THEN n ELSE room
    <3>1. Cardinality(form.images) < MaxImages
          /\ upload' = [on |-> TRUE, base |-> form.images, left |-> left, done |-> {}]
      BY <1>6 DEF ChooseFiles
    <3>2. left \in 0..MaxImages /\ left <= room
      BY <3>1, <1>4, LimitsNatural
    <3> QED
      BY <3>1, <3>2, Zenon
  <2>3. UploadTypeOK'
    BY <2>2, <1>3 DEF UploadTypeOK, FormTypeOK
  <2>4. UploadFits'
    BY <2>2, <1>3, <1>4, FS_EmptySet, LimitsNatural DEF UploadFits, FormFits
  <2> QED
    BY <2>1, <2>3, <2>4, <1>2, <1>3 DEF CreateInv, FormTypeOK, FormFits
<1>7. CASE UploadImage
  <2>1. UNCHANGED form
    BY <1>7 DEF UploadImage
  <2>2. files' \in Nat
    BY <1>7, <1>3 DEF UploadImage
  <2>3. UploadTypeOK' /\ UploadFits'
    <3>1. CASE upload' = NoUpload
      BY <3>1, <1>5
    <3>2. CASE upload' # NoUpload
      <4> DEFINE x == FileImage(files + 1)
      <4>1. x \in Image
        BY <1>3 DEF FileImage, Image
      <4>2. upload' = [upload EXCEPT !.left = @ - 1, !.done = @ \cup {x}] /\ upload.left > 0
        BY <3>2, <1>7 DEF UploadImage
      <4>3. IsFiniteSet(upload.done \cup {x}) /\ Cardinality(upload.done \cup {x}) \in Nat
            /\ Cardinality(upload.done \cup {x}) <= Cardinality(upload.done) + 1
        <5>1. IsFiniteSet(upload.done)
          BY <1>3 DEF UploadFits
        <5> HIDE DEF x
        <5>2. /\ IsFiniteSet(upload.done \cup {x})
              /\ Cardinality(upload.done \cup {x}) =
                   IF x \in upload.done THEN Cardinality(upload.done) ELSE Cardinality(upload.done) + 1
          BY <5>1, FS_AddElement
        <5> QED
          BY <5>2, <1>4
      <4> HIDE DEF x
      <4>4. /\ upload'.on = upload.on /\ upload'.base = upload.base
            /\ upload'.left = upload.left - 1 /\ upload'.done = upload.done \cup {x}
        BY <4>2, <1>3 DEF UploadTypeOK
      <4>5. UploadTypeOK'
        <5>1. upload.left - 1 \in 0..MaxImages
          BY <4>2, <1>3, LimitsNatural DEF UploadTypeOK
        <5>2. upload.done \cup {x} \in SUBSET Image
          BY <4>1, <1>3 DEF UploadTypeOK
        <5> QED
          BY <4>2, <5>1, <5>2, <1>3 DEF UploadTypeOK
      <4>6. UploadFits'
        BY <4>3, <4>4, <1>3, <1>4, LimitsNatural DEF UploadFits, UploadTypeOK
      <4> QED
        BY <4>5, <4>6
    <3> QED
      BY <3>1, <3>2
  <2> QED
    BY <2>1, <2>2, <2>3, <1>2, <1>3 DEF CreateInv, FormTypeOK, FormFits
<1>8. CASE FinishUpload
  <2> DEFINE S == upload.base \cup upload.done
  <2>1. upload' = NoUpload /\ files' = files /\ form' = [form EXCEPT !.images = S]
    BY <1>8 DEF FinishUpload
  <2>2. S \in SUBSET Image
    BY <1>3 DEF UploadTypeOK
  <2>3. IsFiniteSet(S) /\ Cardinality(S) <= MaxImages
    <3>1. IsFiniteSet(upload.base \cap upload.done)
      BY <1>3, FS_Subset DEF UploadFits
    <3>2. Cardinality(upload.base \cap upload.done) \in Nat
      BY <3>1, FS_CardinalityType
    <3>3. /\ IsFiniteSet(S)
          /\ Cardinality(S) = Cardinality(upload.base) + Cardinality(upload.done)
                               - Cardinality(upload.base \cap upload.done)
      BY <1>3, FS_Union DEF UploadFits
    <3>4. upload.left \in Nat /\ Cardinality(upload.base) + Cardinality(upload.done) + upload.left <= MaxImages
      BY <1>3, LimitsNatural DEF UploadFits, UploadTypeOK
    <3> HIDE DEF S
    <3> QED
      BY <3>2, <3>3, <3>4, <1>4, LimitsNatural
  <2> HIDE DEF S
  <2>4. FormTypeOK' /\ FormFits'
    BY <2>1, <2>2, <2>3, <1>3 DEF FormTypeOK, FormFits
  <2> QED
    BY <2>1, <2>4, <1>2, <1>3, <1>5 DEF CreateInv
<1> QED
  BY <1>6, <1>7, <1>8

LEMMA CreateInvStep == CreateInv /\ [CreatePostNext]_createPostVars => CreateInv'
<1> SUFFICES ASSUME CreateInv, [CreatePostNext]_createPostVars PROVE CreateInv'
  OBVIOUS
<1>1. CASE UNCHANGED createPostVars
  BY <1>1 DEF createPostVars, CreateInv, FormTypeOK, UploadTypeOK, SendingTypeOK, ScrapesTypeOK,
     FormFits, UploadFits, SendingFits
<1>2. ASSUME NEW url \in Urls \cup {NoUrl}, TypeUrl(url) PROVE CreateInv'
  <2>1. UNCHANGED <<scrapes, upload, files, sending, posts>>
    BY <1>2 DEF TypeUrl
  <2>2. FormTypeOK' /\ FormFits'
    BY <1>2 DEF TypeUrl, CreateInv, FormTypeOK, FormFits, Links
  <2>3. timer' \in [url : Links, blank : BOOLEAN]
    <3>1. (form.title = "none") \in BOOLEAN
      OBVIOUS
    <3>2. timer' = NoTimer \/ timer' = [url |-> url, blank |-> form.title = "none"]
      BY <1>2 DEF TypeUrl
    <3>3. [url |-> url, blank |-> form.title = "none"] \in [url : Links, blank : BOOLEAN]
      BY <3>1 DEF Links
    <3>4. NoTimer \in [url : Links, blank : BOOLEAN]
      BY DEF NoTimer, Links
    <3> QED
      BY <3>2, <3>3, <3>4, Zenon
  <2> QED
    BY <2>1, <2>2, <2>3 DEF CreateInv, UploadTypeOK, SendingTypeOK, ScrapesTypeOK, UploadFits, SendingFits
<1>3. ASSUME NEW title \in {"none", "typed"}, TypeTitle(title) PROVE CreateInv'
  <2>1. UNCHANGED <<timer, scrapes, upload, files, sending, posts>>
    BY <1>3 DEF TypeTitle
  <2>2. FormTypeOK' /\ FormFits'
    BY <1>3 DEF TypeTitle, CreateInv, FormTypeOK, FormFits
  <2> QED
    BY <2>1, <2>2 DEF CreateInv, UploadTypeOK, SendingTypeOK, ScrapesTypeOK, UploadFits, SendingFits
<1>4. ASSUME NEW x \in form.images, RemoveImage(x) PROVE CreateInv'
  <2>1. UNCHANGED <<timer, scrapes, upload, files, sending, posts>>
    BY <1>4 DEF RemoveImage
  <2>2. IsFiniteSet(form.images \ {x}) /\ Cardinality(form.images \ {x}) <= MaxImages
    <3>1. form.images \ {x} \in SUBSET form.images
      OBVIOUS
    <3>2. IsFiniteSet(form.images) /\ Cardinality(form.images) <= MaxImages
      BY DEF CreateInv, FormFits
    <3>3. IsFiniteSet(form.images \ {x})
          /\ Cardinality(form.images \ {x}) <= Cardinality(form.images)
      BY <3>1, <3>2, FS_Subset
    <3>4. Cardinality(form.images \ {x}) \in Nat /\ Cardinality(form.images) \in Nat
      BY <3>2, <3>3, FS_CardinalityType
    <3> QED
      BY <3>2, <3>3, <3>4, LimitsNatural
  <2>3. FormTypeOK' /\ FormFits'
    BY <1>4, <2>2 DEF RemoveImage, CreateInv, FormTypeOK, FormFits
  <2> QED
    BY <2>1, <2>3 DEF CreateInv, UploadTypeOK, SendingTypeOK, ScrapesTypeOK, UploadFits, SendingFits
<1>5. CASE Submit
  <2>1. UNCHANGED <<form, timer, scrapes, upload, files, posts>>
    BY <1>5 DEF Submit
  <2>2. Cardinality(form.images) \in 1..MaxImages
    BY <1>5, FS_EmptySet, FS_CardinalityType, LimitsNatural DEF Submit, CreateInv, FormFits
  <2>3. SendingTypeOK' /\ SendingFits'
    BY <1>5, <2>2 DEF Submit, CreateInv, SendingTypeOK, SendingFits
  <2> QED
    BY <2>1, <2>3 DEF CreateInv, FormTypeOK, UploadTypeOK, ScrapesTypeOK, FormFits, UploadFits
<1>6. CASE Create \/ CreateAnswer
  <2>1. UNCHANGED <<form, timer, scrapes, upload, files>>
    BY <1>6 DEF Create, CreateAnswer
  <2>2. SendingTypeOK' /\ SendingFits'
    BY <1>6 DEF Create, CreateAnswer, CreateInv, SendingTypeOK, SendingFits, NoPost
  <2> QED
    BY <2>1, <2>2 DEF CreateInv, FormTypeOK, UploadTypeOK, ScrapesTypeOK, FormFits, UploadFits
<1> QED
  BY <1>1, <1>2, <1>3, <1>4, <1>5, <1>6, ScrapeStepsFit, UploadStepsFit DEF CreatePostNext

\* A form never holds more images than a post may have, nor does a post, however many
\* files are chosen and however uploads, scrapes and removals overlap.
THEOREM ImagesNeverExceedLimit == CreatePostSpec => []ImagesWithinLimit
<1>1. CreateInv => ImagesWithinLimit
  BY DEF CreateInv, FormFits, SendingFits, ImagesWithinLimit
<1> QED
  BY <1>1, CreateInvInit, CreateInvStep, PTL DEF CreatePostSpec

-----------------------------------------------------------------------------
(* Who is signed in.  While the page was told of everything, it is right,  *)
(* or a question is under way, or a call has ended the session and its     *)
(* answer is on the way.                                                   *)

Question == [at : {"none", "sent", "answered"}, token : Cookies \cup {NoCookie}, yes : BOOLEAN]
SignCall == [at : {"none", "sent", "done"}, token : Cookies \cup {NoCookie}]

CookiesTypeOK == cookie \in Cookies \cup {NoCookie} /\ live \in SUBSET Cookies
PageTypeOK ==
  /\ path \in {"public", "protected", "login"}
  /\ shown \in BOOLEAN /\ waiting \in BOOLEAN /\ untold \in BOOLEAN
AskTypeOK == ask \in [Asks -> Question]
CallTypeOK == call \in [SignCalls -> SignCall]

Asking == \E q \in Asks : ask[q] # NotAsked
Ending == call["logout"].at = "done" \/ call["delete"].at = "done"
Told == ~untold => (shown <=> cookie \in live) \/ Asking \/ Ending

SignInInv == CookiesTypeOK /\ PageTypeOK /\ AskTypeOK /\ CallTypeOK /\ Told

LEMMA SignInTyped == CookiesTypeOK /\ PageTypeOK /\ AskTypeOK /\ CallTypeOK <=> SignInTypeOK
BY DEF CookiesTypeOK, PageTypeOK, AskTypeOK, CallTypeOK, SignInTypeOK, Question, SignCall

LEMMA NothingIsRecord == NotAsked \in Question /\ NotCalled \in SignCall
BY DEF NotAsked, NotCalled, Question, SignCall, NoCookie

LEMMA NoSessionWithoutCookie == CookiesTypeOK => NoCookie \notin live
BY CookiesAssumption DEF CookiesTypeOK

LEMMA SignInInvInit == SignInInit => SignInInv
BY NothingIsRecord DEF SignInInit, SignInInv, CookiesTypeOK, PageTypeOK, AskTypeOK, CallTypeOK, Told

\* A question is under way after a document was loaded.
LEMMA AskedWithTyped ==
  ASSUME NEW qs \in SUBSET Asks, qs # {}, NEW t \in Cookies \cup {NoCookie}, ask' = AskedWith(qs, t)
  PROVE  AskTypeOK' /\ Asking'
<1> DEFINE sent == [at |-> "sent", token |-> t, yes |-> FALSE]
<1>1. sent \in Question /\ sent # NotAsked
  BY DEF Question, NotAsked
<1>2. ask' = [q \in Asks |-> IF q \in qs THEN sent ELSE NotAsked]
  BY DEF AskedWith
<1> HIDE DEF sent
<1>3. AskTypeOK'
  BY <1>1, <1>2, NothingIsRecord DEF AskTypeOK
<1>4. Asking'
  BY <1>1, <1>2 DEF Asking
<1> QED
  BY <1>3, <1>4

LEMMA QuestionsKeepTold ==
  ASSUME SignInInv, NEW q \in Asks, Refresh(q) \/ ServeMe(q) \/ MeArrives(q) \/ MeFails(q)
  PROVE  SignInInv'
<1> USE DEF SignInInv
<1>1. CookiesTypeOK' /\ CallTypeOK' /\ UNCHANGED <<cookie, live, call, path>>
  BY DEF Refresh, ServeMe, MeArrives, MeFails, CookiesTypeOK, CallTypeOK
<1>2. ask[q] \in Question
  BY DEF AskTypeOK
<1>3. CASE Refresh(q)
  <2> DEFINE sent == [at |-> "sent", token |-> cookie, yes |-> FALSE]
  <2>1. sent \in Question /\ sent # NotAsked
    BY DEF Question, NotAsked, CookiesTypeOK
  <2>2. ask' = [ask EXCEPT ![q] = sent] /\ UNCHANGED <<shown, waiting, untold>>
    BY <1>3 DEF Refresh
  <2> HIDE DEF sent
  <2>3. AskTypeOK' /\ Asking'
    BY <2>1, <2>2 DEF AskTypeOK, Asking
  <2> QED
    BY <1>1, <2>2, <2>3 DEF PageTypeOK, Told
<1>4. CASE ServeMe(q)
  <2> DEFINE r == [ask[q] EXCEPT !.at = "answered", !.yes = ask[q].token \in live]
  <2>1. (ask[q].token \in live) \in BOOLEAN
    OBVIOUS
  <2>2. r \in Question /\ r.at = "answered"
    BY <1>2, <2>1 DEF Question
  <2>3. ask' = [ask EXCEPT ![q] = r] /\ UNCHANGED <<shown, waiting, untold>>
    BY <1>4, <1>2 DEF ServeMe, AskTypeOK, Question
  <2>4. r # NotAsked
    BY <2>2 DEF NotAsked
  <2> HIDE DEF r
  <2>5. AskTypeOK' /\ Asking'
    BY <2>2, <2>3, <2>4 DEF AskTypeOK, Asking
  <2> QED
    BY <1>1, <2>3, <2>5 DEF PageTypeOK, Told
<1>5. CASE MeArrives(q)
  <2>1. AskTypeOK'
    BY <1>5, NothingIsRecord DEF MeArrives, AskTypeOK
  <2>2. ask[q].yes \in BOOLEAN
    BY <1>2 DEF Question
  <2>3. untold' \in BOOLEAN
    <3>1. (ask[q].token # cookie \/ ask[q].yes # (cookie \in live)) \in BOOLEAN
      OBVIOUS
    <3> QED
      BY <3>1, <1>5, Zenon DEF MeArrives
  <2>4. PageTypeOK'
    BY <1>5, <1>1, <2>2, <2>3 DEF MeArrives, PageTypeOK
  <2>5. Told'
    <3>1. shown' = ask[q].yes
      BY <1>5 DEF MeArrives
    <3>2. ~untold' => ask[q].yes = (cookie \in live)
      BY <1>5 DEF MeArrives
    <3>3. ~untold' => (shown' <=> cookie' \in live')
      BY <3>1, <3>2, <1>1
    <3> QED
      BY <3>3 DEF Told
  <2> QED
    BY <1>1, <2>1, <2>4, <2>5
<1>6. CASE MeFails(q)
  BY <1>1, <1>6, NothingIsRecord DEF MeFails, AskTypeOK, PageTypeOK, Told
<1> QED
  BY <1>3, <1>4, <1>5, <1>6

LEMMA CallsKeepTold ==
  ASSUME SignInInv,
         \/ \E k \in SignCalls : SendCall(k) \/ CallLost(k)
         \/ ServeLogin \/ ServeLogout \/ ServeDelete \/ LoginArrives \/ LogoutArrives \/ DeleteArrives
  PROVE  SignInInv'
<1> USE DEF SignInInv
<1>1. UNCHANGED <<waiting, ask>> /\ AskTypeOK' /\ (Asking => Asking')
  BY DEF SendCall, CallLost, ServeLogin, ServeLogout, ServeDelete, LoginArrives, LogoutArrives, DeleteArrives,
     AskTypeOK, Asking
<1>2. \A k \in SignCalls : call[k] \in SignCall
  BY DEF CallTypeOK
<1>3. ASSUME NEW k \in SignCalls, SendCall(k) PROVE SignInInv'
  <2>1. CallTypeOK'
    BY <1>3 DEF SendCall, CallTypeOK, SignCall, CookiesTypeOK
  <2>2. Ending => Ending'
    BY <1>3 DEF SendCall, Ending, CallTypeOK, SignCalls, NotCalled
  <2>3. PageTypeOK' /\ CookiesTypeOK' /\ Told'
    BY <1>1, <1>3, <2>2 DEF SendCall, PageTypeOK, CookiesTypeOK, Told
  <2> QED
    BY <1>1, <2>1, <2>3
<1>4. ASSUME NEW k \in SignCalls, CallLost(k) PROVE SignInInv'
  <2>1. CallTypeOK'
    BY <1>4, NothingIsRecord DEF CallLost, CallTypeOK
  <2>2. PageTypeOK' /\ CookiesTypeOK'
    <3>1. shown' \in BOOLEAN
      BY <1>4 DEF CallLost, PageTypeOK
    <3>2. untold' \in BOOLEAN
      BY <1>4 DEF CallLost, PageTypeOK
    <3> QED
      BY <1>1, <1>4, <3>1, <3>2 DEF CallLost, PageTypeOK, CookiesTypeOK
  <2>3. Told'
    <3>1. SUFFICES ASSUME ~untold' PROVE (shown' <=> cookie' \in live') \/ Asking' \/ Ending'
      BY DEF Told
    <3>2. ~untold /\ k # "logout" /\ ~(k = "delete" /\ call[k].at = "done")
      BY <1>4, <3>1 DEF CallLost, PageTypeOK
    <3>3. (shown' <=> shown) /\ UNCHANGED <<cookie, live>>
      BY <1>4, <3>2 DEF CallLost, PageTypeOK
    <3>4. Ending => Ending'
      BY <1>4, <3>2 DEF CallLost, Ending, CallTypeOK, SignCalls
    <3> QED
      BY <1>1, <3>2, <3>3, <3>4 DEF Told
  <2> QED
    BY <1>1, <2>1, <2>2, <2>3
<1>5. CASE ServeLogin
  <2>1. PICK t \in NewCookies :
          live' = live \cup {t} /\ call' = [call EXCEPT !["login"] = [at |-> "done", token |-> t]]
    BY <1>5 DEF ServeLogin
  <2>2. t \in Cookies /\ t # cookie
    BY DEF NewCookies
  <2>3. CallTypeOK'
    BY <2>1, <2>2 DEF CallTypeOK, SignCall
  <2>4. CookiesTypeOK' /\ PageTypeOK'
    BY <1>5, <2>1, <2>2 DEF ServeLogin, CookiesTypeOK, PageTypeOK
  <2>5. Ending => Ending'
    BY <2>1 DEF Ending, CallTypeOK, SignCalls
  <2>6. Told'
    BY <1>1, <1>5, <2>1, <2>2, <2>5 DEF ServeLogin, Told
  <2> QED
    BY <1>1, <2>3, <2>4, <2>6
<1>6. CASE ServeLogout
  <2>1. CallTypeOK' /\ Ending'
    BY <1>6, <1>2 DEF ServeLogout, CallTypeOK, SignCall, SignCalls, Ending
  <2> QED
    BY <1>1, <1>6, <2>1 DEF ServeLogout, CookiesTypeOK, PageTypeOK, Told
<1>7. CASE ServeDelete
  <2>1. CallTypeOK' /\ Ending'
    BY <1>7, <1>2 DEF ServeDelete, CallTypeOK, SignCall, SignCalls, Ending
  <2> QED
    BY <1>1, <1>7, <2>1 DEF ServeDelete, CookiesTypeOK, PageTypeOK, Told
<1>8. CASE LoginArrives
  <2>1. CallTypeOK'
    BY <1>8, NothingIsRecord DEF LoginArrives, CallTypeOK
  <2>2. CookiesTypeOK' /\ PageTypeOK'
    <3>1. call["login"].token \in Cookies \cup {NoCookie}
      BY <1>2 DEF SignCalls, SignCall
    <3>2. (call["login"].token \notin live) \in BOOLEAN
      OBVIOUS
    <3>3. untold' \in BOOLEAN
      BY <1>8, <3>2, Zenon DEF LoginArrives
    <3> QED
      BY <1>1, <1>8, <3>1, <3>3 DEF LoginArrives, CookiesTypeOK, PageTypeOK
  <2>3. Told'
    BY <1>8 DEF LoginArrives, Told
  <2> QED
    BY <1>1, <2>1, <2>2, <2>3
<1>9. CASE LogoutArrives \/ DeleteArrives
  <2>1. CallTypeOK'
    BY <1>9, NothingIsRecord DEF LogoutArrives, DeleteArrives, CallTypeOK
  <2>2. CookiesTypeOK' /\ PageTypeOK'
    BY <1>1, <1>9 DEF LogoutArrives, DeleteArrives, CookiesTypeOK, PageTypeOK
  <2>3. cookie' = NoCookie /\ shown' = FALSE /\ live' = live
    BY <1>9 DEF LogoutArrives, DeleteArrives
  <2>4. Told'
    BY <2>3, NoSessionWithoutCookie DEF Told
  <2> QED
    BY <1>1, <2>1, <2>2, <2>4
<1> QED
  BY <1>3, <1>4, <1>5, <1>6, <1>7, <1>8, <1>9

LEMMA SignInInvStep == SignInInv /\ [SignInNext]_signInVars => SignInInv'
<1> SUFFICES ASSUME SignInInv, [SignInNext]_signInVars PROVE SignInInv'
  OBVIOUS
<1> USE DEF SignInInv
<1>1. CASE UNCHANGED signInVars
  BY <1>1 DEF signInVars, CookiesTypeOK, PageTypeOK, AskTypeOK, CallTypeOK, Told, Asking, Ending
<1>2. \A k \in SignCalls : NotCalled \in SignCall
  BY NothingIsRecord
<1>3. ASSUME NEW p \in {"public", "protected", "login"}, Load(p) PROVE SignInInv'
  <2>1. PICK q \in Asks : ask' = AskedWith({q}, cookie)
    BY <1>3 DEF Load
  <2>2. {q} \in SUBSET Asks /\ {q} # {} /\ cookie \in Cookies \cup {NoCookie}
    BY DEF CookiesTypeOK
  <2>3. PICK t \in Cookies \cup {NoCookie} : t = cookie
    BY <2>2
  <2>4. AskTypeOK' /\ Asking'
    BY <2>1, <2>2, <2>3, AskedWithTyped
  <2>5. CallTypeOK' /\ CookiesTypeOK' /\ PageTypeOK'
    BY <1>2, <1>3 DEF Load, Admitted, CallTypeOK, CookiesTypeOK, PageTypeOK
  <2> QED
    BY <2>4, <2>5 DEF Told
<1>4. ASSUME NEW p \in {"public", "protected", "login"}, Follow(p) PROVE SignInInv'
  BY <1>4 DEF Follow, Admitted, CookiesTypeOK, PageTypeOK, AskTypeOK, CallTypeOK, Told, Asking, Ending
<1>5. CASE ProviderReturns
  <2>1. PICK t \in NewCookies :
          cookie' = t /\ live' = live \cup {t} /\ ask' = AskedWith(Asks, t)
    BY <1>5 DEF ProviderReturns
  <2>2. t \in Cookies
    BY DEF NewCookies
  <2>3. AskTypeOK' /\ Asking'
    BY <2>1, <2>2, AskedWithTyped, CookiesAssumption
  <2>4. CallTypeOK' /\ CookiesTypeOK' /\ PageTypeOK'
    BY <1>2, <1>5, <2>1, <2>2 DEF ProviderReturns, CallTypeOK, CookiesTypeOK, PageTypeOK
  <2> QED
    BY <2>3, <2>4 DEF Told
<1>6. CASE LeaveProtected
  BY <1>6 DEF LeaveProtected, CookiesTypeOK, PageTypeOK, AskTypeOK, CallTypeOK, Told, Asking, Ending
<1>7. CASE RevokedElsewhere
  BY <1>7 DEF RevokedElsewhere, CookiesTypeOK, PageTypeOK, AskTypeOK, CallTypeOK, Told
<1> QED
  BY <1>1, <1>3, <1>4, <1>5, <1>6, <1>7, QuestionsKeepTold, CallsKeepTold DEF SignInNext

\* Once every answer has come, the page shows a user exactly when its cookie stands for
\* a session that exists, for any number of questions in flight.
THEOREM PageKnowsViewer == SignInSpec => []SignedInShown
<1>1. SignInInv => SignedInShown
  BY DEF SignInInv, Told, Asking, Ending, SignedInShown, SignCalls, NotCalled
<1> QED
  BY <1>1, SignInInvInit, SignInInvStep, PTL DEF SignInSpec

-----------------------------------------------------------------------------
(* The buttons.  A reaction that is not asked for again is right already.  *)
(* The others have one tap on its way at most: once the server has done    *)
(* it, the server holds what was wanted, and before that what the page     *)
(* goes back to is what the server holds.                                  *)

Value == ValuesOf(button.name)
Mutation == [client : {"unused", "waiting", "ok", "error"}, host : {"unused", "waiting", "done", "refused"},
             want : Value, prev : Value \cup {NoData}]

ButtonTyped == button \in [name : {"reaction", "bookmark", "follow", "block"}, given : BOOLEAN]
ValuesTyped == server \in Value /\ cache \in Value \cup {NoData}
FetchTyped == fetch \in [at : {"none", "asked", "read"}, val : Value]
MutsTyped == muts \in [Taps -> Mutation]

\* A reaction that was not given with the page.
ReactionRight ==
  button.name = "reaction" /\ ~button.given /\ ~excused =>
    \/ IsPending
    \/ fetch.at = "asked"
    \/ fetch.at = "read" /\ fetch.val = server
    \/ fetch.at = "none" /\ cache = server

\* The first read of another button is over when it is tapped.
ReadsFirst ==
  button.name # "reaction" /\ fetch.at # "none" =>
    /\ cache = NoData /\ \A i \in Taps : muts[i] = NoMut
    /\ fetch.at = "read" => fetch.val = server

OneTap ==
  button.name # "reaction" =>
    \A i, j \in Taps : muts[i].client = "waiting" /\ muts[j].client = "waiting" => i = j

\* What the page will show, and what it would go back to.
TapRight(i) ==
  IF muts[i].host = "done"
  THEN server = muts[i].want /\ (Optimistic => cache = muts[i].want)
  ELSE IF Optimistic THEN cache = muts[i].want /\ muts[i].prev \in {NoData, server}
       ELSE cache \in {NoData, server}

SwitchRight ==
  button.name # "reaction" /\ ~excused =>
    /\ ~IsPending => cache \in {NoData, server}
    /\ \A i \in Taps : muts[i].client = "waiting" => TapRight(i)

ButtonsInv ==
  /\ ButtonTyped /\ ValuesTyped /\ FetchTyped /\ MutsTyped /\ excused \in BOOLEAN
  /\ ReactionRight /\ ReadsFirst /\ OneTap /\ SwitchRight

LEMMA NoneIsValue == None \in Value /\ NoFetch \in [at : {"none", "asked", "read"}, val : Value]
  /\ Asked \in [at : {"none", "asked", "read"}, val : Value] /\ NoMut \in Mutation
BY DEF Value, ValuesOf, None, NoFetch, Asked, NoMut, Mutation, NoData

LEMMA ButtonsInvInit == ButtonsInit => ButtonsInv
<1> SUFFICES ASSUME ButtonsInit PROVE ButtonsInv
  OBVIOUS
<1> USE DEF ButtonsInit
<1>1. ButtonTyped /\ ValuesTyped /\ FetchTyped /\ MutsTyped /\ excused \in BOOLEAN
  BY NoneIsValue DEF ButtonTyped, ValuesTyped, FetchTyped, MutsTyped, Value
<1>2. ~IsPending /\ \A i \in Taps : muts[i] = NoMut
  BY DEF IsPending, NoMut
<1>3. cache \in {NoData, server} /\ (fetch = Asked => cache = NoData)
  BY DEF Fetches, NoFetch, Asked
<1>4. ReactionRight
  BY DEF ReactionRight, Fetches, Asked
<1>5. ReadsFirst
  BY <1>2, <1>3 DEF ReadsFirst, NoFetch, Asked
<1>6. OneTap /\ SwitchRight
  BY <1>2, <1>3 DEF OneTap, SwitchRight, NoMut
<1> QED
  BY <1>1, <1>4, <1>5, <1>6 DEF ButtonsInv

LEMMA ReadsKeepButton ==
  ASSUME ButtonsInv, FetchRead \/ FetchArrive \/ FetchFail
  PROVE  ButtonsInv'
<1> USE DEF ButtonsInv
<1>1. UNCHANGED <<button, server, muts>>
  BY DEF FetchRead, FetchArrive, FetchFail
<1>2. ButtonTyped' /\ MutsTyped' /\ OneTap' /\ (IsPending' <=> IsPending) /\ Value' = Value
  BY <1>1 DEF ButtonTyped, MutsTyped, OneTap, IsPending, Value, Mutation
<1>3. fetch.at \in {"none", "asked", "read"} /\ fetch.val \in Value
  BY DEF FetchTyped
<1>4. CASE FetchRead
  <2>1. fetch.at = "asked" /\ fetch' = [at |-> "read", val |-> server] /\ UNCHANGED <<cache, excused>>
    BY <1>4 DEF FetchRead
  <2>2. ValuesTyped' /\ FetchTyped'
    BY <1>1, <1>2, <2>1 DEF ValuesTyped, FetchTyped
  <2>3. ReactionRight' /\ ReadsFirst'
    BY <1>1, <2>1 DEF ReactionRight, ReadsFirst
  <2>4. SwitchRight'
    BY <1>1, <1>2, <2>1 DEF SwitchRight, TapRight, Optimistic
  <2> QED
    BY <1>2, <2>1, <2>2, <2>3, <2>4
<1>5. CASE FetchArrive
  <2>1. fetch.at = "read" /\ cache' = fetch.val /\ fetch' = NoFetch /\ UNCHANGED excused
    BY <1>5 DEF FetchArrive
  <2>2. ValuesTyped' /\ FetchTyped'
    BY <1>1, <1>2, <1>3, <2>1, NoneIsValue DEF ValuesTyped, FetchTyped
  <2>3. ReactionRight' /\ ReadsFirst'
    BY <1>1, <1>2, <2>1 DEF ReactionRight, ReadsFirst, NoFetch
  <2>4. SwitchRight'
    BY <1>1, <2>1 DEF SwitchRight, ReadsFirst, NoMut
  <2> QED
    BY <1>2, <2>1, <2>2, <2>3, <2>4
<1>6. CASE FetchFail
  <2>1. fetch' = NoFetch /\ excused' = TRUE /\ UNCHANGED cache
    BY <1>6 DEF FetchFail
  <2>2. ValuesTyped' /\ FetchTyped'
    BY <1>1, <1>2, <2>1, NoneIsValue DEF ValuesTyped, FetchTyped
  <2>3. ReactionRight' /\ ReadsFirst' /\ SwitchRight'
    BY <2>1 DEF ReactionRight, ReadsFirst, SwitchRight, NoFetch
  <2> QED
    BY <1>2, <2>1, <2>2, <2>3
<1> QED
  BY <1>4, <1>5, <1>6

LEMMA ServerKeepsButton ==
  ASSUME ButtonsInv, NEW i \in Taps, Execute(i) \/ Refused(i)
  PROVE  ButtonsInv'
<1> USE DEF ButtonsInv
<1>1. UNCHANGED <<button, cache, fetch>> /\ muts[i].host = "waiting" /\ muts[i] # NoMut
  BY DEF Execute, Refused, NoMut
<1>2. PICK to \in {"done", "refused"} : muts' = [muts EXCEPT ![i].host = to] /\ (Execute(i) <=> to = "done")
  BY DEF Execute, Refused, MutsTyped, Mutation
<1>3. /\ \A j \in Taps : muts'[j].client = muts[j].client /\ muts'[j].want = muts[j].want /\ muts'[j].prev = muts[j].prev
      /\ \A j \in Taps \ {i} : muts'[j].host = muts[j].host
      /\ muts'[i].host = to
  BY <1>2 DEF MutsTyped, Mutation
<1>4. MutsTyped' /\ Value' = Value
  BY <1>1, <1>2 DEF MutsTyped, Mutation, Value
<1>5. ButtonTyped' /\ FetchTyped' /\ OneTap' /\ (IsPending' <=> IsPending)
  BY <1>1, <1>3, <1>4 DEF ButtonTyped, FetchTyped, OneTap, IsPending
<1>6. muts[i].want \in Value
  BY DEF MutsTyped, Mutation
<1>7. CASE Refused(i)
  <2>1. UNCHANGED <<server, excused>> /\ to = "refused"
    BY <1>7, <1>2, <1>3 DEF Refused, MutsTyped, Mutation
  <2>2. ValuesTyped' /\ ReactionRight' /\ ReadsFirst'
    BY <1>1, <1>4, <1>5, <2>1 DEF ValuesTyped, ReactionRight, ReadsFirst
  <2>3. SwitchRight'
    BY <1>1, <1>3, <1>5, <2>1 DEF SwitchRight, TapRight, Optimistic
  <2> QED
    BY <1>4, <1>5, <2>1, <2>2, <2>3
<1>8. CASE Execute(i)
  <2>1. server' = Applied(server, muts[i].want) /\ excused' = (excused \/ muts[i].client # "waiting")
    BY <1>8 DEF Execute
  <2>2. ValuesTyped' /\ excused' \in BOOLEAN
    <3>1. Applied(server, muts[i].want) \in Value
      BY <1>6 , NoneIsValue DEF Applied, Toggled
    <3> QED
      BY <1>1, <1>4, <2>1, <3>1 DEF ValuesTyped
  <2>3. ReadsFirst'
    BY <1>1 DEF ReadsFirst
  <2>4. ~excused' => ~excused /\ muts[i].client = "waiting"
    BY <2>1
  <2>5. ReactionRight'
    BY <2>4, <1>5 DEF ReactionRight, IsPending
  <2>6. SwitchRight'
    BY <1>1, <1>2, <1>3, <1>5, <1>8, <2>1, <2>4 DEF SwitchRight, TapRight, Optimistic, OneTap, IsPending, Applied
  <2> QED
    BY <1>4, <1>5, <2>2, <2>3, <2>5, <2>6
<1> QED
  BY <1>7, <1>8

LEMMA TapKeepsButton ==
  ASSUME ButtonsInv, NEW i \in Taps, NEW want \in Value, Tap(i, want)
  PROVE  ButtonsInv'
<1> USE DEF ButtonsInv
<1> DEFINE tapped == [client |-> "waiting", host |-> "waiting", want |-> want, prev |-> cache]
<1>1. UNCHANGED <<button, server, excused>> /\ fetch' = NoFetch /\ cache' = Expected(want)
  BY DEF Tap
<1>2. tapped \in Mutation /\ muts' = [muts EXCEPT ![i] = tapped]
  BY DEF Tap, Mutation, ValuesTyped
<1>3. /\ tapped.client = "waiting" /\ tapped.host = "waiting"
      /\ tapped.want = want /\ tapped.prev = cache
  OBVIOUS
<1> HIDE DEF tapped
<1>4. MutsTyped' /\ Value' = Value /\ IsPending'
  BY <1>1, <1>2, <1>3 DEF MutsTyped, Mutation, Value, IsPending
<1>5. ButtonTyped' /\ FetchTyped' /\ ReactionRight' /\ ReadsFirst'
  BY <1>1, <1>4, NoneIsValue DEF ButtonTyped, FetchTyped, ReactionRight, ReadsFirst, NoFetch
<1>6. ValuesTyped'
  <2>1. Expected(want) \in Value \cup {NoData}
    BY NoneIsValue DEF Expected, Applied, Toggled, ValuesTyped
  <2> QED
    BY <1>1, <1>4, <2>1 DEF ValuesTyped
<1>7. button.name # "reaction" => \A j \in Taps : muts'[j].client = "waiting" => j = i
  BY <1>2 DEF Tap, IsPending, MutsTyped
<1>8. OneTap'
  BY <1>1, <1>7 DEF OneTap
<1>9. SwitchRight'
  <2>1. SUFFICES ASSUME button.name # "reaction", ~excused PROVE TapRight(i)'
    BY <1>1, <1>4, <1>7 DEF SwitchRight
  <2>2. cache \in {NoData, server}
    BY <2>1 DEF Tap, SwitchRight
  <2>3. Optimistic' <=> Optimistic
    BY <1>1 DEF Optimistic
  <2>4. cache' = IF Optimistic THEN want ELSE cache
    BY <1>1, <2>1 DEF Expected, Applied
  <2>5. muts'[i] = tapped
    BY <1>2 DEF MutsTyped
  <2> QED
    BY <1>1, <1>3, <2>2, <2>3, <2>4, <2>5 DEF TapRight
<1> QED
  BY <1>1, <1>4, <1>5, <1>6, <1>8, <1>9

LEMMA SettleKeepsButton ==
  ASSUME ButtonsInv, NEW i \in Taps, NEW ok \in BOOLEAN, Settle(i, ok)
  PROVE  ButtonsInv'
<1> USE DEF ButtonsInv
<1>1. /\ UNCHANGED <<button, server>>
      /\ muts[i].client = "waiting" /\ (ok => muts[i].host = "done")
      /\ cache' = CacheAfter(i, ok)
  BY DEF Settle
<1>2. PICK to \in {"ok", "error"} : muts' = [muts EXCEPT ![i].client = to]
  BY DEF Settle
<1>3. /\ \A j \in Taps : muts'[j].host = muts[j].host /\ muts'[j].want = muts[j].want /\ muts'[j].prev = muts[j].prev
      /\ \A j \in Taps \ {i} : muts'[j].client = muts[j].client
      /\ muts'[i].client = to
  BY <1>2 DEF MutsTyped, Mutation
<1>4. MutsTyped' /\ Value' = Value
  BY <1>1, <1>2 DEF MutsTyped, Mutation, Value
<1>5. fetch' = IF button.name = "reaction" /\ Fetches THEN Asked ELSE fetch
  BY DEF Settle
<1>6. ButtonTyped' /\ FetchTyped'
  BY <1>1, <1>4, <1>5, NoneIsValue DEF ButtonTyped, FetchTyped
<1>7. ValuesTyped'
  <2>1. CacheAfter(i, ok) \in Value \cup {NoData}
    BY DEF CacheAfter, ValuesTyped, MutsTyped, Mutation
  <2> QED
    BY <1>1, <1>4, <2>1 DEF ValuesTyped
<1>8. excused' \in BOOLEAN
  BY Zenon DEF Settle
<1>9. ReactionRight'
  BY <1>1, <1>5 DEF ReactionRight, Fetches, Asked
<1>10. ReadsFirst'
  BY <1>1, <1>5 DEF ReadsFirst, NoMut
<1>11. OneTap'
  BY <1>1, <1>3 DEF OneTap
<1>12. SwitchRight'
  <2>1. SUFFICES ASSUME button.name # "reaction", ~excused' PROVE SwitchRight'
    BY <1>1 DEF SwitchRight
  <2>2. /\ ~excused
        /\ \/ ok
           \/ muts[i].host # "done" /\ (Optimistic => muts[i].prev # NoData)
    BY <2>1 DEF Settle
  <2>3. TapRight(i)
    BY <1>1, <2>1, <2>2 DEF SwitchRight
  <2>4. CacheAfter(i, ok) \in {NoData, server}
    BY <1>1, <2>2, <2>3 DEF CacheAfter, TapRight
  <2>5. \A j \in Taps : muts'[j].client # "waiting"
    BY <1>1, <1>3, <2>1 DEF OneTap
  <2> QED
    BY <1>1, <2>4, <2>5 DEF SwitchRight
<1> QED
  BY <1>4, <1>6, <1>7, <1>8, <1>9, <1>10, <1>11, <1>12

LEMMA ButtonsInvStep == ButtonsInv /\ [ButtonsNext]_buttonsVars => ButtonsInv'
<1> SUFFICES ASSUME ButtonsInv, [ButtonsNext]_buttonsVars PROVE ButtonsInv'
  OBVIOUS
<1>1. CASE UNCHANGED buttonsVars
  BY <1>1 DEF buttonsVars, ButtonsInv, ButtonTyped, ValuesTyped, FetchTyped, MutsTyped, ReactionRight, ReadsFirst,
     OneTap, SwitchRight, TapRight, Optimistic, IsPending, Value, Mutation
<1>2. ASSUME NEW i \in Taps, NEW want \in ValuesOf(button.name), Tap(i, want) PROVE ButtonsInv'
  BY <1>2, TapKeepsButton DEF Value
<1> QED
  BY <1>1, <1>2, ServerKeepsButton, SettleKeepsButton, ReadsKeepButton DEF ButtonsNext

\* Once nothing is on its way a button shows what the server holds, for any reactions
\* and any number of taps.
THEOREM ButtonAlwaysSettles == ButtonsSpec => []ButtonSettles
<1>1. ButtonsInv => ButtonSettles
  BY DEF ButtonsInv, ReactionRight, ReadsFirst, SwitchRight, ButtonSettles, Quiet, NoFetch, IsPending, ButtonTyped
<1> QED
  BY <1>1, ButtonsInvInit, ButtonsInvStep, PTL DEF ButtonsSpec

-----------------------------------------------------------------------------
(* The report queue.  A report that is owed a decision was made and not    *)
(* withdrawn, and the request that acted on its subject is still at work   *)
(* or its death was noted.                                                 *)

Tabs == {"reports", "deleted", "locked"}
RowsOf(tab) ==
  CASE tab = "reports" -> Keys
    [] tab = "deleted" -> Subjects \X {"restore"}
    [] tab = "locked"  -> Subjects \X {"unsuspend", "unban"}
Row == Keys \cup (Subjects \X {"restore", "unsuspend", "unban"})

PageState == [tab : Tabs, rows : SUBSET Row, loads : SUBSET SUBSET Row, acting : BOOLEAN]
ActState == [at : {"idle", "check", "write", "decide", "audit", "resolve"},
             does : Acts, on : Subjects, key : Keys \cup {NoKey}]

SubjectsTyped ==
  /\ kindOf \in [Subjects -> Kinds]
  /\ marks \in [Subjects -> SUBSET {MarkOf[a] : a \in DOMAIN MarkOf}]
  /\ gone \in SUBSET Subjects
ReportsTyped == reports \in [Keys -> Statuses \cup {NoReport}]
DialogTyped ==
  dialog \in [Reporters -> [at : {"idle", "sending", "insert", "done", "error"}, about : Subjects]]
PageTyped == page \in [Paged -> PageState]
\* A page and the lists on their way to it hold rows of its tab.
RowsOfTab ==
  \A d \in Paged :
    /\ page[d].rows \in SUBSET RowsOf(page[d].tab)
    /\ \A rows \in page[d].loads : rows \in SUBSET RowsOf(page[d].tab)
ActTyped == act \in [Admins -> ActState]
Deciding == \A d \in Admins : act[d].at = "decide" => act[d].does \in Statuses /\ act[d].key \in Keys

OwedReported == owed \in SUBSET Keys /\ dropped \in SUBSET owed /\ \A k \in owed : reports[k] # NoReport

ModerationInv ==
  /\ SubjectsTyped /\ ReportsTyped /\ DialogTyped /\ PageTyped /\ RowsOfTab /\ ActTyped /\ Deciding
  /\ OwedReported /\ QueueDrains

LEMMA ActNames ==
  /\ Acts = {"delete", "restore", "suspend", "unsuspend", "ban", "unban", "verify",
             "PENDING", "RESOLVED", "DISMISSED"}
  /\ DOMAIN MarkOf = {"delete", "restore", "suspend", "unsuspend", "ban", "unban"}
BY DEF Acts, MarkOf, Statuses

LEMMA NothingDone ==
  /\ SomeSubject \in Subjects
  /\ NoDialog \in [at : {"idle", "sending", "insert", "done", "error"}, about : Subjects]
  /\ NoAct \in ActState /\ NoAct.at = "idle"
  /\ ClosedPage \in PageState
<1>1. SomeSubject \in Subjects
  BY ModerationAssumption DEF SomeSubject
<1>2. NoAct \in ActState /\ NoAct.at = "idle"
  BY <1>1, ActNames DEF NoAct, ActState
<1>3. ClosedPage \in PageState
  BY DEF ClosedPage, PageState, Tabs
<1> QED
  BY <1>1, <1>2, <1>3 DEF NoDialog

LEMMA ListedTyped ==
  ASSUME NEW tab \in Tabs
  PROVE  Listed(tab) \in SUBSET RowsOf(tab) /\ Listed(tab) \in SUBSET Row
<1>1. CASE tab = "reports"
  BY <1>1 DEF Listed, RowsOf, Row
<1>2. CASE tab = "deleted"
  <2>1. Listed(tab) = {<<s, "restore">> : s \in {t \in Subjects \ gone : "deleted" \in marks[t]}}
    BY <1>2 DEF Listed
  <2>2. RowsOf(tab) = Subjects \X {"restore"}
    BY <1>2 DEF RowsOf
  <2> QED
    BY <2>1, <2>2 DEF Row
<1>3. CASE tab = "locked"
  <2>1. Listed(tab) = {<<s, IF "banned" \in marks[s] THEN "unban" ELSE "unsuspend">> :
                         s \in {t \in Subjects \ gone : marks[t] \cap {"suspended", "banned"} # {}}}
    BY <1>3 DEF Listed
  <2>2. RowsOf(tab) = Subjects \X {"unsuspend", "unban"}
    BY <1>3 DEF RowsOf
  <2> QED
    BY <2>1, <2>2 DEF Row
<1> QED
  BY <1>1, <1>2, <1>3 DEF Tabs

LEMMA ModerationInvInit == ModerationInit => ModerationInv
<1> SUFFICES ASSUME ModerationInit PROVE ModerationInv
  OBVIOUS
<1> USE DEF ModerationInit
<1>1. SubjectsTyped /\ ReportsTyped
  BY DEF SubjectsTyped, ReportsTyped
<1>2. DialogTyped /\ PageTyped /\ ActTyped /\ Deciding
  BY NothingDone DEF DialogTyped, PageTyped, ActTyped, Deciding
<1>3. RowsOfTab
  BY DEF RowsOfTab, ClosedPage
<1>4. OwedReported /\ QueueDrains
  BY DEF OwedReported, QueueDrains
<1> QED
  BY <1>1, <1>2, <1>3, <1>4 DEF ModerationInv

\* A page with another list, other rows or another flag is still one of its tab.
LEMMA PageChanges ==
  ASSUME PageTyped, RowsOfTab, NEW d \in Paged, NEW p \in PageState,
         p.rows \in SUBSET RowsOf(p.tab), \A rows \in p.loads : rows \in SUBSET RowsOf(p.tab),
         page' = [page EXCEPT ![d] = p]
  PROVE  PageTyped' /\ RowsOfTab'
BY DEF PageTyped, RowsOfTab

LEMMA ListsKeepPage ==
  ASSUME PageTyped, RowsOfTab, NEW d \in Paged,
         RowsArrive(d) \/ RowsFail(d) \/ \E tab \in Tabs : OpenTabOf(d, tab)
  PROVE  PageTyped' /\ RowsOfTab'
<1>1. page[d] \in PageState
  BY DEF PageTyped
<1>2. page[d].rows \in SUBSET RowsOf(page[d].tab) /\ \A rows \in page[d].loads : rows \in SUBSET RowsOf(page[d].tab)
  BY DEF RowsOfTab
<1>3. ASSUME RowsArrive(d) PROVE PageTyped' /\ RowsOfTab'
  <2>1. PICK rows \in page[d].loads : page' = [page EXCEPT ![d].rows = rows, ![d].loads = @ \ {rows}]
    BY <1>3 DEF RowsArrive
  <2> DEFINE p == [page[d] EXCEPT !.rows = rows, !.loads = @ \ {rows}]
  <2>2. p \in PageState /\ p.tab = page[d].tab /\ p.rows = rows /\ p.loads = page[d].loads \ {rows}
    BY <1>1 DEF PageState
  <2>3. page' = [page EXCEPT ![d] = p]
    BY <2>1, <1>1 DEF PageTyped, PageState
  <2> HIDE DEF p
  <2> QED
    BY <2>2, <2>3, <1>2, PageChanges
<1>4. ASSUME RowsFail(d) PROVE PageTyped' /\ RowsOfTab'
  <2>1. PICK rows \in page[d].loads : page' = [page EXCEPT ![d].loads = @ \ {rows}]
    BY <1>4 DEF RowsFail
  <2> DEFINE p == [page[d] EXCEPT !.loads = @ \ {rows}]
  <2>2. p \in PageState /\ p.tab = page[d].tab /\ p.rows = page[d].rows /\ p.loads = page[d].loads \ {rows}
    BY <1>1 DEF PageState
  <2>3. page' = [page EXCEPT ![d] = p]
    BY <2>1, <1>1 DEF PageTyped, PageState
  <2> HIDE DEF p
  <2> QED
    BY <2>2, <2>3, <1>2, PageChanges
<1>5. ASSUME NEW tab \in Tabs, OpenTabOf(d, tab) PROVE PageTyped' /\ RowsOfTab'
  <2> DEFINE p == [tab |-> tab, rows |-> {}, loads |-> {Listed(tab)}, acting |-> FALSE]
  <2>1. page' = [page EXCEPT ![d] = p]
    BY <1>5 DEF OpenTabOf
  <2>2. p \in PageState /\ p.tab = tab /\ p.rows = {} /\ p.loads = {Listed(tab)}
    BY ListedTyped DEF PageState
  <2> HIDE DEF p
  <2> QED
    BY <2>1, <2>2, ListedTyped, PageChanges
<1> QED
  BY <1>3, <1>4, <1>5

LEMMA ActingKeepsPage ==
  ASSUME PageTyped, RowsOfTab, NEW d \in Paged, NEW acting \in BOOLEAN, page' = [page EXCEPT ![d].acting = acting]
  PROVE  PageTyped' /\ RowsOfTab'
<1> DEFINE p == [page[d] EXCEPT !.acting = acting]
<1>1. page[d] \in PageState
  BY DEF PageTyped
<1>2. page[d].rows \in SUBSET RowsOf(page[d].tab) /\ \A rows \in page[d].loads : rows \in SUBSET RowsOf(page[d].tab)
  BY DEF RowsOfTab
<1>3. p \in PageState /\ p.tab = page[d].tab /\ p.rows = page[d].rows /\ p.loads = page[d].loads
  BY <1>1 DEF PageState
<1>4. page' = [page EXCEPT ![d] = p]
  BY <1>1 DEF PageTyped, PageState
<1> HIDE DEF p
<1> QED
  BY <1>2, <1>3, <1>4, PageChanges

\* After an answer.
LEMMA AnswersKeepPage ==
  ASSUME PageTyped, RowsOfTab, NEW d \in Admins, Succeed(d) \/ Refuse(d)
  PROVE  PageTyped' /\ RowsOfTab'
<1>1. CASE page' = page
  BY <1>1 DEF PageTyped, RowsOfTab
<1>2. CASE d \in Paged /\ page' = [page EXCEPT ![d].acting = FALSE]
  BY <1>2, ActingKeepsPage
<1>3. ASSUME d \in Paged, page[d].tab = "reports",
             page' = [page EXCEPT ![d].loads = @ \cup {Listed("reports")}, ![d].acting = FALSE]
      PROVE  PageTyped' /\ RowsOfTab'
  <2>1. PICK listed \in SUBSET Row : listed = Listed("reports") /\ listed \in SUBSET RowsOf("reports")
    BY ListedTyped DEF Tabs
  <2> DEFINE p == [page[d] EXCEPT !.loads = @ \cup {listed}, !.acting = FALSE]
  <2>2. page[d] \in PageState
    BY <1>3 DEF PageTyped
  <2>3. page[d].rows \in SUBSET RowsOf(page[d].tab) /\ \A rows \in page[d].loads : rows \in SUBSET RowsOf(page[d].tab)
    BY <1>3 DEF RowsOfTab
  <2>4. p \in PageState /\ p.tab = "reports" /\ p.rows = page[d].rows /\ p.loads = page[d].loads \cup {listed}
    BY <1>3, <2>2 DEF PageState
  <2>5. page' = [page EXCEPT ![d] = p]
    BY <1>3, <2>1, <2>2 DEF PageTyped, PageState
  <2> HIDE DEF p
  <2> QED
    BY <1>3, <2>1, <2>3, <2>4, <2>5, PageChanges
<1>4. ASSUME d \in Paged,
             page' = [page EXCEPT ![d].rows = {row \in @ : row[1] # act[d].on}, ![d].acting = FALSE]
      PROVE  PageTyped' /\ RowsOfTab'
  <2>1. PICK rows \in SUBSET page[d].rows : rows = {row \in page[d].rows : row[1] # act[d].on}
    OBVIOUS
  <2> DEFINE p == [page[d] EXCEPT !.rows = rows, !.acting = FALSE]
  <2>2. page[d] \in PageState
    BY <1>4 DEF PageTyped
  <2>3. page[d].rows \in SUBSET RowsOf(page[d].tab) /\ \A r \in page[d].loads : r \in SUBSET RowsOf(page[d].tab)
    BY <1>4 DEF RowsOfTab
  <2>4. p \in PageState /\ p.tab = page[d].tab /\ p.rows = rows /\ p.loads = page[d].loads
    BY <2>2 DEF PageState
  <2>5. page' = [page EXCEPT ![d] = p]
    BY <1>4, <2>1, <2>2 DEF PageTyped, PageState
  <2> HIDE DEF p
  <2> QED
    BY <1>4, <2>1, <2>3, <2>4, <2>5, PageChanges
<1> QED
  BY <1>1, <1>2, <1>3, <1>4 DEF Succeed, Refuse

LEMMA ReportersKeepQueue ==
  ASSUME ModerationInv, NEW u \in Reporters,
         \/ TargetExists(u) \/ CreateReport(u) \/ ReportFails(u) \/ CloseDialog(u) \/ DeleteReports(u)
         \/ \E s \in Subjects : SubmitReport(u, s)
  PROVE  ModerationInv'
<1> USE DEF ModerationInv
<1>1. UNCHANGED <<kindOf, marks, gone, page, act>>
  BY DEF TargetExists, CreateReport, ReportFails, CloseDialog, DeleteReports, SubmitReport
<1>2. SubjectsTyped' /\ PageTyped' /\ RowsOfTab' /\ ActTyped' /\ Deciding'
  BY <1>1 DEF SubjectsTyped, PageTyped, RowsOfTab, ActTyped, Deciding
<1>3. DialogTyped'
  <2>1. DialogAt(u, "error") => DialogTyped'
    BY DEF DialogAt, DialogTyped
  <2>2. DialogAt(u, "done") => DialogTyped'
    BY DEF DialogAt, DialogTyped
  <2>3. DialogAt(u, "insert") => DialogTyped'
    BY DEF DialogAt, DialogTyped
  <2>4. UNCHANGED dialog => DialogTyped'
    BY DEF DialogTyped
  <2>5. ASSUME NEW s \in Subjects, dialog' = [dialog EXCEPT ![u] = [at |-> "sending", about |-> s]] PROVE DialogTyped'
    BY <2>5 DEF DialogTyped
  <2>6. dialog' = [dialog EXCEPT ![u] = NoDialog] => DialogTyped'
    BY NothingDone DEF DialogTyped
  <2> QED
    BY <2>1, <2>2, <2>3, <2>4, <2>5, <2>6
    DEF TargetExists, CreateReport, ReportFails, CloseDialog, DeleteReports, SubmitReport
<1>4. ReportsTyped' /\ OwedReported' /\ QueueDrains'
  <2>1. CASE UNCHANGED <<reports, owed, dropped>>
    BY <2>1, <1>1 DEF ReportsTyped, OwedReported, QueueDrains
  <2>2. CASE CreateReport(u)
    <3>1. PICK k \in Keys : reports' = [reports EXCEPT ![k] = IF @ = NoReport THEN "PENDING" ELSE @]
      <4>1. <<u, dialog[u].about>> \in Keys
        BY DEF DialogTyped, Keys
      <4> QED
        BY <4>1, <2>2 DEF CreateReport
    <3>2. UNCHANGED <<owed, dropped>>
      BY <2>2 DEF CreateReport
    <3>3. ReportsTyped' /\ \A j \in owed : reports'[j] = reports[j]
      BY <3>1 DEF ReportsTyped, OwedReported, Statuses
    <3> QED
      BY <1>1, <3>2, <3>3 DEF OwedReported, QueueDrains
  <2>3. CASE DeleteReports(u)
    <3>1. /\ reports' = [k \in Keys |-> IF k[1] = u THEN NoReport ELSE reports[k]]
          /\ owed' = {k \in owed : k[1] # u} /\ dropped' = {k \in dropped : k[1] # u}
      BY <2>3 DEF DeleteReports
    <3>2. ReportsTyped'
      BY <3>1 DEF ReportsTyped
    <3>3. OwedReported' /\ \A j \in owed' : reports'[j] = reports[j] /\ (j \in dropped => j \in dropped')
      BY <3>1 DEF OwedReported
    <3> QED
      BY <1>1, <3>1, <3>2, <3>3 DEF QueueDrains
  <2> QED
    BY <2>1, <2>2, <2>3 DEF TargetExists, ReportFails, CloseDialog, SubmitReport
<1> QED
  BY <1>2, <1>3, <1>4

\* A request that starts, from the page or not.
LEMMA StartsKeepQueue ==
  ASSUME ModerationInv, NEW d \in Admins, act[d] = NoAct,
         NEW r \in ActState, r.at = "check" \/ (r.at = "decide" /\ r.does \in Statuses /\ r.key \in Keys),
         act' = [act EXCEPT ![d] = r],
         UNCHANGED <<kindOf, marks, gone, reports, dialog, owed, dropped>>,
         PageTyped', RowsOfTab'
  PROVE  ModerationInv'
<1> USE DEF ModerationInv
<1>1. SubjectsTyped' /\ ReportsTyped' /\ DialogTyped' /\ OwedReported'
  BY DEF SubjectsTyped, ReportsTyped, DialogTyped, OwedReported
<1>2. ActTyped' /\ Deciding'
  BY DEF ActTyped, Deciding
<1>3. \A e \in Admins : act[e].at \in {"audit", "resolve"} => act'[e] = act[e]
  BY NothingDone DEF ActTyped
<1>4. QueueDrains'
  BY <1>3 DEF QueueDrains
<1> QED
  BY <1>1, <1>2, <1>4

LEMMA ClicksKeepQueue ==
  ASSUME ModerationInv, NEW d \in Paged,
         (page[d].tab = "reports" /\ ClickReport(d)) \/ ClickRestore(d) \/ ClickUnlock(d)
  PROVE  ModerationInv'
<1>1. d \in Admins
  BY ModerationAssumption
<1>2. page[d].rows \in SUBSET RowsOf(page[d].tab)
  BY DEF ModerationInv, RowsOfTab
<1>3. ASSUME NEW tab, NEW at, NEW a \in Acts, NEW s \in Subjects, NEW key \in Keys \cup {NoKey}, Click(d, tab, at, a, s, key),
             at = "check" \/ (at = "decide" /\ a \in Statuses /\ key \in Keys)
      PROVE  ModerationInv'
  <2> DEFINE r == [at |-> at, does |-> a, on |-> s, key |-> key]
  <2>1. r \in ActState /\ r.at = at /\ r.does = a /\ r.key = key
    BY <1>3 DEF ActState
  <2>2. /\ act[d] = NoAct /\ act' = [act EXCEPT ![d] = r]
        /\ page' = [page EXCEPT ![d].acting = TRUE]
        /\ UNCHANGED <<kindOf, marks, gone, reports, dialog, owed, dropped>>
    BY <1>3 DEF Click
  <2>3. PageTyped' /\ RowsOfTab'
    BY <2>2, ActingKeepsPage DEF ModerationInv
  <2> HIDE DEF r
  <2> QED
    BY <1>1, <1>3, <2>1, <2>2, <2>3, StartsKeepQueue
<1>4. CASE page[d].tab = "reports" /\ ClickReport(d)
  <2>1. PICK row \in page[d].rows :
          \/ \E a \in Offered(kindOf[row[2]]) : Click(d, "reports", "check", a, row[2], NoKey)
          \/ \E a \in Decisions : Click(d, "reports", "decide", a, row[2], row)
    BY <1>4 DEF ClickReport
  <2>2. row \in Keys /\ row[2] \in Subjects
    BY <1>2, <1>4, <2>1 DEF RowsOf, Keys
  <2>3. \A a \in Offered(kindOf[row[2]]) \cup Decisions : a \in Acts
    BY ActNames DEF Offered, Decisions
  <2>4. Decisions \subseteq Statuses
    BY DEF Decisions, Statuses
  <2> QED
    BY <2>1, <2>2, <2>3, <2>4, <1>3
<1>5. CASE ClickRestore(d)
  <2>1. PICK row \in page[d].rows : Click(d, "deleted", "check", row[2], row[1], NoKey)
    BY <1>5 DEF ClickRestore
  <2>2. page[d].tab = "deleted"
    BY <2>1 DEF Click
  <2>3. row[1] \in Subjects /\ row[2] \in Acts
    BY <1>2, <2>2, ActNames DEF RowsOf
  <2> QED
    BY <2>1, <2>3, <1>3
<1>6. CASE ClickUnlock(d)
  <2>1. PICK row \in page[d].rows : Click(d, "locked", "check", row[2], row[1], NoKey)
    BY <1>6 DEF ClickUnlock
  <2>2. page[d].tab = "locked"
    BY <2>1 DEF Click
  <2>3. row[1] \in Subjects /\ row[2] \in Acts
    BY <1>2, <2>2, ActNames DEF RowsOf
  <2> QED
    BY <2>1, <2>3, <1>3
<1> QED
  BY <1>4, <1>5, <1>6

LEMMA CallsKeepQueue ==
  ASSUME ModerationInv, NEW d \in Admins \ Paged, Call(d)
  PROVE  ModerationInv'
<1>1. act[d] = NoAct /\ UNCHANGED <<kindOf, marks, gone, reports, dialog, page, owed, dropped>>
  BY DEF Call
<1>2. PageTyped' /\ RowsOfTab'
  BY <1>1 DEF ModerationInv, PageTyped, RowsOfTab
<1>3. CASE \E s \in Subjects :
             \E a \in IF kindOf[s] = "USER"
                      THEN {"suspend", "unsuspend", "ban", "unban", "verify"}
                      ELSE {"delete", "restore"} :
               act' = [act EXCEPT ![d] = [at |-> "check", does |-> a, on |-> s, key |-> NoKey]]
  <2>1. PICK s \in Subjects, a \in Acts : act' = [act EXCEPT ![d] = [at |-> "check", does |-> a, on |-> s, key |-> NoKey]]
    BY <1>3, ActNames
  <2>2. [at |-> "check", does |-> a, on |-> s, key |-> NoKey] \in ActState
    BY DEF ActState
  <2> QED
    BY <1>1, <1>2, <2>1, <2>2, StartsKeepQueue
<1>4. CASE \E k \in Keys : \E a \in Statuses :
             act' = [act EXCEPT ![d] = [at |-> "decide", does |-> a, on |-> k[2], key |-> k]]
  <2>1. PICK k \in Keys, a \in Statuses : act' = [act EXCEPT ![d] = [at |-> "decide", does |-> a, on |-> k[2], key |-> k]]
    BY <1>4
  <2>2. [at |-> "decide", does |-> a, on |-> k[2], key |-> k] \in ActState
    BY ActNames DEF ActState, Keys, Statuses
  <2> QED
    BY <1>1, <1>2, <2>1, <2>2, StartsKeepQueue
<1> QED
  BY <1>3, <1>4 DEF Call

\* What a step of a request leaves of the request.
LEMMA RequestStepTyped ==
  ASSUME ModerationInv, NEW d \in Admins, ActStep(d)
  PROVE  /\ ActTyped' /\ Deciding' /\ PageTyped' /\ RowsOfTab'
         /\ \A e \in Admins \ {d} : act'[e] = act[e]
<1> USE DEF ModerationInv
<1>1. \/ \E at \in {"write", "audit", "resolve"} : Goto(d, at)
      \/ Succeed(d)
      \/ Refuse(d)
  BY DEF ActStep, Check, WriteSubject, Decide, Audit, AutoResolve, ActFails
<1>2. ASSUME NEW at \in {"write", "audit", "resolve"}, Goto(d, at)
      PROVE  /\ ActTyped' /\ Deciding' /\ PageTyped' /\ RowsOfTab'
             /\ \A e \in Admins \ {d} : act'[e] = act[e]
  BY <1>2 DEF Goto, ActTyped, ActState, Deciding, PageTyped, RowsOfTab
<1>3. CASE Succeed(d) \/ Refuse(d)
  <2>1. act' = [act EXCEPT ![d] = NoAct]
    BY <1>3 DEF Succeed, Refuse
  <2> QED
    BY <1>3, <2>1, AnswersKeepPage, NothingDone DEF ActTyped, Deciding
<1> QED
  BY <1>1, <1>2, <1>3

LEMMA WriteKeepsQueue ==
  ASSUME ModerationInv, NEW d \in Admins, WriteSubject(d)
  PROVE  SubjectsTyped' /\ OwedReported' /\ QueueDrains'
<1> USE DEF ModerationInv
<1> DEFINE s == act[d].on
           a == act[d].does
<1>1. s \in Subjects /\ a \in Acts
  BY DEF ActTyped, ActState
<1>2. UNCHANGED <<kindOf, gone, reports, dropped>> /\ act[d].at = "write"
  BY DEF WriteSubject
<1>3. (Goto(d, "audit") \/ Refuse(d)) /\ \A e \in Admins \ {d} : act'[e] = act[e]
  BY DEF WriteSubject, Goto, Refuse, ActTyped
<1>4. CASE UNCHANGED <<marks, owed>>
  <2>1. \A e \in Admins : act[e].at \in {"audit", "resolve"} => act'[e] = act[e]
    BY <1>2, <1>3
  <2> QED
    BY <1>2, <1>4, <2>1 DEF SubjectsTyped, OwedReported, QueueDrains
<1>5. CASE /\ marks' = [marks EXCEPT ![s] = Marked(s, a)]
           /\ owed' = IF a \in Resolving
                      THEN owed \cup {k \in Keys : k[2] = s /\ reports[k] = "PENDING"} ELSE owed
           /\ Goto(d, "audit")
  <2>1. Marked(s, a) \in SUBSET {MarkOf[b] : b \in DOMAIN MarkOf}
    <3>1. a \in Sets => a \in DOMAIN MarkOf
      BY ActNames DEF Sets
    <3>2. marks[s] \in SUBSET {MarkOf[b] : b \in DOMAIN MarkOf}
      BY <1>1 DEF SubjectsTyped
    <3>3. CASE a \in Sets
      BY <3>1, <3>2, <3>3 DEF Marked
    <3>4. CASE a \notin Sets
      BY <3>2, <3>4 DEF Marked
    <3> QED
      BY <3>3, <3>4
  <2>2. SubjectsTyped'
    BY <1>1, <1>2, <1>5, <2>1 DEF SubjectsTyped
  <2>3. OwedReported'
    BY <1>2, <1>5 DEF OwedReported, NoReport
  <2>4. act'[d].at = "audit" /\ act'[d].does = a /\ act'[d].on = s
    BY <1>5 DEF Goto, ActTyped, ActState
  <2>5. \A e \in Admins : act[e].at \in {"audit", "resolve"} => act'[e] = act[e]
    BY <1>2, <1>3
  <2>6. \A k \in owed' : k \in owed \/ (k[2] = s /\ a \in Resolving)
    BY <1>5
  <2> HIDE DEF s, a
  <2>7. QueueDrains'
    BY <1>2, <2>4, <2>5, <2>6 DEF QueueDrains
  <2> QED
    BY <2>2, <2>3, <2>7
<1> QED
  BY <1>4, <1>5 DEF WriteSubject

LEMMA ActStepKeepsQueue ==
  ASSUME ModerationInv, NEW d \in Admins, ActStep(d)
  PROVE  ModerationInv'
<1> USE DEF ModerationInv
<1>2. /\ ActTyped' /\ Deciding' /\ PageTyped' /\ RowsOfTab'
      /\ \A e \in Admins \ {d} : act'[e] = act[e]
  BY RequestStepTyped
<1>3. UNCHANGED dialog /\ DialogTyped'
  BY DEF ActStep, Check, WriteSubject, Decide, Audit, AutoResolve, ActFails, DialogTyped
<1>4. CASE Check(d)
  <2>1. UNCHANGED <<kindOf, marks, gone, reports, owed, dropped>> /\ act[d].at = "check"
    BY <1>4 DEF Check
  <2>2. \A e \in Admins : act[e].at \in {"audit", "resolve"} => act'[e] = act[e]
    BY <1>2, <2>1
  <2> QED
    BY <1>2, <1>3, <2>1, <2>2 DEF SubjectsTyped, ReportsTyped, OwedReported, QueueDrains
<1>5. CASE WriteSubject(d)
  BY <1>2, <1>3, <1>5, WriteKeepsQueue DEF WriteSubject, ReportsTyped
<1>6. CASE Decide(d)
  <2> DEFINE k == act[d].key
             reopened == {j \in {k} : act[d].does = "PENDING" /\ reports[k] # "PENDING"}
  <2>1. UNCHANGED <<kindOf, marks, gone>> /\ act[d].at = "decide"
    BY <1>6 DEF Decide
  <2>2. \A e \in Admins : act[e].at \in {"audit", "resolve"} => act'[e] = act[e]
    BY <1>2, <2>1
  <2>3. CASE UNCHANGED <<reports, owed, dropped>>
    BY <1>2, <1>3, <2>1, <2>2, <2>3 DEF SubjectsTyped, ReportsTyped, OwedReported, QueueDrains
  <2>4. CASE /\ reports' = [reports EXCEPT ![k] = act[d].does]
             /\ owed' = owed \ reopened /\ dropped' = dropped \ reopened
    <3>1. act[d].does \in Statuses
      BY <2>1 DEF Deciding
    <3>2. /\ ReportsTyped'
          /\ \A j \in Keys : reports'[j] = reports[j] \/ (j = k /\ reports'[j] = act[d].does)
      BY <2>4, <3>1 DEF ReportsTyped
    <3>3. OwedReported'
      BY <2>4, <3>1, <3>2 DEF OwedReported, Statuses, NoReport
    \* A report that becomes pending here is not owed any more.
    <3>4. \A j \in owed' : j \in owed /\ (j \in dropped => j \in dropped') /\ (reports'[j] = "PENDING" => reports[j] = "PENDING")
      BY <2>4, <3>2 DEF OwedReported
    <3> HIDE DEF k, reopened
    <3>5. QueueDrains'
      BY <2>2, <3>4 DEF QueueDrains
    <3> QED
      BY <1>2, <1>3, <2>1, <3>2, <3>3, <3>5 DEF SubjectsTyped
  <2> QED
    BY <1>6, <2>3, <2>4 DEF Decide
<1>7. CASE Audit(d)
  <2>1. UNCHANGED <<kindOf, marks, gone, reports, owed, dropped>> /\ act[d].at = "audit"
    BY <1>7 DEF Audit
  <2>2. act[d].does \in Resolving =>
          act'[d].at = "resolve" /\ act'[d].does = act[d].does /\ act'[d].on = act[d].on
    BY <1>7 DEF Audit, Goto, ActTyped, ActState
  <2>3. QueueDrains'
    BY <1>2, <2>1, <2>2 DEF QueueDrains
  <2> QED
    BY <1>2, <1>3, <2>1, <2>3 DEF SubjectsTyped, ReportsTyped, OwedReported
<1>8. CASE AutoResolve(d)
  <2>1. /\ UNCHANGED <<kindOf, marks, gone, owed, dropped>>
        /\ reports' = [k \in Keys |-> IF k[2] = act[d].on /\ reports[k] = "PENDING"
                                      THEN "RESOLVED" ELSE reports[k]]
    BY <1>8 DEF AutoResolve
  <2>2. ReportsTyped' /\ OwedReported'
    BY <2>1 DEF ReportsTyped, OwedReported, Statuses, NoReport
  <2>3. ASSUME NEW k \in owed', reports'[k] = "PENDING"
        PROVE  \/ k \in dropped'
               \/ \E e \in Admins : act'[e].on = k[2] /\ act'[e].does \in Resolving /\ act'[e].at \in {"audit", "resolve"}
    <3>1. k \in owed /\ reports[k] = "PENDING" /\ k[2] # act[d].on
      BY <2>1, <2>3 DEF OwedReported
    <3> QED
      BY <1>2, <2>1, <3>1 DEF QueueDrains
  <2>4. QueueDrains'
    BY <2>3 DEF QueueDrains
  <2> QED
    BY <1>2, <1>3, <2>1, <2>2, <2>4 DEF SubjectsTyped
<1>9. CASE ActFails(d)
  <2>1. /\ UNCHANGED <<kindOf, marks, gone, reports, owed>>
        /\ dropped' = IF act[d].at \in {"audit", "resolve"} /\ act[d].does \in Resolving
                      THEN dropped \cup {k \in owed : k[2] = act[d].on} ELSE dropped
    BY <1>9 DEF ActFails
  <2>2. OwedReported'
    BY <2>1 DEF OwedReported
  <2>3. QueueDrains'
    BY <1>2, <2>1 DEF QueueDrains
  <2> QED
    BY <1>2, <1>3, <2>1, <2>2, <2>3 DEF SubjectsTyped, ReportsTyped
<1> QED
  BY <1>4, <1>5, <1>6, <1>7, <1>8, <1>9 DEF ActStep

LEMMA ModerationInvStep == ModerationInv /\ [ModerationNext]_moderationVars => ModerationInv'
<1> SUFFICES ASSUME ModerationInv, [ModerationNext]_moderationVars PROVE ModerationInv'
  OBVIOUS
<1>1. CASE UNCHANGED moderationVars
  BY <1>1 DEF moderationVars, ModerationInv, SubjectsTyped, ReportsTyped, DialogTyped, PageTyped, RowsOfTab, ActTyped,
     Deciding, OwedReported, QueueDrains
<1>2. ASSUME NEW d \in Paged,
             RowsArrive(d) \/ RowsFail(d) \/ \E tab \in {"reports", "deleted", "locked"} : OpenTabOf(d, tab)
      PROVE  ModerationInv'
  <2>1. UNCHANGED <<kindOf, marks, gone, reports, dialog, act, owed, dropped>>
    BY <1>2 DEF RowsArrive, RowsFail, OpenTabOf
  <2>2. PageTyped' /\ RowsOfTab'
    BY <1>2, ListsKeepPage DEF ModerationInv, Tabs
  <2> QED
    BY <2>1, <2>2 DEF ModerationInv, SubjectsTyped, ReportsTyped, DialogTyped, ActTyped, Deciding, OwedReported, QueueDrains
<1>3. ASSUME NEW s \in Subjects, RemoveOwn(s) \/ DeleteSubject(s) PROVE ModerationInv'
  <2>1. UNCHANGED <<kindOf, reports, dialog, page, act, owed, dropped>>
    BY <1>3 DEF RemoveOwn, DeleteSubject
  <2>2. "deleted" \in {MarkOf[a] : a \in DOMAIN MarkOf}
    BY DEF MarkOf
  <2>3. SubjectsTyped'
    BY <1>3, <2>2 DEF RemoveOwn, DeleteSubject, ModerationInv, SubjectsTyped
  <2> QED
    BY <2>1, <2>3 DEF ModerationInv, ReportsTyped, DialogTyped, PageTyped, RowsOfTab, ActTyped, Deciding, OwedReported, QueueDrains
<1> QED
  BY <1>1, <1>2, <1>3, ReportersKeepQueue, ClicksKeepQueue, CallsKeepQueue, ActStepKeepsQueue DEF ModerationNext

\* A report that was pending when its subject was removed or locked does not stay
\* pending, unless the request that was to resolve it is under way or died; only an
\* administrator's call of the API that says so makes a settled one pending again.
THEOREM QueueAlwaysDrains == ModerationSpec => []QueueDrains
<1>1. ModerationInv => QueueDrains
  BY DEF ModerationInv
<1> QED
  BY <1>1, ModerationInvInit, ModerationInvStep, PTL DEF ModerationSpec

LEMMA DecisionStandsStep ==
  ASSUME ModerationInv, ModerationNext, NEW k \in Keys, reports[k] \in Decisions, reports'[k] # reports[k]
  PROVE  reports'[k] = NoReport \/ \E d \in Admins : act[d].at = "decide" /\ act[d].key = k
<1>1. reports[k] # NoReport /\ reports[k] # "PENDING"
  BY DEF Decisions, NoReport
<1>2. ReportsTyped
  BY DEF ModerationInv
<1>3. ASSUME NEW u \in Reporters, DeleteReports(u) PROVE reports'[k] = NoReport
  BY <1>3 DEF DeleteReports
<1>4. \A u \in Reporters : ~CreateReport(u)
  BY <1>1, <1>2 DEF CreateReport, ReportsTyped
<1>5. ASSUME NEW d \in Admins, Decide(d) PROVE act[d].at = "decide" /\ act[d].key = k
  BY <1>2, <1>5 DEF Decide, ReportsTyped
<1>6. \A d \in Admins : ~AutoResolve(d)
  BY <1>1 DEF AutoResolve
<1>7. \A u \in Reporters : ~TargetExists(u) /\ ~ReportFails(u) /\ ~CloseDialog(u) /\ \A s \in Subjects : ~SubmitReport(u, s)
  BY DEF TargetExists, ReportFails, CloseDialog, SubmitReport
<1>8. \A d \in Paged :
        /\ ~RowsArrive(d) /\ ~RowsFail(d) /\ ~ClickReport(d) /\ ~ClickRestore(d) /\ ~ClickUnlock(d)
        /\ \A tab \in {"reports", "deleted", "locked"} : ~OpenTabOf(d, tab)
  BY DEF RowsArrive, RowsFail, ClickReport, ClickRestore, ClickUnlock, Click, OpenTabOf
<1>9. \A d \in Admins : ~Call(d) /\ ~Check(d) /\ ~WriteSubject(d) /\ ~Audit(d) /\ ~ActFails(d)
  BY DEF Call, Check, WriteSubject, Audit, ActFails
<1>10. \A s \in Subjects : ~RemoveOwn(s) /\ ~DeleteSubject(s)
  BY DEF RemoveOwn, DeleteSubject
<1> QED
  BY <1>3, <1>4, <1>5, <1>6, <1>7, <1>8, <1>9, <1>10 DEF ModerationNext, ActStep

\* What an administrator decided about a report only an administrator's decision
\* changes, however requests about the same subject overlap.
THEOREM DecisionsAlwaysStand == ModerationSpec => DecisionsStand
<1> DEFINE Stand == \A k \in Keys :
             reports[k] \in Decisions /\ reports'[k] # reports[k] =>
               \/ reports'[k] = NoReport
               \/ \E d \in Admins : act[d].at = "decide" /\ act[d].key = k
<1>1. ModerationInv /\ ModerationNext => Stand
  BY DecisionStandsStep
<1>2. ModerationInv /\ [ModerationNext]_moderationVars => [Stand]_moderationVars
  BY <1>1
<1> QED
  BY <1>2, ModerationInvInit, ModerationInvStep, PTL DEF ModerationSpec, DecisionsStand

-----------------------------------------------------------------------------
(* The types of everything the client keeps.                               *)

\* What CreateInv does not say of the form's companions.
CompanionsTyped ==
  /\ jobs \in [Slots -> {"none", "waiting", "active", "completed", "failed"}]
  /\ loading \in BOOLEAN
  /\ files \in 0..MaxFiles

LEMMA CompanionsInit == CreatePostInit => CompanionsTyped
<1> SUFFICES ASSUME CreatePostInit PROVE CompanionsTyped
  OBVIOUS
<1>1. files \in 0..MaxFiles
  BY LimitsNatural DEF CreatePostInit
<1> QED
  BY <1>1 DEF CreatePostInit, CompanionsTyped

LEMMA CompanionsStep == CompanionsTyped /\ [CreatePostNext]_createPostVars => CompanionsTyped'
<1> SUFFICES ASSUME CompanionsTyped, [CreatePostNext]_createPostVars PROVE CompanionsTyped'
  OBVIOUS
<1> USE DEF CompanionsTyped
<1>1. CASE UNCHANGED createPostVars
  BY <1>1 DEF createPostVars
<1>2. ASSUME NEW i \in Slots, RunScrape(i) \/ RequestScrape(i) \/ WorkScrape(i) \/ PollScrape(i) \/ PollFails(i)
      PROVE  CompanionsTyped'
  <2>1. UNCHANGED files
    BY <1>2 DEF RunScrape, RequestScrape, WorkScrape, PollScrape, PollFails
  <2>2. loading' \in {loading, TRUE, FALSE}
    BY <1>2 DEF RunScrape, RequestScrape, ScrapeAtOnce, WorkScrape, PollScrape, PollFails, ApplyScraped, EndScrape
  <2>3. \/ UNCHANGED jobs
        \/ \E to \in {"waiting", "active", "completed", "failed"} : jobs' = [jobs EXCEPT ![i] = to]
    BY <1>2 DEF RunScrape, RequestScrape, ScrapeAtOnce, WorkScrape, PollScrape, PollFails
  <2>4. jobs' \in [Slots -> {"none", "waiting", "active", "completed", "failed"}]
    BY <2>3
  <2>5. loading' \in BOOLEAN
    BY <2>2
  <2> QED
    BY <2>1, <2>4, <2>5
<1>3. CASE UploadImage
  BY <1>3, LimitsNatural DEF UploadImage
<1>4. CASE \/ \E url \in Urls \cup {NoUrl} : TypeUrl(url)
           \/ \E title \in {"none", "typed"} : TypeTitle(title)
           \/ \E n \in 1..MaxImages : ChooseFiles(n)
           \/ FinishUpload
           \/ \E x \in form.images : RemoveImage(x)
           \/ Submit \/ Create \/ CreateAnswer
  <2>1. UNCHANGED <<jobs, loading, files>>
    BY <1>4 DEF TypeUrl, TypeTitle, ChooseFiles, FinishUpload, RemoveImage, Submit, Create, CreateAnswer
  <2> QED
    BY <2>1
<1> QED
  BY <1>1, <1>2, <1>3, <1>4 DEF CreatePostNext

LEMMA CreatePostTyped == CreateInv /\ CompanionsTyped => CreatePostTypeOK
BY DEF CreateInv, CompanionsTyped, CreatePostTypeOK, FormTypeOK, UploadTypeOK, SendingTypeOK, ScrapesTypeOK, Links

LEMMA ButtonsTyped == ButtonsInv => ButtonsTypeOK
BY DEF ButtonsInv, ButtonTyped, ValuesTyped, FetchTyped, MutsTyped, ButtonsTypeOK, Value, Mutation

LEMMA ModerationTyped == ModerationInv => ModerationTypeOK
<1> SUFFICES ASSUME ModerationInv PROVE ModerationTypeOK
  OBVIOUS
<1>1. ASSUME NEW d \in Paged
      PROVE  /\ page[d].tab \in {"reports", "deleted", "locked"} /\ page[d].acting \in BOOLEAN
             /\ \A rows \in page[d].loads \cup {page[d].rows} :
                  rows \subseteq Keys \cup (Subjects \X {"restore", "unsuspend", "unban"})
  BY DEF ModerationInv, PageTyped, PageState, Tabs, Row
<1>2. owed \subseteq Keys /\ dropped \subseteq owed
  BY DEF ModerationInv, OwedReported
<1>3. act \in [Admins -> [at : {"idle", "check", "write", "decide", "audit", "resolve"},
                          does : Acts, on : Subjects, key : Keys \cup {NoKey}]]
  BY DEF ModerationInv, ActTyped, ActState
<1>4. /\ kindOf \in [Subjects -> Kinds]
      /\ marks \in [Subjects -> SUBSET {MarkOf[a] : a \in DOMAIN MarkOf}]
      /\ gone \subseteq Subjects
      /\ reports \in [Keys -> Statuses \cup {NoReport}]
      /\ dialog \in [Reporters -> [at : {"idle", "sending", "insert", "done", "error"}, about : Subjects]]
  BY DEF ModerationInv, SubjectsTyped, ReportsTyped, DialogTyped
<1> QED
  BY <1>1, <1>2, <1>3, <1>4 DEF ModerationTypeOK

\* The parts side by side: a step of one leaves the others alone.
ClientInv == ModerationInv /\ ButtonsInv /\ ClicksInv /\ SignInInv /\ CreateInv /\ CompanionsTyped

LEMMA ClientInvStep == ClientInv /\ [Next]_vars => ClientInv'
<1> SUFFICES ASSUME ClientInv, [Next]_vars PROVE ClientInv'
  OBVIOUS
<1>1. [ModerationNext]_moderationVars
  BY DEF Next, vars
<1>2. [ButtonsNext]_buttonsVars
  BY DEF Next, vars
<1>3. [ClicksNext]_clicksVars
  BY DEF Next, vars
<1>4. [SignInNext]_signInVars
  BY DEF Next, vars
<1>5. [CreatePostNext]_createPostVars
  BY DEF Next, vars
<1> QED
  BY <1>1, <1>2, <1>3, <1>4, <1>5, ModerationInvStep, ButtonsInvStep, ClicksInvStep, SignInInvStep, CreateInvStep,
     CompanionsStep DEF ClientInv

\* All that the pages of the client keep has its type, whatever parts of it there are.
THEOREM ClientTypeCorrect == Spec => []TypeOK
<1>1. Init => ClientInv
  BY ModerationInvInit, ButtonsInvInit, ClicksInvInit, SignInInvInit, CreateInvInit, CompanionsInit DEF Init, ClientInv
<1>2. ClientInv => TypeOK
  BY ModerationTyped, ButtonsTyped, SignInTyped, CreatePostTyped DEF ClientInv, ClicksInv, SignInInv, TypeOK
<1> QED
  BY <1>1, <1>2, ClientInvStep, PTL DEF Spec
=============================================================================
