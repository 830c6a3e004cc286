------------------------------- MODULE Clicks -------------------------------
(***************************************************************************)
(* The redirect of an affiliate link: TrackerService.trackAndResolve, and  *)
(* claimDedup, which lets one click of an address count per hour.  It      *)
(* claims the hour in Redis, and asks the click log where Redis does not   *)
(* answer.                                                                 *)
(*                                                                         *)
(* One post and one address.  `unsure` is no state of the system.          *)
(***************************************************************************)
EXTENDS Integers

CONSTANTS
  Clickers,   \* requests in flight at once
  MaxClicks   \* bound on the clicks recorded in an hour

ASSUME ClicksAssumption == MaxClicks \in Nat

VARIABLES
  postHidden,   \* the post is removed, or its author banned
  clickKey,     \* Redis holds the key of the address
  recent,       \* clicks of the address in the log of the last hour
  clicker,      \* what each request does
  unsure        \* the log gave the hour away, or Redis lost a key of it

clicksVars == <<postHidden, clickKey, recent, clicker, unsure>>

ClicksInit ==
  /\ postHidden = FALSE
  /\ clickKey = FALSE
  /\ recent = 0
  /\ clicker = [c \in Clickers |-> "idle"]
  /\ unsure = FALSE

-----------------------------------------------------------------------------
\* The post is there and visible, and one of its links is valid.
ResolvePost(c) ==
  /\ clicker[c] = "idle"
  /\ ~postHidden
  /\ clicker' = [clicker EXCEPT ![c] = "claim"]
  /\ UNCHANGED <<postHidden, clickKey, recent, unsure>>

\* SET NX: the first one records its click, the others are only redirected.
ClaimHour(c) ==
  /\ clicker[c] = "claim"
  /\ clickKey' = TRUE
  /\ clicker' = [clicker EXCEPT ![c] = IF clickKey THEN "idle" ELSE "record"]
  /\ UNCHANGED <<postHidden, recent, unsure>>

\* Redis does not answer; a claim it took all the same is lost.
ClaimFails(c) ==
  /\ clicker[c] = "claim"
  /\ clickKey' \in {clickKey, TRUE}
  /\ clicker' = [clicker EXCEPT ![c] = "look"]
  /\ UNCHANGED <<postHidden, recent, unsure>>

\* Mutant: without Redis every click counts.
CountWithoutRedis(c) ==
  /\ clicker[c] = "look"
  /\ clicker' = [clicker EXCEPT ![c] = "record"]
  /\ unsure' = (unsure \/ recent = 0)
  /\ UNCHANGED <<postHidden, clickKey, recent>>

\* The log knows of no recent click: this one is recorded.
LookInLog(c) ==
  /\ clicker[c] = "look"
  /\ clicker' = [clicker EXCEPT ![c] = IF recent = 0 THEN "record" ELSE "idle"]
  /\ unsure' = (unsure \/ recent = 0)
  /\ UNCHANGED <<postHidden, clickKey, recent>>

\* Click log, the post's counter and the author's, in one transaction.
RecordClick(c) ==
  /\ clicker[c] = "record"
  /\ recent < MaxClicks
  /\ recent' = recent + 1
  /\ clicker' = [clicker EXCEPT ![c] = "idle"]
  /\ UNCHANGED <<postHidden, clickKey, unsure>>

\* An error ends the request; a claim of its stays.
ClickFails(c) ==
  /\ clicker[c] # "idle"
  /\ clicker' = [clicker EXCEPT ![c] = "idle"]
  /\ UNCHANGED <<postHidden, clickKey, recent, unsure>>

\* Redis comes back from a crash without its last second.
LoseClickKey ==
  /\ clickKey
  /\ clickKey' = FALSE
  /\ unsure' = TRUE
  /\ UNCHANGED <<postHidden, recent, clicker>>

\* The key expires and the click is no longer recent.  No request takes an hour, and
\* what passes between the claim and the click is neglected.
HourEnds ==
  /\ \A c \in Clickers : clicker[c] = "idle"
  /\ clickKey' = FALSE
  /\ recent' = 0
  /\ unsure' = FALSE
  /\ UNCHANGED <<postHidden, clicker>>

HidePost ==
  /\ postHidden' = ~postHidden
  /\ UNCHANGED <<clickKey, recent, clicker, unsure>>

ClicksNext ==
  \/ \E c \in Clickers :
       \/ ResolvePost(c) \/ ClaimHour(c) \/ ClaimFails(c)
       \/ LookInLog(c) \/ RecordClick(c) \/ ClickFails(c)
  \/ LoseClickKey \/ HourEnds \/ HidePost

ClicksSpec == ClicksInit /\ [][ClicksNext]_clicksVars

-----------------------------------------------------------------------------
ClicksTypeOK ==
  /\ postHidden \in BOOLEAN /\ clickKey \in BOOLEAN /\ unsure \in BOOLEAN
  /\ recent \in 0..MaxClicks
  /\ clicker \in [Clickers -> {"idle", "claim", "look", "record"}]

\* An address counts once per hour, however its requests overlap and also if Redis
\* fails between them: only a click that the log gave away, or a key that Redis
\* lost, may be followed by another.
ClicksOncePerHour == recent > 1 => unsure
=============================================================================
