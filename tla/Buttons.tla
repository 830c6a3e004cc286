------------------------------ MODULE Buttons -------------------------------
(***************************************************************************)
(* The buttons of the web client that show what the server holds about the *)
(* viewer, and change it: reaction, bookmark, follow and block.  Each has  *)
(* a cache entry, mutations in flight, and perhaps a query that reads the  *)
(* server's value.  A page that already knows the value hands it over, and *)
(* then the query never runs.                                              *)
(*                                                                         *)
(* Nobody else writes the value, and the server executes a request in one  *)
(* step: its own races are Engagement's and Follows'.                      *)
(***************************************************************************)
EXTENDS Integers, FiniteSets

CONSTANTS
  ReactionKinds,  \* the reactions the picker offers
  MaxTaps         \* bound on the taps

ASSUME ButtonsAssumption == MaxTaps \in Nat /\ "none" \notin ReactionKinds

VARIABLES
  button,   \* which button it is, and whether the page gave its value: for good
  server,   \* the value in the database
  cache,    \* the value in the query cache
  fetch,    \* the query: what it does, and the value it read
  muts,     \* tap -> its mutation
  excused   \* something happened after which the button may be wrong

buttonsVars == <<button, server, cache, fetch, muts, excused>>

Taps == 1..MaxTaps
None == "none"
NoData == "no data"
NoFetch == [at |-> "none", val |-> None]
Asked == [at |-> "asked", val |-> None]
\* `client` is what the page knows of the mutation, `host` what the server does with it.
NoMut == [client |-> "unused", host |-> "unused", want |-> None, prev |-> NoData]

\* Values of a button: a reaction, or set and not set.
ValuesOf(name) == IF name = "reaction" THEN ReactionKinds \cup {None} ELSE {"set", None}
\* The block button keeps its value itself and never asks for it.
Fetches == button.name # "block" /\ ~button.given
Optimistic == button.name # "block"

ButtonsInit ==
  /\ button \in [name : {"reaction", "bookmark", "follow", "block"}, given : BOOLEAN]
  /\ button.name = "block" => ~button.given
  /\ server \in ValuesOf(button.name)
  /\ cache = IF button.given THEN server ELSE NoData
  /\ fetch = IF Fetches THEN Asked ELSE NoFetch
  /\ muts = [i \in Taps |-> NoMut]
  /\ excused = FALSE

\* What the button shows before it has a value is "not set".
Shown == IF cache = NoData THEN None ELSE cache

\* The same reaction again takes it back, another replaces it.
Toggled(value, want) == IF value = want THEN None ELSE want
\* What a request makes of a value: bookmark, follow and block name the end state.
Applied(value, want) == IF button.name = "reaction" THEN Toggled(value, want) ELSE want

IsPending == \E i \in Taps : muts[i].client = "waiting"

-----------------------------------------------------------------------------
\* What a tap asks for: any reaction, or the other state than the one shown.
Desired(want) ==
  IF button.name = "reaction" THEN want # None
  ELSE want = IF Shown = None THEN "set" ELSE None

\* What the cache holds with the tap: only a cached reaction is replaced.
Expected(want) ==
  IF ~Optimistic \/ (button.name = "reaction" /\ cache = NoData) THEN cache ELSE Applied(cache, want)

\* A tap: the query is cancelled, the value kept for a rollback and replaced by what
\* the server is expected to make of it.  Reactions may be tapped while one is in
\* flight.
Tap(i, want) ==
  /\ button.name # "reaction" => ~IsPending
  /\ muts[i] = NoMut
  /\ \A j \in Taps : j < i => muts[j] # NoMut
  /\ Desired(want)
  /\ muts' = [muts EXCEPT ![i] = [client |-> "waiting", host |-> "waiting", want |-> want, prev |-> cache]]
  /\ fetch' = NoFetch
  /\ cache' = Expected(want)
  /\ UNCHANGED <<button, server, excused>>

\* The server executes the requests in the order in which they reach it, and may
\* refuse one.
Execute(i) ==
  /\ muts[i].host = "waiting"
  /\ server' = Applied(server, muts[i].want)
  /\ muts' = [muts EXCEPT ![i].host = "done"]
  /\ excused' = (excused \/ muts[i].client # "waiting")
  /\ UNCHANGED <<button, cache, fetch>>

Refused(i) ==
  /\ muts[i].host = "waiting"
  /\ muts' = [muts EXCEPT ![i].host = "refused"]
  /\ UNCHANGED <<button, server, cache, fetch, excused>>

\* A success of the block button sets its value; an error of the others puts back the
\* value of before the tap, if there was one.
CacheAfter(i, ok) ==
  IF ok THEN (IF Optimistic THEN cache ELSE muts[i].want)
  ELSE IF Optimistic /\ muts[i].prev # NoData THEN muts[i].prev ELSE cache

\* Mutant: a reaction is not read again.
SettleNoRefetch(i, ok) ==
  /\ muts[i].client = "waiting"
  /\ ok => muts[i].host = "done"
  /\ muts' = [muts EXCEPT ![i].client = IF ok THEN "ok" ELSE "error"]
  /\ cache' = CacheAfter(i, ok)
  /\ excused' = (excused \/ (~ok /\ muts[i].host = "done" /\ button.name # "reaction"))
  /\ UNCHANGED <<button, server, fetch>>

\* The answer arrives, or an error: because the server refused, or because the
\* answer was lost.  Then a reaction is read again; a query that never ran stays
\* disabled.
Settle(i, ok) ==
  /\ muts[i].client = "waiting"
  /\ ok => muts[i].host = "done"
  /\ muts' = [muts EXCEPT ![i].client = IF ok THEN "ok" ELSE "error"]
  /\ cache' = CacheAfter(i, ok)
  /\ fetch' = IF button.name = "reaction" /\ Fetches THEN Asked ELSE fetch
  /\ excused' = \/ excused
                \/ /\ ~ok /\ button.name # "reaction"
                   /\ muts[i].host = "done" \/ (Optimistic /\ muts[i].prev = NoData)
  /\ UNCHANGED <<button, server>>

FetchRead ==
  /\ fetch.at = "asked"
  /\ fetch' = [at |-> "read", val |-> server]
  /\ UNCHANGED <<button, server, cache, muts, excused>>

FetchArrive ==
  /\ fetch.at = "read"
  /\ cache' = fetch.val
  /\ fetch' = NoFetch
  /\ UNCHANGED <<button, server, muts, excused>>

FetchFail ==
  /\ fetch.at # "none"
  /\ fetch' = NoFetch
  /\ excused' = TRUE
  /\ UNCHANGED <<button, server, cache, muts>>

ButtonsNext ==
  \/ \E i \in Taps :
       \/ \E want \in ValuesOf(button.name) : Tap(i, want)
       \/ Execute(i) \/ Refused(i)
       \/ \E ok \in BOOLEAN : Settle(i, ok)
  \/ FetchRead \/ FetchArrive \/ FetchFail

ButtonsSpec == ButtonsInit /\ [][ButtonsNext]_buttonsVars

-----------------------------------------------------------------------------
ButtonsTypeOK ==
  /\ button \in [name : {"reaction", "bookmark", "follow", "block"}, given : BOOLEAN]
  /\ server \in ValuesOf(button.name)
  /\ cache \in ValuesOf(button.name) \cup {NoData}
  /\ fetch \in [at : {"none", "asked", "read"}, val : ValuesOf(button.name)]
  /\ muts \in [Taps -> [client : {"unused", "waiting", "ok", "error"},
                        host : {"unused", "waiting", "done", "refused"},
                        want : ValuesOf(button.name), prev : ValuesOf(button.name) \cup {NoData}]]
  /\ excused \in BOOLEAN

\* Nothing of the button is on its way, in the page or at the server.
Quiet ==
  /\ fetch = NoFetch
  /\ \A i \in Taps : muts[i].client # "waiting" /\ muts[i].host # "waiting"

\* Once nothing is on its way a button shows what the server holds: whatever was
\* tapped meanwhile, in whatever order requests, answers and reads took effect, and
\* whichever were refused.  Excused are a request that outlived its answer, a failed
\* read, a lost answer to a button that does not read again, and a tap refused
\* before the first read, after which there is nothing to put back.
ButtonSettles ==
  Quiet /\ ~excused /\ cache # NoData /\ ~(button.name = "reaction" /\ button.given)
    => cache = server

\* Rapid taps cannot leave a reaction in a wrong final state, whatever the order of
\* the answers, "the server is authoritative": the comment of the mutation.
RapidTapsSettle ==
  Quiet /\ button.name = "reaction" /\ (\A i \in Taps : muts[i].client # "error")
    /\ ~excused /\ cache # NoData
    => cache = server
=============================================================================
