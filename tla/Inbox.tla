------------------------------- MODULE Inbox -------------------------------
(***************************************************************************)
(* The live notifications of one user: NotificationsService stores a row,  *)
(* then publishes it to the instances, and each instance passes it to the  *)
(* event streams open there; useNotifications in a tab of the browser      *)
(* loads the list, opens a stream, opens it again after a failure, and     *)
(* puts what arrives on top of the list.                                   *)
(*                                                                         *)
(* A connection outlives its tab on the server until its end is noticed.   *)
(* An instance that failed to subscribe, or was restarted, hears nothing   *)
(* from the others.  The loading of further pages is in module Pages.      *)
(* `due` is no state of the system: it holds what a tab must show.         *)
(***************************************************************************)
EXTENDS Integers, Sequences, FiniteSets, SequencesExt

CONSTANTS
  Tabs,         \* tabs of the user
  Conns,        \* event stream connections
  Instances,    \* instances of the backend
  Events,       \* notifications that can be created
  MaxAttempts   \* MAX_ATTEMPTS of the client

ASSUME InboxAssumption ==
  /\ MaxAttempts \in Nat
  /\ IsFiniteSet(Conns)
  /\ "none" \notin Tabs \cup Conns

VARIABLES
  stored,      \* notifications with a row
  pushing,     \* those stored but not yet pushed, with the instance that does
  subscribed,  \* instances that hear the channel
  refs,        \* streams each instance counts
  attached,    \* connections that listen to the instance's Subject
  conn,        \* connection -> the tab it serves and the instance, or NoConn
  wire,        \* connection -> events on their way
  tab,         \* what each tab holds
  due          \* events each tab was to be told of

inboxVars == <<stored, pushing, subscribed, refs, attached, conn, wire, tab, due>>

NoConn == [tab |-> "none", inst |-> "none"]
NoStream == "none"

\* `list` is the answer to the list request: "none", "asked", "sent" or "done".
\* `stream` says where the EventSource is: "off", "connecting", "open" (with its
\* connection in `via`), "waiting" for the retry timer, or "stopped" for good.
ClosedTab == [on |-> FALSE, list |-> "none", answer |-> {}, shown |-> {},
              stream |-> "off", via |-> NoStream, attempts |-> 0]

InboxInit ==
  /\ stored = {}
  /\ pushing = {}
  /\ subscribed \in SUBSET Instances
  /\ refs = [i \in Instances |-> 0]
  /\ attached = [i \in Instances |-> {}]
  /\ conn = [c \in Conns |-> NoConn]
  /\ wire = [c \in Conns |-> <<>>]
  /\ tab = [t \in Tabs |-> ClosedTab]
  /\ due = [t \in Tabs |-> {}]

serverVars == <<subscribed, refs, attached, conn>>

-----------------------------------------------------------------------------
\* The server.

\* create commits its row, on some instance.
StoreNotification(e, i) ==
  /\ e \notin stored
  /\ stored' = stored \cup {e}
  /\ pushing' = pushing \cup {<<e, i>>}
  /\ UNCHANGED <<serverVars, wire, tab, due>>

\* The connections that listen on instance i, and what they are sent.
Send(e, insts) ==
  LET heard == UNION {attached[i] : i \in insts}
  IN wire' = [c \in Conns |-> IF c \in heard THEN Append(wire[c], e) ELSE wire[c]]

\* The tabs an event sent by the instances `insts` is meant for.
Told(e, insts) ==
  due' = [t \in Tabs |->
    IF tab[t].list = "done" /\ tab[t].stream = "open" /\ conn[tab[t].via].inst \in insts
    THEN due[t] \cup {e} ELSE due[t]]

\* pushToStream: to all that hear the channel; to the own streams if the publish
\* fails; to both if it succeeds but is answered with an error.
PushToStream(e, i) ==
  /\ <<e, i>> \in pushing
  /\ \E insts \in {subscribed, {i}} :
       Send(e, insts) /\ Told(e, insts)
  /\ pushing' = pushing \ {<<e, i>>}
  /\ UNCHANGED <<stored, serverVars, tab>>

PushTwice(e, i) ==
  /\ <<e, i>> \in pushing
  /\ wire' = [c \in Conns |->
       wire[c] \o (IF \E j \in subscribed : c \in attached[j] THEN <<e>> ELSE <<>>)
               \o (IF c \in attached[i] THEN <<e>> ELSE <<>>)]
  /\ Told(e, subscribed \cup {i})
  /\ pushing' = pushing \ {<<e, i>>}
  /\ UNCHANGED <<stored, serverVars, tab>>

\* The process dies between the row and the push.
PushLost(e, i) ==
  /\ <<e, i>> \in pushing
  /\ pushing' = pushing \ {<<e, i>>}
  /\ UNCHANGED <<stored, serverVars, wire, tab, due>>

\* createStream: the first stream of the user on instance i brings a new Subject.
CreateStream(t, c, i) ==
  /\ tab[t].stream = "connecting"
  /\ conn[c] = NoConn
  /\ conn' = [conn EXCEPT ![c] = [tab |-> t, inst |-> i]]
  /\ refs' = [refs EXCEPT ![i] = @ + 1]
  /\ attached' = [attached EXCEPT ![i] = IF refs[i] = 0 THEN {c} ELSE @ \cup {c}]
  /\ tab' = [tab EXCEPT ![t].stream = "open", ![t].via = c, ![t].attempts = 0]
  /\ UNCHANGED <<stored, pushing, subscribed, wire, due>>

\* Mutant: the entry is deleted with the first stream that ends.
EndStreamDeletes(c, i) ==
  /\ refs' = [refs EXCEPT ![i] = 0]
  /\ attached' = [attached EXCEPT ![i] = {}]

\* finalize: the Subject goes with its last stream.
EndStream(c, i) ==
  /\ refs' = [refs EXCEPT ![i] = IF @ = 0 THEN 0 ELSE @ - 1]
  /\ attached' = [attached EXCEPT ![i] = IF refs[i] <= 1 THEN {} ELSE @ \ {c}]

\* The server notices that a connection was closed.
Finalize(c) ==
  /\ conn[c] # NoConn
  /\ \A t \in Tabs : tab[t].via # c
  /\ EndStream(c, conn[c].inst)
  /\ conn' = [conn EXCEPT ![c] = NoConn]
  /\ wire' = [wire EXCEPT ![c] = <<>>]
  /\ UNCHANGED <<stored, pushing, subscribed, tab, due>>

-----------------------------------------------------------------------------
\* The client.

\* The user signs in, or the page is opened: useEffect asks for the list and
\* opens the stream.
OpenTab(t) ==
  /\ ~tab[t].on
  /\ tab' = [tab EXCEPT ![t] = [ClosedTab EXCEPT !.on = TRUE, !.list = "asked", !.stream = "connecting"]]
  /\ UNCHANGED <<stored, pushing, serverVars, wire, due>>

\* The cleanup of the effect.
CloseTab(t) ==
  /\ tab[t].on
  /\ tab' = [tab EXCEPT ![t] = ClosedTab]
  /\ due' = [due EXCEPT ![t] = {}]
  /\ UNCHANGED <<stored, pushing, serverVars, wire>>

ReadList(t) ==
  /\ tab[t].list = "asked"
  /\ tab' = [tab EXCEPT ![t].list = "sent", ![t].answer = stored]
  /\ UNCHANGED <<stored, pushing, serverVars, wire, due>>

\* The first page replaces what the stream has brought so far.
ListArrives(t) ==
  /\ tab[t].list = "sent"
  /\ tab' = [tab EXCEPT ![t].list = "done", ![t].shown = tab[t].answer, ![t].answer = {}]
  /\ UNCHANGED <<stored, pushing, serverVars, wire, due>>

ListFails(t) ==
  /\ tab[t].list \in {"asked", "sent"}
  /\ tab' = [tab EXCEPT ![t].list = "done", ![t].answer = {}]
  /\ UNCHANGED <<stored, pushing, serverVars, wire, due>>

\* onmessage.
EventArrives(t) ==
  /\ tab[t].stream = "open"
  /\ wire[tab[t].via] # <<>>
  /\ tab' = [tab EXCEPT ![t].shown = @ \cup {Head(wire[tab[t].via])}]
  /\ wire' = [wire EXCEPT ![tab[t].via] = Tail(@)]
  /\ UNCHANGED <<stored, pushing, serverVars, due>>

\* Mutant: no attempt is the last.
AfterErrorEndless(r) == [r EXCEPT !.via = NoStream, !.attempts = @ + 1, !.stream = "waiting"]

\* onerror: another attempt after a delay, up to MAX_ATTEMPTS in a row.
AfterError(r) ==
  [r EXCEPT !.via = NoStream,
            !.attempts = @ + 1,
            !.stream = IF r.attempts + 1 > MaxAttempts THEN "stopped" ELSE "waiting"]

\* The connection is refused or breaks; what was on the wire is lost.
StreamFails(t) ==
  /\ tab[t].stream \in {"connecting", "open"}
  /\ tab' = [tab EXCEPT ![t] = AfterError(@)]
  /\ due' = [due EXCEPT ![t] = @ \cap tab[t].shown]
  /\ UNCHANGED <<stored, pushing, serverVars, wire>>

RetryTimer(t) ==
  /\ tab[t].stream = "waiting"
  /\ tab' = [tab EXCEPT ![t].stream = "connecting"]
  /\ UNCHANGED <<stored, pushing, serverVars, wire, due>>

\* An instance is restarted: its streams break, and it may fail to subscribe.
Restart(i) ==
  LET gone == {c \in Conns : conn[c] # NoConn /\ conn[c].inst = i}
  IN /\ subscribed' \in {subscribed \ {i}, subscribed \cup {i}}
     /\ refs' = [refs EXCEPT ![i] = 0]
     /\ attached' = [attached EXCEPT ![i] = {}]
     /\ conn' = [c \in Conns |-> IF c \in gone THEN NoConn ELSE conn[c]]
     /\ wire' = [c \in Conns |-> IF c \in gone THEN <<>> ELSE wire[c]]
     /\ pushing' = {push \in pushing : push[2] # i}
     /\ tab' = [t \in Tabs |-> IF tab[t].via \in gone THEN AfterError(tab[t]) ELSE tab[t]]
     /\ due' = [t \in Tabs |-> IF tab[t].via \in gone THEN due[t] \cap tab[t].shown ELSE due[t]]
     /\ UNCHANGED stored

InboxNext ==
  \/ \E e \in Events, i \in Instances :
       StoreNotification(e, i) \/ PushToStream(e, i) \/ PushTwice(e, i) \/ PushLost(e, i)
  \/ \E t \in Tabs, c \in Conns, i \in Instances : CreateStream(t, c, i)
  \/ \E c \in Conns : Finalize(c)
  \/ \E t \in Tabs :
       \/ OpenTab(t) \/ CloseTab(t) \/ ReadList(t) \/ ListArrives(t) \/ ListFails(t)
       \/ EventArrives(t) \/ StreamFails(t) \/ RetryTimer(t)
  \/ \E i \in Instances : Restart(i)

InboxSpec == InboxInit /\ [][InboxNext]_inboxVars

-----------------------------------------------------------------------------
InboxTypeOK ==
  /\ stored \subseteq Events
  /\ pushing \subseteq Events \X Instances
  /\ subscribed \subseteq Instances
  /\ refs \in [Instances -> 0..Cardinality(Conns)]
  /\ attached \in [Instances -> SUBSET Conns]
  /\ conn \in [Conns -> [tab : Tabs, inst : Instances] \cup {NoConn}]
  /\ \A c \in Conns : ToSet(wire[c]) \subseteq Events
  /\ tab \in [Tabs -> [on : BOOLEAN, list : {"none", "asked", "sent", "done"},
                       answer : SUBSET Events, shown : SUBSET Events,
                       stream : {"off", "connecting", "open", "waiting", "stopped"},
                       via : Conns \cup {NoStream}, attempts : 0..(MaxAttempts + 1)]]
  /\ due \in [Tabs -> SUBSET Events]

\* A tab that has loaded its list shows, or is about to be sent, every event
\* that was pushed to its instance since then while its stream was open: closing
\* another tab of the user, or a stale stream, takes nothing from it, and nothing
\* it has shown goes away.
LiveDelivery ==
  \A t \in Tabs :
    due[t] \subseteq tab[t].shown \cup
      (IF tab[t].via = NoStream THEN {} ELSE ToSet(wire[tab[t].via]))
=============================================================================
