------------------------------- MODULE SignIn ---------------------------------
\* Who the page shows as signed in, and the session its cookie stands for
\* (auth-context.tsx, middleware.ts and the pages that sign in and out).  The page asks
\* the server who the viewer is, and may ask again before the first answer; logging in,
\* logging out and deleting the account are requests of their own.  Answers come in any
\* order or not at all.  The viewer has one account at a time.
EXTENDS Naturals

CONSTANTS
  Cookies,    \* session tokens
  Asks        \* bound: questions "who am I" in flight

NoCookie == 0
ASSUME CookiesAssumption == NoCookie \notin Cookies /\ Asks # {}

VARIABLES
  cookie,     \* auth_token of the browser
  live,       \* tokens whose session and account exist
  path,       \* "public", "protected" or "login"
  shown,      \* whether the page has a user
  waiting,    \* loading: whether it has not heard who the viewer is yet
  ask,        \* question -> [at, token, yes]: the cookie it carried, the answer
  call,       \* login, logout, delete -> [at, token]
  untold      \* whether something happened of which the page was not told

signInVars == <<cookie, live, path, shown, waiting, ask, call, untold>>

NotAsked == [at |-> "none", token |-> NoCookie, yes |-> FALSE]
NotCalled == [at |-> "none", token |-> NoCookie]
SignCalls == {"login", "logout", "delete"}

SignInInit ==
  /\ cookie = NoCookie /\ live = {}
  /\ path = "public" /\ shown = FALSE /\ waiting = FALSE
  /\ ask = [q \in Asks |-> NotAsked]
  /\ call = [k \in SignCalls |-> NotCalled]
  /\ untold = FALSE

\* A session is not given the id of another one.
NewCookies ==
  Cookies \ (live \cup {cookie} \cup {ask[q].token : q \in Asks} \cup {call[k].token : k \in SignCalls})

-----------------------------------------------------------------------------
\* The middleware lets whoever has a cookie it can verify see a protected page; it does
\* not ask whether the session is still there.
Admitted(p) == IF p = "protected" /\ cookie = NoCookie THEN "login" ELSE p

AskedWith(qs, token) ==
  [q \in Asks |-> IF q \in qs THEN [at |-> "sent", token |-> token, yes |-> FALSE] ELSE NotAsked]

\* The document is loaded: AuthProvider mounts and asks, and whatever the last document
\* waited for is forgotten.
Load(p) ==
  /\ path' = Admitted(p)
  /\ shown' = FALSE /\ waiting' = TRUE
  /\ \E q \in Asks : ask' = AskedWith({q}, cookie)
  /\ call' = [k \in SignCalls |-> NotCalled]
  /\ untold' = FALSE
  /\ UNCHANGED <<cookie, live>>

\* A link within the application keeps what the page knows.
Follow(p) ==
  /\ path' = Admitted(p)
  /\ UNCHANGED <<cookie, live, shown, waiting, ask, call, untold>>

\* A provider sends the viewer back with a cookie to a document that asks twice, for
\* AuthProvider and for the callback page.
ProviderReturns ==
  \E t \in NewCookies :
    /\ cookie' = t /\ live' = live \cup {t}
    /\ path' = "public" /\ shown' = FALSE /\ waiting' = TRUE
    /\ ask' = AskedWith(Asks, t)
    /\ call' = [k \in SignCalls |-> NotCalled]
    /\ untold' = FALSE

\* The pages that need a user send one who is not there to the login page.
LeaveProtected ==
  /\ path = "protected" /\ ~waiting /\ ~shown
  /\ path' = "login"
  /\ UNCHANGED <<cookie, live, shown, waiting, ask, call, untold>>

-----------------------------------------------------------------------------
\* refresh: after the profile is saved, or an address verified.
Refresh(q) ==
  /\ path = "protected" /\ shown
  /\ ask[q] = NotAsked
  /\ ask' = [ask EXCEPT ![q] = [at |-> "sent", token |-> cookie, yes |-> FALSE]]
  /\ UNCHANGED <<cookie, live, path, shown, waiting, call, untold>>

ServeMe(q) ==
  /\ ask[q].at = "sent"
  /\ ask' = [ask EXCEPT ![q].at = "answered", ![q].yes = ask[q].token \in live]
  /\ UNCHANGED <<cookie, live, path, shown, waiting, call, untold>>

\* The answer is about the cookie the question carried, as it was when the server saw
\* it: the browser may have another one by now, and the session may be gone.
MeArrives(q) ==
  /\ ask[q].at = "answered"
  /\ shown' = ask[q].yes /\ waiting' = FALSE
  /\ untold' = (ask[q].token # cookie \/ ask[q].yes # (cookie \in live))
  /\ ask' = [ask EXCEPT ![q] = NotAsked]
  /\ UNCHANGED <<cookie, live, path, call>>

MeFails(q) ==
  /\ ask[q] # NotAsked
  /\ shown' = FALSE /\ waiting' = FALSE
  /\ untold' = TRUE
  /\ ask' = [ask EXCEPT ![q] = NotAsked]
  /\ UNCHANGED <<cookie, live, path, call>>

-----------------------------------------------------------------------------
\* The login and register pages, the button of the sidebar, the settings page.
MayCall(k) ==
  CASE k = "login"  -> path = "login"
    [] k = "logout" -> shown
    [] k = "delete" -> path = "protected" /\ shown

SendCall(k) ==
  /\ call[k] = NotCalled /\ MayCall(k)
  /\ call' = [call EXCEPT ![k] = [at |-> "sent", token |-> cookie]]
  /\ path' = IF k = "logout" THEN "public" ELSE path
  /\ UNCHANGED <<cookie, live, shown, waiting, ask, untold>>

ServeLogin ==
  /\ call["login"].at = "sent"
  /\ \E t \in NewCookies :
       /\ live' = live \cup {t}
       /\ call' = [call EXCEPT !["login"] = [at |-> "done", token |-> t]]
  /\ UNCHANGED <<cookie, path, shown, waiting, ask, untold>>

ServeLogout ==
  /\ call["logout"].at = "sent"
  /\ live' = live \ {call["logout"].token}
  /\ call' = [call EXCEPT !["logout"].at = "done"]
  /\ UNCHANGED <<cookie, path, shown, waiting, ask, untold>>

\* The sessions go with the account.
ServeDelete ==
  /\ call["delete"].at = "sent" /\ call["delete"].token \in live
  /\ live' = {}
  /\ call' = [call EXCEPT !["delete"].at = "done"]
  /\ UNCHANGED <<cookie, path, shown, waiting, ask, untold>>

LoginArrives ==
  /\ call["login"].at = "done"
  /\ cookie' = call["login"].token
  /\ shown' = TRUE
  /\ path' = "public"
  /\ untold' = (call["login"].token \notin live)
  /\ call' = [call EXCEPT !["login"] = NotCalled]
  /\ UNCHANGED <<live, waiting, ask>>

LogoutArrives ==
  /\ call["logout"].at = "done"
  /\ cookie' = NoCookie
  /\ shown' = FALSE
  /\ untold' = FALSE
  /\ call' = [call EXCEPT !["logout"] = NotCalled]
  /\ UNCHANGED <<live, path, waiting, ask>>

\* Mutant of DeleteArrives: the user stays in the context.
DeleteArrivesUnseen ==
  /\ call["delete"].at = "done"
  /\ cookie' = NoCookie
  /\ path' = "public"
  /\ untold' = FALSE
  /\ call' = [call EXCEPT !["delete"] = NotCalled]
  /\ UNCHANGED <<live, shown, waiting, ask>>

DeleteArrives ==
  /\ call["delete"].at = "done"
  /\ cookie' = NoCookie
  /\ shown' = FALSE
  /\ path' = "public"
  /\ untold' = FALSE
  /\ call' = [call EXCEPT !["delete"] = NotCalled]
  /\ UNCHANGED <<live, waiting, ask>>

\* A call is refused or its answer is lost: logging out forgets the user all the same,
\* the others show a message.
CallLost(k) ==
  /\ call[k] # NotCalled
  /\ shown' = (shown /\ k # "logout")
  /\ untold' = (untold \/ k = "logout" \/ (k = "delete" /\ call[k].at = "done"))
  /\ call' = [call EXCEPT ![k] = NotCalled]
  /\ UNCHANGED <<cookie, live, path, waiting, ask>>

\* The session is revoked from another device, or the account is locked.
RevokedElsewhere ==
  /\ cookie \in live
  /\ live' = live \ {cookie}
  /\ untold' = TRUE
  /\ UNCHANGED <<cookie, path, shown, waiting, ask, call>>

SignInNext ==
  \/ \E p \in {"public", "protected", "login"} : Load(p) \/ Follow(p)
  \/ ProviderReturns
  \/ LeaveProtected
  \/ \E q \in Asks : Refresh(q) \/ ServeMe(q) \/ MeArrives(q) \/ MeFails(q)
  \/ \E k \in SignCalls : SendCall(k) \/ CallLost(k)
  \/ ServeLogin \/ ServeLogout \/ ServeDelete
  \/ LoginArrives \/ LogoutArrives \/ DeleteArrives
  \/ RevokedElsewhere

SignInSpec == SignInInit /\ [][SignInNext]_signInVars

-----------------------------------------------------------------------------
SignInTypeOK ==
  /\ cookie \in Cookies \cup {NoCookie} /\ live \subseteq Cookies
  /\ path \in {"public", "protected", "login"}
  /\ shown \in BOOLEAN /\ waiting \in BOOLEAN /\ untold \in BOOLEAN
  /\ ask \in [Asks -> [at : {"none", "sent", "answered"}, token : Cookies \cup {NoCookie}, yes : BOOLEAN]]
  /\ call \in [SignCalls -> [at : {"none", "sent", "done"}, token : Cookies \cup {NoCookie}]]

\* Once every answer has come, the page shows a user exactly when its cookie stands for
\* a session that exists: auth-context.tsx:22-39, and the calls that set the user
\* themselves.  It may be wrong only after what it is not told of: a session revoked
\* elsewhere, an answer that was lost, an answer that was out of date when it came.  The
\* next answer puts that right.
SignedInShown ==
  ((\A q \in Asks : ask[q] = NotAsked) /\ (\A k \in SignCalls : call[k] = NotCalled) /\ ~untold)
    => (shown <=> cookie \in live)
=============================================================================
