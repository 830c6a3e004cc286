--------------------------- MODULE SessionsProofs ---------------------------
(***************************************************************************)
(* What Sessions promises of revocation, for every set of passwords,       *)
(* providers and requests and every bound.                                 *)
(*                                                                         *)
(* The promises speak of tokens, but a handler holds what it is going to   *)
(* sign long before.  Sound says of both what makes them harmless: as long *)
(* as the version has not moved on, the password is the current one and,   *)
(* if it was checked, the account is not locked.  Every statement that     *)
(* breaks one of these bumps the version as well.                          *)
(***************************************************************************)
EXTENDS Sessions, TLAPS

Granting == {"link_purge", "change_purge", "issue"}
Granted == [at : Granting, ver : Versions, cred : Secrets, from : Origin]

Unlocked(row) == ~row.suspended /\ ~row.banned

Sound(g, row) ==
  /\ g.ver <= row.version
  /\ g.ver = row.version =>
       /\ g.cred # NoPassword => g.cred = row.password
       /\ g.from = "checked" => Unlocked(row)

IInv ==
  /\ TypeOK
  /\ \A t \in DOMAIN tokens : Sound(tokens[t], account)
  /\ \A r \in Requests : job[r].at \in Granting => Sound(job[r], account)

\* What a statement may do to the account: replace the password or lock it
\* only together with a bump of the version.
Moves ==
  \/ account'.version > account.version
  \/ /\ account'.version = account.version
     /\ account'.password = account.password
     /\ Unlocked(account) => Unlocked(account')

-----------------------------------------------------------------------------

\* A request that holds a grant holds a whole one.
LEMMA GrantedJob ==
  ASSUME NEW j \in Job, j.at \in Granting
  PROVE  j \in Granted
BY DEF Job, Idle, Granting, Granted, GuardedOps

\* Grants are requests.
LEMMA GrantedIsJob == Granted \subseteq Job
BY DEF Granted, Granting, Job

\* What is sound stays sound.
LEMMA SoundKept ==
  ASSUME account \in Account, account' \in Account, Moves,
         NEW g, g.ver \in Versions, Sound(g, account)
  PROVE  Sound(g, account')
<1>1. account.version \in Int /\ account'.version \in Int /\ g.ver \in Int
  BY SessionsAssumption DEF Account, Versions
<1> QED
  BY <1>1 DEF Moves, Sound

\* A statement that moves one request and does not sign a token.
LEMMA OneRequestMoves ==
  ASSUME IInv, NEW r \in Requests, NEW j \in Job,
         job' = [job EXCEPT ![r] = j], tokens' = tokens,
         sessions' \subseteq DOMAIN tokens, account' \in Account, Moves,
         j.at \in Granting => Sound(j, account')
  PROVE  IInv'
<1>1. TypeOK'
  BY DEF IInv, TypeOK
<1>2. ASSUME NEW t \in DOMAIN tokens' PROVE Sound(tokens'[t], account')
  <2>1. tokens[t] \in Token
    BY DEF IInv, TypeOK
  <2>2. tokens[t].ver \in Versions
    BY <2>1 DEF Token
  <2> QED
    BY <2>2, SoundKept DEF IInv, TypeOK
<1>3. ASSUME NEW s \in Requests, job'[s].at \in Granting PROVE Sound(job'[s], account')
  <2>1. CASE s = r
    BY <2>1, <1>3 DEF IInv, TypeOK
  <2>2. CASE s # r
    <3>1. job'[s] = job[s] /\ job[s] \in Job
      BY <2>2 DEF IInv, TypeOK
    <3>2. job[s].ver \in Versions
      BY <3>1, <1>3, GrantedJob DEF Granted
    <3> QED
      BY <3>1, <3>2, <1>3, SoundKept DEF IInv, TypeOK
  <2> QED
    BY <2>1, <2>2
<1> QED
  BY <1>1, <1>2, <1>3 DEF IInv

\* Jobs that hold no grant.
LEMMA SimpleJobs ==
  /\ Idle \in Job /\ Idle.at \notin Granting
  /\ \A c \in Passwords : [at |-> "login", cred |-> c] \in Job
  /\ \A o \in Providers : [at |-> "oauth", by |-> o] \in Job
  /\ \A o \in Providers, b \in BOOLEAN : [at |-> "link", by |-> o, unverified |-> b] \in Job
  /\ \A a \in {"guard_user", "guard_session"}, op \in GuardedOps, t, s \in Sids :
       [at |-> a, op |-> op, tok |-> t, target |-> s] \in Job
  /\ \A a \in {"revoke", "others"}, t, s \in Sids : [at |-> a, tok |-> t, target |-> s] \in Job
  /\ \A a \in {"change_read", "change_write", "forgot_read", "forgot_write",
             "reset_read", "reset_write", "purge"} : [at |-> a] \in Job
<1>1. Idle \in Job /\ Idle.at \notin Granting
  BY DEF Job, Idle, Granting
<1> QED
  BY <1>1 DEF Job

LEMMA InitIInv == Init => IInv
<1> SUFFICES ASSUME Init PROVE IInv
  OBVIOUS
<1>1. account \in Account
  <2>1. 0 \in Versions
    BY SessionsAssumption DEF Versions
  <2>2. ASSUME NEW p \in Secrets, NEW v \in BOOLEAN, NEW L \in SUBSET Providers
        PROVE  [password |-> p, version |-> 0, suspended |-> FALSE, banned |-> FALSE,
                emailVerified |-> v, linked |-> L, resetPending |-> FALSE] \in Account
    BY <2>1 DEF Account
  <2>3. CASE \E p \in Passwords :
               account = [password |-> p, version |-> 0, suspended |-> FALSE,
                          banned |-> FALSE, emailVerified |-> FALSE,
                          linked |-> {}, resetPending |-> FALSE]
    BY <2>2, <2>3 DEF Secrets
  <2>4. CASE \E o \in Providers, v \in BOOLEAN :
               account = [password |-> NoPassword, version |-> 0, suspended |-> FALSE,
                          banned |-> FALSE, emailVerified |-> v,
                          linked |-> {o}, resetPending |-> FALSE]
    BY <2>2, <2>4 DEF Secrets
  <2> QED
    BY <2>3, <2>4 DEF Init
<1>2. tokens = <<>> /\ sessions = {} /\ DOMAIN tokens = {}
  BY DEF Init
<1>3. job \in [Requests -> Job]
  BY SimpleJobs DEF Init
<1>4. \A r \in Requests : job[r].at \notin Granting
  BY SimpleJobs DEF Init
<1>5. tokens \in Seq(Token) /\ Len(tokens) <= MaxTokens
  BY <1>2, SessionsAssumption
<1> QED
  BY <1>1, <1>2, <1>3, <1>4, <1>5 DEF IInv, TypeOK

-----------------------------------------------------------------------------
(* The statements that read, and those that write sessions only: the account *)
(* stays, and the request goes on or ends without a grant. *)

LEMMA PlainStep ==
  ASSUME IInv, NEW r \in Requests, NEW j \in Job, j.at \notin Granting, Goto(r, j),
         UNCHANGED <<account, tokens>>, sessions' \subseteq DOMAIN tokens
  PROVE  IInv'
<1>1. account' \in Account /\ Moves
  BY DEF IInv, TypeOK, Moves
<1> QED
  BY <1>1, OneRequestMoves DEF Goto

\* A grant of the account as it is.
LEMMA GrantStep ==
  ASSUME IInv, NEW r \in Requests, NEW row \in Account, NEW at \in Granting,
         NEW from \in Origin, NEW cred \in {row.password, NoPassword},
         Goto(r, [at |-> at, ver |-> row.version, cred |-> cred, from |-> from]),
         from = "checked" => Unlocked(row),
         account' = row, Moves, UNCHANGED tokens, sessions' \subseteq DOMAIN tokens
  PROVE  IInv'
<1> DEFINE j == [at |-> at, ver |-> row.version, cred |-> cred, from |-> from]
<1>1. j \in Granted
  BY DEF Granted, Account, Secrets
<1>2. j \in Job
  BY <1>1, GrantedIsJob
<1>3. Sound(j, row)
  BY SessionsAssumption DEF Sound, Account, Versions
<1> HIDE DEF j
<1>4. job' = [job EXCEPT ![r] = j]
  BY DEF Goto, j
<1> QED
  BY <1>2, <1>3, <1>4, OneRequestMoves

\* An UPDATE that bumps the version.
LEMMA BumpMoves ==
  ASSUME account \in Account, NEW row \in Account, row.version = account.version, BumpWith(row)
  PROVE  account' \in Account /\ Moves
<1>1. account.version \in Int /\ account.version + 1 \in Versions
  BY SessionsAssumption DEF BumpWith, Account, Versions
<1>2. account' = [row EXCEPT !.version = account.version + 1]
  BY DEF BumpWith, Account
<1>3. account' \in Account
  BY <1>1, <1>2 DEF Account
<1>4. account'.version = account.version + 1
  BY <1>2 DEF Account
<1> QED
  BY <1>1, <1>3, <1>4 DEF Moves

\* Arriving and ending.
LEMMA StepStart ==
  ASSUME IInv, NEW r \in Requests, NEW j \in Job, j.at \notin Granting, Start(r, j)
  PROVE  IInv'
BY PlainStep DEF Start, IInv, TypeOK

LEMMA StepDone ==
  ASSUME IInv, NEW r \in Requests, Done(r),
         UNCHANGED <<account, tokens>>, sessions' \subseteq DOMAIN tokens
  PROVE  IInv'
BY SimpleJobs, PlainStep DEF Done

-----------------------------------------------------------------------------
(* The actions. *)

LEMMA BeginIInv ==
  ASSUME IInv, NEW r \in Requests, Begin(r)
  PROVE  IInv'
<1>1. CASE \E p \in Passwords : PasswordLogin(r, p)
  <2>1. PICK p \in Passwords : PasswordLogin(r, p)
    BY <1>1
  <2>2. [at |-> "login", cred |-> p] \in Job
    BY SimpleJobs
  <2> QED
    BY <2>1, <2>2, StepStart DEF PasswordLogin, Granting
<1>2. CASE \E o \in Providers : OAuthLogin(r, o)
  <2>1. PICK o \in Providers : OAuthLogin(r, o)
    BY <1>2
  <2>2. [at |-> "oauth", by |-> o] \in Job
    BY SimpleJobs
  <2> QED
    BY <2>1, <2>2, StepStart DEF OAuthLogin, Granting
<1>3. CASE \E op \in GuardedOps, tok, target \in Sids : GuardedRequest(r, op, tok, target)
  <2>1. PICK op \in GuardedOps, tok \in Sids, target \in Sids : GuardedRequest(r, op, tok, target)
    BY <1>3
  <2>2. [at |-> "guard_user", op |-> op, tok |-> tok, target |-> target] \in Job
    BY SimpleJobs
  <2> QED
    BY <2>1, <2>2, StepStart DEF GuardedRequest, Granting
<1>4. CASE ForgotPassword(r) \/ ResetPassword(r)
  <2>1. [at |-> "forgot_read"] \in Job /\ [at |-> "reset_read"] \in Job
    BY SimpleJobs
  <2> QED
    BY <1>4, <2>1, StepStart DEF ForgotPassword, ResetPassword, Granting
<1>5. CASE Suspend(r) \/ Ban(r)
  <2>1. /\ [account EXCEPT !.suspended = TRUE] \in Account
        /\ [account EXCEPT !.suspended = TRUE].version = account.version
        /\ [account EXCEPT !.banned = TRUE] \in Account
        /\ [account EXCEPT !.banned = TRUE].version = account.version
    BY DEF IInv, TypeOK, Account
  <2>2. account' \in Account /\ Moves
    BY <1>5, <2>1, BumpMoves DEF IInv, TypeOK, Suspend, Ban
  <2>3. [at |-> "purge"] \in Job
    BY SimpleJobs
  <2> QED
    BY <1>5, <2>2, <2>3, OneRequestMoves DEF Suspend, Ban, Goto, Granting, IInv, TypeOK
<1> QED
  BY <1>1, <1>2, <1>3, <1>4, <1>5 DEF Begin

LEMMA LoginIInv ==
  ASSUME IInv, NEW r \in Requests, ValidateUser(r) \/ OAuthRead(r) \/ LinkProvider(r)
  PROVE  IInv'
<1>0. /\ account \in Account /\ job[r] \in Job /\ sessions \subseteq DOMAIN tokens
      /\ account.password \in Secrets
  BY DEF IInv, TypeOK, Account
<1>1. CASE ValidateUser(r)
  <2>1. CASE account.password = job[r].cred /\ Active
    BY <1>0, <1>1, <2>1, GrantStep
    DEF ValidateUser, Grant, Granting, Origin, Active, Unlocked, Moves
  <2>2. CASE ~(account.password = job[r].cred /\ Active)
    BY <1>0, <1>1, <2>2, StepDone DEF ValidateUser
  <2> QED
    BY <2>1, <2>2
<1>2. CASE OAuthRead(r)
  <2>1. CASE Done(r)
    BY <1>0, <1>2, <2>1, StepDone DEF OAuthRead
  <2>2. CASE Active /\ Goto(r, [Grant("issue", account, "checked") EXCEPT !.cred = NoPassword])
    <3>1. [Grant("issue", account, "checked") EXCEPT !.cred = NoPassword]
            = [at |-> "issue", ver |-> account.version, cred |-> NoPassword, from |-> "checked"]
      BY DEF Grant
    <3> QED
      BY <1>0, <1>2, <2>2, <3>1, GrantStep
      DEF OAuthRead, Granting, Origin, Active, Unlocked, Moves
  <2>3. CASE Goto(r, [at |-> "link", by |-> job[r].by, unverified |-> ~account.emailVerified])
    <3>1. job[r].by \in Providers
      BY <1>0, <1>2 DEF OAuthRead, Job, Idle
    <3>2. [at |-> "link", by |-> job[r].by, unverified |-> ~account.emailVerified] \in Job
      BY <3>1, SimpleJobs
    <3> QED
      BY <1>0, <1>2, <2>3, <3>2, PlainStep DEF OAuthRead, Granting
  <2> QED
    BY <1>2, <2>1, <2>2, <2>3 DEF OAuthRead
<1>3. CASE LinkProvider(r)
  <2> DEFINE linked == [account EXCEPT !.linked = @ \cup {job[r].by}, !.emailVerified = TRUE]
             revoked == [linked EXCEPT !.password = NoPassword]
  <2>1. job[r].by \in Providers
    BY <1>0, <1>3 DEF LinkProvider, Job, Idle
  <2>2. /\ linked \in Account /\ linked.version = account.version
        /\ linked.password = account.password
        /\ linked.suspended = account.suspended /\ linked.banned = account.banned
    BY <1>0, <2>1 DEF Account
  <2>3. revoked \in Account /\ revoked.version = account.version
    BY <2>2 DEF Account, Secrets
  <2>4. CASE job[r].unverified
    <3>1. BumpWith(revoked) /\ Goto(r, Grant("link_purge", account', "updated"))
      BY <1>3, <2>4 DEF LinkProvider
    <3> HIDE DEF linked, revoked
    <3>2. account' \in Account /\ Moves
      BY <1>0, <2>3, <3>1, BumpMoves
    <3>3. UNCHANGED <<sessions, tokens>>
      BY <1>3 DEF LinkProvider
    <3> QED
      BY <1>0, <3>1, <3>2, <3>3, GrantStep DEF Grant, Granting, Origin
  <2>5. CASE ~job[r].unverified
    <3>1. /\ account' = linked
          /\ Goto(r, [Grant("issue", account', "updated") EXCEPT !.cred = NoPassword])
      BY <1>3, <2>5 DEF LinkProvider
    <3>2. [Grant("issue", account', "updated") EXCEPT !.cred = NoPassword]
            = [at |-> "issue", ver |-> account'.version, cred |-> NoPassword, from |-> "updated"]
      BY DEF Grant
    <3>3. UNCHANGED <<sessions, tokens>>
      BY <1>3 DEF LinkProvider
    <3> HIDE DEF linked
    <3>4. account' \in Account /\ Moves
      BY <2>2, <3>1 DEF Moves, Unlocked
    <3>5. Goto(r, [at |-> "issue", ver |-> account'.version, cred |-> NoPassword,
                   from |-> "updated"])
      BY <3>1, <3>2
    <3> QED
      BY <1>0, <3>3, <3>4, <3>5, GrantStep DEF Granting, Origin
  <2> QED
    BY <2>4, <2>5
<1> QED
  BY <1>1, <1>2, <1>3

\* The purge moves a grant on as it is.
LEMMA PurgeIssueIInv ==
  ASSUME IInv, NEW r \in Requests, PurgeThenIssue(r)
  PROVE  IInv'
<1> DEFINE j == [job[r] EXCEPT !.at = "issue"]
<1>1. job[r] \in Granted /\ Sound(job[r], account)
  BY GrantedJob DEF PurgeThenIssue, IInv, TypeOK, Granting
<1>2. j \in Granted /\ Sound(j, account)
  BY <1>1 DEF Granted, Granting, Sound
<1>3. j \in Job
  BY <1>2, GrantedIsJob
<1> HIDE DEF j
<1>4. job' = [job EXCEPT ![r] = j] /\ UNCHANGED <<account, tokens>> /\ sessions' = {}
  BY DEF PurgeThenIssue, Goto, j
<1>5. account' \in Account /\ Moves
  BY <1>4 DEF IInv, TypeOK, Moves
<1> QED
  BY <1>2, <1>3, <1>4, <1>5, OneRequestMoves

\* Signing a token turns a sound grant into a sound token.
LEMMA IssueIInv ==
  ASSUME IInv, NEW r \in Requests, Issue(r)
  PROVE  IInv'
<1> DEFINE token == [ver |-> job[r].ver, cred |-> job[r].cred, from |-> job[r].from]
<1>1. job[r] \in Granted /\ Sound(job[r], account)
  BY GrantedJob DEF Issue, IInv, TypeOK, Granting
<1>2. token \in Token /\ Sound(token, account)
  BY <1>1 DEF Granted, Token, Sound
<1> HIDE DEF token
<1>3. /\ tokens' = Append(tokens, token) /\ account' = account
      /\ sessions' = sessions \cup {Len(tokens) + 1}
      /\ Len(tokens) < MaxTokens
  BY DEF Issue, token
<1>4. /\ tokens \in Seq(Token) /\ sessions \subseteq DOMAIN tokens
      /\ MaxTokens \in Nat
  BY SessionsAssumption DEF IInv, TypeOK
<1>5. /\ tokens' \in Seq(Token) /\ Len(tokens') <= MaxTokens
      /\ DOMAIN tokens' = 1..(Len(tokens) + 1) /\ DOMAIN tokens = 1..Len(tokens)
      /\ \A t \in DOMAIN tokens : tokens'[t] = tokens[t]
      /\ tokens'[Len(tokens) + 1] = token
  BY <1>2, <1>3, <1>4
<1>6. sessions' \subseteq DOMAIN tokens'
  BY <1>3, <1>4, <1>5
<1>7. job' = [job EXCEPT ![r] = Idle] /\ job' \in [Requests -> Job]
  BY SimpleJobs DEF Issue, Done, Goto, IInv, TypeOK
<1>8. TypeOK'
  BY <1>3, <1>5, <1>6, <1>7 DEF IInv, TypeOK
<1>9. ASSUME NEW t \in DOMAIN tokens' PROVE Sound(tokens'[t], account')
  <2>1. t \in DOMAIN tokens \/ t = Len(tokens) + 1
    BY <1>4, <1>5
  <2> QED
    BY <2>1, <1>2, <1>3, <1>5 DEF IInv
<1>10. ASSUME NEW s \in Requests, job'[s].at \in Granting PROVE Sound(job'[s], account')
  BY <1>3, <1>7, <1>10, SimpleJobs DEF IInv, TypeOK
<1> QED
  BY <1>8, <1>9, <1>10 DEF IInv

LEMMA GuardedIInv ==
  ASSUME IInv, NEW r \in Requests,
         \/ GuardUser(r) \/ GuardSession(r)
         \/ RevokeSession(r) \/ RevokeOtherSessions(r)
  PROVE  IInv'
<1>0. job[r] \in Job /\ sessions \subseteq DOMAIN tokens
  BY DEF IInv, TypeOK
<1>1. CASE GuardUser(r)
  <2>1. job[r] \in [at : {"guard_user"}, op : GuardedOps, tok : Sids, target : Sids]
    BY <1>0, <1>1 DEF GuardUser, Job, Idle
  <2>2. [job[r] EXCEPT !.at = "guard_session"]
          \in [at : {"guard_session"}, op : GuardedOps, tok : Sids, target : Sids]
    BY <2>1
  <2>3. /\ [job[r] EXCEPT !.at = "guard_session"] \in Job
        /\ [job[r] EXCEPT !.at = "guard_session"].at \notin Granting
    BY <2>2 DEF Job, Granting
  <2>4. CASE Goto(r, [job[r] EXCEPT !.at = "guard_session"])
    BY <1>0, <1>1, <2>3, <2>4, PlainStep DEF GuardUser
  <2>5. CASE Done(r)
    BY <1>0, <1>1, <2>5, StepDone DEF GuardUser
  <2> QED
    BY <1>1, <2>4, <2>5 DEF GuardUser
<1>2. CASE GuardSession(r)
  <2>1. job[r] \in [at : {"guard_session"}, op : GuardedOps, tok : Sids, target : Sids]
    BY <1>0, <1>2 DEF GuardSession, Job, Idle
  <2>2. CASE Done(r)
    BY <1>0, <1>2, <2>2, StepDone DEF GuardSession
  <2>3. CASE Goto(r, [at |-> "change_read"])
    <3>1. [at |-> "change_read"] \in Job
      BY SimpleJobs
    <3> QED
      BY <1>0, <1>2, <2>3, <3>1, PlainStep DEF GuardSession, Granting
  <2>4. CASE job[r].op # "change"
             /\ Goto(r, [at |-> job[r].op, tok |-> job[r].tok, target |-> job[r].target])
    <3>1. job[r].op \in {"revoke", "others"} /\ job[r].tok \in Sids /\ job[r].target \in Sids
      BY <2>1, <2>4 DEF GuardedOps
    <3>2. [at |-> job[r].op, tok |-> job[r].tok, target |-> job[r].target] \in Job
      BY <3>1, SimpleJobs
    <3> QED
      BY <1>0, <1>2, <2>4, <3>1, <3>2, PlainStep DEF GuardSession, Granting
  <2> QED
    BY <1>2, <2>2, <2>3, <2>4 DEF GuardSession
<1>3. CASE RevokeSession(r) \/ RevokeOtherSessions(r)
  BY <1>0, <1>3, StepDone DEF RevokeSession, RevokeOtherSessions
<1> QED
  BY <1>1, <1>2, <1>3

LEMMA PasswordIInv ==
  ASSUME IInv, NEW r \in Requests,
         \/ ChangeRead(r) \/ ChangeWrite(r)
         \/ ForgotRead(r) \/ ForgotWrite(r)
         \/ ResetRead(r) \/ ResetWrite(r)
  PROVE  IInv'
<1>0. account \in Account /\ sessions \subseteq DOMAIN tokens
  BY DEF IInv, TypeOK
<1>1. \A at \in {"change_write", "forgot_write", "reset_write", "purge"} :
        [at |-> at] \in Job /\ [at |-> at].at \notin Granting
  BY SimpleJobs DEF Granting
<1>2. CASE ChangeRead(r) \/ ForgotRead(r) \/ ResetRead(r)
  <2>1. CASE Done(r)
    BY <1>0, <1>2, <2>1, StepDone DEF ChangeRead, ForgotRead, ResetRead
  <2>2. CASE ~Done(r)
    <3>1. PICK at \in {"change_write", "forgot_write", "reset_write"} : Goto(r, [at |-> at])
      BY <1>2, <2>2 DEF ChangeRead, ForgotRead, ResetRead
    <3> QED
      BY <1>0, <1>1, <1>2, <3>1, PlainStep DEF ChangeRead, ForgotRead, ResetRead
  <2> QED
    BY <2>1, <2>2
<1>3. CASE ChangeWrite(r)
  <2>1. PICK new \in Passwords : BumpWith([account EXCEPT !.password = new])
    BY <1>3 DEF ChangeWrite
  <2>2. /\ [account EXCEPT !.password = new] \in Account
        /\ [account EXCEPT !.password = new].version = account.version
    BY <1>0 DEF Account, Secrets
  <2>3. account' \in Account /\ Moves
    BY <1>0, <2>1, <2>2, BumpMoves
  <2>4. /\ Goto(r, [at |-> "change_purge", ver |-> account'.version,
                    cred |-> account'.password, from |-> "updated"])
        /\ UNCHANGED <<sessions, tokens>>
    BY <1>3 DEF ChangeWrite, Grant
  <2> QED
    BY <1>0, <2>3, <2>4, GrantStep DEF Granting, Origin
<1>4. CASE ForgotWrite(r)
  <2>1. account' \in Account /\ Moves
    BY <1>0, <1>4 DEF ForgotWrite, Account, Moves, Unlocked
  <2> QED
    BY <1>0, <1>4, <2>1, SimpleJobs, OneRequestMoves DEF ForgotWrite, Done, Goto
<1>5. CASE ResetWrite(r)
  <2>1. PICK new \in Passwords :
          BumpWith([account EXCEPT !.password = new, !.resetPending = FALSE])
    BY <1>5 DEF ResetWrite
  <2>2. /\ [account EXCEPT !.password = new, !.resetPending = FALSE] \in Account
        /\ [account EXCEPT !.password = new, !.resetPending = FALSE].version = account.version
    BY <1>0 DEF Account, Secrets
  <2>3. account' \in Account /\ Moves
    BY <1>0, <2>1, <2>2, BumpMoves
  <2> QED
    BY <1>0, <1>1, <1>5, <2>3, OneRequestMoves DEF ResetWrite, Goto
<1> QED
  BY <1>2, <1>3, <1>4, <1>5

\* Statements that touch the account alone, without a bump.
LEMMA AccountIInv ==
  ASSUME IInv, VerifyEmail \/ Unsuspend \/ Unban
  PROVE  IInv'
<1>1. account \in Account /\ UNCHANGED <<sessions, tokens, job>>
  BY DEF IInv, TypeOK, VerifyEmail, Unsuspend, Unban
<1>2. account' \in Account /\ Moves
  BY <1>1 DEF VerifyEmail, Unsuspend, Unban, Account, Moves, Unlocked
<1>3. TypeOK'
  BY <1>1, <1>2 DEF IInv, TypeOK
<1>4. ASSUME NEW t \in DOMAIN tokens PROVE Sound(tokens[t], account')
  <2>1. tokens[t] \in Token
    BY DEF IInv, TypeOK
  <2>2. tokens[t].ver \in Versions
    BY <2>1 DEF Token
  <2> QED
    BY <1>1, <1>2, <2>2, SoundKept DEF IInv
<1>5. ASSUME NEW r \in Requests, job[r].at \in Granting PROVE Sound(job[r], account')
  <2>1. job[r].ver \in Versions
    BY <1>5, GrantedJob DEF IInv, TypeOK, Granted
  <2> QED
    BY <1>1, <1>2, <1>5, <2>1, SoundKept DEF IInv
<1> QED
  BY <1>1, <1>3, <1>4, <1>5 DEF IInv

LEMMA NextIInv == IInv /\ [Next]_vars => IInv'
<1> SUFFICES ASSUME IInv, [Next]_vars PROVE IInv'
  OBVIOUS
<1>1. ASSUME NEW r \in Requests, Begin(r) PROVE IInv'
  BY <1>1, BeginIInv
<1>2. ASSUME NEW r \in Requests, Step(r) PROVE IInv'
  <2>0. sessions \subseteq DOMAIN tokens
    BY DEF IInv, TypeOK
  <2>1. CASE ValidateUser(r) \/ OAuthRead(r) \/ LinkProvider(r)
    BY <2>1, LoginIInv
  <2>2. CASE PurgeThenIssue(r)
    BY <2>2, PurgeIssueIInv
  <2>3. CASE Issue(r)
    BY <2>3, IssueIInv
  <2>4. CASE GuardUser(r) \/ GuardSession(r) \/ RevokeSession(r) \/ RevokeOtherSessions(r)
    BY <2>4, GuardedIInv
  <2>5. CASE \/ ChangeRead(r) \/ ChangeWrite(r)
             \/ ForgotRead(r) \/ ForgotWrite(r)
             \/ ResetRead(r) \/ ResetWrite(r)
    BY <2>5, PasswordIInv
  <2>6. CASE Purge(r) \/ Fail(r)
    BY <2>0, <2>6, StepDone DEF Purge, Fail
  <2> QED
    BY <1>2, <2>1, <2>2, <2>3, <2>4, <2>5, <2>6 DEF Step
<1>3. CASE VerifyEmail \/ Unsuspend \/ Unban
  BY <1>3, AccountIInv
<1>4. CASE UNCHANGED vars
  BY <1>4 DEF vars, IInv, TypeOK
<1> QED
  BY <1>1, <1>2, <1>3, <1>4 DEF Next

LEMMA AlwaysIInv == Spec => []IInv
BY InitIInv, NextIInv, PTL DEF Spec

-----------------------------------------------------------------------------

\* Every variable keeps its type: a session row always names a signed token.
THEOREM SessionsTypeCorrect == Spec => []TypeOK
<1>1. IInv => TypeOK
  BY DEF IInv
<1> QED
  BY <1>1, AlwaysIInv, PTL

\* No token that a request would accept stems from a password that has been
\* replaced, however many logins, resets, changes and links overlap.
THEOREM AcceptedTokensAreCurrent == Spec => []AcceptedTokenHasCurrentPassword
<1>1. IInv => AcceptedTokenHasCurrentPassword
  BY DEF IInv, Sound, AcceptedTokenHasCurrentPassword, Accepted
<1> QED
  BY <1>1, AlwaysIInv, PTL

-----------------------------------------------------------------------------
(* Revocation is for good: versions only grow, tokens stay as signed, and no *)
(* statement puts back the row of a token that exists.                       *)

NothingRevived ==
  /\ account'.version >= account.version
  /\ \A t \in DOMAIN tokens : tokens'[t] = tokens[t] /\ (t \in sessions' => t \in sessions)

\* A bump is a bump.
LEMMA BumpGrows ==
  ASSUME account \in Account, NEW row \in Account, row.version = account.version, BumpWith(row)
  PROVE  account'.version >= account.version
<1>1. account.version \in Int
  BY SessionsAssumption DEF Account, Versions
<1>2. account'.version = account.version + 1
  BY DEF BumpWith, Account
<1> QED
  BY <1>1, <1>2

LEMMA StepNothingRevived == IInv /\ [Next]_vars => NothingRevived
<1> SUFFICES ASSUME IInv, [Next]_vars PROVE NothingRevived
  OBVIOUS
<1>0. account \in Account /\ account.version \in Int /\ account.version >= account.version
  <2>1. account \in Account
    BY DEF IInv, TypeOK
  <2> QED
    BY <2>1, SessionsAssumption DEF Account, Versions
<1>1. ASSUME NEW r \in Requests, Begin(r) PROVE NothingRevived
  <2>1. CASE Suspend(r) \/ Ban(r)
    <3>1. /\ [account EXCEPT !.suspended = TRUE] \in Account
          /\ [account EXCEPT !.suspended = TRUE].version = account.version
          /\ [account EXCEPT !.banned = TRUE] \in Account
          /\ [account EXCEPT !.banned = TRUE].version = account.version
      BY <1>0 DEF Account
    <3>2. account'.version >= account.version
      BY <1>0, <2>1, <3>1, BumpGrows DEF Suspend, Ban
    <3> QED
      BY <2>1, <3>2 DEF NothingRevived, Suspend, Ban
  <2>2. CASE UNCHANGED <<account, sessions, tokens>>
    BY <1>0, <2>2 DEF NothingRevived
  <2> QED
    BY <1>1, <2>1, <2>2
    DEF Begin, PasswordLogin, OAuthLogin, GuardedRequest, ForgotPassword, ResetPassword, Start
<1>2. ASSUME NEW r \in Requests, Step(r) PROVE NothingRevived
  <2>1. CASE UNCHANGED <<account, tokens>> /\ sessions' \subseteq sessions
    BY <1>0, <2>1 DEF NothingRevived
  <2>2. CASE Issue(r)
    <3>1. tokens \in Seq(Token)
      BY DEF IInv, TypeOK
    <3>2. \A t \in DOMAIN tokens : tokens'[t] = tokens[t] /\ t # Len(tokens) + 1
      BY <2>2, <3>1 DEF Issue
    <3> QED
      BY <1>0, <2>2, <3>2 DEF Issue, NothingRevived
  <2>3. CASE LinkProvider(r) \/ ChangeWrite(r) \/ ForgotWrite(r) \/ ResetWrite(r)
    <3>1. UNCHANGED <<sessions, tokens>>
      BY <2>3 DEF LinkProvider, ChangeWrite, ForgotWrite, ResetWrite
    <3>2. CASE LinkProvider(r)
      <4> DEFINE linked == [account EXCEPT !.linked = @ \cup {job[r].by}, !.emailVerified = TRUE]
                 revoked == [linked EXCEPT !.password = NoPassword]
      <4>1. job[r].by \in Providers
        BY <3>2 DEF LinkProvider, IInv, TypeOK, Job, Idle
      <4>2. linked \in Account /\ linked.version = account.version
        BY <1>0, <4>1 DEF Account
      <4>3. revoked \in Account /\ revoked.version = account.version
        BY <4>2 DEF Account, Secrets
      <4>4. BumpWith(revoked) \/ account' = linked
        BY <3>2 DEF LinkProvider
      <4> HIDE DEF linked, revoked
      <4> QED
        BY <1>0, <3>1, <4>2, <4>3, <4>4, BumpGrows DEF NothingRevived
    <3>3. CASE ChangeWrite(r)
      <4>1. PICK new \in Passwords : BumpWith([account EXCEPT !.password = new])
        BY <3>3 DEF ChangeWrite
      <4>2. /\ [account EXCEPT !.password = new] \in Account
            /\ [account EXCEPT !.password = new].version = account.version
        BY <1>0 DEF Account, Secrets
      <4> QED
        BY <1>0, <3>1, <4>1, <4>2, BumpGrows DEF NothingRevived
    <3>4. CASE ForgotWrite(r)
      BY <1>0, <3>1, <3>4 DEF ForgotWrite, Account, NothingRevived
    <3>5. CASE ResetWrite(r)
      <4>1. PICK new \in Passwords :
              BumpWith([account EXCEPT !.password = new, !.resetPending = FALSE])
        BY <3>5 DEF ResetWrite
      <4>2. /\ [account EXCEPT !.password = new, !.resetPending = FALSE] \in Account
            /\ [account EXCEPT !.password = new, !.resetPending = FALSE].version = account.version
        BY <1>0 DEF Account, Secrets
      <4> QED
        BY <1>0, <3>1, <4>1, <4>2, BumpGrows DEF NothingRevived
    <3> QED
      BY <2>3, <3>2, <3>3, <3>4, <3>5
  <2> QED
    BY <1>2, <2>1, <2>2, <2>3
    DEF Step, ValidateUser, OAuthRead, PurgeThenIssue, GuardUser, GuardSession, RevokeSession,
        RevokeOtherSessions, ChangeRead, ForgotRead, ResetRead, Purge, Fail
<1>3. CASE VerifyEmail \/ Unsuspend \/ Unban
  BY <1>0, <1>3 DEF VerifyEmail, Unsuspend, Unban, Account, NothingRevived
<1>4. CASE UNCHANGED vars
  BY <1>0, <1>4 DEF vars, NothingRevived
<1> QED
  BY <1>1, <1>2, <1>3, <1>4 DEF Next

\* Once a token signed by a login that checked the account is refused, lifting
\* the suspension or the ban does not bring it back.
THEOREM RefusedTokensStayRefused == Spec => RefusedStaysRefused
<1>1. ASSUME IInv, IInv', NothingRevived, NEW t \in DOMAIN tokens,
             tokens[t].from = "checked", Accepted(t)'
      PROVE  Accepted(t)
  <2>1. account.version \in Int /\ account'.version \in Int /\ tokens[t].ver \in Int
    <3>1. account \in Account /\ account' \in Account /\ tokens[t] \in Token
      BY <1>1 DEF IInv, TypeOK
    <3> QED
      BY <3>1, SessionsAssumption DEF Account, Token, Versions
  <2>2. tokens[t].ver = account'.version /\ tokens[t].ver <= account.version
    BY <1>1 DEF NothingRevived, Accepted, IInv, Sound
  <2>3. tokens[t].ver = account.version
    BY <1>1, <2>1, <2>2 DEF NothingRevived
  <2>4. Active
    BY <1>1, <2>3 DEF IInv, Sound, Unlocked, Active
  <2> QED
    BY <1>1, <2>3, <2>4 DEF NothingRevived, Accepted
<1>2. IInv /\ IInv' /\ [Next]_vars =>
        [\A t \in DOMAIN tokens :
           tokens[t].from = "checked" /\ ~Accepted(t) => ~Accepted(t)']_vars
  BY <1>1, StepNothingRevived
<1> QED
  BY <1>2, AlwaysIInv, PTL DEF Spec, RefusedStaysRefused
=============================================================================
