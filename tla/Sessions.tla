------------------------------ MODULE Sessions ------------------------------
(***************************************************************************)
(* The logins of one account: AuthService, JwtStrategy and the moderation  *)
(* that locks the account (AdminService), as concurrent requests see it.   *)
(*                                                                         *)
(* A login leaves a row in sessions and a signed token that carries the    *)
(* row's id and the users.token_version of the moment.  Both are checked   *)
(* on every request, so there are two ways to revoke: deleting rows and    *)
(* bumping the version.  Each awaited statement is one step; what a        *)
(* handler read before may be stale when its next statement runs.          *)
(***************************************************************************)
EXTENDS Integers, Sequences, FiniteSets

CONSTANTS
  Passwords,    \* what users.password_hash can be the hash of
  NoPassword,   \* users.password_hash is null
  Providers,    \* OAuth providers
  Requests,     \* HTTP requests that can be in flight at once
  MaxVersion,   \* bound on token_version
  MaxTokens     \* bound on the logins

ASSUME SessionsAssumption ==
  NoPassword \notin Passwords /\ MaxVersion \in Nat /\ MaxTokens \in Nat

VARIABLES
  account,   \* the row of users: see Account
  sessions,  \* the rows of sessions, by the token that names them (its sid)
  tokens,    \* every token ever signed: see Token
  job        \* what each request is at, with what it holds in memory

vars == <<account, sessions, tokens, job>>

Secrets == Passwords \cup {NoPassword}
Versions == 0..MaxVersion

Account == [password : Secrets, version : Versions, suspended : BOOLEAN,
            banned : BOOLEAN, emailVerified : BOOLEAN,
            linked : SUBSET Providers, resetPending : BOOLEAN]

Idle == [at |-> "idle"]

\* ver and sid (its index) are signed into the token.  cred, the password it
\* was obtained with, and the version it was signed from (the row its login
\* checked, or one returned by an UPDATE) are for the properties.
Origin == {"checked", "updated"}
Token == [ver : Versions, cred : Secrets, from : Origin]
Sids == 1..MaxTokens

GuardedOps == {"change", "revoke", "others"}
Job ==
  {Idle}
  \cup [at : {"login"}, cred : Passwords]
  \cup [at : {"oauth"}, by : Providers]
  \cup [at : {"link"}, by : Providers, unverified : BOOLEAN]
  \cup [at : {"link_purge", "change_purge", "issue"}, ver : Versions,
        cred : Secrets, from : Origin]
  \cup [at : {"guard_user", "guard_session"}, op : GuardedOps, tok : Sids, target : Sids]
  \cup [at : {"revoke", "others"}, tok : Sids, target : Sids]
  \cup [at : {"change_read", "change_write", "forgot_read", "forgot_write",
              "reset_read", "reset_write", "purge"}]

Init ==
  /\ \/ \E p \in Passwords :          \* register
          account = [password |-> p, version |-> 0, suspended |-> FALSE,
                     banned |-> FALSE, emailVerified |-> FALSE,
                     linked |-> {}, resetPending |-> FALSE]
     \/ \E o \in Providers, vouched \in BOOLEAN : \* first login with a provider
          account = [password |-> NoPassword, version |-> 0, suspended |-> FALSE,
                     banned |-> FALSE, emailVerified |-> vouched,
                     linked |-> {o}, resetPending |-> FALSE]
  /\ sessions = {}
  /\ tokens = <<>>
  /\ job = [r \in Requests |-> Idle]

-----------------------------------------------------------------------------

Goto(r, j) == job' = [job EXCEPT ![r] = j]

\* A request arrives, or ends.
Start(r, j) == job[r] = Idle /\ Goto(r, j) /\ UNCHANGED <<account, sessions, tokens>>
Done(r) == Goto(r, Idle)

\* assertAccountActive
Active == ~account.suspended /\ ~account.banned

\* UPDATE users SET ... token_version = token_version + 1
BumpWith(row) ==
  /\ account.version < MaxVersion
  /\ account' = [row EXCEPT !.version = @ + 1]

\* What is left to issue after a check of, or an UPDATE returning, the row.
Grant(at, row, from) ==
  [at |-> at, ver |-> row.version, cred |-> row.password, from |-> from]

-----------------------------------------------------------------------------
(* Logging in. *)

PasswordLogin(r, cred) == Start(r, [at |-> "login", cred |-> cred])

\* validateUser: the row read once is compared and checked in memory, and its
\* version is the one that will be signed.
ValidateUser(r) ==
  /\ job[r].at = "login"
  /\ IF account.password = job[r].cred /\ Active
     THEN Goto(r, Grant("issue", account, "checked"))
     ELSE Done(r)
  /\ UNCHANGED <<account, sessions, tokens>>

OAuthLogin(r, o) == Start(r, [at |-> "oauth", by |-> o])

\* googleLogin, facebookLogin: found by provider id or by email.  Refused when
\* locked, or to be linked while Google does not vouch for the email.
OAuthRead(r) ==
  /\ job[r].at = "oauth"
  /\ \/ /\ ~Active \/ job[r].by \notin account.linked
        /\ Done(r)
     \/ /\ Active /\ job[r].by \in account.linked
        /\ Goto(r, [Grant("issue", account, "checked") EXCEPT !.cred = NoPassword])
     \/ /\ Active /\ job[r].by \notin account.linked
        /\ Goto(r, [at |-> "link", by |-> job[r].by, unverified |-> ~account.emailVerified])
  /\ UNCHANGED <<account, sessions, tokens>>

\* linkOAuthAccount: whether the password is revoked was decided by the read,
\* what is signed is the row as it is now.
LinkProvider(r) ==
  /\ job[r].at = "link"
  /\ LET linked == [account EXCEPT !.linked = @ \cup {job[r].by}, !.emailVerified = TRUE]
         revoked == [linked EXCEPT !.password = NoPassword]
     IN  IF job[r].unverified
         THEN BumpWith(revoked) /\ Goto(r, Grant("link_purge", account', "updated"))
         ELSE /\ account' = linked
              /\ Goto(r, [Grant("issue", account', "updated") EXCEPT !.cred = NoPassword])
  /\ UNCHANGED <<sessions, tokens>>

\* session.deleteMany, on the way to a new session.
PurgeThenIssue(r) ==
  /\ job[r].at \in {"link_purge", "change_purge"}
  /\ sessions' = {}
  /\ Goto(r, [job[r] EXCEPT !.at = "issue"])
  /\ UNCHANGED <<account, tokens>>

\* Mutants: the version is read again when the token is signed ...
IssueAtCurrentVersion(r) ==
  /\ job[r].at = "issue"
  /\ Len(tokens) < MaxTokens
  /\ tokens' = Append(tokens, [ver |-> account.version, cred |-> job[r].cred, from |-> job[r].from])
  /\ sessions' = sessions \cup {Len(tokens) + 1}
  /\ Done(r)
  /\ UNCHANGED account

\* ... or a login answers before its token is signed.
IssueUnsigned(r) ==
  /\ job[r].at = "issue"
  /\ Len(tokens) < MaxTokens
  /\ sessions' = sessions \cup {Len(tokens) + 1}
  /\ Done(r)
  /\ UNCHANGED <<account, tokens>>

\* setAuthCookie
Issue(r) ==
  /\ job[r].at = "issue"
  /\ Len(tokens) < MaxTokens
  /\ tokens' = Append(tokens, [ver |-> job[r].ver, cred |-> job[r].cred, from |-> job[r].from])
  /\ sessions' = sessions \cup {Len(tokens) + 1}
  /\ Done(r)
  /\ UNCHANGED account

-----------------------------------------------------------------------------
(* Requests of a logged-in user. *)

GuardedRequest(r, op, tok, target) ==
  /\ {tok, target} \subseteq DOMAIN tokens
  /\ Start(r, [at |-> "guard_user", op |-> op, tok |-> tok, target |-> target])

\* JwtStrategy.validate, first the account ...
GuardUser(r) ==
  /\ job[r].at = "guard_user"
  /\ IF tokens[job[r].tok].ver = account.version /\ Active
     THEN Goto(r, [job[r] EXCEPT !.at = "guard_session"])
     ELSE Done(r)
  /\ UNCHANGED <<account, sessions, tokens>>

\* ... then the session row.
GuardSession(r) ==
  /\ job[r].at = "guard_session"
  /\ IF job[r].tok \notin sessions
     THEN Done(r)
     ELSE IF job[r].op = "change"
     THEN Goto(r, [at |-> "change_read"])
     ELSE Goto(r, [at |-> job[r].op, tok |-> job[r].tok, target |-> job[r].target])
  /\ UNCHANGED <<account, sessions, tokens>>

\* revokeSession, and logout when the target is the caller's own.
RevokeSession(r) ==
  /\ job[r].at = "revoke"
  /\ sessions' = sessions \ {job[r].target}
  /\ Done(r)
  /\ UNCHANGED <<account, tokens>>

RevokeOtherSessions(r) ==
  /\ job[r].at = "others"
  /\ sessions' = sessions \cap {job[r].tok}
  /\ Done(r)
  /\ UNCHANGED <<account, tokens>>

\* changePassword: the caller gives the right current password, or is refused.
ChangeRead(r) ==
  /\ job[r].at = "change_read"
  /\ \/ /\ account.password # NoPassword
        /\ Goto(r, [at |-> "change_write"])
     \/ Done(r)
  /\ UNCHANGED <<account, sessions, tokens>>

ChangeWrite(r) ==
  /\ job[r].at = "change_write"
  /\ \E new \in Passwords : BumpWith([account EXCEPT !.password = new])
  /\ Goto(r, Grant("change_purge", account', "updated"))
  /\ UNCHANGED <<sessions, tokens>>

-----------------------------------------------------------------------------
(* Recovering and verifying the account by email. *)

ForgotPassword(r) == Start(r, [at |-> "forgot_read"])

ForgotRead(r) ==
  /\ job[r].at = "forgot_read"
  /\ IF account.password = NoPassword THEN Done(r) ELSE Goto(r, [at |-> "forgot_write"])
  /\ UNCHANGED <<account, sessions, tokens>>

\* By id, whatever became of the password since.  Then the mail goes out.
ForgotWrite(r) ==
  /\ job[r].at = "forgot_write"
  /\ account' = [account EXCEPT !.resetPending = TRUE]
  /\ Done(r)
  /\ UNCHANGED <<sessions, tokens>>

ResetPassword(r) == Start(r, [at |-> "reset_read"])

\* No such token, or expired by now.
ResetRead(r) ==
  /\ job[r].at = "reset_read"
  /\ \/ account.resetPending /\ Goto(r, [at |-> "reset_write"])
     \/ Done(r)
  /\ UNCHANGED <<account, sessions, tokens>>

\* By id: the token is not looked at again.
ResetWrite(r) ==
  /\ job[r].at = "reset_write"
  /\ \E new \in Passwords :
       BumpWith([account EXCEPT !.password = new, !.resetPending = FALSE])
  /\ Goto(r, [at |-> "purge"])
  /\ UNCHANGED <<sessions, tokens>>

VerifyEmail ==
  /\ account' = [account EXCEPT !.emailVerified = TRUE]
  /\ UNCHANGED <<sessions, tokens, job>>

-----------------------------------------------------------------------------
(* Moderation. *)

\* Mutant: the purge alone is trusted to end the sessions.
SuspendSameVersion(r) ==
  /\ job[r] = Idle
  /\ account' = [account EXCEPT !.suspended = TRUE]
  /\ Goto(r, [at |-> "purge"])
  /\ UNCHANGED <<sessions, tokens>>

Suspend(r) ==
  /\ job[r] = Idle
  /\ BumpWith([account EXCEPT !.suspended = TRUE])
  /\ Goto(r, [at |-> "purge"])
  /\ UNCHANGED <<sessions, tokens>>

Ban(r) ==
  /\ job[r] = Idle
  /\ BumpWith([account EXCEPT !.banned = TRUE])
  /\ Goto(r, [at |-> "purge"])
  /\ UNCHANGED <<sessions, tokens>>

\* The session.deleteMany that follows a reset, a suspension and a ban.
Purge(r) ==
  /\ job[r].at = "purge"
  /\ sessions' = {}
  /\ Done(r)
  /\ UNCHANGED <<account, tokens>>

Unsuspend ==
  /\ account' = [account EXCEPT !.suspended = FALSE]
  /\ UNCHANGED <<sessions, tokens, job>>

Unban ==
  /\ account' = [account EXCEPT !.banned = FALSE]
  /\ UNCHANGED <<sessions, tokens, job>>

\* A database error or a crash: the statements already run stay.
Fail(r) ==
  /\ job[r] # Idle
  /\ Done(r)
  /\ UNCHANGED <<account, sessions, tokens>>

Begin(r) ==
  \/ \E p \in Passwords : PasswordLogin(r, p)
  \/ \E o \in Providers : OAuthLogin(r, o)
  \/ \E op \in GuardedOps, tok, target \in Sids : GuardedRequest(r, op, tok, target)
  \/ ForgotPassword(r) \/ ResetPassword(r) \/ Suspend(r) \/ Ban(r)

Step(r) ==
  \/ ValidateUser(r) \/ OAuthRead(r) \/ LinkProvider(r) \/ PurgeThenIssue(r) \/ Issue(r)
  \/ GuardUser(r) \/ GuardSession(r)
  \/ RevokeSession(r) \/ RevokeOtherSessions(r) \/ ChangeRead(r) \/ ChangeWrite(r)
  \/ ForgotRead(r) \/ ForgotWrite(r) \/ ResetRead(r) \/ ResetWrite(r) \/ Purge(r)
  \/ Fail(r)

Next ==
  \/ \E r \in Requests : Begin(r) \/ Step(r)
  \/ VerifyEmail \/ Unsuspend \/ Unban

Spec == Init /\ [][Next]_vars

-----------------------------------------------------------------------------

\* JwtStrategy.validate would accept the token now.
Accepted(t) == tokens[t].ver = account.version /\ Active /\ t \in sessions

TypeOK ==
  /\ account \in Account
  /\ tokens \in Seq(Token) /\ Len(tokens) <= MaxTokens
  /\ sessions \subseteq DOMAIN tokens
  /\ job \in [Requests -> Job]

\* Nobody stays logged in with a password that has been replaced: an accepted
\* token obtained with a password was obtained with the current one, also when
\* the login was checked before a reset, a change or a link committed and its
\* session created after the purge.
AcceptedTokenHasCurrentPassword ==
  \A t \in DOMAIN tokens :
    Accepted(t) /\ tokens[t].cred # NoPassword => tokens[t].cred = account.password

\* A token signed from the row its login checked is revoked for good once it is
\* refused: lifting a suspension or a ban does not bring it back, even if its
\* login overlapped the lock and left a session row behind the purge.
RefusedStaysRefused ==
  [][\A t \in DOMAIN tokens :
       tokens[t].from = "checked" /\ ~Accepted(t) => ~Accepted(t)']_vars

\* A deletion of session rows is still to come.
PurgePending == \E r \in Requests : job[r].at \in {"purge", "link_purge", "change_purge"}

\* admin.service.ts:163 and auth.service.ts:372 keep dead rows out of the list
\* of active sessions: a row that no purge under way will delete enters it only
\* for a login that works.
ListedSessionIsLive ==
  [][\A s \in sessions' \ sessions :
       PurgePending \/ tokens'[s].ver = account'.version]_vars
=============================================================================
