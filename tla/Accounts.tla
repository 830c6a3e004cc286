------------------------------- MODULE Accounts -------------------------------
\* One email address and the account that has it: registration, the sign-in with a
\* provider that creates or links it, the mail with the verification link, asking for
\* another one, opening it, deletion (auth.service.ts, mail.service.ts).  Requests run
\* one statement at a time; the queue delivers a mail late, out of order or never.
EXTENDS Naturals, FiniteSets

CONSTANTS
  Callers,        \* concurrent requests
  Tokens,         \* verification tokens
  MaxAccounts,    \* bound: accounts created with the address
  MaxExpiries     \* bound: tokens that expire before they are used

Nil == 0
\* There are more tokens than the bounds let requests make.
ASSUME AccountsAssumption ==
  /\ Nil \notin Tokens
  /\ IsFiniteSet(Callers) /\ {MaxAccounts, MaxExpiries} \subseteq Nat
  /\ IsFiniteSet(Tokens) => Cardinality(Tokens) > Cardinality(Callers) * (MaxAccounts + MaxExpiries)

VARIABLES
  account,    \* [id, verified, token, fresh] (id Nil: no such row)
  caller,     \* request -> [at, id, token, trusted]
  outbox,     \* tokens in mails that are queued or on their way
  inbox,      \* the token in the mail that came last
  opening,    \* id of the account whose token the verify page was found to have
  created,    \* accounts created so far
  expiries    \* tokens expired so far

accountsVars == <<account, caller, outbox, inbox, opening, created, expiries>>

NoAccount == [id |-> Nil, verified |-> FALSE, token |-> Nil, fresh |-> FALSE]
NoCall == [at |-> "idle", id |-> Nil, token |-> Nil, trusted |-> FALSE]

AccountsInit ==
  /\ account = NoAccount
  /\ caller = [r \in Callers |-> NoCall]
  /\ outbox = {} /\ inbox = Nil /\ opening = Nil
  /\ created = 0 /\ expiries = 0

\* randomBytes(32): a token nothing refers to.
InUse == outbox \cup {inbox, account.token} \cup {caller[r].token : r \in Callers}
NewToken == CHOOSE t \in Tokens : t \notin InUse

Goes(r, call) == caller' = [caller EXCEPT ![r] = call]

-----------------------------------------------------------------------------
\* register: look the address up, insert the row (the address is unique, and so is the
\* name, which another account may take first), then have the mail sent.
NoSuchUser == account.id = Nil

Register(r) ==
  /\ caller[r] = NoCall /\ NoSuchUser
  /\ Goes(r, [NoCall EXCEPT !.at = "register"])
  /\ UNCHANGED <<account, outbox, inbox, opening, created, expiries>>

InsertAccount(verified, token) ==
  /\ account.id = Nil /\ created < MaxAccounts
  /\ account' = [id |-> created + 1, verified |-> verified, token |-> token, fresh |-> token # Nil]
  /\ created' = created + 1

InsertRegistered(r) ==
  /\ caller[r].at = "register"
  /\ InsertAccount(FALSE, NewToken)
  /\ Goes(r, [NoCall EXCEPT !.at = "mail", !.token = NewToken])
  /\ UNCHANGED <<outbox, inbox, opening, expiries>>

\* googleLogin, facebookLogin: an account with the address is linked when the provider
\* vouches for the address, which verifies it; without one, it is created.
SignInWithProvider(r, trusted) ==
  /\ caller[r] = NoCall
  /\ \/ /\ NoSuchUser
        /\ Goes(r, [NoCall EXCEPT !.at = "provider", !.trusted = trusted])
        /\ UNCHANGED account
     \/ /\ account.id # Nil /\ trusted
        /\ account' = [account EXCEPT !.verified = TRUE]
        /\ UNCHANGED caller
  /\ UNCHANGED <<outbox, inbox, opening, created, expiries>>

InsertByProvider(r) ==
  /\ caller[r].at = "provider"
  /\ InsertAccount(caller[r].trusted, Nil)
  /\ Goes(r, NoCall)
  /\ UNCHANGED <<outbox, inbox, opening, expiries>>

-----------------------------------------------------------------------------
\* Mutant of NeedsToken: a token is kept for good once there is one.
NeedsFirstToken == account.token = Nil

\* resendVerification: a token that is still good is sent again, another one replaces
\* one that expired or was never made.
NeedsToken == account.token = Nil \/ ~account.fresh

AskAgain(r) ==
  /\ caller[r] = NoCall
  /\ account.id # Nil /\ ~account.verified
  /\ Goes(r, IF NeedsToken
             THEN [NoCall EXCEPT !.at = "renew", !.id = account.id]
             ELSE [NoCall EXCEPT !.at = "mail", !.token = account.token])
  /\ UNCHANGED <<account, outbox, inbox, opening, created, expiries>>

RenewToken(r) ==
  /\ caller[r].at = "renew" /\ account.id = caller[r].id
  /\ account' = [account EXCEPT !.token = NewToken, !.fresh = TRUE]
  /\ Goes(r, [NoCall EXCEPT !.at = "mail", !.token = NewToken])
  /\ UNCHANGED <<outbox, inbox, opening, created, expiries>>

\* dispatchVerificationEmail: the mail is queued.
QueueMail(r) ==
  /\ caller[r].at = "mail"
  /\ outbox' = outbox \cup {caller[r].token}
  /\ Goes(r, NoCall)
  /\ UNCHANGED <<account, inbox, opening, created, expiries>>

\* A statement of the request fails, on a unique index or a row that is gone too, or the
\* server stops: the row that was inserted stays, without a mail.
CallFails(r) ==
  /\ caller[r] # NoCall
  /\ Goes(r, NoCall)
  /\ UNCHANGED <<account, outbox, inbox, opening, created, expiries>>

-----------------------------------------------------------------------------
\* The worker sends a mail; an error of the provider is logged and the job is done, so
\* the attempts the queue is configured with are never used.
SendMail(t) ==
  /\ t \in outbox
  /\ outbox' = outbox \ {t}
  /\ inbox' \in {inbox, t}
  /\ UNCHANGED <<account, caller, opening, created, expiries>>

Delivered(t) == SendMail(t) /\ inbox' = t

\* verifyEmail: find the account with the token, then mark it.
FoundBy(token) == account.token = token /\ account.fresh

OpenLink ==
  /\ opening = Nil /\ inbox # Nil /\ FoundBy(inbox)
  /\ opening' = account.id
  /\ UNCHANGED <<account, caller, outbox, inbox, created, expiries>>

MarkVerified ==
  /\ opening # Nil
  /\ opening' = Nil
  /\ account' = IF account.id = opening
                THEN [account EXCEPT !.verified = TRUE, !.token = Nil, !.fresh = FALSE]
                ELSE account
  /\ UNCHANGED <<caller, outbox, inbox, created, expiries>>

TokenExpires ==
  /\ account.fresh /\ expiries < MaxExpiries
  /\ account' = [account EXCEPT !.fresh = FALSE]
  /\ expiries' = expiries + 1
  /\ UNCHANGED <<caller, outbox, inbox, opening, created>>

RemoveAccount ==
  /\ account.id # Nil
  /\ account' = NoAccount
  /\ UNCHANGED <<caller, outbox, inbox, opening, created, expiries>>

AccountsNext ==
  \/ \E r \in Callers : \/ Register(r)
                        \/ InsertRegistered(r)
                        \/ \E trusted \in BOOLEAN : SignInWithProvider(r, trusted)
                        \/ InsertByProvider(r)
                        \/ AskAgain(r)
                        \/ RenewToken(r)
                        \/ QueueMail(r)
                        \/ CallFails(r)
  \/ \E t \in Tokens : SendMail(t)
  \/ OpenLink
  \/ MarkVerified
  \/ TokenExpires
  \/ RemoveAccount

AccountsSpec == AccountsInit /\ [][AccountsNext]_accountsVars

-----------------------------------------------------------------------------
AccountsTypeOK ==
  /\ account \in [id : 0..MaxAccounts, verified : BOOLEAN, token : Tokens \cup {Nil}, fresh : BOOLEAN]
  /\ caller \in [Callers -> [at : {"idle", "register", "provider", "renew", "mail"},
                             id : 0..MaxAccounts, token : Tokens \cup {Nil}, trusted : BOOLEAN]]
  /\ outbox \subseteq Tokens
  /\ inbox \in Tokens \cup {Nil}
  /\ opening \in 0..MaxAccounts
  /\ created \in 0..MaxAccounts /\ expiries \in 0..MaxExpiries
  \* The bound on tokens is never what stops a request.
  /\ Tokens \ InUse # {}

\* An account whose owner keeps asking for the mail and opens the one that came last is
\* verified in the end, unless it is deleted: auth.service.ts:407-426.  Two requests may
\* both find the token expired, and the second replaces the one the first mailed; the
\* mail of an older token may come last; a mail may be lost without a retry.
VerifiedInTheEnd == account.id # Nil ~> (account.verified \/ account.id = Nil)
=============================================================================
