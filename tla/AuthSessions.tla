---------------------------- MODULE AuthSessions ----------------------------
(***************************************************************************)
(* Accounts, refresh sessions and access tokens: registration, login,      *)
(* refresh, logout, the administrator's operations on accounts and the     *)
(* administrator created at server start.                                  *)
(*                                                                         *)
(* A handler is a sequence of short transactions: what one has read may be *)
(* outdated when the next one writes.  Each step below is one transaction, *)
(* together with the computation that follows it in the handler.  A reply  *)
(* that changes nothing (wrong password, Forbidden, invalid body) is no    *)
(* step unless the handler has already begun.                              *)
(***************************************************************************)
EXTENDS Naturals, FiniteSets

CONSTANTS
  User,            \* account ids (UUIDs, never given out twice)
  Email,
  BootstrapEmail,  \* BOOTSTRAP_ADMIN_EMAIL
  Token,           \* refresh tokens, each unique by its jwtid
  Handler,         \* requests in progress
  MaxPassword,     \* bound of the model: password changes per account
  None             \* no row, no value

Role == {"USER", "ADMIN"}
Account == [email : Email, role : Role, password : 0 .. MaxPassword]
Session == [user : User, password : 0 .. MaxPassword]  \* the password is auxiliary

ASSUME AuthAssumption ==
  /\ BootstrapEmail \in Email
  /\ None \notin User \cup Token \cup Account \cup Session
  /\ MaxPassword \in Nat

VARIABLES
  account,    \* rows of users
  session,    \* rows of refresh_sessions by token
  expired,    \* refresh tokens older than 30 days
  access,     \* accounts for which somebody holds an unexpired access token
  newUsers,  \* ids not yet given out
  pc, actor, target, role, email, token,  \* per handler: progress and request
  proof,      \* per handler: the password a login has verified
  subject,    \* account a refresh token was issued to
  revoked,    \* auxiliary: tokens whose session was ended by logout, new password or deletion
  presentedRevoked  \* auxiliary, per handler: its refresh token was revoked when presented

rows == <<account, session, newUsers, subject>>
vars == <<rows, expired, access, pc, actor, target, role, email, token, proof,
          revoked, presentedRevoked>>

TypeOK ==
  /\ account \in [User -> Account \cup {None}]
  /\ session \in [Token -> Session \cup {None}]
  /\ expired \subseteq Token /\ revoked \subseteq Token
  /\ access \subseteq User
  /\ newUsers \subseteq User
  /\ subject \in [Token -> User \cup {None}]
  /\ pc \in [Handler -> {"idle", "registering", "verified", "presented",
                         "delete", "password", "role", "deleting", "rehashing", "promoting"}]
  /\ actor \in [Handler -> User \cup {None}]
  /\ target \in [Handler -> User \cup {None}]
  /\ role \in [Handler -> Role]
  /\ email \in [Handler -> Email \cup {None}]
  /\ token \in [Handler -> Token \cup {None}]
  /\ proof \in [Handler -> 0 .. MaxPassword]
  /\ presentedRevoked \in [Handler -> BOOLEAN]

Accounts == {u \in User : account[u] # None}
Admins == {u \in Accounts : account[u].role = "ADMIN"}
NewTokens == {t \in Token : subject[t] = None}
Taken(e) == \E u \in Accounts : account[u].email = e
SessionsOf(u) == {t \in Token : session[t] # None /\ session[t].user = u}

request == <<actor, target, role, email, token, proof, presentedRevoked>>

Finish(h) ==
  /\ pc' = [pc EXCEPT ![h] = "idle"]
  /\ actor' = [actor EXCEPT ![h] = None]
  /\ target' = [target EXCEPT ![h] = None]
  /\ role' = [role EXCEPT ![h] = "USER"]
  /\ email' = [email EXCEPT ![h] = None]
  /\ token' = [token EXCEPT ![h] = None]
  /\ proof' = [proof EXCEPT ![h] = 0]
  /\ presentedRevoked' = [presentedRevoked EXCEPT ![h] = FALSE]

EndSessionsOf(u) ==
  /\ session' = [t \in Token |-> IF t \in SessionsOf(u) THEN None ELSE session[t]]
  /\ revoked' = revoked \cup SessionsOf(u)

(***************************************************************************)
(* Registration: existsByEmail, then the INSERT, which the unique index on *)
(* the e-mail column guards.                                               *)
(***************************************************************************)

StartRegister(h, e) ==
  /\ pc[h] = "idle" /\ ~Taken(e) /\ newUsers # {}
  /\ pc' = [pc EXCEPT ![h] = "registering"]
  /\ email' = [email EXCEPT ![h] = e]
  /\ UNCHANGED <<rows, expired, access, actor, target, role, token, proof,
                 revoked, presentedRevoked>>

NewAccount(u, e, r) ==
  /\ u \in newUsers
  /\ account' = [account EXCEPT ![u] = [email |-> e, role |-> r, password |-> 0]]
  /\ newUsers' = newUsers \ {u}

\* Mutant: the column has no unique index.
InsertUserUnguarded(h, u) ==
  /\ pc[h] = "registering"
  /\ NewAccount(u, email[h], "USER")
  /\ Finish(h)
  /\ UNCHANGED <<session, subject, expired, access, revoked>>

InsertUser(h, u) ==
  /\ pc[h] = "registering" /\ ~Taken(email[h])
  /\ NewAccount(u, email[h], "USER")
  /\ Finish(h)
  /\ UNCHANGED <<session, subject, expired, access, revoked>>

RegistrationConflict(h) ==
  /\ pc[h] = "registering" /\ Taken(email[h])
  /\ Finish(h)
  /\ UNCHANGED <<rows, expired, access, revoked>>

(***************************************************************************)
(* Login: findByEmail and the password check, then addRefreshToken.        *)
(***************************************************************************)

VerifyPassword(h, u) ==
  /\ pc[h] = "idle" /\ u \in Accounts /\ NewTokens # {}
  /\ pc' = [pc EXCEPT ![h] = "verified"]
  /\ actor' = [actor EXCEPT ![h] = u]
  /\ proof' = [proof EXCEPT ![h] = account[u].password]
  /\ UNCHANGED <<rows, expired, access, target, role, email, token, revoked, presentedRevoked>>

\* Mutant: the account row is not looked for again.
OpenSessionBlindly(h, t) ==
  /\ pc[h] = "verified" /\ t \in NewTokens
  /\ session' = [session EXCEPT ![t] = [user |-> actor[h], password |-> proof[h]]]
  /\ subject' = [subject EXCEPT ![t] = actor[h]]
  /\ access' = access \cup {actor[h]}
  /\ Finish(h)
  /\ UNCHANGED <<account, newUsers, expired, revoked>>

\* The user row is there and locked: expired sessions go, the new one is inserted.
OpenSession(h, t) ==
  /\ pc[h] = "verified" /\ t \in NewTokens /\ actor[h] \in Accounts
  /\ session' = [x \in Token |->
                   CASE x = t -> [user |-> actor[h], password |-> proof[h]]
                     [] x # t /\ x \in SessionsOf(actor[h]) \cap expired -> None
                     [] OTHER -> session[x]]
  /\ subject' = [subject EXCEPT ![t] = actor[h]]
  /\ access' = access \cup {actor[h]}
  /\ Finish(h)
  /\ UNCHANGED <<account, newUsers, expired, revoked>>

LoginRefused(h) ==
  /\ pc[h] = "verified" /\ actor[h] \notin Accounts
  /\ Finish(h)
  /\ UNCHANGED <<rows, expired, access, revoked>>

(***************************************************************************)
(* Refresh: findById of the token's subject, then the hashes of its active *)
(* sessions.  Logout deletes the session by hash.                          *)
(***************************************************************************)

PresentToken(h, t) ==
  /\ pc[h] = "idle" /\ t \notin NewTokens \cup expired /\ subject[t] \in Accounts
  /\ pc' = [pc EXCEPT ![h] = "presented"]
  /\ token' = [token EXCEPT ![h] = t]
  /\ presentedRevoked' = [presentedRevoked EXCEPT ![h] = t \in revoked]
  /\ UNCHANGED <<rows, expired, access, actor, target, role, email, proof, revoked>>

Renewable(h) == token[h] \in SessionsOf(subject[token[h]]) \ expired

Renew(h) ==
  /\ pc[h] = "presented" /\ Renewable(h)
  /\ access' = access \cup {subject[token[h]]}
  /\ Finish(h)
  /\ UNCHANGED <<rows, expired, revoked>>

RenewalRefused(h) ==
  /\ pc[h] = "presented" /\ ~Renewable(h)
  /\ Finish(h)
  /\ UNCHANGED <<rows, expired, access, revoked>>

Logout(t) ==
  /\ session[t] # None
  /\ session' = [session EXCEPT ![t] = None]
  /\ revoked' = revoked \cup {t}
  /\ UNCHANGED <<account, newUsers, subject, expired, access, pc, request>>

\* Time passes: 15 minutes for the access tokens of u, 30 days for t.
ExpireAccess(u) ==
  /\ u \in access
  /\ access' = access \ {u}
  /\ UNCHANGED <<rows, expired, pc, request, revoked>>

ExpireToken(t) ==
  /\ t \notin NewTokens \cup expired
  /\ expired' = expired \cup {t}
  /\ UNCHANGED <<rows, access, pc, request, revoked>>

(***************************************************************************)
(* The administrator's writes: read the caller's role (once, when the      *)
(* request is authenticated), find the account, compare ids, write.        *)
(***************************************************************************)

Authenticate(h, u, o, x, r) ==
  /\ pc[h] = "idle" /\ u \in access \cap Admins
  /\ pc' = [pc EXCEPT ![h] = o]
  /\ actor' = [actor EXCEPT ![h] = u]
  /\ target' = [target EXCEPT ![h] = x]
  /\ role' = [role EXCEPT ![h] = IF o = "role" THEN r ELSE "USER"]
  /\ UNCHANGED <<rows, expired, access, email, token, proof, revoked, presentedRevoked>>

\* Mutant: the two guards on the caller's own account are missing.
OwnAccountNever(h) == FALSE

\* "Cannot delete your own administrator account" / "... remove your own administrator role".
OwnAccount(h) ==
  /\ target[h] = actor[h]
  /\ pc[h] = "delete" \/ (pc[h] = "role" /\ role[h] # "ADMIN")

Writing == [delete |-> "deleting", password |-> "rehashing", role |-> "promoting"]

FindTarget(h) ==
  /\ pc[h] \in DOMAIN Writing /\ target[h] \in Accounts /\ ~OwnAccount(h)
  /\ pc' = [pc EXCEPT ![h] = Writing[pc[h]]]
  /\ UNCHANGED <<rows, expired, access, request, revoked>>

TargetRefused(h) ==
  /\ pc[h] \in DOMAIN Writing
  /\ target[h] \notin Accounts \/ OwnAccount(h)
  /\ Finish(h)
  /\ UNCHANGED <<rows, expired, access, revoked>>

\* deleteById; a row that has gone meanwhile leaves nothing to do.
DeleteAccount(h) ==
  /\ pc[h] = "deleting"
  /\ account' = [account EXCEPT ![target[h]] = None]
  /\ EndSessionsOf(target[h])
  /\ Finish(h)
  /\ UNCHANGED <<newUsers, subject, expired, access>>

\* Mutant: the sessions survive the password.
ChangePasswordOnly(h) ==
  /\ pc[h] = "rehashing" /\ target[h] \in Accounts /\ account[target[h]].password < MaxPassword
  /\ account' = [account EXCEPT ![target[h]].password = @ + 1]
  /\ revoked' = revoked \cup SessionsOf(target[h])
  /\ Finish(h)
  /\ UNCHANGED <<session, newUsers, subject, expired, access>>

\* updatePasswordHash: the sessions of the account go, the hash is replaced.
ChangePassword(h) ==
  /\ pc[h] = "rehashing" /\ target[h] \in Accounts /\ account[target[h]].password < MaxPassword
  /\ account' = [account EXCEPT ![target[h]].password = @ + 1]
  /\ EndSessionsOf(target[h])
  /\ Finish(h)
  /\ UNCHANGED <<newUsers, subject, expired, access>>

ChangeRole(h) ==
  /\ pc[h] = "promoting" /\ target[h] \in Accounts
  /\ account' = [account EXCEPT ![target[h]].role = role[h]]
  /\ Finish(h)
  /\ UNCHANGED <<session, newUsers, subject, expired, access, revoked>>

\* An UPDATE that matches no row.
NothingToUpdate(h) ==
  /\ pc[h] \in {"rehashing", "promoting"} /\ target[h] \notin Accounts
  /\ Finish(h)
  /\ UNCHANGED <<rows, expired, access, revoked>>

(***************************************************************************)
(* A handler fails between its transactions; a server starts again, with   *)
(* or without the bootstrap settings (ensureDefaultAdmin).                 *)
(***************************************************************************)

Abort(h) ==
  /\ pc[h] # "idle"
  /\ Finish(h)
  /\ UNCHANGED <<rows, expired, access, revoked>>

ServerStart(u) ==
  /\ ~Taken(BootstrapEmail)
  /\ NewAccount(u, BootstrapEmail, "ADMIN")
  /\ UNCHANGED <<session, subject, expired, access, pc, request, revoked>>

Init ==
  /\ account = [u \in User |-> None]
  /\ session = [t \in Token |-> None]
  /\ subject = [t \in Token |-> None]
  /\ expired = {} /\ revoked = {} /\ access = {}
  /\ newUsers = User
  /\ pc = [h \in Handler |-> "idle"]
  /\ actor = [h \in Handler |-> None] /\ target = [h \in Handler |-> None]
  /\ role = [h \in Handler |-> "USER"] /\ email = [h \in Handler |-> None]
  /\ token = [h \in Handler |-> None] /\ proof = [h \in Handler |-> 0]
  /\ presentedRevoked = [h \in Handler |-> FALSE]

Registration(h) ==
  \/ \E e \in Email : StartRegister(h, e)
  \/ \E u \in User : InsertUser(h, u)
  \/ RegistrationConflict(h)

Login(h) ==
  \/ \E u \in User : VerifyPassword(h, u)
  \/ \E t \in Token : OpenSession(h, t)
  \/ LoginRefused(h)

Refresh(h) == (\E t \in Token : PresentToken(h, t)) \/ Renew(h) \/ RenewalRefused(h)

Administration(h) ==
  \/ \E u, x \in User, o \in DOMAIN Writing, r \in Role : Authenticate(h, u, o, x, r)
  \/ FindTarget(h) \/ TargetRefused(h)
  \/ DeleteAccount(h) \/ ChangePassword(h) \/ ChangeRole(h) \/ NothingToUpdate(h)

Next ==
  \/ \E h \in Handler : \/ Registration(h) \/ Login(h) \/ Refresh(h)
                        \/ Administration(h) \/ Abort(h)
  \/ \E t \in Token : Logout(t) \/ ExpireToken(t)
  \/ \E u \in User : ExpireAccess(u) \/ ServerStart(u)

Spec == Init /\ [][Next]_vars

(***************************************************************************)
(* Properties.                                                             *)
(***************************************************************************)

\* An e-mail identifies one account, although registration and server start check
\* for it in one transaction and insert in another.
OneAccountPerEmail ==
  \A u, v \in Accounts : account[u].email = account[v].email => u = v

\* No session of a deleted account, also not from a login that had verified the
\* password before the account was deleted (addRefreshToken looks for it again).
SessionsBelongToAccounts ==
  \A t \in Token : session[t] # None => session[t].user \in Accounts

\* An id is given out once: no account has one that is still to be given out.
NewIdsAreUnused == newUsers \cap Accounts = {}

\* A session belongs to the account its refresh token names, which the handler of a
\* refresh relies on: it looks for the token among the sessions of that account.
SessionsNameTheirSubject ==
  \A t \in Token : session[t] # None => session[t].user = subject[t]

\* A token whose session was ended has none again, and was issued once.
RevokedStayEnded == \A t \in revoked : session[t] = None /\ t \notin NewTokens

Administering == {"delete", "password", "role", "deleting", "rehashing", "promoting"}

\* What a request has read so far is there for the steps that follow.
RequestsInScope ==
  \A h \in Handler :
    /\ pc[h] = "registering" => email[h] \in Email
    /\ pc[h] = "verified" => actor[h] \in User
    /\ pc[h] = "presented" => token[h] \in Token \ NewTokens
    /\ pc[h] \in Administering => actor[h] \in User /\ target[h] \in User
    /\ presentedRevoked[h] => pc[h] = "presented" /\ token[h] \in revoked

\* A write that has passed its checks is not one on the caller's own account.
WritesSpareTheCaller ==
  \A h \in Handler :
    /\ pc[h] = "deleting" => target[h] # actor[h]
    /\ pc[h] = "promoting" => target[h] # actor[h] \/ role[h] = "ADMIN"

\* The inductive invariant.  The rows of accounts and sessions keep their constraints,
\* which no transaction checks alone (OneAccountPerEmail, SessionsBelongToAccounts); the
\* other conjuncts are what the steps of a handler know of those before.
AccountsInv ==
  /\ TypeOK
  /\ OneAccountPerEmail /\ SessionsBelongToAccounts
  /\ NewIdsAreUnused /\ SessionsNameTheirSubject /\ RevokedStayEnded
  /\ RequestsInScope /\ WritesSpareTheCaller

\* "further renewal is invalidated": a refresh token presented after logout, a password
\* change or the deletion of its account has ended its session is refused.
RevokedTokensAreRefused ==
  \A h \in Handler : pc[h] = "presented" /\ presentedRevoked[h] => ~Renewable(h)

\* An administrator cannot delete or demote himself, so the last one can only be lost
\* to a request whose own sender has lost his role since it was authenticated.
LastAdminLostOnlyToStaleCheck ==
  [][Admins # {} /\ Admins' = {} =>
       \E h \in Handler : pc[h] \in {"deleting", "promoting"} /\ actor[h] \notin Admins]_vars

\* The review states of a password change that "dalsze odnawianie sesji jest
\* unieważnione": no session that the old password has opened can be renewed.
OldPasswordRenewsNothing ==
  \A t \in Token \ expired :
    session[t] # None => session[t].password = account[session[t].user].password
=============================================================================
