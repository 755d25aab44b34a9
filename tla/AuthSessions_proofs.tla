------------------------ MODULE AuthSessions_proofs ------------------------
(***************************************************************************)
(* Proofs about AuthSessions, for any number of accounts, tokens and       *)
(* concurrent handlers: AccountsInv is inductive, a revoked refresh token  *)
(* is never renewed, and the last administrator is only lost to a request  *)
(* whose sender is none any more.                                          *)
(*                                                                         *)
(* A step is looked at twice.  RowSteps says which steps write the rows,   *)
(* RequestSteps which ones change what a handler remembers; the invariants *)
(* on either are proved from that list.                                    *)
(*                                                                         *)
(* At the end, about MetricsAccess: how long an access token opens a       *)
(* WebSocket.                                                              *)
(***************************************************************************)
EXTENDS AuthSessions, MetricsAccess, TLAPS

requests == <<pc, actor, target, role, email, token, proof, presentedRevoked>>

\* The steps that write rows of accounts or sessions.
RowStep ==
  \/ \E h \in Handler, u \in User : InsertUser(h, u)
  \/ \E h \in Handler, t \in Token : OpenSession(h, t)
  \/ \E t \in Token : Logout(t)
  \/ \E h \in Handler : DeleteAccount(h) \/ ChangePassword(h) \/ ChangeRole(h)
  \/ \E u \in User : ServerStart(u)

\* The steps by which a request advances and does not end.
Advance(h) ==
  \/ \E e \in Email : StartRegister(h, e)
  \/ \E u \in User : VerifyPassword(h, u)
  \/ \E t \in Token : PresentToken(h, t)
  \/ \E u, x \in User, o \in DOMAIN Writing, r \in Role : Authenticate(h, u, o, x, r)
  \/ FindTarget(h)

\* Every other step leaves the rows and the set of revoked tokens alone.
LEMMA RowSteps == [Next]_vars => RowStep \/ UNCHANGED <<rows, revoked>>
BY DEF Next, vars, rows, RowStep, Registration, Login, Refresh, Administration,
       StartRegister, RegistrationConflict, VerifyPassword, LoginRefused, PresentToken,
       Renew, RenewalRefused, Authenticate, FindTarget, TargetRefused, NothingToUpdate,
       Abort, ExpireToken, ExpireAccess

\* Every step is the advance of one request, the end of one, or about none.
LEMMA RequestSteps ==
  [Next]_vars => \/ \E h \in Handler : Advance(h) \/ Finish(h)
                 \/ UNCHANGED requests
BY DEF Next, vars, rows, request, requests, Advance, Registration, Login, Refresh,
       Administration, InsertUser, RegistrationConflict, OpenSession, LoginRefused, Renew,
       RenewalRefused, TargetRefused, DeleteAccount, ChangePassword, ChangeRole,
       NothingToUpdate, Abort, Logout, ExpireToken, ExpireAccess, ServerStart

(***************************************************************************)
(* The rows.                                                               *)
(***************************************************************************)

RowTypes ==
  /\ account \in [User -> Account \cup {None}]
  /\ session \in [Token -> Session \cup {None}]
  /\ subject \in [Token -> User \cup {None}]
  /\ newUsers \subseteq User
  /\ revoked \subseteq Token

RowsInv ==
  /\ RowTypes
  /\ OneAccountPerEmail /\ SessionsBelongToAccounts
  /\ NewIdsAreUnused /\ SessionsNameTheirSubject /\ RevokedStayEnded

\* A new account under an e-mail nobody has: the only change among the accounts.
LEMMA NewAccountRows ==
  ASSUME RowsInv, NEW u \in User, NEW e \in Email, NEW r \in Role,
         ~Taken(e), NewAccount(u, e, r), UNCHANGED <<session, subject, revoked>>
  PROVE  RowsInv' /\ Accounts' = Accounts \cup {u} /\ Admins \subseteq Admins'
<1> DEFINE row == [email |-> e, role |-> r, password |-> 0]
<1>1. row \in Account /\ row # None
  BY AuthAssumption DEF Account
<1>2. /\ account \in [User -> Account \cup {None}]
      /\ account' = [account EXCEPT ![u] = row]
      /\ newUsers' = newUsers \ {u} /\ u \in newUsers
  BY DEF RowsInv, RowTypes, NewAccount
<1>3. account' \in [User -> Account \cup {None}]
  BY <1>1, <1>2
<1>4. /\ account'[u] = row /\ row.email = e
      /\ \A v \in User \ {u} : account'[v] = account[v]
  BY <1>2
<1> HIDE DEF row
<1>5. u \notin Accounts /\ Accounts' = Accounts \cup {u}
  BY <1>1, <1>2, <1>4 DEF RowsInv, NewIdsAreUnused, Accounts
<1>6. OneAccountPerEmail'
  <2> SUFFICES ASSUME NEW v \in Accounts', NEW w \in Accounts',
                      account'[v].email = account'[w].email
               PROVE  v = w
    BY DEF OneAccountPerEmail
  <2>1. \A x \in Accounts : account[x].email # e /\ account'[x] = account[x]
    BY <1>4, <1>5 DEF Taken, Accounts
  <2>2. QED BY <1>4, <1>5, <2>1 DEF RowsInv, OneAccountPerEmail
<1>7. Admins \subseteq Admins'
  BY <1>4, <1>5 DEF Admins, Accounts
<1>8. RowTypes'
  BY <1>2, <1>3 DEF RowsInv, RowTypes
<1>9. SessionsBelongToAccounts' /\ SessionsNameTheirSubject' /\ RevokedStayEnded'
  BY <1>5 DEF RowsInv, SessionsBelongToAccounts, SessionsNameTheirSubject,
              RevokedStayEnded, NewTokens
<1>10. NewIdsAreUnused'
  BY <1>2, <1>5 DEF RowsInv, NewIdsAreUnused
<1>11. QED BY <1>5, <1>6, <1>7, <1>8, <1>9, <1>10 DEF RowsInv

\* An account that is changed and keeps its e-mail, or loses its sessions and is gone.
LEMMA ChangedAccountRows ==
  ASSUME RowsInv, NEW u \in User, NEW row \in Account \cup {None},
         account' = [account EXCEPT ![u] = row],
         u \in Accounts /\ row # None => row.email = account[u].email,
         u \notin Accounts => row = None,
         UNCHANGED <<newUsers, subject>>,
         \/ EndSessionsOf(u)
         \/ row # None /\ UNCHANGED <<session, revoked>>
  PROVE  RowsInv'
<1>1. /\ account' \in [User -> Account \cup {None}] /\ account'[u] = row
      /\ \A v \in User \ {u} : account'[v] = account[v]
  BY DEF RowsInv, RowTypes
<1>2. /\ Accounts' = IF row = None THEN Accounts \ {u} ELSE Accounts
  BY <1>1 DEF Accounts
<1>3. OneAccountPerEmail'
  <2>1. \A v \in Accounts' : v \in Accounts /\ account'[v].email = account[v].email
    BY <1>1, <1>2 DEF Accounts
  <2>2. QED BY <2>1 DEF RowsInv, OneAccountPerEmail
<1>4. /\ \A t \in Token : session'[t] # None => session'[t] = session[t]
      /\ \A t \in Token : session'[t] # None /\ session[t].user = u => row # None
      /\ \A t \in revoked' : t \in revoked \/ (session'[t] = None /\ t \in SessionsOf(u))
      /\ revoked \subseteq revoked' /\ revoked' \subseteq Token
      /\ session' \in [Token -> Session \cup {None}]
  <2>1. CASE EndSessionsOf(u)
    BY <2>1 DEF EndSessionsOf, SessionsOf, RowsInv, RowTypes
  <2>2. CASE row # None /\ UNCHANGED <<session, revoked>>
    BY <2>2 DEF RowsInv, RowTypes
  <2>3. QED BY <2>1, <2>2
<1>5. SessionsBelongToAccounts'
  BY <1>2, <1>4 DEF RowsInv, SessionsBelongToAccounts
<1>6. SessionsNameTheirSubject'
  BY <1>4 DEF RowsInv, SessionsNameTheirSubject
<1>7. RevokedStayEnded'
  <2> SUFFICES ASSUME NEW t \in revoked' PROVE session'[t] = None /\ subject'[t] # None
    BY <1>4 DEF RevokedStayEnded, NewTokens
  <2>1. CASE t \in revoked
    BY <1>4, <2>1 DEF RowsInv, RowTypes, RevokedStayEnded, NewTokens
  <2>2. CASE session'[t] = None /\ t \in SessionsOf(u)
    BY <2>2, AuthAssumption DEF RowsInv, SessionsNameTheirSubject, SessionsOf
  <2>3. QED BY <1>4, <2>1, <2>2
<1>8. NewIdsAreUnused'
  BY <1>2 DEF RowsInv, NewIdsAreUnused
<1>9. RowTypes'
  BY <1>1, <1>4 DEF RowsInv, RowTypes
<1>10. QED BY <1>3, <1>5, <1>6, <1>7, <1>8, <1>9 DEF RowsInv

\* A session opened for an account that is there, and one ended by logout.
LEMMA SessionRows ==
  ASSUME RowsInv, NEW t \in Token, NEW s \in Session \cup {None},
         session'[t] = s,
         session' \in [Token -> Session \cup {None}],
         \A x \in Token \ {t} : session'[x] \in {session[x], None},
         subject' \in [Token -> User \cup {None}],
         \A x \in Token \ {t} : subject'[x] = subject[x],
         UNCHANGED <<account, newUsers>>,
         \/ /\ t \in NewTokens /\ s # None /\ s.user \in Accounts
            /\ subject'[t] = s.user /\ revoked' = revoked
         \/ /\ session[t] # None /\ s = None
            /\ subject' = subject /\ revoked' = revoked \cup {t}
  PROVE  RowsInv'
<1>1. Accounts' = Accounts /\ None \notin User
  BY AuthAssumption DEF Accounts
<1>2. OneAccountPerEmail' /\ NewIdsAreUnused'
  BY <1>1 DEF RowsInv, OneAccountPerEmail, NewIdsAreUnused
<1>3. SessionsBelongToAccounts'
  BY <1>1 DEF RowsInv, SessionsBelongToAccounts
<1>4. SessionsNameTheirSubject'
  BY DEF RowsInv, SessionsNameTheirSubject
<1>5. RevokedStayEnded'
  <2>1. CASE t \in NewTokens /\ revoked' = revoked
    BY <2>1 DEF RowsInv, RowTypes, RevokedStayEnded, NewTokens
  <2>2. CASE session[t] # None /\ s = None /\ subject' = subject /\ revoked' = revoked \cup {t}
    <3>1. subject[t] # None
      BY <1>1, <2>2 DEF RowsInv, RowTypes, SessionsNameTheirSubject, Session
    <3>2. QED BY <2>2, <3>1 DEF RowsInv, RowTypes, RevokedStayEnded, NewTokens
  <2>3. QED BY <2>1, <2>2
<1>6. RowTypes'
  BY DEF RowsInv, RowTypes
<1>7. QED BY <1>2, <1>3, <1>4, <1>5, <1>6 DEF RowsInv

\* Every step keeps what the rows promise.
LEMMA RowsKept == AccountsInv /\ [Next]_vars => RowsInv'
<1> SUFFICES ASSUME AccountsInv, [Next]_vars PROVE RowsInv'
  OBVIOUS
<1>1. RowsInv
  BY DEF AccountsInv, TypeOK, RowsInv, RowTypes
<1>2. ASSUME NEW h \in Handler, NEW u \in User, InsertUser(h, u) PROVE RowsInv'
  <2>1. email[h] \in Email /\ "USER" \in Role
    BY <1>2 DEF AccountsInv, RequestsInScope, InsertUser, Role
  <2>2. ~Taken(email[h]) /\ NewAccount(u, email[h], "USER")
        /\ UNCHANGED <<session, subject, revoked>>
    BY <1>2 DEF InsertUser
  <2>3. QED BY <1>1, <2>1, <2>2, NewAccountRows
<1>3. ASSUME NEW h \in Handler, NEW t \in Token, OpenSession(h, t) PROVE RowsInv'
  <2> DEFINE s == [user |-> actor[h], password |-> proof[h]]
  <2>1. actor[h] \in User /\ actor[h] \in Accounts
    BY <1>3 DEF OpenSession, Accounts
  <2>2. s \in Session /\ s # None /\ s.user = actor[h]
    BY <2>1, AuthAssumption DEF AccountsInv, TypeOK, Session
  <2> HIDE DEF s
  <2>3. /\ session' = [x \in Token |->
                         CASE x = t -> s
                           [] x # t /\ x \in SessionsOf(actor[h]) \cap expired -> None
                           [] OTHER -> session[x]]
        /\ subject' = [subject EXCEPT ![t] = actor[h]]
        /\ t \in NewTokens /\ UNCHANGED <<account, newUsers, revoked>>
    BY <1>3 DEF OpenSession, s
  <2>4. session'[t] = s /\ \A x \in Token \ {t} : session'[x] \in {session[x], None}
    BY <2>3
  <2>5. session' \in [Token -> Session \cup {None}]
    BY <2>2, <2>3 DEF AccountsInv, TypeOK
  <2>6. /\ subject' \in [Token -> User \cup {None}] /\ subject'[t] = actor[h]
        /\ \A x \in Token \ {t} : subject'[x] = subject[x]
    BY <2>1, <2>3 DEF AccountsInv, TypeOK
  <2>7. QED BY <1>1, <2>1, <2>2, <2>3, <2>4, <2>5, <2>6, SessionRows
<1>4. ASSUME NEW t \in Token, Logout(t) PROVE RowsInv'
  <2>1. /\ session[t] # None /\ session' = [session EXCEPT ![t] = None]
        /\ revoked' = revoked \cup {t} /\ UNCHANGED <<account, newUsers, subject>>
    BY <1>4 DEF Logout
  <2>2. /\ session' \in [Token -> Session \cup {None}] /\ session'[t] = None
        /\ \A x \in Token \ {t} : session'[x] = session[x]
    BY <2>1 DEF AccountsInv, TypeOK
  <2>3. subject' \in [Token -> User \cup {None}]
    BY <2>1 DEF AccountsInv, TypeOK
  <2>4. QED BY <1>1, <2>1, <2>2, <2>3, SessionRows
<1>5. ASSUME NEW h \in Handler, DeleteAccount(h) PROVE RowsInv'
  <2>1. target[h] \in User
    BY <1>5 DEF DeleteAccount, AccountsInv, RequestsInScope, Administering
  <2>2. QED BY <1>1, <1>5, <2>1, ChangedAccountRows DEF DeleteAccount
<1>6. ASSUME NEW h \in Handler, ChangePassword(h) PROVE RowsInv'
  <2> DEFINE u == target[h]
             row == [account[u] EXCEPT !.password = @ + 1]
  <2>1. u \in User /\ u \in Accounts /\ account[u] \in Account
        /\ account[u].password < MaxPassword
    BY <1>6 DEF ChangePassword, Accounts, AccountsInv, TypeOK
  <2>2. row \in Account /\ row.email = account[u].email
    BY <2>1, AuthAssumption DEF Account
  <2>3. account' = [account EXCEPT ![u] = row] /\ EndSessionsOf(u)
        /\ UNCHANGED <<newUsers, subject>>
    BY <1>6 DEF ChangePassword
  <2> HIDE DEF u, row
  <2>4. QED BY <1>1, <2>1, <2>2, <2>3, ChangedAccountRows
<1>7. ASSUME NEW h \in Handler, ChangeRole(h) PROVE RowsInv'
  <2> DEFINE u == target[h]
             row == [account[u] EXCEPT !.role = role[h]]
  <2>1. u \in User /\ u \in Accounts /\ account[u] \in Account /\ role[h] \in Role
    BY <1>7 DEF ChangeRole, Accounts, AccountsInv, TypeOK
  <2>2. row \in Account /\ row.email = account[u].email /\ row # None
    BY <2>1, AuthAssumption DEF Account
  <2>3. account' = [account EXCEPT ![u] = row]
        /\ UNCHANGED <<newUsers, subject, session, revoked>>
    BY <1>7 DEF ChangeRole
  <2> HIDE DEF u, row
  <2>4. QED BY <1>1, <2>1, <2>2, <2>3, ChangedAccountRows
<1>8. ASSUME NEW u \in User, ServerStart(u) PROVE RowsInv'
  <2>1. BootstrapEmail \in Email /\ "ADMIN" \in Role
    BY AuthAssumption DEF Role
  <2>2. QED BY <1>1, <1>8, <2>1, NewAccountRows DEF ServerStart
<1>9. CASE UNCHANGED <<rows, revoked>>
  BY <1>1, <1>9 DEF rows, RowsInv, RowTypes, OneAccountPerEmail, SessionsBelongToAccounts,
     NewIdsAreUnused, SessionsNameTheirSubject, RevokedStayEnded, Accounts, NewTokens
<1>10. QED
  BY <1>2, <1>3, <1>4, <1>5, <1>6, <1>7, <1>8, <1>9, RowSteps DEF RowStep

\* Tokens are issued once, and a revoked one stays revoked.
LEMMA TokensOnlyIssued ==
  AccountsInv /\ [Next]_vars => NewTokens' \subseteq NewTokens /\ revoked \subseteq revoked'
<1> SUFFICES ASSUME AccountsInv, [Next]_vars
             PROVE  NewTokens' \subseteq NewTokens /\ revoked \subseteq revoked'
  OBVIOUS
<1>1. CASE UNCHANGED <<rows, revoked>>
  BY <1>1 DEF rows, NewTokens
<1>2. ASSUME NEW h \in Handler, NEW t \in Token, OpenSession(h, t)
      PROVE  NewTokens' \subseteq NewTokens /\ revoked \subseteq revoked'
  BY <1>2 DEF OpenSession, NewTokens, AccountsInv, TypeOK
<1>3. CASE RowStep /\ ~\E h \in Handler, t \in Token : OpenSession(h, t)
  BY <1>3 DEF RowStep, InsertUser, Logout, DeleteAccount, ChangePassword, ChangeRole,
     ServerStart, EndSessionsOf, NewTokens
<1>4. QED BY <1>1, <1>2, <1>3, RowSteps DEF RowStep

(***************************************************************************)
(* The requests.                                                           *)
(***************************************************************************)

RequestTypes ==
  /\ pc \in [Handler -> {"idle", "registering", "verified", "presented",
                         "delete", "password", "role", "deleting", "rehashing", "promoting"}]
  /\ actor \in [Handler -> User \cup {None}]
  /\ target \in [Handler -> User \cup {None}]
  /\ role \in [Handler -> Role]
  /\ email \in [Handler -> Email \cup {None}]
  /\ token \in [Handler -> Token \cup {None}]
  /\ proof \in [Handler -> 0 .. MaxPassword]
  /\ presentedRevoked \in [Handler -> BOOLEAN]

RequestsInv == RequestTypes /\ RequestsInScope /\ WritesSpareTheCaller

\* What a handler has read stays valid while other handlers, and the rows, move on.
LEMMA OtherRequests ==
  ASSUME RequestsInv, NEW h \in Handler,
         NewTokens' \subseteq NewTokens, revoked \subseteq revoked',
         pc'[h] = pc[h], actor'[h] = actor[h], target'[h] = target[h],
         role'[h] = role[h], email'[h] = email[h], token'[h] = token[h],
         presentedRevoked'[h] = presentedRevoked[h]
  PROVE  /\ pc'[h] = "registering" => email'[h] \in Email
         /\ pc'[h] = "verified" => actor'[h] \in User
         /\ pc'[h] = "presented" => token'[h] \in Token \ NewTokens'
         /\ pc'[h] \in Administering => actor'[h] \in User /\ target'[h] \in User
         /\ presentedRevoked'[h] => pc'[h] = "presented" /\ token'[h] \in revoked'
         /\ pc'[h] = "deleting" => target'[h] # actor'[h]
         /\ pc'[h] = "promoting" => target'[h] # actor'[h] \/ role'[h] = "ADMIN"
BY DEF RequestsInv, RequestsInScope, WritesSpareTheCaller

\* A request ends.
LEMMA FinishRequests ==
  ASSUME RequestsInv, NEW h \in Handler, Finish(h),
         NewTokens' \subseteq NewTokens, revoked \subseteq revoked'
  PROVE  RequestsInv'
<1>1. RequestTypes'
  BY AuthAssumption DEF RequestsInv, RequestTypes, Finish, Role
<1>2. pc'[h] = "idle" /\ presentedRevoked'[h] = FALSE
  BY DEF RequestsInv, RequestTypes, Finish
<1>3. ASSUME NEW g \in Handler \ {h}
      PROVE  /\ pc'[g] = pc[g] /\ actor'[g] = actor[g] /\ target'[g] = target[g]
             /\ role'[g] = role[g] /\ email'[g] = email[g] /\ token'[g] = token[g]
             /\ presentedRevoked'[g] = presentedRevoked[g]
  BY <1>3 DEF RequestsInv, RequestTypes, Finish
<1>4. RequestsInScope' /\ WritesSpareTheCaller'
  <2>1. ASSUME NEW g \in Handler \ {h}
        PROVE  /\ pc'[g] = "registering" => email'[g] \in Email
               /\ pc'[g] = "verified" => actor'[g] \in User
               /\ pc'[g] = "presented" => token'[g] \in Token \ NewTokens'
               /\ pc'[g] \in Administering => actor'[g] \in User /\ target'[g] \in User
               /\ presentedRevoked'[g] => pc'[g] = "presented" /\ token'[g] \in revoked'
               /\ pc'[g] = "deleting" => target'[g] # actor'[g]
               /\ pc'[g] = "promoting" => target'[g] # actor'[g] \/ role'[g] = "ADMIN"
    BY <1>3, <2>1, OtherRequests
  <2>2. QED BY <1>2, <2>1 DEF RequestsInScope, WritesSpareTheCaller, Administering
<1>5. QED BY <1>1, <1>4 DEF RequestsInv

\* A request advances.
LEMMA AdvanceRequests ==
  ASSUME AccountsInv, RequestsInv, NEW h \in Handler, Advance(h),
         NewTokens' \subseteq NewTokens, revoked \subseteq revoked'
  PROVE  RequestsInv'
<1> USE DEF RequestsInv, RequestTypes
<1>1. RequestTypes'
  <2>1. ASSUME NEW e \in Email, StartRegister(h, e) PROVE RequestTypes'
    BY <2>1 DEF StartRegister
  <2>2. ASSUME NEW u \in User, VerifyPassword(h, u) PROVE RequestTypes'
    <3>1. account[u] \in Account
      BY <2>2 DEF VerifyPassword, Accounts, AccountsInv, TypeOK
    <3>2. account[u].password \in 0 .. MaxPassword
      BY <3>1 DEF Account
    <3>3. QED BY <2>2, <3>2 DEF VerifyPassword
  <2>3. ASSUME NEW t \in Token, PresentToken(h, t) PROVE RequestTypes'
    <3>1. (t \in revoked) \in BOOLEAN
      OBVIOUS
    <3>2. QED BY <2>3, <3>1, Zenon DEF PresentToken
  <2>4. ASSUME NEW u \in User, NEW x \in User, NEW o \in DOMAIN Writing, NEW r \in Role,
               Authenticate(h, u, o, x, r)
        PROVE  RequestTypes'
    BY <2>4 DEF Authenticate, Writing, Role
  <2>5. CASE FindTarget(h)
    BY <2>5 DEF FindTarget, Writing, request
  <2>6. QED BY <2>1, <2>2, <2>3, <2>4, <2>5 DEF Advance
<1>2. ASSUME NEW g \in Handler \ {h}
      PROVE  /\ pc'[g] = pc[g] /\ actor'[g] = actor[g] /\ target'[g] = target[g]
             /\ role'[g] = role[g] /\ email'[g] = email[g] /\ token'[g] = token[g]
             /\ presentedRevoked'[g] = presentedRevoked[g]
  BY <1>2 DEF Advance, StartRegister, VerifyPassword, PresentToken, Authenticate, FindTarget,
     request
<1>3. ASSUME NEW g \in Handler
      PROVE  /\ pc'[g] = "registering" => email'[g] \in Email
             /\ pc'[g] = "verified" => actor'[g] \in User
             /\ pc'[g] = "presented" => token'[g] \in Token \ NewTokens'
             /\ pc'[g] \in Administering => actor'[g] \in User /\ target'[g] \in User
             /\ presentedRevoked'[g] => pc'[g] = "presented" /\ token'[g] \in revoked'
             /\ pc'[g] = "deleting" => target'[g] # actor'[g]
             /\ pc'[g] = "promoting" => target'[g] # actor'[g] \/ role'[g] = "ADMIN"
  <2>1. CASE g # h
    BY <1>2, <2>1, OtherRequests
  <2> SUFFICES ASSUME g = h PROVE
             /\ pc'[h] = "registering" => email'[h] \in Email
             /\ pc'[h] = "verified" => actor'[h] \in User
             /\ pc'[h] = "presented" => token'[h] \in Token \ NewTokens'
             /\ pc'[h] \in Administering => actor'[h] \in User /\ target'[h] \in User
             /\ presentedRevoked'[h] => pc'[h] = "presented" /\ token'[h] \in revoked'
             /\ pc'[h] = "deleting" => target'[h] # actor'[h]
             /\ pc'[h] = "promoting" => target'[h] # actor'[h] \/ role'[h] = "ADMIN"
    BY <2>1
  <2> USE DEF RequestsInScope, WritesSpareTheCaller, Administering
  <2>2. ASSUME NEW e \in Email, StartRegister(h, e)
        PROVE  pc'[h] = "registering" /\ email'[h] \in Email /\ ~presentedRevoked'[h]
    BY <2>2 DEF StartRegister
  <2>3. ASSUME NEW u \in User, VerifyPassword(h, u)
        PROVE  pc'[h] = "verified" /\ actor'[h] \in User /\ ~presentedRevoked'[h]
    BY <2>3 DEF VerifyPassword
  <2>4. ASSUME NEW t \in Token, PresentToken(h, t)
        PROVE  /\ pc'[h] = "presented" /\ token'[h] \in Token \ NewTokens'
               /\ presentedRevoked'[h] => token'[h] \in revoked'
    BY <2>4 DEF PresentToken
  <2>5. ASSUME NEW u \in User, NEW x \in User, NEW o \in DOMAIN Writing, NEW r \in Role,
               Authenticate(h, u, o, x, r)
        PROVE  /\ pc'[h] \in {"delete", "password", "role"} /\ ~presentedRevoked'[h]
               /\ actor'[h] \in User /\ target'[h] \in User
    BY <2>5 DEF Authenticate, Writing
  <2>6. ASSUME FindTarget(h)
        PROVE  /\ pc'[h] \in {"deleting", "rehashing", "promoting"} /\ ~presentedRevoked'[h]
               /\ actor'[h] \in User /\ target'[h] \in User
               /\ pc'[h] = "deleting" => target'[h] # actor'[h]
               /\ pc'[h] = "promoting" => target'[h] # actor'[h] \/ role'[h] = "ADMIN"
    BY <2>6 DEF FindTarget, Writing, OwnAccount, request
  <2>7. QED BY <2>2, <2>3, <2>4, <2>5, <2>6 DEF Advance
<1>4. RequestsInScope' /\ WritesSpareTheCaller'
  BY <1>3 DEF RequestsInScope, WritesSpareTheCaller
<1>5. QED BY <1>1, <1>4

(***************************************************************************)
(* The theorems.                                                           *)
(***************************************************************************)

\* Only issued tokens expire, and only accounts get access.
LEMMA ClocksKept ==
  AccountsInv /\ [Next]_vars => expired' \subseteq Token /\ access' \subseteq User
<1> SUFFICES ASSUME AccountsInv, [Next]_vars
             PROVE  expired' \subseteq Token /\ access' \subseteq User
  OBVIOUS
<1> USE DEF AccountsInv, TypeOK
<1>1. ASSUME NEW h \in Handler, NEW t \in Token, OpenSession(h, t)
      PROVE  expired' \subseteq Token /\ access' \subseteq User
  BY <1>1 DEF OpenSession, Accounts
<1>2. ASSUME NEW h \in Handler, Renew(h)
      PROVE  expired' \subseteq Token /\ access' \subseteq User
  <2>1. subject[token[h]] \in User
    BY <1>2 DEF Renew, RequestsInScope, NewTokens
  <2>2. QED BY <1>2, <2>1 DEF Renew
<1>3. ASSUME NEW t \in Token, ExpireToken(t)
      PROVE  expired' \subseteq Token /\ access' \subseteq User
  BY <1>3 DEF ExpireToken
<1>4. ASSUME NEW u \in User, ExpireAccess(u)
      PROVE  expired' \subseteq Token /\ access' \subseteq User
  BY <1>4 DEF ExpireAccess
<1>5. CASE UNCHANGED <<expired, access>>
  BY <1>5
<1>6. QED
  BY <1>1, <1>2, <1>3, <1>4, <1>5
  DEF Next, vars, Registration, Login, Refresh, Administration, StartRegister, InsertUser,
      RegistrationConflict, VerifyPassword, LoginRefused, PresentToken, RenewalRefused,
      Logout, Authenticate, FindTarget, TargetRefused, DeleteAccount, ChangePassword,
      ChangeRole, NothingToUpdate, Abort, ServerStart

\* There is nothing in the tables and no request.
LEMMA InitAccounts == Init => AccountsInv
<1> SUFFICES ASSUME Init PROVE AccountsInv
  OBVIOUS
<1>1. /\ Accounts = {} /\ \A t \in Token : session[t] = None
      /\ \A h \in Handler : pc[h] = "idle" /\ presentedRevoked[h] = FALSE
  BY DEF Init, Accounts
<1>2. TypeOK
  <2>1. 0 \in 0 .. MaxPassword
    BY AuthAssumption
  <2>2. QED BY <2>1 DEF Init, TypeOK, Role
<1>3. /\ OneAccountPerEmail /\ SessionsBelongToAccounts /\ NewIdsAreUnused
      /\ SessionsNameTheirSubject
  BY <1>1 DEF OneAccountPerEmail, SessionsBelongToAccounts, NewIdsAreUnused,
              SessionsNameTheirSubject
<1>4. RevokedStayEnded
  BY DEF Init, RevokedStayEnded
<1>5. RequestsInScope /\ WritesSpareTheCaller
  BY <1>1 DEF RequestsInScope, WritesSpareTheCaller, Administering
<1>6. QED BY <1>2, <1>3, <1>4, <1>5 DEF AccountsInv

\* Every step keeps the invariant.
LEMMA AccountsInductive == AccountsInv /\ [Next]_vars => AccountsInv'
<1> SUFFICES ASSUME AccountsInv, [Next]_vars PROVE AccountsInv'
  OBVIOUS
<1>1. RowsInv'
  BY RowsKept
<1>2. RequestsInv
  BY DEF AccountsInv, TypeOK, RequestsInv, RequestTypes
<1>3. NewTokens' \subseteq NewTokens /\ revoked \subseteq revoked'
  BY TokensOnlyIssued
<1>4. RequestsInv'
  <2>1. CASE \E h \in Handler : Advance(h)
    BY <1>2, <1>3, <2>1, AdvanceRequests
  <2>2. CASE \E h \in Handler : Finish(h)
    BY <1>2, <1>3, <2>2, FinishRequests
  <2>3. CASE UNCHANGED requests
    BY <1>2, <1>3, <2>3
    DEF RequestsInv, RequestTypes, RequestsInScope, WritesSpareTheCaller, requests
  <2>4. QED BY <2>1, <2>2, <2>3, RequestSteps
<1>5. expired' \subseteq Token /\ access' \subseteq User
  BY ClocksKept
<1>6. QED
  BY <1>1, <1>4, <1>5
  DEF RowsInv, RowTypes, RequestsInv, RequestTypes, AccountsInv, TypeOK

\* Accounts have different e-mails, sessions belong to accounts that exist, and requests
\* work on what is there, in every reachable state.
THEOREM AccountsInvariant == Spec => []AccountsInv
BY InitAccounts, AccountsInductive, PTL DEF Spec

\* A refresh token whose session was ended before it was presented is refused: the session
\* cannot come back between the transaction that reads the account and the one that looks
\* for the token.
THEOREM RevokedRefused == Spec => []RevokedTokensAreRefused
<1>1. AccountsInv => RevokedTokensAreRefused
  BY DEF AccountsInv, RequestsInScope, RevokedStayEnded, RevokedTokensAreRefused, Renewable,
         SessionsOf
<1>2. QED BY <1>1, AccountsInvariant, PTL

\* A step that leaves no administrator is a deletion or a demotion, ordered by somebody else
\* than the administrator it hits, who therefore is none any more.
LEMMA LastAdminStep ==
  ASSUME AccountsInv, [Next]_vars, Admins # {}, Admins' = {}
  PROVE  \E h \in Handler : pc[h] \in {"deleting", "promoting"} /\ actor[h] \notin Admins
<1>1. RowsInv
  BY DEF AccountsInv, TypeOK, RowsInv, RowTypes
<1>2. ASSUME NEW u \in User, NEW e \in Email, NEW r \in Role,
             ~Taken(e), NewAccount(u, e, r), UNCHANGED <<session, subject, revoked>>
      PROVE  FALSE
  BY <1>1, <1>2, NewAccountRows
<1>3. ASSUME NEW h \in Handler, NEW u \in User, InsertUser(h, u) PROVE FALSE
  <2>1. email[h] \in Email /\ "USER" \in Role
    BY <1>3 DEF AccountsInv, RequestsInScope, InsertUser, Role
  <2>2. QED BY <1>2, <1>3, <2>1 DEF InsertUser
<1>4. ASSUME NEW u \in User, ServerStart(u) PROVE FALSE
  <2>1. BootstrapEmail \in Email /\ "ADMIN" \in Role
    BY AuthAssumption DEF Role
  <2>2. QED BY <1>2, <1>4, <2>1 DEF ServerStart
<1>5. ASSUME NEW h \in Handler, ChangePassword(h) PROVE FALSE
  <2> DEFINE row == [account[target[h]] EXCEPT !.password = @ + 1]
  <2>1. target[h] \in Accounts /\ account[target[h]] \in Account
        /\ account[target[h]].password < MaxPassword
    BY <1>5 DEF ChangePassword, Accounts, AccountsInv, TypeOK
  <2>2. row \in Account /\ row # None /\ row.role = account[target[h]].role
    BY <2>1, AuthAssumption DEF Account
  <2>3. account' = [account EXCEPT ![target[h]] = row]
    BY <1>5 DEF ChangePassword
  <2> HIDE DEF row
  <2>4. Admins' = Admins
    BY <2>1, <2>2, <2>3 DEF Admins, Accounts, AccountsInv, TypeOK
  <2>5. QED BY <2>4
<1>6. ASSUME NEW h \in Handler, DeleteAccount(h)
      PROVE  pc[h] = "deleting" /\ actor[h] \notin Admins
  <2>1. Admins \ {target[h]} \subseteq Admins'
    BY <1>6 DEF DeleteAccount, Admins, Accounts, AccountsInv, TypeOK
  <2>2. target[h] # actor[h] /\ pc[h] = "deleting"
    BY <1>6 DEF DeleteAccount, AccountsInv, WritesSpareTheCaller
  <2>3. QED BY <2>1, <2>2
<1>7. ASSUME NEW h \in Handler, ChangeRole(h)
      PROVE  pc[h] = "promoting" /\ actor[h] \notin Admins
  <2> DEFINE row == [account[target[h]] EXCEPT !.role = role[h]]
  <2>1. /\ target[h] \in Accounts /\ account[target[h]] \in Account /\ role[h] \in Role
        /\ pc[h] = "promoting"
    BY <1>7 DEF ChangeRole, Accounts, AccountsInv, TypeOK
  <2>2. row \in Account /\ row # None /\ row.role = role[h]
    BY <2>1, AuthAssumption DEF Account
  <2>3. account' = [account EXCEPT ![target[h]] = row]
    BY <1>7 DEF ChangeRole
  <2> HIDE DEF row
  <2>4. /\ Admins \ {target[h]} \subseteq Admins'
        /\ role[h] = "ADMIN" => target[h] \in Admins'
    BY <2>1, <2>2, <2>3 DEF Admins, Accounts, AccountsInv, TypeOK
  <2>5. target[h] # actor[h]
    BY <2>1, <2>4 DEF AccountsInv, WritesSpareTheCaller
  <2>6. QED BY <2>1, <2>4, <2>5
<1>8. ASSUME UNCHANGED account PROVE FALSE
  BY <1>8 DEF Admins, Accounts
<1>9. QED
  BY <1>3, <1>4, <1>5, <1>6, <1>7, <1>8, RowSteps
  DEF RowStep, OpenSession, Logout, rows

\* The last administrator is only lost to a request whose sender has lost the role itself
\* since it was authenticated: two administrators who delete or demote each other.
THEOREM LastAdminLost == Spec => LastAdminLostOnlyToStaleCheck
<1>1. AccountsInv /\ [Next]_vars =>
        [Admins # {} /\ Admins' = {} =>
           \E h \in Handler : pc[h] \in {"deleting", "promoting"} /\ actor[h] \notin Admins]_vars
  BY LastAdminStep
<1>2. QED
  BY <1>1, AccountsInvariant, PTL DEF Spec, LastAdminLostOnlyToStaleCheck

(***************************************************************************)
(* The right to use a socket, in time, for every deadline, period, token   *)
(* life and bound of the clock: AccessInv is inductive, so access ends in  *)
(* time, and no frame is stored that arrived without access.               *)
(***************************************************************************)
\* The wake-up time the job computes when the token still lives: after now, within the
\* period, and before the token expires.
LEMMA CheckTimeInTime ==
  ASSUME clock \in Nat, expiresAt \in Nat, clock < expiresAt
  PROVE  /\ CheckTime \in clock .. clock + Period
         /\ clock < CheckTime
         /\ CheckTime <= expiresAt
BY AccessAssumption DEF CheckTime

\* A socket starts connecting, with no frame.
LEMMA InitAccess == AccessInit => AccessInv
<1> SUFFICES ASSUME AccessInit PROVE AccessInv
  OBVIOUS
<1>1. AccessType
  <2>1. 0 \in 0 .. MaxClock /\ 0 \in 0 .. MaxClock + Period
    BY AccessAssumption
  <2>2. QED BY <2>1, Zenon DEF AccessInit, AccessType
<1>2. AccessEndsInTime /\ CheckComesInTime
  BY DEF AccessInit, AccessEndsInTime, CheckComesInTime
<1>3. BarredFramesWait
  BY DEF AccessInit, BarredFramesWait
<1>4. QED BY <1>1, <1>2, <1>3 DEF AccessInv

\* Every step keeps the invariant.
LEMMA AccessInductive == AccessInv /\ [AccessNext]_accessVars => AccessInv'
<1> SUFFICES ASSUME AccessInv, [AccessNext]_accessVars PROVE AccessInv'
  OBVIOUS
<1> USE AccessAssumption DEF AccessInv, AccessType, AccessEndsInTime, CheckComesInTime,
                             BarredFramesWait, Allowed
<1>1. CASE Tick
  BY <1>1 DEF Tick
<1>2. CASE Revoke
  <2>1. AccessType'
    BY <1>2 DEF Revoke
  <2>2. CheckComesInTime' /\ AccessEndsInTime'
    BY <1>2 DEF Revoke
  <2>3. BarredFramesWait'
    BY <1>2 DEF Revoke
  <2>4. QED BY <2>1, <2>2, <2>3
<1>3. CASE Grant
  BY <1>3 DEF Grant
<1>4. CASE Admit
  <2>1. CheckTime \in clock .. clock + Period /\ CheckTime <= expiresAt
    BY <1>4, CheckTimeInTime DEF Admit
  <2>2. QED BY <1>4, <2>1 DEF Admit
<1>5. CASE Reject
  BY <1>5 DEF Reject
<1>6. CASE AuthorizationCheck
  <2>1. CASE Allowed
    <3>1. CheckTime \in clock .. clock + Period /\ CheckTime <= expiresAt
      BY <2>1, CheckTimeInTime
    <3>2. QED BY <1>6, <2>1, <3>1 DEF AuthorizationCheck
  <2>2. CASE ~Allowed
    BY <1>6, <2>2 DEF AuthorizationCheck
  <2>3. QED BY <2>1, <2>2
<1>7. CASE FrameArrives
  BY <1>7 DEF FrameArrives
<1>8. CASE FrameCheck
  BY <1>8 DEF FrameCheck
<1>9. CASE FrameHandled
  BY <1>9 DEF FrameHandled
<1>10. CASE Disconnect
  BY <1>10 DEF Disconnect
<1>11. CASE UNCHANGED accessVars
  BY <1>11 DEF accessVars
<1>12. QED
  BY <1>1, <1>2, <1>3, <1>4, <1>5, <1>6, <1>7, <1>8, <1>9, <1>10, <1>11, Zenon DEF AccessNext

\* AccessInv always holds: no socket is open past the expiry of its token, nor longer than
\* one period after the account lost its right to the transformer.
THEOREM AccessInvariant == AccessSpec => []AccessInv
<1>1. AccessInit => AccessInv
  BY InitAccess
<1>2. AccessInv /\ [AccessNext]_accessVars => AccessInv'
  BY AccessInductive
<1>3. QED BY <1>1, <1>2, PTL DEF AccessSpec

\* A frame that came when there was no access, and none came back, is never permitted.
THEOREM FramesGuarded == AccessSpec => []FramesNeedAccess
<1>1. AccessInv => FramesNeedAccess
  BY DEF AccessInv, BarredFramesWait, FramesNeedAccess
<1>2. QED BY <1>1, AccessInvariant, PTL
=============================================================================
