------------------------- MODULE InstallationStore -------------------------
(***************************************************************************)
(* The relational store behind the HTTP and WebSocket handlers: accounts,  *)
(* their transformers, the meters, registers, metrics and errors below a   *)
(* transformer, and the refresh sessions of an account.                    *)
(*                                                                         *)
(* A handler first reads (getPrincipal, requireTransformerAccess, findById)*)
(* in transactions of its own and only then starts the transaction that    *)
(* writes, so what it read may be gone by then.  That second transaction   *)
(* is modelled lock by lock: SELECT ... FOR UPDATE of the parent row, the  *)
(* locks of a cascade, the writes, commit.  Its writes touch only rows it  *)
(* has locked or inserts, so they are applied in the commit step.          *)
(*                                                                         *)
(* At REPEATABLE READ a DELETE or FOR UPDATE that searches an index by the *)
(* parent's id locks the rows it finds and the gaps around them.  Gap      *)
(* locks go together with each other, but an INSERT into a locked gap      *)
(* waits, also when it is for the parent next to it in the index.          *)
(* Any statement may fail, be chosen as deadlock victim or lose its        *)
(* connection; nothing is then written.                                    *)
(***************************************************************************)
EXTENDS Naturals, FiniteSets

CONSTANTS
  UserId, TransformerId, MeterId, RegisterId, SessionId,
  Request,      \* concurrent handlers, of one server process or of several
  Operations,   \* the writing operations clients call
  MaxAttempts,  \* how often dbQuery runs a transaction that fails with an SQL error
  Adjoins,      \* pairs of parents: a row below the first falls into a gap that is
                \* locked with the rows below the second
  NoRow,        \* value of a foreign key column whose row is absent
  Free          \* holder of a lock nobody holds

OnUser == {"createTransformer", "addRefreshToken", "changePassword",
           "deleteUserTransformers", "deleteUser"}
OnTransformer == {"createMeter", "ingest", "reportError", "deleteTransformer"}
OnMeter == {"createRegister", "deleteMeter"}

\* Transformer ids are compared: the rows of one user are scanned in key order.
ASSUME IdsAssumption ==
  /\ TransformerId \subseteq Nat
  /\ NoRow \notin UserId \cup TransformerId \cup MeterId
ASSUME RequestAssumption == IsFiniteSet(Request) /\ Free \notin Request
ASSUME OperationsAssumption == Operations \subseteq OnUser \cup OnTransformer \cup OnMeter
ASSUME AttemptsAssumption == MaxAttempts \in Nat \ {0}

VARIABLES
  users,            \* rows of users
  owner,            \* transformers.user_id, NoRow where there is no such row
  transformerOf,    \* meter.transformer_id
  meterOf,          \* meter_register.meter_id
  metricRows,       \* transformers with rows in metrics_1m_kv and metric_samples
  errorRows,        \* transformers with rows in transformer_errors
  sessionUser,      \* refresh_sessions.user_id
  issued,           \* ids already given out; none is given out twice
  userLock, transformerLock, meterLock,  \* row locks
  pc, op, key,      \* per request: progress, operation, id in its path
  todo,             \* transformers a cascade still has to lock
  attempts

rows == <<users, owner, transformerOf, meterOf, metricRows, errorRows, sessionUser, issued>>
locks == <<userLock, transformerLock, meterLock>>
vars == <<rows, locks, pc, op, key, todo, attempts>>

Stage == {"idle", "begun", "held", "cascading", "ready"}

RowsType ==
  /\ users \subseteq UserId
  /\ owner \in [TransformerId -> UserId \cup {NoRow}]
  /\ transformerOf \in [MeterId -> TransformerId \cup {NoRow}]
  /\ meterOf \in [RegisterId -> MeterId \cup {NoRow}]
  /\ metricRows \subseteq TransformerId
  /\ errorRows \subseteq TransformerId
  /\ sessionUser \in [SessionId -> UserId \cup {NoRow}]
  /\ issued \subseteq UserId \cup TransformerId \cup MeterId \cup RegisterId \cup SessionId

LocksType ==
  /\ userLock \in [UserId -> Request \cup {Free}]
  /\ transformerLock \in [TransformerId -> Request \cup {Free}]
  /\ meterLock \in [MeterId -> Request \cup {Free}]

RequestsType ==
  /\ pc \in [Request -> Stage]
  /\ op \in [Request -> Operations \cup {"none"}]
  /\ key \in [Request -> UserId \cup TransformerId \cup MeterId \cup {NoRow}]
  /\ todo \in [Request -> SUBSET TransformerId]
  /\ attempts \in [Request -> 0 .. MaxAttempts - 1]
  /\ \A r \in Request : /\ op[r] \in OnUser => key[r] \in UserId
                        /\ op[r] \in OnTransformer => key[r] \in TransformerId
                        /\ op[r] \in OnMeter => key[r] \in MeterId

TypeOK == RowsType /\ LocksType /\ RequestsType

Transformers == {t \in TransformerId : owner[t] # NoRow}
Meters == {m \in MeterId : transformerOf[m] # NoRow}
Registers == {g \in RegisterId : meterOf[g] # NoRow}

(***************************************************************************)
(* Locks.  Wanted...(r) are the rows whose lock the next statement of r    *)
(* asks for.                                                               *)
(***************************************************************************)

LockedTransformers(r) == {t \in TransformerId : transformerLock[t] = r}

\* Mutant: deleteUser scans its transformers in descending order.
CurrentEitherWay(r) ==
  {t \in todo[r] : \A x \in todo[r] : IF op[r] = "deleteUser" THEN x <= t ELSE t <= x}

\* The transformer a cascade works on: ids are scanned in ascending order.
Current(r) == {t \in todo[r] : \A x \in todo[r] : t <= x}

WantedUsers(r) ==
  {u \in UserId : /\ u = key[r]
                  /\ \/ /\ pc[r] = "begun"
                        /\ op[r] \in {"createTransformer", "addRefreshToken", "deleteUser"}
                     \/ pc[r] = "held" /\ op[r] = "changePassword"}

WantedTransformers(r) ==
  {t \in TransformerId :
     \/ pc[r] = "begun" /\ op[r] \in {"createMeter", "ingest", "reportError"} /\ t = key[r]
     \/ pc[r] = "cascading" /\ t \in Current(r) /\ transformerLock[t] # r}

WantedMeters(r) ==
  {m \in MeterId :
     \/ pc[r] = "begun" /\ op[r] \in OnMeter /\ m = key[r]
     \/ /\ pc[r] = "cascading"
        /\ transformerOf[m] \in Current(r) \cap LockedTransformers(r)}

WantedSessions(r) ==
  {u \in UserId : /\ u = key[r]
                  /\ \/ pc[r] = "begun" /\ op[r] = "changePassword"
                     \/ pc[r] = "held" /\ op[r] = "addRefreshToken"
                     \/ pc[r] = "cascading" /\ todo[r] = {} /\ op[r] = "deleteUser"}

(***************************************************************************)
(* Ranges.  Searched...(r) are the parents by whose id a running DELETE or *)
(* FOR UPDATE of r has searched an index; it keeps these rows and gaps     *)
(* locked.  A request about to insert a row waits for whoever has locked   *)
(* the gap it falls into, a DELETE of sessions for whoever has locked the  *)
(* same rows.                                                              *)
(***************************************************************************)

Cascades == {"deleteTransformer", "deleteUserTransformers", "deleteUser"}

SearchedSessions(r) ==
  {u \in UserId : /\ u = key[r]
                  /\ pc[r] = "ready" \/ (pc[r] = "held" /\ op[r] = "changePassword")}

SearchedTransformers(r) ==
  {t \in LockedTransformers(r) : op[r] \in Cascades /\ t \notin todo[r]}

SearchedMeters(r) == {m \in MeterId : op[r] \in Cascades /\ meterLock[m] = r}

\* The parents in S next to whose rows a row below p comes to lie.
Neighbours(p, S) == {q \in S : q = p \/ <<p, q>> \in Adjoins}

GapBlockers(r) ==
  {q \in Request \ {r} :
     \/ /\ pc[r] = "ready" /\ op[r] = "addRefreshToken"
        /\ Neighbours(key[r], SearchedSessions(q)) # {}
     \/ /\ pc[r] = "held" /\ op[r] \in {"createMeter", "ingest", "reportError"}
        /\ Neighbours(key[r], SearchedTransformers(q)) # {}
     \/ /\ pc[r] = "held" /\ op[r] = "createRegister"
        /\ Neighbours(key[r], SearchedMeters(q)) # {}}

SessionBlockers(r) ==
  {q \in Request \ {r} : \E u \in WantedSessions(r) \cap SearchedSessions(q) :
                           \E s \in SessionId : sessionUser[s] = u}

\* Requests holding a lock that r waits for.
Blockers(r) ==
  (({userLock[u] : u \in WantedUsers(r)} \cup {transformerLock[t] : t \in WantedTransformers(r)}
    \cup {meterLock[m] : m \in WantedMeters(r)}) \ {Free, r})
  \cup SessionBlockers(r) \cup GapBlockers(r)

\* What every request set R waiting only for itself looks like.
WaitCycle(R) == R # {} /\ \A r \in R : Blockers(r) \cap R # {}
Deadlocked(r) == \E R \in SUBSET Request : r \in R /\ WaitCycle(R)

Without(lock, r) == [x \in DOMAIN lock |-> IF lock[x] = r THEN Free ELSE lock[x]]

ReleaseLocks(r) ==
  /\ userLock' = Without(userLock, r)
  /\ transformerLock' = Without(transformerLock, r)
  /\ meterLock' = Without(meterLock, r)

\* The transaction is over and the handler answers its client.
Finish(r) ==
  /\ ReleaseLocks(r)
  /\ pc' = [pc EXCEPT ![r] = "idle"]
  /\ op' = [op EXCEPT ![r] = "none"]
  /\ key' = [key EXCEPT ![r] = NoRow]
  /\ todo' = [todo EXCEPT ![r] = {}]
  /\ attempts' = [attempts EXCEPT ![r] = 0]

(***************************************************************************)
(* Statements that stand alone: a single INSERT or DELETE.                 *)
(***************************************************************************)

AddUser(u) ==
  /\ u \notin issued
  /\ users' = users \cup {u}
  /\ issued' = issued \cup {u}
  /\ UNCHANGED <<owner, transformerOf, meterOf, metricRows, errorRows, sessionUser,
                 locks, pc, op, key, todo, attempts>>

DeleteRegister(g) ==
  /\ g \in Registers
  /\ meterOf' = [meterOf EXCEPT ![g] = NoRow]
  /\ UNCHANGED <<users, owner, transformerOf, metricRows, errorRows, sessionUser, issued,
                 locks, pc, op, key, todo, attempts>>

RevokeRefreshToken(s) ==
  /\ sessionUser[s] # NoRow
  /\ \A q \in Request : sessionUser[s] \notin SearchedSessions(q)
  /\ sessionUser' = [sessionUser EXCEPT ![s] = NoRow]
  /\ UNCHANGED <<users, owner, transformerOf, meterOf, metricRows, errorRows, issued,
                 locks, pc, op, key, todo, attempts>>

(***************************************************************************)
(* The transactions.                                                       *)
(***************************************************************************)

\* Ids an INSERT of operation o may still get.
NewIds(o) ==
  CASE o = "createTransformer" -> TransformerId \ issued
    [] o = "createMeter" -> MeterId \ issued
    [] o = "createRegister" -> RegisterId \ issued
    [] o = "addRefreshToken" -> SessionId \ issued

\* Bound of the model: an insert starts only while an id is left for it.
IdsLeft(o) ==
  o \in {"createTransformer", "createMeter", "createRegister", "addRefreshToken"} =>
    Cardinality({r \in Request : op[r] = o}) < Cardinality(NewIds(o))

\* The handler has read the row its path names and starts the writing transaction.
Begin(r, o, k) ==
  /\ pc[r] = "idle" /\ IdsLeft(o)
  /\ \/ o \in OnUser /\ k \in users
     \/ o \in OnTransformer /\ k \in Transformers
     \/ o \in OnMeter /\ k \in Meters
  /\ pc' = [pc EXCEPT ![r] = "begun"]
  /\ op' = [op EXCEPT ![r] = o]
  /\ key' = [key EXCEPT ![r] = k]
  /\ UNCHANGED <<rows, locks, todo, attempts>>

\* SELECT ... FOR UPDATE of the parent row finds it and locks it.
LockParentUser(r) ==
  /\ pc[r] = "begun"
  /\ \E u \in WantedUsers(r) \cap users :
       userLock[u] = Free /\ userLock' = [userLock EXCEPT ![u] = r]
  /\ pc' = [pc EXCEPT ![r] = "held"]
  /\ UNCHANGED <<rows, transformerLock, meterLock, op, key, todo, attempts>>

\* Mutant: the parent is read without FOR UPDATE.
LockParentTransformerNoLock(r) ==
  /\ pc[r] = "begun"
  /\ WantedTransformers(r) \cap Transformers # {}
  /\ pc' = [pc EXCEPT ![r] = "held"]
  /\ UNCHANGED <<rows, locks, op, key, todo, attempts>>

LockParentTransformer(r) ==
  /\ pc[r] = "begun"
  /\ \E t \in WantedTransformers(r) \cap Transformers :
       transformerLock[t] = Free /\ transformerLock' = [transformerLock EXCEPT ![t] = r]
  /\ pc' = [pc EXCEPT ![r] = "held"]
  /\ UNCHANGED <<rows, userLock, meterLock, op, key, todo, attempts>>

LockParentMeter(r) ==
  /\ pc[r] = "begun"
  /\ \E m \in WantedMeters(r) \cap Meters :
       meterLock[m] = Free /\ meterLock' = [meterLock EXCEPT ![m] = r]
  /\ pc' = [pc EXCEPT ![r] = "held"]
  /\ UNCHANGED <<rows, userLock, transformerLock, op, key, todo, attempts>>

\* The parent row is gone: NotFound, Unauthorized, or a count of 0.
ParentMissing(r) ==
  /\ pc[r] = "begun"
  /\ \/ WantedUsers(r) \ users # {}
     \/ WantedTransformers(r) \ Transformers # {}
     \/ WantedMeters(r) \ Meters # {}
  /\ Finish(r)
  /\ UNCHANGED rows

CreateTransformer(r, t) ==
  /\ pc[r] = "held" /\ op[r] = "createTransformer"
  /\ t \notin issued
  /\ owner' = [owner EXCEPT ![t] = key[r]]
  /\ issued' = issued \cup {t}
  /\ Finish(r)
  /\ UNCHANGED <<users, transformerOf, meterOf, metricRows, errorRows, sessionUser>>

CreateMeter(r, m) ==
  /\ pc[r] = "held" /\ op[r] = "createMeter"
  /\ GapBlockers(r) = {}
  /\ m \notin issued
  /\ transformerOf' = [transformerOf EXCEPT ![m] = key[r]]
  /\ issued' = issued \cup {m}
  /\ Finish(r)
  /\ UNCHANGED <<users, owner, meterOf, metricRows, errorRows, sessionUser>>

CreateRegister(r, g) ==
  /\ pc[r] = "held" /\ op[r] = "createRegister"
  /\ GapBlockers(r) = {}
  /\ g \notin issued
  /\ meterOf' = [meterOf EXCEPT ![g] = key[r]]
  /\ issued' = issued \cup {g}
  /\ Finish(r)
  /\ UNCHANGED <<users, owner, transformerOf, metricRows, errorRows, sessionUser>>

Ingest(r) ==
  /\ pc[r] = "held" /\ op[r] = "ingest"
  /\ GapBlockers(r) = {}
  /\ metricRows' = metricRows \cup {key[r]}
  /\ Finish(r)
  /\ UNCHANGED <<users, owner, transformerOf, meterOf, errorRows, sessionUser, issued>>

ReportError(r) ==
  /\ pc[r] = "held" /\ op[r] = "reportError"
  /\ GapBlockers(r) = {}
  /\ errorRows' = errorRows \cup {key[r]}
  /\ Finish(r)
  /\ UNCHANGED <<users, owner, transformerOf, meterOf, metricRows, sessionUser, issued>>

DeleteMeter(r) ==
  /\ pc[r] = "held" /\ op[r] = "deleteMeter"
  /\ meterOf' = [g \in RegisterId |-> IF meterOf[g] = key[r] THEN NoRow ELSE meterOf[g]]
  /\ transformerOf' = [transformerOf EXCEPT ![key[r]] = NoRow]
  /\ Finish(r)
  /\ UNCHANGED <<users, owner, metricRows, errorRows, sessionUser, issued>>

\* DELETE on refresh_sessions searches the user's range and keeps it locked.
LockSessions(r) ==
  /\ WantedSessions(r) # {} /\ SessionBlockers(r) = {}
  /\ pc' = [pc EXCEPT ![r] = IF op[r] = "changePassword" THEN "held" ELSE "ready"]
  /\ UNCHANGED <<rows, locks, op, key, todo, attempts>>

\* Expired sessions of the user go, the new one is inserted.
AddRefreshToken(r, s) ==
  /\ pc[r] = "ready" /\ op[r] = "addRefreshToken"
  /\ GapBlockers(r) = {}
  /\ s \notin issued
  /\ \E expired \in SUBSET {x \in SessionId : sessionUser[x] = key[r]} :
       sessionUser' = [x \in SessionId |->
                         CASE x = s -> key[r]
                           [] x # s /\ x \in expired -> NoRow
                           [] OTHER -> sessionUser[x]]
  /\ issued' = issued \cup {s}
  /\ Finish(r)
  /\ UNCHANGED <<users, owner, transformerOf, meterOf, metricRows, errorRows>>

\* updatePasswordHash has searched the sessions first and takes the user row second.
ChangePassword(r) ==
  /\ pc[r] = "held" /\ op[r] = "changePassword"
  /\ \A u \in WantedUsers(r) : userLock[u] = Free
  /\ sessionUser' = [s \in SessionId |->
                       IF sessionUser[s] = key[r] THEN NoRow ELSE sessionUser[s]]
  /\ Finish(r)
  /\ UNCHANGED <<users, owner, transformerOf, meterOf, metricRows, errorRows, issued>>

(***************************************************************************)
(* Cascades: DELETE of a transformer, of a user's transformers, of a user. *)
(***************************************************************************)

\* Mutant: the list of transformers is not restricted to the user.
CascadeRootsOfAnybody(r) ==
  IF op[r] = "deleteTransformer" THEN {t \in TransformerId : t = key[r]} ELSE Transformers

CascadeRoots(r) ==
  IF op[r] = "deleteTransformer" THEN {t \in TransformerId : t = key[r]}
                                 ELSE {t \in TransformerId : owner[t] = key[r]}

\* Mutant: deleteUser lists the transformers without locking the user row.
StartCascadeNoUserLock(r) ==
  /\ pc[r] = "begun" /\ op[r] \in {"deleteTransformer", "deleteUserTransformers", "deleteUser"}
  /\ todo' = [todo EXCEPT ![r] = CascadeRoots(r)]
  /\ pc' = [pc EXCEPT ![r] = "cascading"]
  /\ UNCHANGED <<rows, locks, op, key, attempts>>

\* A plain SELECT lists the transformers, for deleteUser after the user row is locked.
StartCascade(r) ==
  /\ \/ pc[r] = "begun" /\ op[r] \in {"deleteTransformer", "deleteUserTransformers"}
     \/ pc[r] = "held" /\ op[r] = "deleteUser"
  /\ todo' = [todo EXCEPT ![r] = CascadeRoots(r)]
  /\ pc' = [pc EXCEPT ![r] = "cascading"]
  /\ UNCHANGED <<rows, locks, op, key, attempts>>

LockCascadeTransformer(r) ==
  /\ pc[r] = "cascading"
  /\ \E t \in WantedTransformers(r) \cap Transformers :
       transformerLock[t] = Free /\ transformerLock' = [transformerLock EXCEPT ![t] = r]
  /\ UNCHANGED <<rows, userLock, meterLock, pc, op, key, todo, attempts>>

\* Another request deleted the transformer since it was listed.
SkipMissingTransformer(r) ==
  /\ pc[r] = "cascading"
  /\ WantedTransformers(r) \ Transformers # {}
  /\ todo' = [todo EXCEPT ![r] = @ \ Current(r)]
  /\ UNCHANGED <<rows, locks, pc, op, key, attempts>>

\* SELECT ... FOR UPDATE of the meters of the transformer just locked.
LockCascadeMeters(r) ==
  /\ pc[r] = "cascading"
  /\ Current(r) \cap LockedTransformers(r) # {}
  /\ \A m \in WantedMeters(r) : meterLock[m] = Free
  /\ meterLock' = [m \in MeterId |-> IF m \in WantedMeters(r) THEN r ELSE meterLock[m]]
  /\ todo' = [todo EXCEPT ![r] = @ \ Current(r)]
  /\ UNCHANGED <<rows, userLock, transformerLock, pc, op, key, attempts>>

DeletedUsers(r) == IF op[r] = "deleteUser" THEN {key[r]} ELSE {}

\* Registers go by the list of locked meters, every other row by its transformer.
DeleteCascade(r) ==
  LET gone == LockedTransformers(r) IN
  /\ todo[r] = {}
  /\ \/ pc[r] = "cascading" /\ op[r] \in {"deleteTransformer", "deleteUserTransformers"}
     \/ pc[r] = "ready" /\ op[r] = "deleteUser"
  /\ meterOf' = [g \in RegisterId |->
                   IF g \in Registers /\ meterLock[meterOf[g]] = r THEN NoRow ELSE meterOf[g]]
  /\ transformerOf' = [m \in MeterId |->
                         IF transformerOf[m] \in gone THEN NoRow ELSE transformerOf[m]]
  /\ metricRows' = metricRows \ gone
  /\ errorRows' = errorRows \ gone
  /\ owner' = [t \in TransformerId |-> IF t \in gone THEN NoRow ELSE owner[t]]
  /\ sessionUser' = [s \in SessionId |->
                       IF sessionUser[s] \in DeletedUsers(r) THEN NoRow ELSE sessionUser[s]]
  /\ users' = users \ DeletedUsers(r)
  /\ Finish(r)
  /\ UNCHANGED issued

(***************************************************************************)
(* Failure.  The database rolls the transaction back; after an SQL error   *)
(* (lock timeout, deadlock victim) dbQuery runs the block again until its  *)
(* attempts are used up, after anything else the handler gives up.         *)
(***************************************************************************)

SqlFailure(r) ==
  /\ pc[r] # "idle"
  /\ attempts[r] + 1 < MaxAttempts
  /\ ReleaseLocks(r)
  /\ pc' = [pc EXCEPT ![r] = "begun"]
  /\ todo' = [todo EXCEPT ![r] = {}]
  /\ attempts' = [attempts EXCEPT ![r] = @ + 1]
  /\ UNCHANGED <<rows, op, key>>

\* Mutant: the transaction is left open, with its locks.
GiveUpWithoutRollback(r) ==
  /\ pc[r] # "idle"
  /\ pc' = [pc EXCEPT ![r] = "idle"]
  /\ op' = [op EXCEPT ![r] = "none"]
  /\ key' = [key EXCEPT ![r] = NoRow]
  /\ todo' = [todo EXCEPT ![r] = {}]
  /\ attempts' = [attempts EXCEPT ![r] = 0]
  /\ UNCHANGED <<rows, locks>>

GiveUp(r) ==
  /\ pc[r] # "idle"
  /\ Finish(r)
  /\ UNCHANGED rows

Create(r) ==
  \/ \E t \in TransformerId : CreateTransformer(r, t)
  \/ \E m \in MeterId : CreateMeter(r, m)
  \/ \E g \in RegisterId : CreateRegister(r, g)
  \/ \E s \in SessionId : AddRefreshToken(r, s)

Lock(r) ==
  \/ LockParentUser(r) \/ LockParentTransformer(r) \/ LockParentMeter(r)
  \/ LockSessions(r) \/ LockCascadeTransformer(r) \/ LockCascadeMeters(r)

\* A statement of the running transaction succeeds.
Advance(r) ==
  \/ Lock(r) \/ ParentMissing(r)
  \/ Create(r) \/ Ingest(r) \/ ReportError(r) \/ DeleteMeter(r) \/ ChangePassword(r)
  \/ StartCascade(r) \/ SkipMissingTransformer(r) \/ DeleteCascade(r)

Init ==
  /\ users = {} /\ issued = {}
  /\ owner = [t \in TransformerId |-> NoRow]
  /\ transformerOf = [m \in MeterId |-> NoRow]
  /\ meterOf = [g \in RegisterId |-> NoRow]
  /\ metricRows = {} /\ errorRows = {}
  /\ sessionUser = [s \in SessionId |-> NoRow]
  /\ userLock = [u \in UserId |-> Free]
  /\ transformerLock = [t \in TransformerId |-> Free]
  /\ meterLock = [m \in MeterId |-> Free]
  /\ pc = [r \in Request |-> "idle"]
  /\ op = [r \in Request |-> "none"]
  /\ key = [r \in Request |-> NoRow]
  /\ todo = [r \in Request |-> {}]
  /\ attempts = [r \in Request |-> 0]

Next ==
  \/ \E u \in UserId : AddUser(u)
  \/ \E g \in RegisterId : DeleteRegister(g)
  \/ \E s \in SessionId : RevokeRefreshToken(s)
  \/ \E r \in Request :
       \/ \E o \in Operations, k \in UserId \cup TransformerId \cup MeterId : Begin(r, o, k)
       \/ Advance(r)
       \/ SqlFailure(r)
       \/ GiveUp(r)

Spec == Init /\ [][Next]_vars

\* The database serves a waiting statement in turn once its lock is free, and
\* resolves a wait cycle by failing one of the transactions in it.
Fairness ==
  \A r \in Request : /\ SF_vars(Advance(r))
                     /\ WF_vars(Deadlocked(r) /\ (SqlFailure(r) \/ GiveUp(r)))

FairSpec == Spec /\ Fairness

(***************************************************************************)
(* Properties.                                                             *)
(***************************************************************************)

\* No committed row refers to a missing parent, whatever creates, deletes and
\* failures interleave (deleteTransformer's comment: "deleting a parent cannot
\* leave orphaned data").  The application's schema has no foreign keys for these
\* tables except refresh_sessions, so only the locking protects them.
NoOrphans ==
  /\ \A t \in Transformers : owner[t] \in users
  /\ \A m \in Meters : transformerOf[m] \in Transformers
  /\ \A g \in Registers : meterOf[g] \in Meters
  /\ metricRows \cup errorRows \subseteq Transformers
  /\ \A s \in SessionId : sessionUser[s] # NoRow => sessionUser[s] \in users

\* Request r, running one of the operations in ops on key k, ends in this step.
Ends(r, ops, k) == op[r] \in ops /\ key[r] = k /\ pc[r] # "idle" /\ pc'[r] = "idle"

\* A delete removes nothing outside the subtree its path names: a transformer goes
\* only with a cascade rooted at it or at its owner, a meter only by its own delete
\* or with its transformer, a telemetry row only with its transformer, an account
\* only by deleteById.
DeletesStayInScope ==
  [][/\ \A t \in Transformers : owner'[t] = NoRow =>
          \E r \in Request : Ends(r, Cascades, t) \/ Ends(r, Cascades, owner[t])
     /\ \A m \in Meters : transformerOf'[m] = NoRow =>
          \/ \E r \in Request : Ends(r, {"deleteMeter"}, m)
          \/ owner'[transformerOf[m]] = NoRow
     /\ \A t \in (metricRows \ metricRows') \cup (errorRows \ errorRows') : owner'[t] = NoRow
     /\ \A u \in users \ users' : \E r \in Request : Ends(r, {"deleteUser"}, u)]_vars

\* Two session openings of different accounts, each about to insert next to the rows
\* that the other has searched.
OpeningsCross(r, q) ==
  /\ {op[r], op[q]} = {"addRefreshToken"} /\ key[r] # key[q]
  /\ q \in GapBlockers(r)

\* An insert below a transformer or a meter meets the deletion of all transformers of a
\* user, which has searched the rows next to it and goes on to further transformers.
InsertMeetsCascade(r, q) ==
  /\ op[r] \in {"createMeter", "ingest", "reportError", "createRegister"}
  /\ op[q] \in {"deleteUserTransformers", "deleteUser"} /\ todo[q] # {}
  /\ q \in GapBlockers(r)

\* Rows are locked in one order (user, transformers by id, meters), so waits for rows
\* alone never close a circle.  Only three things do: updatePasswordHash, which locks
\* sessions before the account; session openings of neighbours; and inserts against the
\* deletion of several transformers.  In particular devices do not deadlock among
\* themselves, nor does the deletion of a single transformer or meter.
OnlyKnownCircles ==
  \A R \in SUBSET Request : WaitCycle(R) =>
    \/ \E r \in R : op[r] = "changePassword"
    \/ \E r, q \in R : OpeningsCross(r, q) \/ InsertMeetsCascade(r, q)

\* Every handler whose statements the database keeps serving ends, deadlocks included.
RequestsFinish == \A r \in Request : pc[r] # "idle" ~> pc[r] = "idle"

(***************************************************************************)
(* Why they hold: what a transaction may rely on while it runs.            *)
(***************************************************************************)

\* A locked row exists and its holder is a running transaction that asked for it.
LockedRowsExist ==
  /\ \A u \in UserId, r \in Request : userLock[u] = r =>
       /\ u \in users /\ u = key[r]
       /\ pc[r] \in {"held", "cascading", "ready"}
       /\ op[r] \in {"createTransformer", "addRefreshToken", "deleteUser"}
  /\ \A t \in TransformerId, r \in Request : transformerLock[t] = r =>
       /\ t \in Transformers
       /\ \/ pc[r] = "held" /\ op[r] \in {"createMeter", "ingest", "reportError"} /\ t = key[r]
          \/ pc[r] \in {"cascading", "ready"} /\ op[r] \in Cascades
  /\ \A m \in MeterId, r \in Request : meterLock[m] = r =>
       /\ m \in Meters
       /\ \/ pc[r] = "held" /\ op[r] \in OnMeter /\ m = key[r]
          \/ pc[r] \in {"cascading", "ready"} /\ op[r] \in Cascades

\* A transaction about to write below a parent still holds the parent's lock.
HoldsUser(r) ==
  \/ pc[r] = "held" /\ op[r] \in {"createTransformer", "addRefreshToken", "deleteUser"}
  \/ pc[r] = "cascading" /\ op[r] = "deleteUser"
  \/ pc[r] = "ready"

ParentHeld ==
  \A r \in Request :
    /\ HoldsUser(r) => \E u \in UserId : u = key[r] /\ userLock[u] = r
    /\ (pc[r] = "held" /\ op[r] \in {"createMeter", "ingest", "reportError"})
         => \E t \in TransformerId : t = key[r] /\ transformerLock[t] = r
    /\ (pc[r] = "held" /\ op[r] \in OnMeter)
         => \E m \in MeterId : m = key[r] /\ meterLock[m] = r

\* A cascade has locked every meter of a transformer it is done with, and a
\* deleteUser overlooks none of the user's transformers, old or new.
CascadeComplete ==
  \A r \in Request :
    /\ pc[r] = "cascading" => op[r] \in Cascades
    /\ op[r] \in Cascades => \A m \in MeterId :
         transformerOf[m] \in LockedTransformers(r) \ todo[r] => meterLock[m] = r
    /\ op[r] = "deleteUser" /\ pc[r] \in {"cascading", "ready"} =>
         \A t \in TransformerId :
           owner[t] = key[r] => t \in todo[r] \cup LockedTransformers(r)
    /\ op[r] = "deleteUser" /\ pc[r] = "ready" => todo[r] = {}

\* A transformer a cascade has listed or locked is the one its path names, or belongs to
\* the user its path names or to nobody any more.  Ids are not given out twice, so a
\* listed transformer that is gone does not come back as somebody else's.
CascadeInScope ==
  /\ Transformers \subseteq issued
  /\ \A r \in Request :
       /\ todo[r] # {} => pc[r] = "cascading"
       /\ op[r] = "deleteTransformer" => key[r] \in issued
       /\ op[r] \in Cascades => \A t \in todo[r] \cup LockedTransformers(r) :
            /\ t \in issued
            /\ IF op[r] = "deleteTransformer" THEN t = key[r] ELSE owner[t] \in {key[r], NoRow}

\* A cascade holds no lock on a transformer after one it still has to lock, and locks on
\* meters only below transformers it is done with.
LocksInOrder ==
  /\ Meters \subseteq issued
  /\ \A r \in Request : op[r] \in Cascades =>
       /\ \A t \in LockedTransformers(r), x \in todo[r] : t <= x
       /\ \A m \in MeterId :
            meterLock[m] = r => transformerOf[m] \in LockedTransformers(r) \ todo[r]

StoreInv ==
  /\ TypeOK /\ NoOrphans /\ LockedRowsExist /\ ParentHeld
  /\ CascadeComplete /\ CascadeInScope /\ LocksInOrder
=============================================================================
