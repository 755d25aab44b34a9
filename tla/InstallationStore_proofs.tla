---------------------- MODULE InstallationStore_proofs ----------------------
(***************************************************************************)
(* The store is type correct and never holds an orphan, deletes stay in    *)
(* their scope, and transactions wait for each other only in the circles   *)
(* that are known, for every number of ids, requests and attempts and      *)
(* whichever index ranges share a gap.                                     *)
(***************************************************************************)
EXTENDS InstallationStore, FiniteSetTheorems, WellFoundedInduction, TLAPS

LEMMA InitType == Init => TypeOK
BY AttemptsAssumption
DEF Init, TypeOK, RowsType, LocksType, RequestsType, Stage, OnUser, OnTransformer, OnMeter

\* Ending a transaction leaves its locks and its request well typed.
LEMMA FinishType ==
  ASSUME TypeOK, NEW r \in Request, Finish(r)
  PROVE  LocksType' /\ RequestsType'
<1>1. LocksType'
  BY DEF TypeOK, LocksType, Finish, ReleaseLocks, Without
<1>2. RequestsType'
  BY AttemptsAssumption
  DEF TypeOK, RequestsType, Finish, Stage, OnUser, OnTransformer, OnMeter
<1> QED BY <1>1, <1>2

\* A lock step changes one lock and the progress of its request.
LEMMA LockType ==
  ASSUME TypeOK, NEW r \in Request, Lock(r)
  PROVE  TypeOK'
<1> USE DEF Lock, LockParentUser, LockParentTransformer, LockParentMeter, LockSessions, locks,
            LockCascadeTransformer, LockCascadeMeters
<1>1. RowsType'
  BY DEF TypeOK, RowsType, rows
<1>2. LocksType'
  BY DEF TypeOK, LocksType
<1>3. RequestsType'
  BY DEF TypeOK, RequestsType, Stage
<1> QED BY <1>1, <1>2, <1>3 DEF TypeOK

\* An insert writes ids of the right kind into the columns of the new row.
LEMMA CreateType ==
  ASSUME TypeOK, NEW r \in Request, Create(r)
  PROVE  TypeOK'
<1>1. Finish(r)
  BY DEF Create, CreateTransformer, CreateMeter, CreateRegister, AddRefreshToken
<1>2. RowsType'
  <2> USE DEF TypeOK, RowsType, RequestsType, OnUser, OnTransformer, OnMeter
  <2>1. ASSUME NEW t \in TransformerId, CreateTransformer(r, t) PROVE RowsType'
    BY <2>1 DEF CreateTransformer
  <2>2. ASSUME NEW m \in MeterId, CreateMeter(r, m) PROVE RowsType'
    BY <2>2 DEF CreateMeter
  <2>3. ASSUME NEW g \in RegisterId, CreateRegister(r, g) PROVE RowsType'
    BY <2>3 DEF CreateRegister
  <2>4. ASSUME NEW s \in SessionId, AddRefreshToken(r, s) PROVE RowsType'
    BY <2>4 DEF AddRefreshToken
  <2> QED BY <2>1, <2>2, <2>3, <2>4 DEF Create
<1> QED BY <1>1, <1>2, FinishType DEF TypeOK

\* Every other step in which a transaction ends.
LEMMA EndType ==
  ASSUME TypeOK, NEW r \in Request,
         \/ ParentMissing(r) \/ GiveUp(r) \/ Ingest(r) \/ ReportError(r)
         \/ DeleteMeter(r) \/ ChangePassword(r) \/ DeleteCascade(r)
  PROVE  TypeOK'
<1>1. Finish(r)
  BY DEF ParentMissing, GiveUp, Ingest, ReportError, DeleteMeter, ChangePassword, DeleteCascade
<1>2. RowsType'
  <2> USE DEF TypeOK, RowsType
  <2>1. CASE ParentMissing(r) \/ GiveUp(r)
    BY <2>1 DEF ParentMissing, GiveUp, rows
  <2>2. CASE Ingest(r) \/ ReportError(r)
    <3>1. key[r] \in TransformerId
      BY <2>2 DEF Ingest, ReportError, RequestsType, OnTransformer
    <3>2. CASE Ingest(r)
      BY <3>1, <3>2 DEF Ingest
    <3>3. CASE ReportError(r)
      BY <3>1, <3>3 DEF ReportError
    <3> QED BY <2>2, <3>2, <3>3
  <2>3. CASE DeleteMeter(r)
    BY <2>3 DEF DeleteMeter
  <2>4. CASE ChangePassword(r)
    BY <2>4 DEF ChangePassword
  <2>5. CASE DeleteCascade(r)
    BY <2>5 DEF DeleteCascade
  <2> QED BY <2>1, <2>2, <2>3, <2>4, <2>5
<1> QED BY <1>1, <1>2, FinishType DEF TypeOK

LEMMA TypeInductive == TypeOK /\ [Next]_vars => TypeOK'
<1> SUFFICES ASSUME TypeOK, [Next]_vars
             PROVE  TypeOK'
  OBVIOUS
<1> USE DEF TypeOK, RowsType, LocksType, RequestsType
<1>1. ASSUME NEW u \in UserId, AddUser(u) PROVE TypeOK'
  BY <1>1 DEF AddUser, locks
<1>2. ASSUME NEW g \in RegisterId, DeleteRegister(g) PROVE TypeOK'
  BY <1>2 DEF DeleteRegister, locks
<1>3. ASSUME NEW s \in SessionId, RevokeRefreshToken(s) PROVE TypeOK'
  BY <1>3 DEF RevokeRefreshToken, locks
<1>4. ASSUME NEW r \in Request, NEW o \in Operations,
             NEW k \in UserId \cup TransformerId \cup MeterId, Begin(r, o, k)
      PROVE  TypeOK'
  BY <1>4 DEF Begin, rows, locks, Stage, OnUser, OnTransformer, OnMeter, Transformers, Meters
<1>5. ASSUME NEW r \in Request, Advance(r) PROVE TypeOK'
  <2>1. CASE StartCascade(r)
    BY <2>1 DEF StartCascade, CascadeRoots, rows, locks, Stage
  <2>2. CASE SkipMissingTransformer(r)
    BY <2>2 DEF SkipMissingTransformer, rows, locks
  <2> QED BY <1>5, <2>1, <2>2, LockType, CreateType, EndType DEF Advance
<1>6. ASSUME NEW r \in Request, SqlFailure(r) PROVE TypeOK'
  BY <1>6, AttemptsAssumption DEF SqlFailure, ReleaseLocks, Without, rows, Stage
<1>7. ASSUME NEW r \in Request, GiveUp(r) PROVE TypeOK'
  BY <1>7, EndType
<1>8. CASE UNCHANGED vars
  BY <1>8 DEF vars, rows, locks
<1> QED BY <1>1, <1>2, <1>3, <1>4, <1>5, <1>6, <1>7, <1>8 DEF Next

\* Every reachable state is well typed.
THEOREM TypeCorrect == Spec => []TypeOK
BY InitType, TypeInductive, PTL DEF Spec

-----------------------------------------------------------------------------
(***************************************************************************)
(* No orphans.  Rows go only together with everything below them, because  *)
(* the deleting transaction holds the locks under which children would be  *)
(* inserted; StoreInv says which locks a transaction holds at which stage. *)
(***************************************************************************)

LEMMA InitStore == Init => StoreInv
<1> SUFFICES ASSUME Init PROVE StoreInv
  OBVIOUS
<1>1. TypeOK
  BY InitType
<1>2. NoOrphans
  BY DEF Init, NoOrphans, Transformers, Meters, Registers
<1>3. LockedRowsExist /\ ParentHeld /\ CascadeComplete
  BY RequestAssumption DEF Init, LockedRowsExist, ParentHeld, HoldsUser, CascadeComplete, Cascades
<1>4. CascadeInScope
  BY DEF Init, CascadeInScope, Transformers, Cascades
<1>5. LocksInOrder
  BY RequestAssumption DEF Init, LocksInOrder, Meters, Cascades
<1> QED BY <1>1, <1>2, <1>3, <1>4, <1>5 DEF StoreInv

\* The transaction of r is over or starts again; the others are where they were.
Stops(r) ==
  /\ ReleaseLocks(r)
  /\ pc'[r] \in {"idle", "begun"}
  /\ \A q \in Request \ {r} : /\ pc'[q] = pc[q] /\ op'[q] = op[q]
                              /\ key'[q] = key[q] /\ todo'[q] = todo[q]

LEMMA FinishStops ==
  ASSUME TypeOK, NEW r \in Request, Finish(r)
  PROVE  Stops(r)
BY DEF Finish, Stops, TypeOK, RequestsType

LEMMA FailureStops ==
  ASSUME TypeOK, NEW r \in Request, SqlFailure(r)
  PROVE  Stops(r)
BY DEF SqlFailure, Stops, TypeOK, RequestsType

\* The locks of r are gone, those of the others stay.
LEMMA ReleaseKeepsOthers ==
  ASSUME TypeOK, NEW r \in Request, ReleaseLocks(r), NEW q \in Request
  PROVE  /\ \A u \in UserId : userLock'[u] = q <=> q # r /\ userLock[u] = q
         /\ \A t \in TransformerId : transformerLock'[t] = q <=> q # r /\ transformerLock[t] = q
         /\ \A m \in MeterId : meterLock'[m] = q <=> q # r /\ meterLock[m] = q
BY RequestAssumption DEF ReleaseLocks, Without, TypeOK, LocksType

\* When r stops, the lock invariants survive provided no row another request has
\* locked disappears and no child appears below a row another request has locked.
LEMMA StopKeepsLocks ==
  ASSUME StoreInv, NEW r \in Request, Stops(r),
         \A q \in Request \ {r} :
           /\ \A u \in UserId : userLock[u] = q => u \in users'
           /\ \A t \in TransformerId : transformerLock[t] = q => owner'[t] # NoRow
           /\ \A m \in MeterId : meterLock[m] = q => transformerOf'[m] # NoRow
           /\ \A m \in MeterId : transformerOf'[m] \in LockedTransformers(q) =>
                transformerOf'[m] = transformerOf[m]
           /\ op[q] = "deleteUser" /\ pc[q] \in {"cascading", "ready"} =>
                \A t \in TransformerId : owner'[t] = key[q] => owner'[t] = owner[t]
  PROVE  LockedRowsExist' /\ ParentHeld' /\ CascadeComplete'
<1>1. TypeOK
  BY DEF StoreInv
<1>2. \A q \in Request :
        /\ \A u \in UserId : userLock'[u] = q <=> q # r /\ userLock[u] = q
        /\ \A t \in TransformerId : transformerLock'[t] = q <=> q # r /\ transformerLock[t] = q
        /\ \A m \in MeterId : meterLock'[m] = q <=> q # r /\ meterLock[m] = q
  BY <1>1, ReleaseKeepsOthers DEF Stops
<1>3. LockedRowsExist'
  BY <1>2 DEF StoreInv, LockedRowsExist, Stops, Transformers, Meters
<1>4. ParentHeld'
  BY <1>2 DEF StoreInv, ParentHeld, HoldsUser, Stops
<1>5. CascadeComplete'
  <2> SUFFICES ASSUME NEW q \in Request
               PROVE  CascadeComplete!(q)'
    BY DEF CascadeComplete
  <2>1. CASE q = r
    BY <1>2, <2>1 DEF Stops, LockedTransformers
  <2>2. CASE q # r
    <3>1. LockedTransformers(q)' = LockedTransformers(q)
      BY <1>2, <2>2 DEF LockedTransformers
    <3> QED BY <1>2, <2>2, <3>1 DEF StoreInv, CascadeComplete, Stops
  <2> QED BY <2>1, <2>2
<1> QED BY <1>3, <1>4, <1>5

\* A step that changes no row keeps NoOrphans.
LEMMA SameRowsNoOrphans == NoOrphans /\ UNCHANGED rows => NoOrphans'
BY DEF rows, NoOrphans, Transformers, Meters, Registers

LEMMA UserHeld ==
  ASSUME StoreInv, NEW r \in Request, HoldsUser(r)
  PROVE  key[r] \in users /\ key[r] \in UserId /\ userLock[key[r]] = r
<1>1. PICK u \in UserId : u = key[r] /\ userLock[u] = r
  BY DEF StoreInv, ParentHeld
<1> QED BY <1>1 DEF StoreInv, LockedRowsExist

LEMMA FailureStore ==
  ASSUME StoreInv, NEW r \in Request, ParentMissing(r) \/ SqlFailure(r) \/ GiveUp(r)
  PROVE  NoOrphans' /\ LockedRowsExist' /\ ParentHeld' /\ CascadeComplete'
<1>1. UNCHANGED rows
  BY DEF ParentMissing, SqlFailure, GiveUp
<1>2. Stops(r)
  BY FinishStops, FailureStops DEF ParentMissing, GiveUp, StoreInv
<1>3. NoOrphans'
  BY <1>1, SameRowsNoOrphans DEF StoreInv
<1>4. LockedRowsExist' /\ ParentHeld' /\ CascadeComplete'
  BY <1>1, <1>2, StopKeepsLocks DEF rows, StoreInv, LockedRowsExist, Transformers, Meters
<1> QED BY <1>3, <1>4

\* A new child is inserted below a parent the transaction has locked, so the parent
\* exists and no other transaction is deleting it or relies on the list of its children.
LEMMA CreateTransformerStore ==
  ASSUME StoreInv, NEW r \in Request, NEW t \in TransformerId, CreateTransformer(r, t)
  PROVE  NoOrphans' /\ LockedRowsExist' /\ ParentHeld' /\ CascadeComplete'
<1>1. Stops(r) /\ TypeOK
  BY FinishStops DEF CreateTransformer, StoreInv
<1>2. key[r] \in users /\ key[r] \in UserId /\ key[r] # NoRow /\ userLock[key[r]] = r
  BY IdsAssumption, UserHeld DEF CreateTransformer, HoldsUser
<1>3. owner' = [owner EXCEPT ![t] = key[r]] /\ owner'[t] = key[r]
      /\ \A x \in TransformerId : x # t => owner'[x] = owner[x]
  BY <1>1 DEF CreateTransformer, TypeOK, RowsType
<1>4. NoOrphans'
  BY <1>2, <1>3 DEF CreateTransformer, StoreInv, NoOrphans, Transformers, Meters, Registers
<1>5. \A q \in Request \ {r} :
        op[q] = "deleteUser" /\ pc[q] \in {"cascading", "ready"} => key[q] # key[r]
  BY <1>2, UserHeld DEF HoldsUser
<1>6. LockedRowsExist' /\ ParentHeld' /\ CascadeComplete'
  BY <1>1, <1>2, <1>3, <1>5, StopKeepsLocks
  DEF CreateTransformer, StoreInv, LockedRowsExist, Transformers, Meters
<1> QED BY <1>4, <1>6

LEMMA CreateMeterStore ==
  ASSUME StoreInv, NEW r \in Request, NEW m \in MeterId, CreateMeter(r, m)
  PROVE  NoOrphans' /\ LockedRowsExist' /\ ParentHeld' /\ CascadeComplete'
<1>1. Stops(r) /\ TypeOK
  BY FinishStops DEF CreateMeter, StoreInv
<1>2. key[r] \in Transformers /\ key[r] # NoRow /\ transformerLock[key[r]] = r
  BY IdsAssumption DEF CreateMeter, StoreInv, ParentHeld, LockedRowsExist, Transformers
<1>3. transformerOf'[m] = key[r] /\ \A x \in MeterId : x # m => transformerOf'[x] = transformerOf[x]
  BY <1>1 DEF CreateMeter, TypeOK, RowsType
<1>4. NoOrphans'
  BY <1>2, <1>3 DEF CreateMeter, StoreInv, NoOrphans, Transformers, Meters, Registers
<1>5. LockedRowsExist' /\ ParentHeld' /\ CascadeComplete'
  BY <1>1, <1>2, <1>3, StopKeepsLocks
  DEF CreateMeter, StoreInv, LockedRowsExist, LockedTransformers, Transformers, Meters
<1> QED BY <1>4, <1>5

LEMMA CreateRegisterStore ==
  ASSUME StoreInv, NEW r \in Request, NEW g \in RegisterId, CreateRegister(r, g)
  PROVE  NoOrphans' /\ LockedRowsExist' /\ ParentHeld' /\ CascadeComplete'
<1>1. Stops(r) /\ TypeOK
  BY FinishStops DEF CreateRegister, StoreInv
<1>2. key[r] \in Meters
  BY DEF CreateRegister, StoreInv, ParentHeld, LockedRowsExist, OnMeter
<1>3. NoOrphans'
  BY <1>1, <1>2
  DEF CreateRegister, StoreInv, NoOrphans, Transformers, Meters, Registers, TypeOK, RowsType
<1>4. LockedRowsExist' /\ ParentHeld' /\ CascadeComplete'
  BY <1>1, StopKeepsLocks
  DEF CreateRegister, StoreInv, LockedRowsExist, Transformers, Meters
<1> QED BY <1>3, <1>4

LEMMA TelemetryStore ==
  ASSUME StoreInv, NEW r \in Request, Ingest(r) \/ ReportError(r)
  PROVE  NoOrphans' /\ LockedRowsExist' /\ ParentHeld' /\ CascadeComplete'
<1>1. Stops(r)
  BY FinishStops DEF Ingest, ReportError, StoreInv
<1>2. key[r] \in Transformers
  BY DEF Ingest, ReportError, StoreInv, ParentHeld, LockedRowsExist
<1>3. NoOrphans'
  BY <1>2 DEF Ingest, ReportError, StoreInv, NoOrphans, Transformers, Meters, Registers
<1>4. LockedRowsExist' /\ ParentHeld' /\ CascadeComplete'
  BY <1>1, StopKeepsLocks
  DEF Ingest, ReportError, StoreInv, LockedRowsExist, Transformers, Meters
<1> QED BY <1>3, <1>4

LEMMA SessionStore ==
  ASSUME StoreInv, NEW r \in Request,
         (\E s \in SessionId : AddRefreshToken(r, s)) \/ ChangePassword(r)
  PROVE  NoOrphans' /\ LockedRowsExist' /\ ParentHeld' /\ CascadeComplete'
<1>1. Stops(r)
  BY FinishStops DEF AddRefreshToken, ChangePassword, StoreInv
<1>2. UNCHANGED <<users, owner, transformerOf, meterOf, metricRows, errorRows>>
  BY DEF AddRefreshToken, ChangePassword
<1>3. \A x \in SessionId :
        sessionUser'[x] # NoRow => sessionUser'[x] = sessionUser[x] \/ sessionUser'[x] \in users
  <2>1. CASE ChangePassword(r)
    BY <2>1 DEF ChangePassword
  <2>2. ASSUME NEW s \in SessionId, AddRefreshToken(r, s)
        PROVE  \A x \in SessionId :
                 sessionUser'[x] # NoRow =>
                   sessionUser'[x] = sessionUser[x] \/ sessionUser'[x] \in users
    <3>1. key[r] \in users
      BY <2>2, UserHeld DEF AddRefreshToken, HoldsUser
    <3> QED BY <2>2, <3>1 DEF AddRefreshToken
  <2> QED BY <2>1, <2>2
<1>4. NoOrphans'
  BY <1>2, <1>3 DEF StoreInv, NoOrphans, Transformers, Meters, Registers
<1>5. LockedRowsExist' /\ ParentHeld' /\ CascadeComplete'
  BY <1>1, <1>2, StopKeepsLocks DEF StoreInv, LockedRowsExist, Transformers, Meters
<1> QED BY <1>4, <1>5

LEMMA DeleteMeterStore ==
  ASSUME StoreInv, NEW r \in Request, DeleteMeter(r)
  PROVE  NoOrphans' /\ LockedRowsExist' /\ ParentHeld' /\ CascadeComplete'
<1>1. Stops(r) /\ TypeOK
  BY FinishStops DEF DeleteMeter, StoreInv
<1>2. key[r] \in MeterId /\ key[r] # NoRow /\ meterLock[key[r]] = r
  BY IdsAssumption DEF DeleteMeter, StoreInv, ParentHeld, OnMeter
<1>3. \A m \in MeterId : transformerOf'[m] = IF m = key[r] THEN NoRow ELSE transformerOf[m]
  BY <1>1, <1>2 DEF DeleteMeter, TypeOK, RowsType
<1>4. NoOrphans'
  BY <1>2, <1>3, <1>1
  DEF DeleteMeter, StoreInv, NoOrphans, Transformers, Meters, Registers, TypeOK, RowsType
<1>5. NoRow \notin TransformerId
  BY IdsAssumption
<1>6. LockedRowsExist' /\ ParentHeld' /\ CascadeComplete'
  BY <1>1, <1>2, <1>3, <1>5, StopKeepsLocks
  DEF DeleteMeter, StoreInv, LockedRowsExist, LockedTransformers, Transformers, Meters
<1> QED BY <1>4, <1>6

\* A cascade commits only after it has locked every transformer of the user it deletes
\* and every meter of a transformer it deletes.
LEMMA DeleteCascadeStore ==
  ASSUME StoreInv, NEW r \in Request, DeleteCascade(r)
  PROVE  NoOrphans' /\ LockedRowsExist' /\ ParentHeld' /\ CascadeComplete'
<1> DEFINE gone == LockedTransformers(r)
<1>1. Stops(r) /\ TypeOK
  BY FinishStops DEF DeleteCascade, StoreInv
<1>2. /\ NoRow \notin TransformerId
      /\ NoRow \notin UserId
      /\ NoRow \notin MeterId
      /\ gone \subseteq TransformerId
  BY IdsAssumption DEF LockedTransformers
<1>3. \A m \in MeterId : transformerOf[m] \in gone => meterLock[m] = r
  BY DEF DeleteCascade, StoreInv, CascadeComplete, Cascades
<1>4. \A u \in DeletedUsers(r) :
        /\ u \in UserId /\ userLock[u] = r
        /\ \A t \in TransformerId : owner[t] = u => t \in gone
  BY UserHeld DEF DeletedUsers, DeleteCascade, StoreInv, CascadeComplete, HoldsUser
<1>5. /\ users' = users \ DeletedUsers(r)
      /\ \A t \in TransformerId : owner'[t] = IF t \in gone THEN NoRow ELSE owner[t]
      /\ \A m \in MeterId :
           transformerOf'[m] = IF transformerOf[m] \in gone THEN NoRow ELSE transformerOf[m]
      /\ \A g \in RegisterId :
           meterOf'[g] = IF g \in Registers /\ meterLock[meterOf[g]] = r THEN NoRow ELSE meterOf[g]
      /\ metricRows' = metricRows \ gone
      /\ errorRows' = errorRows \ gone
      /\ \A s \in SessionId :
           sessionUser'[s] = IF sessionUser[s] \in DeletedUsers(r) THEN NoRow ELSE sessionUser[s]
  BY DEF DeleteCascade
<1>6. NoOrphans'
  <2>1. ASSUME NEW t \in Transformers' PROVE owner'[t] \in users'
    BY <2>1, <1>2, <1>4, <1>5 DEF StoreInv, NoOrphans, Transformers
  <2>2. ASSUME NEW m \in Meters' PROVE transformerOf'[m] \in Transformers'
    BY <2>2, <1>2, <1>5 DEF StoreInv, NoOrphans, Transformers, Meters
  <2>3. ASSUME NEW g \in Registers' PROVE meterOf'[g] \in Meters'
    BY <2>3, <1>2, <1>3, <1>5 DEF StoreInv, NoOrphans, Meters, Registers
  <2>4. metricRows' \cup errorRows' \subseteq Transformers'
    BY <1>5 DEF StoreInv, NoOrphans, Transformers
  <2>5. ASSUME NEW s \in SessionId, sessionUser'[s] # NoRow PROVE sessionUser'[s] \in users'
    BY <2>5, <1>5 DEF StoreInv, NoOrphans
  <2> QED BY <2>1, <2>2, <2>3, <2>4, <2>5 DEF NoOrphans
<1>7. ASSUME NEW q \in Request \ {r}
      PROVE  /\ \A u \in UserId : userLock[u] = q => u \in users'
             /\ \A t \in TransformerId : transformerLock[t] = q => owner'[t] # NoRow
             /\ \A m \in MeterId : meterLock[m] = q => transformerOf'[m] # NoRow
             /\ \A m \in MeterId : transformerOf'[m] \in LockedTransformers(q) =>
                  transformerOf'[m] = transformerOf[m]
             /\ op[q] = "deleteUser" /\ pc[q] \in {"cascading", "ready"} =>
                  \A t \in TransformerId : owner'[t] = key[q] => owner'[t] = owner[t]
  <2>1. \A u \in UserId : userLock[u] = q => u \in users'
    BY <1>4, <1>5 DEF StoreInv, LockedRowsExist
  <2>2. \A t \in TransformerId : transformerLock[t] = q => owner'[t] # NoRow
    BY <1>5 DEF StoreInv, LockedRowsExist, Transformers, LockedTransformers
  <2>3. \A m \in MeterId : meterLock[m] = q => transformerOf'[m] # NoRow
    BY <1>3, <1>5 DEF StoreInv, LockedRowsExist, Meters
  <2>4. \A m \in MeterId : transformerOf'[m] \in LockedTransformers(q) =>
                  transformerOf'[m] = transformerOf[m]
    BY <1>2, <1>5 DEF LockedTransformers
  <2>5. op[q] = "deleteUser" => key[q] # NoRow
    BY <1>1, <1>2 DEF TypeOK, RequestsType, OnUser
  <2>6. op[q] = "deleteUser" /\ pc[q] \in {"cascading", "ready"} =>
          \A t \in TransformerId : owner'[t] = key[q] => owner'[t] = owner[t]
    BY <1>5, <2>5
  <2> QED BY <2>1, <2>2, <2>3, <2>4, <2>6
<1>8. LockedRowsExist' /\ ParentHeld' /\ CascadeComplete'
  BY <1>1, <1>7, StopKeepsLocks
<1> QED BY <1>6, <1>8

\* The ids are compared as numbers, so a cascade works on one transformer at a time.
LEMMA CurrentIsOne ==
  ASSUME TypeOK, NEW r \in Request, NEW s \in Current(r), NEW t \in Current(r)
  PROVE  s = t
<1>1. s \in Nat /\ t \in Nat /\ s <= t /\ t <= s
  BY IdsAssumption DEF Current, TypeOK, RequestsType
<1> QED BY <1>1

LEMMA LockParentStore ==
  ASSUME StoreInv, NEW r \in Request,
         LockParentUser(r) \/ LockParentTransformer(r) \/ LockParentMeter(r)
  PROVE  LockedRowsExist' /\ ParentHeld' /\ CascadeComplete'
<1> USE DEF StoreInv, TypeOK, LocksType, RequestsType, LockedRowsExist, ParentHeld, HoldsUser,
            CascadeComplete, Cascades, LockedTransformers, rows
<1>1. CASE LockParentUser(r)
  <2>1. PICK u \in UserId :
          /\ u = key[r] /\ u \in users
          /\ op[r] \in {"createTransformer", "addRefreshToken", "deleteUser"}
          /\ userLock[u] = Free /\ userLock' = [userLock EXCEPT ![u] = r]
    BY <1>1 DEF LockParentUser, WantedUsers
  <2>2. \A v \in UserId, q \in Request : userLock'[v] = q => (v = u /\ q = r) \/ userLock[v] = q
    BY <2>1
  <2>3. LockedRowsExist'
    BY <1>1, <2>1, <2>2 DEF LockParentUser, Transformers, Meters
  <2>4. ParentHeld'
    BY <1>1, <2>1, RequestAssumption DEF LockParentUser, OnMeter
  <2>5. CascadeComplete'
    BY <1>1, <2>1 DEF LockParentUser
  <2> QED BY <2>3, <2>4, <2>5
<1>2. CASE LockParentTransformer(r)
  <2>1. PICK t \in TransformerId :
          /\ t = key[r] /\ t \in Transformers
          /\ op[r] \in {"createMeter", "ingest", "reportError"}
          /\ transformerLock[t] = Free /\ transformerLock' = [transformerLock EXCEPT ![t] = r]
    BY <1>2 DEF LockParentTransformer, WantedTransformers
  <2>2. \A x \in TransformerId, q \in Request :
          transformerLock'[x] = q => (x = t /\ q = r) \/ transformerLock[x] = q
    BY <2>1
  <2>3. LockedRowsExist'
    BY <1>2, <2>1, <2>2 DEF LockParentTransformer, Transformers, Meters
  <2>4. ParentHeld'
    BY <1>2, <2>1, RequestAssumption DEF LockParentTransformer, OnMeter
  <2>5. CascadeComplete'
    BY <1>2, <2>1, <2>2, RequestAssumption DEF LockParentTransformer
  <2> QED BY <2>3, <2>4, <2>5
<1>3. CASE LockParentMeter(r)
  <2>1. PICK m \in MeterId :
          /\ m = key[r] /\ m \in Meters /\ op[r] \in OnMeter
          /\ meterLock[m] = Free /\ meterLock' = [meterLock EXCEPT ![m] = r]
    BY <1>3 DEF LockParentMeter, WantedMeters
  <2>2. \A x \in MeterId, q \in Request :
          meterLock'[x] = q => (x = m /\ q = r) \/ meterLock[x] = q
    BY <2>1
  <2>3. LockedRowsExist'
    BY <1>3, <2>1, <2>2 DEF LockParentMeter, Transformers, Meters
  <2>4. ParentHeld'
    BY <1>3, <2>1, RequestAssumption DEF LockParentMeter, OnMeter
  <2>5. CascadeComplete'
    BY <1>3, <2>1, RequestAssumption DEF LockParentMeter, OnMeter
  <2> QED BY <2>3, <2>4, <2>5
<1> QED BY <1>1, <1>2, <1>3

LEMMA LockSessionsStore ==
  ASSUME StoreInv, NEW r \in Request, LockSessions(r)
  PROVE  LockedRowsExist' /\ ParentHeld' /\ CascadeComplete'
<1> USE DEF StoreInv, TypeOK, LocksType, RequestsType, LockSessions, LockedTransformers, rows, locks
<1>1. \/ pc[r] = "begun" /\ op[r] = "changePassword"
      \/ pc[r] = "held" /\ op[r] = "addRefreshToken"
      \/ pc[r] = "cascading" /\ todo[r] = {} /\ op[r] = "deleteUser"
  BY DEF WantedSessions
<1>2. pc'[r] \in {"held", "ready"} /\ (pc'[r] = "held" <=> op[r] = "changePassword")
  OBVIOUS
<1>3. LockedRowsExist'
  BY <1>1, <1>2 DEF LockedRowsExist, Cascades, OnMeter, Transformers, Meters
<1>4. ParentHeld'
  BY <1>1, <1>2 DEF ParentHeld, HoldsUser, OnMeter
<1>5. CascadeComplete'
  BY <1>1, <1>2 DEF CascadeComplete
<1> QED BY <1>3, <1>4, <1>5

LEMMA StartCascadeStore ==
  ASSUME StoreInv, NEW r \in Request, StartCascade(r)
  PROVE  LockedRowsExist' /\ ParentHeld' /\ CascadeComplete'
<1> USE DEF StoreInv, TypeOK, RequestsType, StartCascade, rows, locks
<1>1. LockedTransformers(r) = {}
  BY DEF LockedRowsExist, LockedTransformers
<1>2. LockedRowsExist'
  BY DEF LockedRowsExist, Cascades, OnMeter, Transformers, Meters
<1>3. ParentHeld'
  BY DEF ParentHeld, HoldsUser, OnMeter
<1>4. CascadeComplete'
  BY <1>1 DEF CascadeComplete, Cascades, CascadeRoots, LockedTransformers
<1> QED BY <1>2, <1>3, <1>4

LEMMA LockCascadeTransformerStore ==
  ASSUME StoreInv, NEW r \in Request, LockCascadeTransformer(r)
  PROVE  LockedRowsExist' /\ ParentHeld' /\ CascadeComplete'
<1> USE DEF StoreInv, TypeOK, LocksType, RequestsType, LockCascadeTransformer, rows
<1>1. PICK t \in TransformerId :
        /\ t \in todo[r] /\ t \in Transformers /\ transformerLock[t] = Free
        /\ transformerLock' = [transformerLock EXCEPT ![t] = r]
  BY DEF WantedTransformers, Current
<1>2. \A x \in TransformerId, q \in Request :
        transformerLock'[x] = q <=> (x = t /\ q = r) \/ transformerLock[x] = q
  BY <1>1, RequestAssumption
<1>3. LockedRowsExist'
  BY <1>1, <1>2 DEF LockedRowsExist, CascadeComplete, Transformers, Meters
<1>4. ParentHeld'
  BY <1>2 DEF ParentHeld, HoldsUser
<1>5. CascadeComplete'
  BY <1>1, <1>2 DEF CascadeComplete, LockedTransformers
<1> QED BY <1>3, <1>4, <1>5

LEMMA SkipStore ==
  ASSUME StoreInv, NEW r \in Request, SkipMissingTransformer(r)
  PROVE  LockedRowsExist' /\ ParentHeld' /\ CascadeComplete'
<1> USE DEF StoreInv, SkipMissingTransformer, rows, locks
<1>1. LockedRowsExist' /\ ParentHeld'
  BY DEF LockedRowsExist, ParentHeld, HoldsUser, Transformers, Meters
<1>2. \A t \in Current(r) : t \in TransformerId /\ owner[t] = NoRow /\ transformerLock[t] # r
  <2>1. PICK s \in TransformerId : s \in Current(r) /\ owner[s] = NoRow
    BY DEF WantedTransformers, Transformers
  <2>2. transformerLock[s] # r
    BY <2>1 DEF LockedRowsExist, Transformers
  <2> QED BY <2>1, <2>2, CurrentIsOne
<1>3. op[r] = "deleteUser" => key[r] # NoRow
  BY IdsAssumption DEF TypeOK, RequestsType, OnUser
<1>4. todo' = [todo EXCEPT ![r] = todo[r] \ Current(r)] /\ todo \in [Request -> SUBSET TransformerId]
  BY DEF TypeOK, RequestsType
<1>5. CascadeComplete'
  BY <1>2, <1>3, <1>4 DEF CascadeComplete, LockedTransformers
<1> QED BY <1>1, <1>5

LEMMA LockCascadeMetersStore ==
  ASSUME StoreInv, NEW r \in Request, LockCascadeMeters(r)
  PROVE  LockedRowsExist' /\ ParentHeld' /\ CascadeComplete'
<1> USE DEF StoreInv, LockCascadeMeters, rows
<1>1. PICK t \in TransformerId : t \in LockedTransformers(r) /\ Current(r) = {t}
  BY CurrentIsOne DEF LockedTransformers
<1>2. \A m \in MeterId : m \in WantedMeters(r) <=> transformerOf[m] = t
  BY <1>1 DEF WantedMeters
<1>3. \A m \in MeterId, q \in Request :
        meterLock'[m] = q <=> (q = r /\ transformerOf[m] = t) \/ meterLock[m] = q
  BY <1>2, RequestAssumption
<1>4. LockedRowsExist'
  BY <1>3, IdsAssumption DEF LockedRowsExist, CascadeComplete, Transformers, Meters
<1>5. ParentHeld'
  BY <1>3 DEF ParentHeld, HoldsUser
<1>6. todo' = [todo EXCEPT ![r] = todo[r] \ {t}] /\ todo \in [Request -> SUBSET TransformerId]
  BY <1>1 DEF TypeOK, RequestsType
<1>7. CascadeComplete'
  BY <1>1, <1>3, <1>6 DEF CascadeComplete, LockedTransformers
<1> QED BY <1>4, <1>5, <1>7

LEMMA AdvanceStore ==
  ASSUME StoreInv, NEW r \in Request, Advance(r)
  PROVE  NoOrphans' /\ LockedRowsExist' /\ ParentHeld' /\ CascadeComplete'
<1>1. CASE Lock(r) \/ StartCascade(r) \/ SkipMissingTransformer(r)
  <2>1. UNCHANGED rows
    BY <1>1 DEF Lock, LockParentUser, LockParentTransformer, LockParentMeter, LockSessions,
         LockCascadeTransformer, LockCascadeMeters, StartCascade, SkipMissingTransformer
  <2>2. NoOrphans'
    BY <2>1, SameRowsNoOrphans DEF StoreInv
  <2>3. LockedRowsExist' /\ ParentHeld' /\ CascadeComplete'
    BY <1>1, LockParentStore, LockSessionsStore, LockCascadeTransformerStore,
       LockCascadeMetersStore, StartCascadeStore, SkipStore DEF Lock
  <2> QED BY <2>2, <2>3
<1>2. CASE Create(r) \/ ChangePassword(r)
  BY <1>2, CreateTransformerStore, CreateMeterStore, CreateRegisterStore, SessionStore DEF Create
<1>3. CASE ParentMissing(r) \/ Ingest(r) \/ ReportError(r) \/ DeleteMeter(r) \/ DeleteCascade(r)
  BY <1>3, FailureStore, TelemetryStore, DeleteMeterStore, DeleteCascadeStore
<1> QED BY <1>1, <1>2, <1>3 DEF Advance

-----------------------------------------------------------------------------
(***************************************************************************)
(* What a cascade has listed or locked is in its scope.                    *)
(***************************************************************************)

\* A request stays in scope when it lists and locks no more than before, for the same
\* operation, and every transformer id that was given out keeps its owner or loses it.
LEMMA ScopeKept ==
  ASSUME TypeOK, CascadeInScope, issued \subseteq issued', Transformers' \subseteq issued',
         \A t \in issued \cap TransformerId : owner'[t] = owner[t] \/ owner'[t] = NoRow,
         \A r \in Request :
           /\ todo'[r] # {} => pc'[r] = "cascading"
           /\ op'[r] = "deleteTransformer" => key'[r] \in issued'
           /\ op'[r] \in Cascades =>
                /\ todo'[r] \subseteq todo[r]
                /\ LockedTransformers(r)' \subseteq LockedTransformers(r)
                /\ todo'[r] \cup LockedTransformers(r)' # {} => op'[r] = op[r] /\ key'[r] = key[r]
  PROVE  CascadeInScope'
<1>1. ASSUME NEW r \in Request, op'[r] \in Cascades,
             NEW t \in todo'[r] \cup LockedTransformers(r)'
      PROVE  /\ t \in issued'
             /\ IF op'[r] = "deleteTransformer" THEN t = key'[r] ELSE owner'[t] \in {key'[r], NoRow}
  <2>1. /\ op'[r] = op[r] /\ key'[r] = key[r]
        /\ t \in todo[r] \cup LockedTransformers(r) /\ t \in TransformerId
    BY <1>1 DEF TypeOK, RequestsType, LockedTransformers
  <2> QED BY <1>1, <2>1 DEF CascadeInScope
<1> QED BY <1>1 DEF CascadeInScope

\* A transaction that ends or starts again lists nothing and holds nothing.
LEMMA StopInScope ==
  ASSUME StoreInv, NEW r \in Request, Finish(r) \/ SqlFailure(r),
         issued \subseteq issued', Transformers' \subseteq issued',
         \A t \in issued \cap TransformerId : owner'[t] = owner[t] \/ owner'[t] = NoRow
  PROVE  CascadeInScope'
<1>1. TypeOK /\ CascadeInScope
  BY DEF StoreInv
<1>2. Stops(r) /\ todo'[r] = {}
      /\ (op'[r] = "none" \/ (op'[r] = op[r] /\ key'[r] = key[r]))
  BY <1>1, FinishStops, FailureStops DEF Finish, SqlFailure, TypeOK, RequestsType
<1>3. \A q \in Request : LockedTransformers(q)' = IF q = r THEN {} ELSE LockedTransformers(q)
  BY <1>1, <1>2, ReleaseKeepsOthers DEF Stops, LockedTransformers
<1>4. ASSUME NEW q \in Request
      PROVE  /\ todo'[q] # {} => pc'[q] = "cascading"
             /\ op'[q] = "deleteTransformer" => key'[q] \in issued'
             /\ op'[q] \in Cascades =>
                  /\ todo'[q] \subseteq todo[q]
                  /\ LockedTransformers(q)' \subseteq LockedTransformers(q)
                  /\ todo'[q] \cup LockedTransformers(q)' # {} => op'[q] = op[q] /\ key'[q] = key[q]
  BY <1>1, <1>2, <1>3 DEF Stops, CascadeInScope, Cascades
<1> QED BY <1>1, <1>4, ScopeKept

\* Everything a transaction does when it ends.
LEMMA EndInScope ==
  ASSUME StoreInv, NEW r \in Request,
         \/ ParentMissing(r) \/ GiveUp(r) \/ SqlFailure(r) \/ Create(r) \/ Ingest(r)
         \/ ReportError(r) \/ DeleteMeter(r) \/ ChangePassword(r) \/ DeleteCascade(r)
  PROVE  CascadeInScope'
<1>1. Finish(r) \/ SqlFailure(r)
  BY DEF ParentMissing, GiveUp, Create, CreateTransformer, CreateMeter, CreateRegister,
         AddRefreshToken, Ingest, ReportError, DeleteMeter, ChangePassword, DeleteCascade
<1>2. Transformers \subseteq issued /\ owner \in [TransformerId -> UserId \cup {NoRow}]
  BY DEF StoreInv, CascadeInScope, TypeOK, RowsType
<1>3. /\ issued \subseteq issued' /\ Transformers' \subseteq issued'
      /\ \A t \in issued \cap TransformerId : owner'[t] = owner[t] \/ owner'[t] = NoRow
  <2>1. ASSUME NEW t \in TransformerId, CreateTransformer(r, t) PROVE <1>3
    BY <1>2, <2>1 DEF CreateTransformer, Transformers
  <2>2. CASE UNCHANGED owner /\ issued \subseteq issued'
    BY <1>2, <2>2 DEF Transformers
  <2>3. CASE DeleteCascade(r)
    BY <1>2, <2>3 DEF DeleteCascade, Transformers
  <2> QED BY <2>1, <2>2, <2>3
      DEF ParentMissing, GiveUp, SqlFailure, Create, CreateMeter, CreateRegister, rows,
          AddRefreshToken, Ingest, ReportError, DeleteMeter, ChangePassword
<1> QED BY <1>1, <1>3, StopInScope

\* A cascade lists the transformers its path names, and locks listed ones.
LEMMA RunInScope ==
  ASSUME StoreInv, NEW r \in Request,
         Lock(r) \/ StartCascade(r) \/ SkipMissingTransformer(r)
  PROVE  CascadeInScope'
<1> USE DEF StoreInv, TypeOK, RowsType, LocksType, RequestsType
<1>1. CASE StartCascade(r)
  <2>1. \A q \in Request : LockedTransformers(q)' = LockedTransformers(q)
    BY <1>1 DEF StartCascade, locks, LockedTransformers
  <2>2. LockedTransformers(r) = {}
    BY <1>1 DEF StartCascade, LockedRowsExist, LockedTransformers
  <2>3. /\ pc'[r] = "cascading" /\ todo'[r] = CascadeRoots(r)
        /\ \A q \in Request \ {r} : todo'[q] = todo[q] /\ pc'[q] = pc[q]
        /\ UNCHANGED <<op, key, rows>>
    BY <1>1 DEF StartCascade
  <2>4. \A t \in CascadeRoots(r) :
          /\ t \in issued
          /\ IF op[r] = "deleteTransformer" THEN t = key[r] ELSE owner[t] \in {key[r], NoRow}
    <3>1. CASE op[r] = "deleteTransformer"
      BY <3>1 DEF CascadeRoots, CascadeInScope
    <3>2. CASE op[r] # "deleteTransformer"
      <4>1. key[r] # NoRow
        BY <1>1, <3>2, IdsAssumption DEF StartCascade, OnUser
      <4> QED BY <3>2, <4>1 DEF CascadeRoots, CascadeInScope, Transformers
    <3> QED BY <3>1, <3>2
  <2> QED BY <2>1, <2>2, <2>3, <2>4 DEF CascadeInScope, Transformers, rows
<1>2. CASE LockCascadeTransformer(r)
  <2>1. PICK x \in TransformerId :
          x \in todo[r] /\ transformerLock' = [transformerLock EXCEPT ![x] = r]
    BY <1>2, RequestAssumption DEF LockCascadeTransformer, WantedTransformers, Current
  <2>2. \A q \in Request : LockedTransformers(q)' \subseteq LockedTransformers(q) \cup
                             (IF q = r THEN {x} ELSE {})
    BY <2>1 DEF LockedTransformers
  <2>3. UNCHANGED <<rows, pc, op, key, todo>>
    BY <1>2 DEF LockCascadeTransformer
  <2> QED BY <2>1, <2>2, <2>3 DEF CascadeInScope, Transformers, rows
<1>3. CASE LockParentTransformer(r)
  <2>1. op[r] \notin Cascades
    BY <1>3 DEF LockParentTransformer, WantedTransformers, Cascades
  <2>2. \A q \in Request \ {r} : LockedTransformers(q)' \subseteq LockedTransformers(q)
    BY <1>3 DEF LockParentTransformer, LockedTransformers
  <2>3. /\ UNCHANGED <<rows, op, key, todo>> /\ pc[r] = "begun"
        /\ \A q \in Request \ {r} : pc'[q] = pc[q]
    BY <1>3 DEF LockParentTransformer
  <2> QED BY <2>1, <2>2, <2>3 DEF CascadeInScope, Transformers, rows
<1>4. CASE \/ LockParentUser(r) \/ LockParentMeter(r) \/ LockSessions(r)
           \/ LockCascadeMeters(r) \/ SkipMissingTransformer(r)
  <2>1. UNCHANGED <<rows, transformerLock, op, key>>
    BY <1>4 DEF LockParentUser, LockParentMeter, LockSessions, LockCascadeMeters,
                SkipMissingTransformer, locks
  <2>2. \A q \in Request : LockedTransformers(q)' = LockedTransformers(q)
    BY <2>1 DEF LockedTransformers
  <2>3. \A q \in Request : todo'[q] \subseteq todo[q]
    BY <1>4 DEF LockParentUser, LockParentMeter, LockSessions, LockCascadeMeters,
                SkipMissingTransformer
  <2>4. \A q \in Request : todo'[q] # {} => pc'[q] = "cascading"
    <3>1. CASE LockParentUser(r) \/ LockParentMeter(r)
      BY <3>1 DEF LockParentUser, LockParentMeter, CascadeInScope
    <3>2. CASE LockSessions(r)
      BY <3>2 DEF LockSessions, WantedSessions, CascadeInScope
    <3>3. CASE LockCascadeMeters(r) \/ SkipMissingTransformer(r)
      BY <3>3, <2>3 DEF LockCascadeMeters, SkipMissingTransformer, CascadeInScope
    <3> QED BY <1>4, <3>1, <3>2, <3>3
  <2> QED BY <2>1, <2>2, <2>3, <2>4 DEF CascadeInScope, Transformers, rows
<1> QED BY <1>1, <1>2, <1>3, <1>4 DEF Lock

LEMMA ScopeInductive == StoreInv /\ [Next]_vars => CascadeInScope'
<1> SUFFICES ASSUME StoreInv, [Next]_vars
             PROVE  CascadeInScope'
  OBVIOUS
<1>1. ASSUME NEW u \in UserId, AddUser(u) PROVE CascadeInScope'
  BY <1>1 DEF AddUser, locks, StoreInv, CascadeInScope, Transformers, LockedTransformers
<1>2. ASSUME NEW g \in RegisterId, DeleteRegister(g) PROVE CascadeInScope'
  BY <1>2 DEF DeleteRegister, locks, StoreInv, CascadeInScope, Transformers, LockedTransformers
<1>3. ASSUME NEW s \in SessionId, RevokeRefreshToken(s) PROVE CascadeInScope'
  BY <1>3 DEF RevokeRefreshToken, locks, StoreInv, CascadeInScope, Transformers, LockedTransformers
<1>4. ASSUME NEW r \in Request, NEW o \in Operations,
             NEW k \in UserId \cup TransformerId \cup MeterId, Begin(r, o, k)
      PROVE  CascadeInScope'
  <2>1. /\ UNCHANGED <<rows, transformerLock, todo>> /\ pc[r] = "idle"
        /\ pc'[r] = "begun" /\ op'[r] = o /\ key'[r] = k
        /\ \A q \in Request \ {r} : pc'[q] = pc[q] /\ op'[q] = op[q] /\ key'[q] = key[q]
    BY <1>4 DEF Begin, locks, StoreInv, TypeOK, RequestsType
  <2>2. todo[r] = {} /\ LockedTransformers(r) = {}
    BY <2>1 DEF StoreInv, CascadeInScope, LockedRowsExist, LockedTransformers
  <2>3. \A q \in Request : LockedTransformers(q)' = LockedTransformers(q)
    BY <2>1 DEF LockedTransformers
  <2>4. o = "deleteTransformer" => k \in issued
    BY <1>4 DEF Begin, OnUser, OnMeter, StoreInv, CascadeInScope
  <2> QED BY <2>1, <2>2, <2>3, <2>4 DEF StoreInv, CascadeInScope, Transformers, rows
<1>5. ASSUME NEW r \in Request, Advance(r) \/ SqlFailure(r) \/ GiveUp(r)
      PROVE  CascadeInScope'
  BY <1>5, EndInScope, RunInScope DEF Advance
<1>6. CASE UNCHANGED vars
  BY <1>6 DEF vars, rows, locks, StoreInv, CascadeInScope, Transformers, LockedTransformers
<1> QED BY <1>1, <1>2, <1>3, <1>4, <1>5, <1>6 DEF Next

-----------------------------------------------------------------------------
(***************************************************************************)
(* Locks are taken in one order.                                           *)
(***************************************************************************)

\* A transaction that ends or starts again gives up its locks, and nobody moves a meter
\* below a transformer that another request has locked.
LEMMA EndInOrder ==
  ASSUME StoreInv, NEW r \in Request,
         \/ ParentMissing(r) \/ GiveUp(r) \/ SqlFailure(r) \/ Create(r) \/ Ingest(r)
         \/ ReportError(r) \/ DeleteMeter(r) \/ ChangePassword(r) \/ DeleteCascade(r)
  PROVE  LocksInOrder'
<1> USE DEF StoreInv, TypeOK, RowsType, LocksType, RequestsType
<1>1. Finish(r) \/ SqlFailure(r)
  BY DEF ParentMissing, GiveUp, Create, CreateTransformer, CreateMeter, CreateRegister,
         AddRefreshToken, Ingest, ReportError, DeleteMeter, ChangePassword, DeleteCascade
<1>2. /\ ReleaseLocks(r) /\ todo'[r] = {}
      /\ \A q \in Request \ {r} : pc'[q] = pc[q] /\ op'[q] = op[q] /\ todo'[q] = todo[q]
  BY <1>1 DEF Finish, SqlFailure
<1>3. \A q \in Request :
        /\ LockedTransformers(q)' = IF q = r THEN {} ELSE LockedTransformers(q)
        /\ \A m \in MeterId : meterLock'[m] = q <=> q # r /\ meterLock[m] = q
  BY <1>2, ReleaseKeepsOthers DEF LockedTransformers
<1>4. /\ Meters' \subseteq issued'
      /\ \A q \in Request \ {r}, m \in MeterId :
           meterLock[m] = q /\ op[q] \in Cascades => transformerOf'[m] = transformerOf[m]
  <2>1. ASSUME NEW m \in MeterId, CreateMeter(r, m) PROVE <1>4
    BY <2>1 DEF CreateMeter, LocksInOrder, LockedRowsExist, Meters
  <2>2. CASE DeleteMeter(r)
    <3>1. meterLock[key[r]] = r
      BY <2>2 DEF DeleteMeter, OnMeter, ParentHeld
    <3> QED BY <2>2, <3>1 DEF DeleteMeter, LocksInOrder, Meters
  <2>3. CASE DeleteCascade(r)
    <3>1. \A q \in Request \ {r}, m \in MeterId :
            meterLock[m] = q /\ op[q] \in Cascades => transformerOf[m] \notin LockedTransformers(r)
      BY DEF LocksInOrder, LockedTransformers
    <3> QED BY <2>3, <3>1 DEF DeleteCascade, LocksInOrder, Meters
  <2>4. CASE UNCHANGED transformerOf /\ issued \subseteq issued'
    BY <2>4 DEF LocksInOrder, Meters
  <2> QED BY <2>1, <2>2, <2>3, <2>4
      DEF ParentMissing, GiveUp, SqlFailure, Create, CreateTransformer, CreateRegister, rows,
          AddRefreshToken, Ingest, ReportError, ChangePassword
<1>5. \A q \in Request : op'[q] \in Cascades =>
        /\ \A t \in LockedTransformers(q)', x \in todo'[q] : t <= x
        /\ \A m \in MeterId : meterLock'[m] = q => transformerOf'[m] \in LockedTransformers(q)' \ todo'[q]
  BY <1>2, <1>3, <1>4 DEF LocksInOrder
<1> QED BY <1>4, <1>5 DEF LocksInOrder

\* A transaction that runs takes its next lock after those it has.
LEMMA RunInOrder ==
  ASSUME StoreInv, NEW r \in Request,
         Lock(r) \/ StartCascade(r) \/ SkipMissingTransformer(r)
  PROVE  LocksInOrder'
<1> USE DEF StoreInv, TypeOK, RowsType, LocksType, RequestsType
<1>1. /\ UNCHANGED <<transformerOf, issued, op>>
      /\ \A q \in Request \ {r} : pc'[q] = pc[q] /\ todo'[q] = todo[q]
  BY DEF Lock, LockParentUser, LockParentTransformer, LockParentMeter, LockSessions, rows, locks,
         LockCascadeTransformer, LockCascadeMeters, StartCascade, SkipMissingTransformer
<1>2. Meters' \subseteq issued'
  BY <1>1 DEF Meters, LocksInOrder
<1>3. CASE StartCascade(r)
  <2>1. \A q \in Request : LockedTransformers(q)' = LockedTransformers(q)
    BY <1>3 DEF StartCascade, locks, LockedTransformers
  <2>2. LockedTransformers(r) = {}
    BY <1>3 DEF StartCascade, LockedRowsExist, LockedTransformers
  <2>3. UNCHANGED locks
    BY <1>3 DEF StartCascade
  <2> QED BY <1>1, <1>2, <2>1, <2>2, <2>3 DEF LocksInOrder, locks
<1>4. CASE LockCascadeTransformer(r)
  <2>1. PICK x \in Current(r) :
          x \in TransformerId /\ transformerLock[x] = Free
          /\ transformerLock' = [transformerLock EXCEPT ![x] = r]
    BY <1>4, RequestAssumption DEF LockCascadeTransformer, WantedTransformers
  <2>2. \A q \in Request : LockedTransformers(q)' =
                             LockedTransformers(q) \cup (IF q = r THEN {x} ELSE {})
    BY <2>1, RequestAssumption DEF LockedTransformers
  <2>3. \A y \in todo[r] : x <= y
    BY <2>1 DEF Current
  <2>4. UNCHANGED <<meterLock, op, todo>>
    BY <1>4 DEF LockCascadeTransformer
  <2> QED BY <1>1, <1>2, <2>2, <2>3, <2>4 DEF LocksInOrder
<1>5. CASE LockCascadeMeters(r)
  <2>1. \A q \in Request : LockedTransformers(q)' = LockedTransformers(q)
    BY <1>5 DEF LockCascadeMeters, LockedTransformers
  <2>2. todo'[r] = todo[r] \ Current(r)
    BY <1>5 DEF LockCascadeMeters
  <2>3. \A m \in WantedMeters(r) :
          meterLock'[m] = r /\ transformerOf[m] \in LockedTransformers(r) \ todo'[r]
    BY <1>5, <2>2 DEF LockCascadeMeters, WantedMeters
  <2>4. \A m \in MeterId \ WantedMeters(r) : meterLock'[m] = meterLock[m]
    BY <1>5 DEF LockCascadeMeters
  <2> QED BY <1>1, <1>2, <2>1, <2>2, <2>3, <2>4 DEF LocksInOrder
<1>6. CASE SkipMissingTransformer(r)
  <2>1. \A q \in Request : LockedTransformers(q)' = LockedTransformers(q)
    BY <1>6 DEF SkipMissingTransformer, locks, LockedTransformers
  <2>2. UNCHANGED meterLock /\ todo'[r] \subseteq todo[r]
    BY <1>6 DEF SkipMissingTransformer, locks
  <2> QED BY <1>1, <1>2, <2>1, <2>2 DEF LocksInOrder
<1>7. CASE LockParentUser(r)
  <2>1. UNCHANGED <<transformerLock, meterLock, todo>>
    BY <1>7 DEF LockParentUser
  <2>2. \A q \in Request : LockedTransformers(q)' = LockedTransformers(q)
    BY <2>1 DEF LockedTransformers
  <2> QED BY <1>1, <1>2, <2>1, <2>2 DEF LocksInOrder
<1>8. CASE LockSessions(r)
  <2>1. UNCHANGED <<transformerLock, meterLock, todo>>
    BY <1>8 DEF LockSessions, locks
  <2>2. \A q \in Request : LockedTransformers(q)' = LockedTransformers(q)
    BY <2>1 DEF LockedTransformers
  <2> QED BY <1>1, <1>2, <2>1, <2>2 DEF LocksInOrder
<1>9. CASE LockParentTransformer(r) \/ LockParentMeter(r)
  <2>1. op[r] \notin Cascades
    <3>1. op[r] \in {"createMeter", "ingest", "reportError"} \cup OnMeter
      BY <1>9 DEF LockParentTransformer, LockParentMeter, WantedTransformers, WantedMeters
    <3> QED BY <3>1 DEF OnMeter, Cascades
  <2>2. /\ UNCHANGED todo
        /\ \A q \in Request \ {r} :
             /\ \A t \in TransformerId : transformerLock'[t] = q => transformerLock[t] = q
             /\ \A m \in MeterId : meterLock'[m] = q => meterLock[m] = q
             /\ \A t \in TransformerId : transformerLock[t] = q => transformerLock'[t] = q
    BY <1>9, RequestAssumption DEF LockParentTransformer, LockParentMeter
  <2>3. \A q \in Request \ {r} : LockedTransformers(q)' = LockedTransformers(q)
    BY <2>2 DEF LockedTransformers
  <2> QED BY <1>1, <1>2, <2>1, <2>2, <2>3 DEF LocksInOrder
<1> QED BY <1>3, <1>4, <1>5, <1>6, <1>7, <1>8, <1>9 DEF Lock

LEMMA OrderInductive == StoreInv /\ [Next]_vars => LocksInOrder'
<1> SUFFICES ASSUME StoreInv, [Next]_vars
             PROVE  LocksInOrder'
  OBVIOUS
<1> USE DEF LocksInOrder, LockedTransformers, Meters, StoreInv
<1>1. ASSUME NEW u \in UserId, AddUser(u) PROVE LocksInOrder'
  BY <1>1 DEF AddUser, locks
<1>2. ASSUME NEW g \in RegisterId, DeleteRegister(g) PROVE LocksInOrder'
  BY <1>2 DEF DeleteRegister, locks
<1>3. ASSUME NEW s \in SessionId, RevokeRefreshToken(s) PROVE LocksInOrder'
  BY <1>3 DEF RevokeRefreshToken, locks
<1>4. ASSUME NEW r \in Request, NEW o \in Operations,
             NEW k \in UserId \cup TransformerId \cup MeterId, Begin(r, o, k)
      PROVE  LocksInOrder'
  <2>1. /\ UNCHANGED <<rows, locks, todo>> /\ pc[r] = "idle"
        /\ \A q \in Request \ {r} : pc'[q] = pc[q] /\ op'[q] = op[q]
    BY <1>4 DEF Begin, TypeOK, RequestsType
  <2>2. /\ \A t \in TransformerId : transformerLock[t] # r
        /\ \A m \in MeterId : meterLock[m] # r
    BY <2>1 DEF LockedRowsExist
  <2> QED BY <2>1, <2>2 DEF rows, locks
<1>5. ASSUME NEW r \in Request, Advance(r) \/ SqlFailure(r) \/ GiveUp(r)
      PROVE  LocksInOrder'
  BY <1>5, EndInOrder, RunInOrder DEF Advance
<1>6. CASE UNCHANGED vars
  BY <1>6 DEF vars, rows, locks
<1> QED BY <1>1, <1>2, <1>3, <1>4, <1>5, <1>6 DEF Next

LEMMA StoreInductive == StoreInv /\ [Next]_vars => StoreInv'
<1> SUFFICES ASSUME StoreInv, [Next]_vars
             PROVE  NoOrphans' /\ LockedRowsExist' /\ ParentHeld' /\ CascadeComplete'
  BY TypeInductive, ScopeInductive, OrderInductive DEF StoreInv
<1> USE DEF StoreInv, LockedRowsExist, ParentHeld, HoldsUser, CascadeComplete, LockedTransformers
<1>1. ASSUME NEW u \in UserId, AddUser(u)
      PROVE  NoOrphans' /\ LockedRowsExist' /\ ParentHeld' /\ CascadeComplete'
  BY <1>1 DEF AddUser, locks, NoOrphans, Transformers, Meters, Registers
<1>2. ASSUME NEW g \in RegisterId, DeleteRegister(g)
      PROVE  NoOrphans' /\ LockedRowsExist' /\ ParentHeld' /\ CascadeComplete'
  BY <1>2 DEF DeleteRegister, locks, NoOrphans, Transformers, Meters, Registers, TypeOK, RowsType
<1>3. ASSUME NEW s \in SessionId, RevokeRefreshToken(s)
      PROVE  NoOrphans' /\ LockedRowsExist' /\ ParentHeld' /\ CascadeComplete'
  BY <1>3 DEF RevokeRefreshToken, locks, NoOrphans, Transformers, Meters, Registers, TypeOK, RowsType
<1>4. ASSUME NEW r \in Request, NEW o \in Operations,
             NEW k \in UserId \cup TransformerId \cup MeterId, Begin(r, o, k)
      PROVE  NoOrphans' /\ LockedRowsExist' /\ ParentHeld' /\ CascadeComplete'
  <2>1. NoOrphans'
    BY <1>4, SameRowsNoOrphans DEF Begin
  <2>2. LockedRowsExist' /\ ParentHeld'
    BY <1>4 DEF Begin, rows, locks, Transformers, Meters, TypeOK, RequestsType
  <2>3. CascadeComplete'
    BY <1>4 DEF Begin, rows, locks, TypeOK, RequestsType
  <2> QED BY <2>1, <2>2, <2>3
<1>5. ASSUME NEW r \in Request, Advance(r) \/ SqlFailure(r) \/ GiveUp(r)
      PROVE  NoOrphans' /\ LockedRowsExist' /\ ParentHeld' /\ CascadeComplete'
  BY <1>5, AdvanceStore, FailureStore
<1>6. CASE UNCHANGED vars
  BY <1>6 DEF vars, rows, locks, NoOrphans, Transformers, Meters, Registers
<1> QED BY <1>1, <1>2, <1>3, <1>4, <1>5, <1>6 DEF Next

\* StoreInv always holds: locks, cascades and what requests have read agree with the rows.
THEOREM StoreInvariant == Spec => []StoreInv
BY InitStore, StoreInductive, PTL DEF Spec

\* Deleting a parent never leaves orphaned data, nor does creating below a parent that is
\* being deleted, whatever interleaves and fails.
THEOREM NoOrphansTheorem == Spec => []NoOrphans
<1>1. StoreInv => NoOrphans
  BY DEF StoreInv
<1> QED BY <1>1, StoreInvariant, PTL

\* No delete removes anything outside the subtree its path names, whatever interleaves.
THEOREM DeletesInScope == Spec => DeletesStayInScope
<1> DEFINE InScope ==
      /\ \A t \in Transformers : owner'[t] = NoRow =>
           \E r \in Request : Ends(r, Cascades, t) \/ Ends(r, Cascades, owner[t])
      /\ \A m \in Meters : transformerOf'[m] = NoRow =>
           \/ \E r \in Request : Ends(r, {"deleteMeter"}, m)
           \/ owner'[transformerOf[m]] = NoRow
      /\ \A t \in (metricRows \ metricRows') \cup (errorRows \ errorRows') : owner'[t] = NoRow
      /\ \A u \in users \ users' : \E r \in Request : Ends(r, {"deleteUser"}, u)
<1>1. StoreInv /\ [Next]_vars => [InScope]_vars
  <2> SUFFICES ASSUME StoreInv, Next
               PROVE  InScope
    OBVIOUS
  <2>1. ASSUME NEW r \in Request, DeleteCascade(r) PROVE InScope
    <3>1. pc[r] # "idle" /\ pc'[r] = "idle" /\ op[r] \in Cascades
      BY <2>1 DEF DeleteCascade, Finish, Cascades, StoreInv, TypeOK, RequestsType
    <3>2. \A t \in Transformers : owner'[t] = NoRow =>
            Ends(r, Cascades, t) \/ Ends(r, Cascades, owner[t])
      <4>1. \A t \in Transformers : owner'[t] = NoRow => t \in LockedTransformers(r)
        BY <2>1 DEF DeleteCascade, Transformers
      <4> QED BY <3>1, <4>1 DEF StoreInv, CascadeInScope, Ends, Transformers
    <3>3. \A m \in Meters : transformerOf'[m] = NoRow => owner'[transformerOf[m]] = NoRow
      BY <2>1 DEF DeleteCascade, Meters, LockedTransformers
    <3>4. \A t \in (metricRows \ metricRows') \cup (errorRows \ errorRows') : owner'[t] = NoRow
      BY <2>1 DEF DeleteCascade, LockedTransformers
    <3>5. \A u \in users \ users' : Ends(r, {"deleteUser"}, u)
      BY <2>1, <3>1 DEF DeleteCascade, DeletedUsers, Ends
    <3> QED BY <3>2, <3>3, <3>4, <3>5
  <2>2. ASSUME NEW r \in Request, DeleteMeter(r) PROVE InScope
    <3>1. Ends(r, {"deleteMeter"}, key[r])
      BY <2>2 DEF DeleteMeter, Finish, Ends, StoreInv, TypeOK, RequestsType
    <3>2. \A m \in Meters : transformerOf'[m] = NoRow => m = key[r]
      BY <2>2 DEF DeleteMeter, Meters, StoreInv, TypeOK, RowsType
    <3>3. UNCHANGED <<owner, metricRows, errorRows, users>>
      BY <2>2 DEF DeleteMeter
    <3> QED BY <3>1, <3>2, <3>3 DEF Transformers
  <2>3. CASE /\ UNCHANGED transformerOf \/ \E r \in Request, m \in MeterId : CreateMeter(r, m)
             /\ UNCHANGED owner \/ \E r \in Request, t \in TransformerId : CreateTransformer(r, t)
             /\ metricRows \subseteq metricRows' /\ errorRows \subseteq errorRows'
             /\ users \subseteq users'
    <3>1. \A m \in Meters : transformerOf'[m] # NoRow
      <4>1. ASSUME NEW r \in Request, NEW m \in MeterId, CreateMeter(r, m) PROVE <3>1
        <5>1. key[r] \in TransformerId
          BY <4>1 DEF CreateMeter, OnTransformer, StoreInv, TypeOK, RequestsType
        <5> QED BY <4>1, <5>1, IdsAssumption
            DEF CreateMeter, Meters, StoreInv, TypeOK, RowsType
      <4> QED BY <2>3, <4>1 DEF Meters
    <3>2. \A t \in Transformers : owner'[t] # NoRow
      <4>1. ASSUME NEW r \in Request, NEW t \in TransformerId, CreateTransformer(r, t) PROVE <3>2
        <5>1. key[r] \in UserId
          BY <4>1 DEF CreateTransformer, OnUser, StoreInv, TypeOK, RequestsType
        <5> QED BY <4>1, <5>1, IdsAssumption
            DEF CreateTransformer, Transformers, StoreInv, TypeOK, RowsType
      <4> QED BY <2>3, <4>1 DEF Transformers
    <3> QED BY <2>3, <3>1, <3>2
  <2> QED
    BY <2>1, <2>2, <2>3
    DEF Next, AddUser, DeleteRegister, RevokeRefreshToken, Begin, Advance, Lock, LockParentUser,
        LockParentTransformer, LockParentMeter, LockSessions, LockCascadeTransformer,
        LockCascadeMeters, ParentMissing, Create, CreateTransformer, CreateMeter, CreateRegister,
        AddRefreshToken, Ingest, ReportError, ChangePassword, StartCascade,
        SkipMissingTransformer, SqlFailure, GiveUp, rows
<1> QED BY <1>1, StoreInvariant, PTL DEF Spec, DeletesStayInScope

-----------------------------------------------------------------------------
(***************************************************************************)
(* No circle but the known ones.  In any other set of requests that wait   *)
(* only for each other nobody waits for a gap or for sessions, so each     *)
(* waits for a row a cascade has locked.  That cascade waits for a         *)
(* transformer with a greater id than any it has locked; so the ids grow   *)
(* along the waits, and some cascade waits for nobody in the set.          *)
(***************************************************************************)

\* In a finite set something is greatest.
LEMMA Greatest ==
  ASSUME NEW R, IsFiniteSet(R), R # {}, NEW f \in [R -> Nat]
  PROVE  \E x \in R : \A y \in R : f[y] <= f[x]
<1> DEFINE HasGreatest(X) == \E x \in X : \A y \in X : f[y] <= f[x]
           Bad == {X \in FiniteSubsetsOf(R) : X # {} /\ ~HasGreatest(X)}
<1>1. Bad = {}
  <2> SUFFICES ASSUME Bad # {} PROVE FALSE
    OBVIOUS
  <2>1. PICK X \in Bad : \A Y \in Bad : <<Y, X>> \notin StrictSubsetOrdering(R)
    <3> DEFINE S == FiniteSubsetsOf(R)
               O == StrictSubsetOrdering(R)
    <3>1. IsWellFoundedOn(O, S) /\ Bad \subseteq S
      BY FS_StrictSubsetOrderingWellFounded
    <3> HIDE DEF S, O, Bad
    <3>2. \E X \in Bad : \A Y \in Bad : ~(<<Y, X>> \in O)
      BY <3>1, WFMin
    <3> QED BY <3>2 DEF O
  <2>2. X \subseteq R /\ IsFiniteSet(X) /\ X # {} /\ ~HasGreatest(X)
    BY <2>1 DEF FiniteSubsetsOf
  <2>3. PICK x \in X : TRUE
    BY <2>2
  <2> DEFINE Y == X \ {x}
  <2>4. Y \in FiniteSubsetsOf(R) /\ <<Y, X>> \in StrictSubsetOrdering(R)
    <3>1. IsFiniteSet(Y)
      BY <2>2, FS_RemoveElement
    <3> QED BY <2>2, <2>3, <3>1 DEF FiniteSubsetsOf, StrictSubsetOrdering
  <2>5. Y = {} \/ HasGreatest(Y)
    BY <2>1, <2>4
  <2>6. CASE Y = {}
    BY <2>2, <2>3, <2>6
  <2>7. CASE HasGreatest(Y)
    <3>1. PICK z \in Y : \A y \in Y : f[y] <= f[z]
      BY <2>7
    <3>2. f[x] \in Nat /\ f[z] \in Nat /\ \A y \in X : f[y] \in Nat
      BY <2>2, <2>3, <3>1
    <3>3. CASE f[z] <= f[x]
      <4>1. \A y \in X : f[y] <= f[x]
        BY <3>1, <3>2, <3>3
      <4> QED BY <2>2, <4>1
    <3>4. CASE f[x] <= f[z]
      <4>1. \A y \in X : f[y] <= f[z]
        BY <3>1, <3>2, <3>4
      <4> QED BY <2>2, <4>1
    <3> QED BY <3>2, <3>3, <3>4
  <2> QED BY <2>5, <2>6, <2>7
<1>2. R \in FiniteSubsetsOf(R)
  BY DEF FiniteSubsetsOf
<1> QED BY <1>1, <1>2

\* The circles that are known: with updatePasswordHash, of two session openings, of an
\* insert and a deletion of several transformers.
KnownCircle(R) ==
  \/ \E r \in R : op[r] = "changePassword"
  \/ \E r, q \in R : OpeningsCross(r, q) \/ InsertMeetsCascade(r, q)

\* Two requests that hold account rows run for different accounts.
LEMMA UsersDiffer ==
  ASSUME StoreInv, NEW r \in Request, NEW q \in Request, r # q, HoldsUser(r), HoldsUser(q)
  PROVE  key[r] # key[q]
BY UserHeld

\* A transaction that has searched the sessions waits for nothing any more, but for the gap
\* its own new session falls into.
LEMMA ReadyWaits ==
  ASSUME StoreInv, NEW q \in Request, pc[q] = "ready", Blockers(q) # {}
  PROVE  op[q] = "addRefreshToken"
<1>1. /\ WantedUsers(q) = {} /\ WantedTransformers(q) = {} /\ WantedMeters(q) = {}
      /\ WantedSessions(q) = {}
  BY DEF WantedUsers, WantedTransformers, WantedMeters, WantedSessions
<1>2. GapBlockers(q) # {}
  BY <1>1 DEF Blockers, SessionBlockers
<1> QED BY <1>2 DEF GapBlockers

\* Nobody waits for sessions that another request has searched: it would run for the same
\* account, whose row both hold.
LEMMA NobodyWaitsForSessions ==
  ASSUME StoreInv, NEW R \in SUBSET Request, WaitCycle(R), ~KnownCircle(R),
         NEW r \in R
  PROVE  SessionBlockers(r) \cap R = {}
<1> SUFFICES ASSUME NEW q \in SessionBlockers(r) \cap R
             PROVE  FALSE
  OBVIOUS
<1>1. q # r /\ op[r] # "changePassword" /\ op[q] # "changePassword"
  BY DEF SessionBlockers, KnownCircle
<1>2. PICK u \in UserId : u \in WantedSessions(r) /\ u \in SearchedSessions(q)
  BY DEF SessionBlockers, WantedSessions
<1>3. u = key[r] /\ u = key[q] /\ HoldsUser(r) /\ HoldsUser(q)
  BY <1>1, <1>2 DEF WantedSessions, SearchedSessions, HoldsUser
<1> QED BY <1>1, <1>3, UsersDiffer

\* A cascade of the circle that holds locks still has transformers to lock.
LEMMA CascadeGoesOn ==
  ASSUME StoreInv, NEW R \in SUBSET Request, WaitCycle(R), ~KnownCircle(R),
         NEW q \in R, op[q] \in Cascades, pc[q] \in {"cascading", "ready"}
  PROVE  pc[q] = "cascading" /\ todo[q] # {}
<1>1. Blockers(q) \cap R # {}
  BY DEF WaitCycle
<1>2. pc[q] = "cascading"
  BY <1>1, ReadyWaits DEF Cascades
<1>3. todo[q] # {}
  <2> SUFFICES ASSUME todo[q] = {} PROVE FALSE
    OBVIOUS
  <2>1. WantedUsers(q) = {} /\ WantedTransformers(q) = {} /\ WantedMeters(q) = {}
    BY <1>2 DEF WantedUsers, WantedTransformers, WantedMeters, Current
  <2>2. GapBlockers(q) = {}
    BY <1>2 DEF GapBlockers
  <2> QED BY <1>1, <2>1, <2>2, NobodyWaitsForSessions DEF Blockers
<1> QED BY <1>2, <1>3

\* A cascade that has searched rows below a transformer and has others to lock is not
\* deleteTransformer, which locks one.
LEMMA CascadeOfSeveral ==
  ASSUME StoreInv, NEW q \in Request, op[q] \in Cascades, todo[q] # {},
         NEW t \in LockedTransformers(q) \ todo[q]
  PROVE  op[q] \in {"deleteUserTransformers", "deleteUser"}
BY DEF StoreInv, CascadeInScope, Cascades

\* Who waits for a gap closes one of the known circles.
LEMMA NobodyWaitsForGaps ==
  ASSUME StoreInv, NEW R \in SUBSET Request, WaitCycle(R), ~KnownCircle(R),
         NEW r \in R
  PROVE  GapBlockers(r) \cap R = {}
<1> SUFFICES ASSUME NEW q \in GapBlockers(r) \cap R
             PROVE  FALSE
  OBVIOUS
<1>1. q # r /\ op[q] # "changePassword" /\ Blockers(q) # {}
  BY DEF GapBlockers, KnownCircle, WaitCycle
<1>2. CASE pc[r] = "ready" /\ op[r] = "addRefreshToken"
  <2>1. SearchedSessions(q) # {}
    BY <1>2 DEF GapBlockers, Neighbours
  <2>2. pc[q] = "ready"
    BY <1>1, <2>1 DEF SearchedSessions
  <2>3. op[q] = "addRefreshToken"
    BY <1>1, <2>2, ReadyWaits
  <2>4. key[r] # key[q]
    BY <1>1, <1>2, <2>2, UsersDiffer DEF HoldsUser
  <2> QED BY <1>2, <2>3, <2>4 DEF OpeningsCross, KnownCircle
<1>3. CASE pc[r] = "held" /\ op[r] \in {"createMeter", "ingest", "reportError"}
  <2>1. PICK t \in LockedTransformers(q) \ todo[q] : op[q] \in Cascades
    BY <1>3 DEF GapBlockers, Neighbours, SearchedTransformers
  <2>2. pc[q] \in {"cascading", "ready"}
    BY <2>1 DEF StoreInv, LockedRowsExist, LockedTransformers, Cascades
  <2>3. todo[q] # {}
    BY <2>1, <2>2, CascadeGoesOn
  <2>4. op[q] \in {"deleteUserTransformers", "deleteUser"}
    BY <2>1, <2>3, CascadeOfSeveral
  <2> QED BY <1>3, <2>3, <2>4 DEF InsertMeetsCascade, KnownCircle
<1>4. CASE pc[r] = "held" /\ op[r] = "createRegister"
  <2>1. PICK m \in MeterId : op[q] \in Cascades /\ meterLock[m] = q
    BY <1>4 DEF GapBlockers, Neighbours, SearchedMeters
  <2>2. pc[q] \in {"cascading", "ready"}
    BY <2>1 DEF StoreInv, LockedRowsExist, Cascades, OnMeter
  <2>3. todo[q] # {}
    BY <2>1, <2>2, CascadeGoesOn
  <2>4. transformerOf[m] \in LockedTransformers(q) \ todo[q]
    BY <2>1 DEF StoreInv, LocksInOrder
  <2>5. op[q] \in {"deleteUserTransformers", "deleteUser"}
    BY <2>1, <2>3, <2>4, CascadeOfSeveral
  <2> QED BY <1>4, <2>3, <2>5 DEF InsertMeetsCascade, KnownCircle
<1> QED BY <1>2, <1>3, <1>4 DEF GapBlockers

\* So every wait of an unknown circle is for a row, which the other request has locked.
LEMMA WaitsForRow ==
  ASSUME StoreInv, NEW R \in SUBSET Request, WaitCycle(R), ~KnownCircle(R),
         NEW r \in R, NEW q \in Blockers(r) \cap R
  PROVE  /\ q # r /\ q # Free
         /\ \/ \E u \in WantedUsers(r) : userLock[u] = q
            \/ \E t \in WantedTransformers(r) : transformerLock[t] = q
            \/ \E m \in WantedMeters(r) : meterLock[m] = q
BY NobodyWaitsForSessions, NobodyWaitsForGaps, RequestAssumption
DEF Blockers, SessionBlockers, GapBlockers

\* A request of an unknown circle waits for a cascade of the circle.
LEMMA WaitsForCascade ==
  ASSUME StoreInv, NEW R \in SUBSET Request, WaitCycle(R), ~KnownCircle(R),
         NEW r \in R
  PROVE  \E q \in Blockers(r) \cap R : pc[q] = "cascading" /\ op[q] \in Cascades
<1>1. PICK q \in Blockers(r) \cap R : TRUE
  BY DEF WaitCycle
<1>2. pc[q] \in {"held", "cascading", "ready"}
  BY <1>1, WaitsForRow
  DEF StoreInv, LockedRowsExist, WantedUsers, WantedTransformers, WantedMeters
<1>3. WantedUsers(q) # {} \/ WantedTransformers(q) # {} \/ WantedMeters(q) # {}
  <2>1. PICK x \in Blockers(q) \cap R : TRUE
    BY <1>1 DEF WaitCycle
  <2> QED BY <1>1, <2>1, WaitsForRow
<1>4. op[q] # "changePassword"
  BY <1>1 DEF KnownCircle
<1>5. pc[q] = "cascading"
  BY <1>2, <1>3, <1>4 DEF WantedUsers, WantedTransformers, WantedMeters
<1> QED BY <1>1, <1>5 DEF StoreInv, CascadeComplete

\* A cascade that waits for a cascade of the circle waits for a transformer with a smaller
\* id than that one waits for.
LEMMA WaitsUpwards ==
  ASSUME StoreInv, NEW R \in SUBSET Request, WaitCycle(R), ~KnownCircle(R),
         NEW r \in R, pc[r] = "cascading",
         NEW q \in Blockers(r) \cap R, pc[q] = "cascading", op[q] \in Cascades
  PROVE  \E t \in Current(r), x \in Current(q) : t < x
<1> USE DEF StoreInv, TypeOK, LocksType, RequestsType
<1>1. \A p \in R : pc[p] = "cascading" =>
        /\ WantedUsers(p) = {}
        /\ \A m \in WantedMeters(p) : transformerOf[m] \in LockedTransformers(p)
  BY DEF WantedUsers, WantedMeters
<1>2. \A p \in R, s \in R : s # p /\ pc[p] = "cascading" /\ op[s] \in Cascades =>
        \A m \in WantedMeters(p) : meterLock[m] # s
  <2> SUFFICES ASSUME NEW p \in R, NEW s \in R, s # p, pc[p] = "cascading", op[s] \in Cascades,
                      NEW m \in WantedMeters(p), meterLock[m] = s
               PROVE  FALSE
    OBVIOUS
  <2>1. m \in MeterId /\ transformerOf[m] \in LockedTransformers(p)
    BY <1>1 DEF WantedMeters
  <2>2. transformerOf[m] \in LockedTransformers(s)
    BY <2>1 DEF LocksInOrder
  <2> QED BY <2>1, <2>2 DEF LockedTransformers
<1>3. PICK t \in WantedTransformers(r) : transformerLock[t] = q
  BY <1>1, <1>2, WaitsForRow
<1>4. t \in Current(r) /\ t \in LockedTransformers(q)
  BY <1>3 DEF WantedTransformers, LockedTransformers
<1>5. PICK s \in Blockers(q) \cap R : pc[s] = "cascading" /\ op[s] \in Cascades
  BY WaitsForCascade
<1>6. PICK x \in WantedTransformers(q) : TRUE
  BY <1>1, <1>2, <1>5, WaitsForRow
<1>7. x \in Current(q) /\ transformerLock[x] # q
  BY <1>6 DEF WantedTransformers
<1>8. t <= x /\ t # x
  BY <1>4, <1>7 DEF LocksInOrder, Current, LockedTransformers
<1>9. t \in Nat /\ x \in Nat
  BY <1>4, <1>7, IdsAssumption DEF Current
<1> QED BY <1>4, <1>7, <1>8, <1>9

\* However many transactions there are and whichever index ranges share a gap, they wait
\* in a circle only where updatePasswordHash takes part, two session openings cross, or an
\* insert meets the deletion of several transformers.
THEOREM CirclesKnown == Spec => []OnlyKnownCircles
<1>1. StoreInv => OnlyKnownCircles
  <2> SUFFICES ASSUME StoreInv, NEW R \in SUBSET Request, WaitCycle(R), ~KnownCircle(R)
               PROVE  FALSE
    BY DEF OnlyKnownCircles, KnownCircle
  <2> DEFINE C == {r \in R : pc[r] = "cascading" /\ op[r] \in Cascades}
             f == [r \in C |-> CHOOSE t \in Nat : t \in Current(r)]
  <2>1. \A r \in R : \E q \in Blockers(r) \cap C : TRUE
    BY WaitsForCascade
  <2>2. C # {}
    BY <2>1 DEF WaitCycle
  <2>3. IsFiniteSet(C)
    BY RequestAssumption, FS_Subset
  <2>4. \A r \in C : \E q \in C : \E t \in Current(r), x \in Current(q) : t < x
    BY <2>1, WaitsUpwards
  <2>5. \A r \in C : \A t \in Current(r) : f[r] = t /\ t \in Nat
    <3> SUFFICES ASSUME NEW r \in C, NEW t \in Current(r)
                 PROVE  f[r] = t /\ t \in Nat
      OBVIOUS
    <3>1. \A x \in Current(r) : x \in Nat
      BY IdsAssumption DEF Current, StoreInv, TypeOK, RequestsType
    <3>2. \A x \in Current(r) : x <= t /\ t <= x
      BY DEF Current
    <3>3. \A x \in Current(r) : x = t
      BY <3>1, <3>2
    <3> QED BY <3>1, <3>3
  <2>6. \A r \in C : f[r] \in Nat
    BY <2>4, <2>5
  <2>7. PICK r \in C : \A q \in C : f[q] <= f[r]
    <3>1. f \in [C -> Nat]
      BY <2>6
    <3> HIDE DEF C, f
    <3> QED BY <3>1, <2>2, <2>3, Greatest
  <2>8. PICK q \in C : \E t \in Current(r), x \in Current(q) : t < x
    BY <2>4
  <2>9. f[r] < f[q]
    BY <2>5, <2>8
  <2>10. f[q] <= f[r] /\ f[q] \in Nat /\ f[r] \in Nat
    BY <2>6, <2>7
  <2> QED BY <2>9, <2>10
<1> QED BY <1>1, StoreInvariant, PTL
=============================================================================
