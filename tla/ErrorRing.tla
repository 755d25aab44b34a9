----------------------------- MODULE ErrorRing -----------------------------
(***************************************************************************)
(* TransformerErrorRepository: the last few errors a device has reported   *)
(* for one transformer.  A report is one transaction: lock the transformer *)
(* row, insert the error, delete the rows beyond the newest Keep in the    *)
(* order of created_at, read the inserted row back.                        *)
(*                                                                         *)
(* created_at is what the clock of the server that runs the handler shows, *)
(* in the precision of the column: microseconds where the program creates  *)
(* it, seconds in the SQL dump in database/.  Several servers may write to *)
(* one database and a clock may be set back, so the times of successive    *)
(* reports may be equal or go down while their ids go up; a SELECT may     *)
(* return rows of equal times in any order.                                *)
(***************************************************************************)
EXTENDS Naturals, FiniteSets, FiniteSetsExt, Sequences

CONSTANTS
  Reporter,    \* handlers that run the POST
  Keep,        \* how many errors are kept, 5 in the program
  Times,       \* what the clocks of the servers may show, as created_at stores it
  MaxReports,  \* bound of the model
  Free

ASSUME RingAssumption ==
  /\ Keep \in Nat \ {0} /\ Times \subseteq Nat /\ MaxReports \in Nat
  /\ Free \notin Reporter

VARIABLES
  exists,    \* the transformer's row is there
  lock,      \* who holds the lock on it
  errors,    \* rows of transformer_errors
  lastId,    \* the auto-increment id of the last report
  pc,
  mine,      \* the row a running transaction has inserted
  excess,    \* the rows it has found beyond the newest Keep
  accepted   \* auxiliary: the errors whose report was answered with Created

ringVars == <<exists, lock, errors, lastId, pc, mine, excess, accepted>>

Rows == [id : 1 .. MaxReports, createdAt : Times]
NoError == [id |-> 0, createdAt |-> 0]

RingType ==
  /\ exists \in BOOLEAN
  /\ lock \in Reporter \cup {Free}
  /\ errors \subseteq Rows
  /\ lastId \in 0 .. MaxReports
  /\ pc \in [Reporter -> {"idle", "begun", "locked", "pruned"}]
  /\ mine \in [Reporter -> Rows \cup {NoError}]
  /\ \A r \in Reporter : pc[r] = "pruned" => mine[r] \in Rows
  /\ excess \in [Reporter -> SUBSET Rows]
  /\ accepted \subseteq Rows
  /\ lock # Free => pc[lock] \in {"locked", "pruned"}

\* What ORDER BY created_at DESC with a limit of n may select from rows.
Newest(n, rows) ==
  LET size == IF Cardinality(rows) < n THEN Cardinality(rows) ELSE n IN
  {top \in kSubset(size, rows) :
     \A kept \in top, other \in rows \ top : other.createdAt <= kept.createdAt}

\* Mutant: ascending order.
ListingsOldestFirst(rows) ==
  UNION {{list \in [1 .. Cardinality(top) -> top] :
            \A i, j \in 1 .. Cardinality(top) :
              i < j => list[i] # list[j] /\ list[i].createdAt <= list[j].createdAt}
         : top \in Newest(Keep, rows)}

\* The list the GET may return: newest first.
Listings(rows) ==
  UNION {{list \in [1 .. Cardinality(top) -> top] :
            \A i, j \in 1 .. Cardinality(top) :
              i < j => list[i] # list[j] /\ list[j].createdAt <= list[i].createdAt}
         : top \in Newest(Keep, rows)}

Unlock(r) == lock' = IF lock = r THEN Free ELSE lock

Finish(r) ==
  /\ pc' = [pc EXCEPT ![r] = "idle"]
  /\ mine' = [mine EXCEPT ![r] = NoError]
  /\ excess' = [excess EXCEPT ![r] = {}]
  /\ Unlock(r)

\* The route has seen that the caller may report for this transformer.
Receive(r) ==
  /\ pc[r] = "idle" /\ exists
  /\ pc' = [pc EXCEPT ![r] = "begun"]
  /\ UNCHANGED <<exists, lock, errors, lastId, mine, excess, accepted>>

TransformerGone(r) ==
  /\ pc[r] = "begun" /\ ~exists
  /\ Finish(r)
  /\ UNCHANGED <<exists, errors, lastId, accepted>>

\* Mutant: the parent is read without FOR UPDATE.
LockTransformerNoLock(r) ==
  /\ pc[r] = "begun" /\ exists
  /\ pc' = [pc EXCEPT ![r] = "locked"]
  /\ UNCHANGED <<exists, lock, errors, lastId, mine, excess, accepted>>

LockTransformer(r) ==
  /\ pc[r] = "begun" /\ exists /\ lock = Free
  /\ lock' = r
  /\ pc' = [pc EXCEPT ![r] = "locked"]
  /\ UNCHANGED <<exists, errors, lastId, mine, excess, accepted>>

\* Mutant: no ORDER BY.
ExcessRowsUnordered(rows) ==
  kSubset(IF Cardinality(rows) < Keep THEN 0 ELSE Cardinality(rows) - Keep, rows)

\* The ids after the first Keep rows of ORDER BY created_at DESC.
ExcessRows(rows) == {rows \ top : top \in Newest(Keep, rows)}

\* Take the server's time, insert the row, select the excess: the select sees this
\* transaction's row and all committed ones.
InsertError(r) ==
  /\ pc[r] = "locked" /\ lastId < MaxReports
  /\ lastId' = lastId + 1
  /\ \E now \in Times : LET row == [id |-> lastId', createdAt |-> now] IN
       /\ mine' = [mine EXCEPT ![r] = row]
       /\ \E rows \in ExcessRows(errors \cup {row}) : excess' = [excess EXCEPT ![r] = rows]
  /\ pc' = [pc EXCEPT ![r] = "pruned"]
  /\ UNCHANGED <<exists, lock, errors, accepted>>

Commit(r) ==
  /\ pc[r] = "pruned" /\ mine[r] \notin excess[r]
  /\ errors' = (errors \cup {mine[r]}) \ excess[r]
  /\ accepted' = accepted \cup {mine[r]}
  /\ Finish(r)
  /\ UNCHANGED <<exists, lastId>>

\* The inserted row was among the deleted ones: .first() finds nothing and throws,
\* the transaction is rolled back and the report answered with an internal error.
OwnRowDeleted(r) ==
  /\ pc[r] = "pruned" /\ mine[r] \in excess[r]
  /\ Finish(r)
  /\ UNCHANGED <<exists, errors, lastId, accepted>>

\* A statement fails: rollback.  dbQuery may run the block again or give up.
Fail(r) ==
  /\ pc[r] \in {"begun", "locked", "pruned"}
  /\ \/ Finish(r)
     \/ /\ pc' = [pc EXCEPT ![r] = "begun"]
        /\ mine' = [mine EXCEPT ![r] = NoError]
        /\ excess' = [excess EXCEPT ![r] = {}]
        /\ Unlock(r)
  /\ UNCHANGED <<exists, errors, lastId, accepted>>

\* deleteTransformer takes the transformer with its errors.
DeleteTransformer ==
  /\ exists /\ lock = Free
  /\ exists' = FALSE
  /\ errors' = {} /\ accepted' = {}
  /\ UNCHANGED <<lock, lastId, pc, mine, excess>>

RingInit ==
  /\ exists = TRUE /\ lock = Free
  /\ errors = {} /\ accepted = {}
  /\ lastId = 0
  /\ pc = [r \in Reporter |-> "idle"]
  /\ mine = [r \in Reporter |-> NoError]
  /\ excess = [r \in Reporter |-> {}]

RingNext ==
  \/ DeleteTransformer
  \/ \E r \in Reporter :
       \/ Receive(r) \/ TransformerGone(r) \/ LockTransformer(r) \/ InsertError(r)
       \/ Commit(r) \/ OwnRowDeleted(r) \/ Fail(r)

RingSpec == RingInit /\ [][RingNext]_ringVars

(***************************************************************************)
(* Properties.                                                             *)
(***************************************************************************)

\* No more than Keep errors are ever stored, however many handlers report at once:
\* each of them sees what the one before it left.
AtMostKept == Cardinality(errors) <= Keep

\* With any clocks, no error is dropped in favour of one stored with an earlier time.
KeepsTheLatestTimes ==
  \A kept \in errors, dropped \in accepted \ errors : dropped.createdAt <= kept.createdAt

\* The clocks that stamped the accepted errors agree with the order of the reports, and
\* the column tells the times apart.
ClocksAgree == \A d, e \in accepted : d.id < e.id => d.createdAt < e.createdAt

\* "Backend keeps only 5 newest errors per transformer": of all accepted reports the
\* stored ones are the newest, none was dropped in favour of an older one, and none
\* is missing while there is room.
KeepsTheNewest ==
  /\ errors \subseteq accepted
  /\ Cardinality(errors) = IF Cardinality(accepted) < Keep THEN Cardinality(accepted) ELSE Keep
  /\ \A kept \in errors, dropped \in accepted \ errors : dropped.id < kept.id

\* So it is as long as the clocks agree; one server behind the others is enough for
\* the newest report to be dropped, or refused, in favour of older ones.
NewestKeptWhileClocksAgree == ClocksAgree => KeepsTheNewest

\* The list the panel shows starts with the accepted error whose time is later than that
\* of all others, whatever clocks stamped the others and whichever of them were dropped.
LatestListedFirst ==
  \A latest \in accepted :
    (\A e \in accepted \ {latest} : e.createdAt < latest.createdAt)
      => \A list \in Listings(errors) : list[1] = latest

(***************************************************************************)
(* Why they hold.                                                          *)
(***************************************************************************)

\* The row lock makes reports exclusive from before the insert to the commit.
LockProtects == \A r \in Reporter : lock = r <=> pc[r] \in {"locked", "pruned"}

\* Ids of accepted errors have been given out, and only once.
AcceptedNumbered ==
  \A d, e \in accepted : e.id <= lastId /\ (d.id = e.id => d = e)

\* What a report is about to delete is still in excess when it commits, and its own
\* error has the last id.
ReportPending ==
  \A r \in Reporter : pc[r] = "pruned" =>
    /\ mine[r].id = lastId
    /\ \A e \in accepted : e.id < lastId
    /\ excess[r] \in ExcessRows(errors \cup {mine[r]})

\* As many of the accepted errors are stored as there is room for.
RoomIsUsed ==
  /\ IsFiniteSet(accepted) /\ errors \subseteq accepted
  /\ Cardinality(errors) = IF Cardinality(accepted) < Keep THEN Cardinality(accepted) ELSE Keep

RingInv ==
  /\ RingType /\ AtMostKept
  /\ LockProtects /\ AcceptedNumbered /\ ReportPending /\ RoomIsUsed /\ KeepsTheLatestTimes
=============================================================================
