--------------------------- MODULE MetricsIngest ---------------------------
(***************************************************************************)
(* MetricsRepository.upsertValue: readings of one transformer arrive by    *)
(* POST and by WebSocket, at any number of handlers of any number of       *)
(* servers.  Each is one transaction that locks the transformer row, reads *)
(* the minute aggregate, writes the aggregate computed from it and inserts *)
(* the reading as a numbered sample.  A bucket is a metric key and minute; *)
(* transformers do not share anything, so one is enough.                   *)
(*                                                                         *)
(* Averages are exact fractions here; rounding of doubles is left out.     *)
(***************************************************************************)
EXTENDS Integers, FiniteSets, FiniteSetsExt

CONSTANTS
  Writer,       \* handlers that ingest
  Bucket,
  Value,        \* readings
  MaxCount,     \* Int.MAX_VALUE
  LegacyCount,  \* readings in an aggregate older than the samples table
  MaxAttempts,  \* how often dbQuery runs a transaction that fails with an SQL error
  Null          \* SQL NULL, an absent row, the holder of a free lock

ASSUME ValueAssumption == Value \subseteq Int /\ Null \notin Int
ASSUME WriterAssumption == Null \notin Writer
ASSUME BucketAssumption == Null \notin Bucket
ASSUME CountAssumption == /\ MaxCount \in Nat \ {0} /\ LegacyCount \in 1 .. MaxCount
                          /\ MaxAttempts \in Nat \ {0}

VARIABLES
  exists,      \* the transformer's row is there
  lock,        \* who holds the lock on it
  aggregate,   \* rows of metrics_1m_kv
  samples,     \* rows of metric_samples: sequence and value, per bucket
  pc, bucket, value,  \* per writer: progress and request
  seen,        \* per writer: the aggregate it has read
  attempts,
  legacy       \* auxiliary: the aggregates that were there before the samples table

rows == <<exists, aggregate, samples>>
vars == <<rows, lock, pc, bucket, value, seen, attempts, legacy>>

Fraction == [num : Int, den : Nat \ {0}]
Aggregate == [count : 1 .. MaxCount, last : Value, min : Value \cup {Null},
              max : Value \cup {Null}, avg : Fraction \cup {Null}]
Sample == [sequence : 1 .. MaxCount, value : Value]

ASSUME NullAssumption == Null \notin Aggregate /\ Null \notin Fraction

TypeOK ==
  /\ exists \in BOOLEAN
  /\ lock \in Writer \cup {Null}
  /\ aggregate \in [Bucket -> Aggregate \cup {Null}]
  /\ samples \in [Bucket -> SUBSET Sample]
  /\ pc \in [Writer -> {"idle", "begun", "locked", "read"}]
  /\ bucket \in [Writer -> Bucket \cup {Null}]
  /\ value \in [Writer -> Value \cup {Null}]
  /\ \A w \in Writer : pc[w] # "idle" => bucket[w] \in Bucket /\ value[w] \in Value
  /\ seen \in [Writer -> Aggregate \cup {Null}]
  /\ attempts \in [Writer -> 0 .. MaxAttempts - 1]
  /\ legacy \in [Bucket -> Aggregate \cup {Null}]

Whole(v) == [num |-> v, den |-> 1]

(***************************************************************************)
(* The arithmetic of an aggregate.                                         *)
(***************************************************************************)

FirstAggregate(v) ==
  [count |-> 1, last |-> v, min |-> v, max |-> v, avg |-> Whole(v)]

\* Mutant: a missing average counts as zero.
NextAverageFromZero(a, v) ==
  LET base == IF a.avg = Null THEN Whole(0) ELSE a.avg IN
  [num |-> base.num * a.count + v * base.den, den |-> base.den * (a.count + 1)]

\* base * (count / next) + v / next, where the reading itself stands for a missing average.
NextAverage(a, v) ==
  LET base == IF a.avg = Null THEN Whole(v) ELSE a.avg IN
  [num |-> base.num * a.count + v * base.den, den |-> base.den * (a.count + 1)]

NextAggregate(a, v) ==
  [count |-> a.count + 1, last |-> v,
   min |-> IF a.min = Null \/ v < a.min THEN v ELSE a.min,
   max |-> IF a.max = Null \/ a.max < v THEN v ELSE a.max,
   avg |-> NextAverage(a, v)]

\* The row the transaction of w leaves behind, from the row it has read.
Updated(w) == IF seen[w] = Null THEN FirstAggregate(value[w]) ELSE NextAggregate(seen[w], value[w])

\* Mutant: the limit is noticed one reading too late.
AtLimitLate(w) == seen[w] # Null /\ seen[w].count > MaxCount

AtLimit(w) == seen[w] # Null /\ seen[w].count = MaxCount

\* Mutant: the connection goes back to the pool with its lock.
UnlockNever(w) == UNCHANGED lock

Unlock(w) == lock' = IF lock = w THEN Null ELSE lock

\* The handler answers its client.
Finish(w) ==
  /\ pc' = [pc EXCEPT ![w] = "idle"]
  /\ bucket' = [bucket EXCEPT ![w] = Null]
  /\ value' = [value EXCEPT ![w] = Null]
  /\ seen' = [seen EXCEPT ![w] = Null]
  /\ attempts' = [attempts EXCEPT ![w] = 0]
  /\ Unlock(w)

\* dbQuery runs the block from its start.
Restart(w) ==
  /\ attempts[w] + 1 < MaxAttempts
  /\ pc' = [pc EXCEPT ![w] = "begun"]
  /\ seen' = [seen EXCEPT ![w] = Null]
  /\ attempts' = [attempts EXCEPT ![w] = @ + 1]
  /\ Unlock(w)
  /\ UNCHANGED <<bucket, value>>

(***************************************************************************)
(* The transaction.                                                        *)
(***************************************************************************)

\* The route has seen that the caller may write to this transformer.
Receive(w, b, v) ==
  /\ pc[w] = "idle" /\ exists
  /\ pc' = [pc EXCEPT ![w] = "begun"]
  /\ bucket' = [bucket EXCEPT ![w] = b]
  /\ value' = [value EXCEPT ![w] = v]
  /\ UNCHANGED <<rows, lock, seen, attempts, legacy>>

\* Mutant: the parent is read without FOR UPDATE.
LockTransformerNoLock(w) ==
  /\ pc[w] = "begun" /\ exists
  /\ pc' = [pc EXCEPT ![w] = "locked"]
  /\ UNCHANGED <<rows, lock, bucket, value, seen, attempts, legacy>>

LockTransformer(w) ==
  /\ pc[w] = "begun" /\ exists /\ lock = Null
  /\ lock' = w
  /\ pc' = [pc EXCEPT ![w] = "locked"]
  /\ UNCHANGED <<rows, bucket, value, seen, attempts, legacy>>

TransformerGone(w) ==
  /\ pc[w] = "begun" /\ ~exists
  /\ Finish(w)
  /\ UNCHANGED <<rows, legacy>>

ReadAggregate(w) ==
  /\ pc[w] = "locked"
  /\ seen' = [seen EXCEPT ![w] = aggregate[bucket[w]]]
  /\ pc' = [pc EXCEPT ![w] = "read"]
  /\ UNCHANGED <<rows, lock, bucket, value, attempts, legacy>>

LimitReached(w) ==
  /\ pc[w] = "read" /\ AtLimit(w)
  /\ Finish(w)
  /\ UNCHANGED <<rows, legacy>>

\* INSERT or UPDATE of the aggregate, then the sample numbered with its new count.
Write(w) ==
  /\ pc[w] = "read" /\ ~AtLimit(w)
  /\ aggregate' = [aggregate EXCEPT ![bucket[w]] = Updated(w)]
  /\ samples' = [samples EXCEPT ![bucket[w]] =
                   @ \cup {[sequence |-> Updated(w).count, value |-> value[w]]}]
  /\ UNCHANGED <<exists, legacy>>

Commit(w) == Write(w) /\ Finish(w)

\* The commit succeeds but its answer is lost: to dbQuery it is an SQL error, and the
\* block runs again.
UnansweredCommit(w) == Write(w) /\ (Restart(w) \/ (attempts[w] + 1 = MaxAttempts /\ Finish(w)))

\* Anything else that fails is rolled back; after an SQL error the block runs again.
Fail(w) ==
  /\ pc[w] # "idle"
  /\ Restart(w) \/ Finish(w)
  /\ UNCHANGED <<rows, legacy>>

\* deleteTransformer: its lock first, then every row of the transformer.
DeleteTransformer ==
  /\ exists /\ lock = Null
  /\ exists' = FALSE
  /\ aggregate' = [b \in Bucket |-> Null]
  /\ samples' = [b \in Bucket |-> {}]
  /\ UNCHANGED <<lock, pc, bucket, value, seen, attempts, legacy>>

\* Rows older than the samples table.  The columns for average and range may be NULL,
\* each by itself; `filled` are those that the version which wrote the row filled.
LegacyAggregates ==
  {[count |-> LegacyCount, last |-> v,
    min |-> IF "min" \in filled THEN v ELSE Null,
    max |-> IF "max" \in filled THEN v ELSE Null,
    avg |-> IF "avg" \in filled THEN Whole(v) ELSE Null] :
      v \in Value, filled \in SUBSET {"min", "max", "avg"}}

Init ==
  /\ exists = TRUE /\ lock = Null
  /\ aggregate \in [Bucket -> LegacyAggregates \cup {Null}]
  /\ legacy = aggregate
  /\ samples = [b \in Bucket |-> {}]
  /\ pc = [w \in Writer |-> "idle"]
  /\ bucket = [w \in Writer |-> Null]
  /\ value = [w \in Writer |-> Null]
  /\ seen = [w \in Writer |-> Null]
  /\ attempts = [w \in Writer |-> 0]

Step(w) ==
  \/ LockTransformer(w) \/ TransformerGone(w) \/ ReadAggregate(w) \/ LimitReached(w)
  \/ Commit(w) \/ UnansweredCommit(w) \/ Fail(w)

Next ==
  \/ DeleteTransformer
  \/ \E w \in Writer : \/ \E b \in Bucket, v \in Value : Receive(w, b, v)
                       \/ Step(w)

Spec == Init /\ [][Next]_vars

(***************************************************************************)
(* Properties.                                                             *)
(***************************************************************************)

LegacyReadings(b) == IF legacy[b] = Null THEN 0 ELSE legacy[b].count
Readings(b) == {s.value : s \in samples[b]}
Total(b) == MapThenSumSet(LAMBDA s : s.value, samples[b])

\* What the readings from before the samples table count for in the average.
LegacyMean(b) ==
  IF legacy[b].avg # Null THEN legacy[b].last
  ELSE (CHOOSE s \in samples[b] : s.sequence = LegacyReadings(b) + 1).value

\* Each aggregate says exactly what its samples say, whatever writers, retries and
\* lost answers interleave: samples are numbered without gap or repetition up to the
\* count, and last value, range and average are those of the numbered readings.  A
\* writer that computed from a row read before another writer's commit would break it.
AggregateIsExact ==
  \A b \in Bucket : samples[b] # {} =>
    LET a == aggregate[b]
        n == LegacyReadings(b)
        lows == Readings(b) \cup (IF n > 0 THEN {legacy[b].min} \ {Null} ELSE {})
        highs == Readings(b) \cup (IF n > 0 THEN {legacy[b].max} \ {Null} ELSE {})
    IN /\ a # Null
       /\ Cardinality(samples[b]) = a.count - n
       /\ {s.sequence : s \in samples[b]} = n + 1 .. a.count
       /\ [sequence |-> a.count, value |-> a.last] \in samples[b]
       /\ a.min = Min(lows) /\ a.max = Max(highs)
       /\ a.avg.num * a.count = a.avg.den * (Total(b) + IF n = 0 THEN 0 ELSE n * LegacyMean(b))

\* The row that bucket b began with did not have an average without a least (greatest)
\* reading beside it.
LowKept(b) == legacy[b] # Null /\ legacy[b].avg # Null => legacy[b].min # Null
HighKept(b) == legacy[b] # Null /\ legacy[b].avg # Null => legacy[b].max # Null

\* An average lies within the range beside it, also in a row whose average, or average and
\* range, were missing when the first sample came.  It does not where the row had an average
\* and lacked that end of the range: the readings the average counts are not in the range,
\* which begins with the first sample.
AverageWithinRange ==
  \A b \in Bucket :
    aggregate[b] # Null /\ aggregate[b].avg # Null =>
      /\ LowKept(b) => aggregate[b].min * aggregate[b].avg.den <= aggregate[b].avg.num
      /\ HighKept(b) => aggregate[b].avg.num <= aggregate[b].max * aggregate[b].avg.den

\* The samples of a bucket in the order of their numbers.
Numbered(b) ==
  [i \in 1 .. Cardinality(samples[b]) |->
     (CHOOSE s \in samples[b] : s.sequence = LegacyReadings(b) + i).value]

Log == INSTANCE MetricLog WITH log <- [b \in Bucket |-> Numbered(b)]

\* The store implements the log of MetricLog: committed readings are only ever added,
\* at the end of their bucket and whole, up to the limit of the counter.
IngestIsALog == Log!Spec

(***************************************************************************)
(* Why they hold.                                                          *)
(***************************************************************************)

\* The row lock makes the readers of aggregates exclusive, so what a writer has read
\* is still the row when it commits, and the next sequence number is free.
NothingReadIsStale ==
  \A w \in Writer :
    /\ pc[w] \in {"locked", "read"} => lock = w /\ exists
    /\ lock = w => pc[w] \in {"locked", "read"}
    /\ pc[w] = "read" => seen[w] = aggregate[bucket[w]]

Count(b) == IF aggregate[b] = Null THEN 0 ELSE aggregate[b].count

\* While the transformer is there, the readings from before the samples table count.
LegacyCounted == exists => \A b \in Bucket : LegacyReadings(b) <= Count(b)

\* Samples are numbered from the first number after the legacy readings to the count.
NumbersContiguous ==
  \A b \in Bucket : {s.sequence : s \in samples[b]} = LegacyReadings(b) + 1 .. Count(b)

\* A number identifies a sample: the primary key of metric_samples.
NumbersUnique ==
  \A b \in Bucket : \A s, x \in samples[b] : s.sequence = x.sequence => s = x

NumberingInv ==
  TypeOK /\ NothingReadIsStale /\ LegacyCounted /\ NumbersContiguous /\ NumbersUnique

\* A row that has an average has a least (greatest) reading beside it, which is not above
\* (below) the average.
AboveLeast(a) ==
  a # Null /\ a.avg # Null => a.min # Null /\ a.min * a.avg.den <= a.avg.num
BelowGreatest(a) ==
  a # Null /\ a.avg # Null => a.max # Null /\ a.avg.num <= a.max * a.avg.den

RangeInv ==
  \A b \in Bucket : /\ LowKept(b) => AboveLeast(aggregate[b])
                    /\ HighKept(b) => BelowGreatest(aggregate[b])

\* The row of a bucket without samples is the one it began with, and only such a row
\* may be without an average.
LegacyStands ==
  /\ legacy \in [Bucket -> LegacyAggregates \cup {Null}]
  /\ \A b \in Bucket : IF samples[b] = {} THEN exists => aggregate[b] = legacy[b]
                                          ELSE aggregate[b].avg # Null

IngestInv == NumberingInv /\ RangeInv /\ LegacyStands
=============================================================================
