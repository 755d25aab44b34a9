------------------------ MODULE MetricsIngest_proofs ------------------------
(***************************************************************************)
(* The samples of every bucket are numbered without gap or repetition, the *)
(* store implements MetricLog, averages lie in their range, and every row  *)
(* says exactly what its samples say, for any number of writers, buckets,  *)
(* readings and attempts.                                                  *)
(***************************************************************************)
EXTENDS MetricsIngest, FiniteSetTheorems, SequenceTheorems, TLAPS

LEMMA InitType == Init => TypeOK
BY ValueAssumption, CountAssumption
DEF Init, TypeOK, LegacyAggregates, Aggregate, Whole, Fraction

\* What TypeOK says of locks and requests.
RequestsType ==
  /\ lock \in Writer \cup {Null}
  /\ pc \in [Writer -> {"idle", "begun", "locked", "read"}]
  /\ bucket \in [Writer -> Bucket \cup {Null}]
  /\ value \in [Writer -> Value \cup {Null}]
  /\ \A w \in Writer : pc[w] # "idle" => bucket[w] \in Bucket /\ value[w] \in Value
  /\ seen \in [Writer -> Aggregate \cup {Null}]
  /\ attempts \in [Writer -> 0 .. MaxAttempts - 1]

\* Ending or restarting a transaction keeps locks and requests well typed.
LEMMA EndType ==
  ASSUME TypeOK, NEW w \in Writer, pc[w] # "idle", Finish(w) \/ Restart(w)
  PROVE  RequestsType'
<1>1. CASE Finish(w)
  BY <1>1, CountAssumption DEF TypeOK, RequestsType, Finish, Unlock
<1>2. CASE Restart(w)
  BY <1>2, CountAssumption DEF TypeOK, RequestsType, Restart, Unlock
<1> QED BY <1>1, <1>2

\* The new row of an aggregate below the limit is well typed, and counts one more.
LEMMA UpdatedType ==
  ASSUME TypeOK, NEW w \in Writer, pc[w] # "idle", ~AtLimit(w)
  PROVE  /\ Updated(w) \in Aggregate
         /\ Updated(w).count = IF seen[w] = Null THEN 1 ELSE seen[w].count + 1
<1> DEFINE a == seen[w]
           v == value[w]
<1>1. v \in Value /\ v \in Int /\ v # Null /\ MaxCount \in Nat \ {0}
  BY ValueAssumption, CountAssumption DEF TypeOK
<1>2. CASE a = Null
  BY <1>1, <1>2 DEF Updated, FirstAggregate, Aggregate, Whole, Fraction
<1>3. CASE a # Null
  <2>1. a \in Aggregate /\ a.count \in 1 .. MaxCount /\ a.count # MaxCount
    BY <1>3 DEF TypeOK, AtLimit, Aggregate
  <2>2. a.count + 1 \in 1 .. MaxCount
    BY <2>1, <1>1
  <2>3. NextAverage(a, v) \in Fraction
    <3> DEFINE base == IF a.avg = Null THEN Whole(v) ELSE a.avg
    <3>1. base \in Fraction
      BY <1>1, <2>1 DEF Aggregate, Whole, Fraction
    <3>2. base.num \in Int /\ base.den \in Nat \ {0}
      BY <3>1 DEF Fraction
    <3>3. base.den * (a.count + 1) \in Nat \ {0}
      BY <3>2, <2>1, <1>1
    <3>4. base.num * a.count + v * base.den \in Int
      BY <3>2, <2>1, <1>1
    <3> QED BY <3>3, <3>4 DEF NextAverage, Fraction
  <2>4. Updated(w) = NextAggregate(a, v)
    BY <1>3 DEF Updated
  <2> QED BY <1>1, <1>3, <2>1, <2>2, <2>3, <2>4 DEF NextAggregate, Aggregate
<1> QED BY <1>2, <1>3

LEMMA WriteType ==
  ASSUME TypeOK, NEW w \in Writer, Write(w)
  PROVE  /\ exists' \in BOOLEAN
         /\ aggregate' \in [Bucket -> Aggregate \cup {Null}]
         /\ samples' \in [Bucket -> SUBSET Sample]
         /\ legacy' \in [Bucket -> Aggregate \cup {Null}]
<1>1. Updated(w) \in Aggregate
  BY UpdatedType DEF Write
<1>2. [sequence |-> Updated(w).count, value |-> value[w]] \in Sample
  BY <1>1 DEF Write, TypeOK, Sample, Aggregate
<1> QED BY <1>1, <1>2 DEF Write, TypeOK

LEMMA TypeInductive == TypeOK /\ [Next]_vars => TypeOK'
<1> SUFFICES ASSUME TypeOK, [Next]_vars
             PROVE  TypeOK'
  OBVIOUS
<1>1. CASE DeleteTransformer
  BY <1>1 DEF DeleteTransformer, TypeOK
<1>2. ASSUME NEW w \in Writer, NEW b \in Bucket, NEW v \in Value, Receive(w, b, v)
      PROVE  TypeOK'
  BY <1>2 DEF Receive, TypeOK, rows
<1>3. ASSUME NEW w \in Writer, Step(w) PROVE TypeOK'
  <2>1. CASE LockTransformer(w)
    BY <2>1 DEF LockTransformer, TypeOK, rows
  <2>2. CASE ReadAggregate(w)
    BY <2>2 DEF ReadAggregate, TypeOK, rows
  <2>3. CASE TransformerGone(w) \/ LimitReached(w) \/ Fail(w)
    <3>1. RequestsType'
      BY <2>3, EndType DEF TransformerGone, LimitReached, Fail
    <3>2. UNCHANGED <<rows, legacy>>
      BY <2>3 DEF TransformerGone, LimitReached, Fail
    <3> QED BY <3>1, <3>2 DEF RequestsType, TypeOK, rows
  <2>4. CASE Commit(w) \/ UnansweredCommit(w)
    <3>1. Write(w) /\ pc[w] # "idle" /\ (Finish(w) \/ Restart(w))
      BY <2>4 DEF Commit, UnansweredCommit, Write
    <3> QED BY <3>1, EndType, WriteType DEF RequestsType, TypeOK
  <2> QED BY <1>3, <2>1, <2>2, <2>3, <2>4 DEF Step
<1>4. CASE UNCHANGED vars
  BY <1>4 DEF vars, rows, TypeOK
<1> QED BY <1>1, <1>2, <1>3, <1>4 DEF Next

-----------------------------------------------------------------------------
(***************************************************************************)
(* A transaction keeps the row lock from before its read until its end, so *)
(* the count it has read is the count it increments.                       *)
(***************************************************************************)

LEMMA InitIngest == Init => NumberingInv
<1> SUFFICES ASSUME Init PROVE NumberingInv
  OBVIOUS
<1>1. TypeOK
  BY InitType
<1>2. NothingReadIsStale /\ NumbersUnique
  BY WriterAssumption DEF Init, NothingReadIsStale, NumbersUnique
<1>3. ASSUME NEW b \in Bucket PROVE LegacyReadings(b) = Count(b) /\ Count(b) \in Nat
  BY <1>1, CountAssumption DEF Init, TypeOK, LegacyReadings, Count, Aggregate
<1>4. LegacyCounted
  BY <1>3 DEF LegacyCounted
<1>5. NumbersContiguous
  <2> SUFFICES ASSUME NEW b \in Bucket
               PROVE  {s.sequence : s \in samples[b]} = LegacyReadings(b) + 1 .. Count(b)
    BY DEF NumbersContiguous
  <2>1. {s.sequence : s \in samples[b]} = {}
    BY DEF Init
  <2>2. \A n \in Nat : n + 1 .. n = {}
    OBVIOUS
  <2> QED BY <1>3, <2>1, <2>2
<1> QED BY <1>1, <1>2, <1>4, <1>5 DEF NumberingInv

\* Steps that change no row change nothing the numbering is about.
LEMMA SameNumbers ==
  ASSUME LegacyCounted, NumbersContiguous, NumbersUnique, UNCHANGED <<rows, legacy>>
  PROVE  LegacyCounted' /\ NumbersContiguous' /\ NumbersUnique'
BY DEF rows, LegacyCounted, NumbersContiguous, NumbersUnique, LegacyReadings, Count

\* The transaction of w is over or starts again; the others are where they were.
Stops(w) ==
  /\ Unlock(w)
  /\ pc'[w] \in {"idle", "begun"}
  /\ \A x \in Writer \ {w} : /\ pc'[x] = pc[x] /\ seen'[x] = seen[x]
                             /\ bucket'[x] = bucket[x]

LEMMA EndStops ==
  ASSUME TypeOK, NEW w \in Writer, Finish(w) \/ Restart(w)
  PROVE  Stops(w)
BY DEF TypeOK, Finish, Restart, Stops

\* Only the holder of the lock has read a row, so nobody else misses its write.
LEMMA StopsFresh ==
  ASSUME NothingReadIsStale, NEW w \in Writer, Stops(w), exists' = exists,
         aggregate' = aggregate \/ lock = w
  PROVE  NothingReadIsStale'
BY WriterAssumption DEF NothingReadIsStale, Stops, Unlock

\* The sample of a commit takes the number after the last.
LEMMA WriteNumbers ==
  ASSUME NumberingInv, NEW w \in Writer, Write(w)
  PROVE  LegacyCounted' /\ NumbersContiguous' /\ NumbersUnique'
<1> PICK b \in Bucket : b = bucket[w]
  BY DEF NumberingInv, TypeOK, Write
<1> PICK n : n = Updated(w).count
  OBVIOUS
<1> PICK new : new = [sequence |-> n, value |-> value[w]]
  OBVIOUS
<1>1. exists /\ seen[w] = aggregate[b]
  BY DEF NumberingInv, Write, NothingReadIsStale
<1>2. Updated(w) \in Aggregate /\ n = Count(b) + 1
  <2>1. Updated(w) \in Aggregate /\ n = IF seen[w] = Null THEN 1 ELSE seen[w].count + 1
    BY UpdatedType DEF NumberingInv, Write
  <2> QED BY <1>1, <2>1 DEF Count
<1>3. Updated(w) # Null
  BY <1>2, NullAssumption
<1>4. \A c \in Bucket : Count(c) \in Nat /\ LegacyReadings(c) \in Nat
  BY CountAssumption DEF NumberingInv, TypeOK, Count, LegacyReadings, Aggregate
<1>5. /\ aggregate' = [aggregate EXCEPT ![b] = Updated(w)]
      /\ samples' = [samples EXCEPT ![b] = @ \cup {new}]
      /\ legacy' = legacy /\ exists' = exists
  BY DEF Write
<1>6. Count(b)' = n /\ \A c \in Bucket \ {b} : Count(c)' = Count(c)
  BY <1>3, <1>5 DEF NumberingInv, TypeOK, Count
<1>7. \A c \in Bucket : LegacyReadings(c)' = LegacyReadings(c)
  BY <1>5 DEF LegacyReadings
<1>8. /\ samples'[b] = samples[b] \cup {new}
      /\ \A c \in Bucket \ {b} : samples'[c] = samples[c]
  BY <1>1, <1>5 DEF NumberingInv, TypeOK
<1>9. {s.sequence : s \in samples[b]} = LegacyReadings(b) + 1 .. Count(b)
      /\ LegacyReadings(b) <= Count(b)
  BY <1>1 DEF NumberingInv, NumbersContiguous, LegacyCounted
<1>10. LegacyCounted'
  BY <1>1, <1>2, <1>4, <1>5, <1>6, <1>7 DEF NumberingInv, LegacyCounted
<1>11. NumbersContiguous'
  <2> SUFFICES ASSUME NEW c \in Bucket
               PROVE  {s.sequence : s \in samples'[c]} = LegacyReadings(c)' + 1 .. Count(c)'
    BY DEF NumbersContiguous
  <2>1. CASE c = b
    <3>1. {s.sequence : s \in samples'[b]} = {s.sequence : s \in samples[b]} \cup {n}
      <4>1. new.sequence = n
        OBVIOUS
      <4> QED BY <1>8, <4>1
    <3>2. \A i, j \in Nat : i <= j => (i + 1 .. j) \cup {j + 1} = i + 1 .. j + 1
      OBVIOUS
    <3>3. {s.sequence : s \in samples[b]} \cup {n} = LegacyReadings(b) + 1 .. n
      BY <3>2, <1>2, <1>4, <1>9
    <3>4. LegacyReadings(b)' = LegacyReadings(b) /\ Count(b)' = n
      BY <1>6, <1>7
    <3> QED BY <2>1, <3>1, <3>3, <3>4
  <2>2. CASE c # b
    BY <2>2, <1>6, <1>7, <1>8 DEF NumberingInv, NumbersContiguous
  <2> QED BY <2>1, <2>2
<1>12. NumbersUnique'
  <2> SUFFICES ASSUME NEW c \in Bucket, NEW s \in samples'[c], NEW x \in samples'[c],
                      s.sequence = x.sequence
               PROVE  s = x
    BY DEF NumbersUnique
  <2>1. CASE c = b
    <3>1. \A y \in samples[b] : y.sequence # n
      BY <1>2, <1>4, <1>9
    <3> QED BY <2>1, <3>1, <1>8 DEF NumberingInv, NumbersUnique
  <2>2. CASE c # b
    BY <2>2, <1>8 DEF NumberingInv, NumbersUnique
  <2> QED BY <2>1, <2>2
<1> QED BY <1>10, <1>11, <1>12

LEMMA IngestInductive == NumberingInv /\ [Next]_vars => NumberingInv'
<1> SUFFICES ASSUME NumberingInv, [Next]_vars
             PROVE  NumberingInv'
  OBVIOUS
<1>1. TypeOK'
  BY TypeInductive DEF NumberingInv
<1>2. CASE DeleteTransformer
  <2>1. NothingReadIsStale'
    BY <1>2, WriterAssumption DEF DeleteTransformer, NumberingInv, NothingReadIsStale
  <2>2. LegacyCounted' /\ NumbersUnique'
    BY <1>2 DEF DeleteTransformer, LegacyCounted, NumbersUnique
  <2>3. NumbersContiguous'
    <3> SUFFICES ASSUME NEW b \in Bucket
                 PROVE  {s.sequence : s \in samples'[b]} = LegacyReadings(b)' + 1 .. Count(b)'
      BY DEF NumbersContiguous
    <3>1. {s.sequence : s \in samples'[b]} = {} /\ Count(b)' = 0
      BY <1>2 DEF DeleteTransformer, Count
    <3>2. LegacyReadings(b)' \in Nat
      BY <1>1, CountAssumption DEF TypeOK, LegacyReadings, Aggregate
    <3>3. \A n \in Nat : n + 1 .. 0 = {}
      OBVIOUS
    <3> QED BY <3>1, <3>2, <3>3
  <2> QED BY <1>1, <2>1, <2>2, <2>3 DEF NumberingInv
<1>3. ASSUME NEW w \in Writer, NEW b \in Bucket, NEW v \in Value, Receive(w, b, v)
      PROVE  NumberingInv'
  <2>1. NothingReadIsStale'
    BY <1>3, WriterAssumption DEF Receive, rows, NumberingInv, TypeOK, NothingReadIsStale
  <2>2. UNCHANGED <<rows, legacy>>
    BY <1>3 DEF Receive
  <2> QED BY <1>1, <2>1, <2>2, SameNumbers DEF NumberingInv
<1>4. ASSUME NEW w \in Writer, Step(w) PROVE NumberingInv'
  <2>1. CASE LockTransformer(w)
    <3>1. NothingReadIsStale'
      BY <2>1, WriterAssumption
      DEF LockTransformer, rows, NumberingInv, TypeOK, NothingReadIsStale
    <3>2. UNCHANGED <<rows, legacy>>
      BY <2>1 DEF LockTransformer
    <3> QED BY <1>1, <3>1, <3>2, SameNumbers DEF NumberingInv
  <2>2. CASE ReadAggregate(w)
    <3>1. NothingReadIsStale'
      BY <2>2 DEF ReadAggregate, rows, NumberingInv, TypeOK, NothingReadIsStale
    <3>2. UNCHANGED <<rows, legacy>>
      BY <2>2 DEF ReadAggregate
    <3> QED BY <1>1, <3>1, <3>2, SameNumbers DEF NumberingInv
  <2>3. CASE TransformerGone(w) \/ LimitReached(w) \/ Fail(w)
    <3>1. Stops(w) /\ UNCHANGED <<rows, legacy>>
      BY <2>3, EndStops DEF NumberingInv, TransformerGone, LimitReached, Fail
    <3>2. NothingReadIsStale'
      BY <3>1, StopsFresh DEF NumberingInv, rows
    <3> QED BY <1>1, <3>1, <3>2, SameNumbers DEF NumberingInv
  <2>4. CASE Commit(w) \/ UnansweredCommit(w)
    <3>1. Write(w) /\ (Finish(w) \/ Restart(w))
      BY <2>4 DEF Commit, UnansweredCommit
    <3>2. NothingReadIsStale'
      <4>1. Stops(w)
        BY <3>1, EndStops DEF NumberingInv
      <4>2. lock = w /\ exists' = exists
        BY <3>1 DEF Write, NumberingInv, NothingReadIsStale
      <4> QED BY <4>1, <4>2, StopsFresh DEF NumberingInv
    <3> QED BY <1>1, <3>1, <3>2, WriteNumbers DEF NumberingInv
  <2> QED BY <1>4, <2>1, <2>2, <2>3, <2>4 DEF Step
<1>5. CASE UNCHANGED vars
  <2>1. NothingReadIsStale'
    BY <1>5 DEF vars, rows, NumberingInv, NothingReadIsStale
  <2>2. UNCHANGED <<rows, legacy>>
    BY <1>5 DEF vars
  <2> QED BY <1>1, <2>1, <2>2, SameNumbers DEF NumberingInv
<1> QED BY <1>2, <1>3, <1>4, <1>5 DEF Next

\* NumberingInv holds in every reachable state.
LEMMA NumberingInvariant == Spec => []NumberingInv
BY InitIngest, IngestInductive, PTL DEF Spec

-----------------------------------------------------------------------------
(***************************************************************************)
(* The samples of a bucket, in the order of their numbers, are a log.      *)
(***************************************************************************)

\* The i-th of the samples S, which are numbered from L + 1.
Nth(S, L, i) == CHOOSE s \in S : s.sequence = L + i

\* The samples S have the numbers L + 1 to L + k, each of them once.
NumberedFrom(S, L, k) ==
  /\ {s.sequence : s \in S} = L + 1 .. L + k
  /\ \A s, x \in S : s.sequence = x.sequence => s = x

\* Such samples are as many as the numbers, and each of them is found by its number.
LEMMA SamplesCounted ==
  ASSUME NEW S, NEW L \in Nat, NEW k \in Nat, NumberedFrom(S, L, k)
  PROVE  /\ Cardinality(S) = k /\ IsFiniteSet(S)
         /\ \A i \in 1 .. k : Nth(S, L, i) \in S /\ Nth(S, L, i).sequence = L + i
<1> DEFINE f == [i \in 1 .. k |-> Nth(S, L, i)]
<1>1. \A i \in 1 .. k : Nth(S, L, i) \in S /\ Nth(S, L, i).sequence = L + i
  <2> TAKE i \in 1 .. k
  <2>1. \E s \in S : s.sequence = L + i
    <3>1. L + i \in L + 1 .. L + k
      OBVIOUS
    <3> QED BY <3>1 DEF NumberedFrom
  <2> QED BY <2>1 DEF Nth
<1>2. f \in Bijection(1 .. k, S)
  <2>1. f \in [1 .. k -> S]
    BY <1>1
  <2>2. \A i, j \in 1 .. k : f[i] = f[j] => i = j
    BY <1>1
  <2>3. \A s \in S : \E i \in 1 .. k : f[i] = s
    <3> TAKE s \in S
    <3>1. s.sequence \in L + 1 .. L + k
      BY DEF NumberedFrom
    <3>2. PICK i \in 1 .. k : s.sequence = L + i
      <4>1. s.sequence - L \in 1 .. k /\ s.sequence = L + (s.sequence - L)
        BY <3>1
      <4> QED BY <4>1
    <3>3. f[i] = s
      BY <3>2, <1>1 DEF NumberedFrom
    <3> QED BY <3>3
  <2> QED BY <2>1, <2>2, <2>3 DEF Bijection, Injection, IsInjective, Surjection
<1>3. Cardinality(S) = k /\ IsFiniteSet(S)
  <2> HIDE DEF f
  <2>1. ExistsBijection(1 .. k, S)
    BY <1>2 DEF ExistsBijection
  <2> QED BY <2>1, FS_CountingElements, FS_NatBijection
<1> QED BY <1>1, <1>3

\* The values of such samples in the order of their numbers.
InOrder(S, L) == [i \in 1 .. Cardinality(S) |-> Nth(S, L, i).value]

\* The samples with one more, which has the next number.
OneMore(S, L, k, v) == S \cup {[sequence |-> L + k + 1, value |-> v]}

\* The new sample comes last in that order.
LEMMA NextSampleLast ==
  ASSUME NEW S, S \subseteq Sample, NEW L \in Nat, NEW k \in Nat, NumberedFrom(S, L, k),
         NEW v \in Value
  PROVE  /\ Len(InOrder(S, L)) = k
         /\ InOrder(OneMore(S, L, k, v), L) = Append(InOrder(S, L), v)
<1> DEFINE T == OneMore(S, L, k, v)
           m == k + 1
           new == [sequence |-> L + k + 1, value |-> v]
<1>1. m \in Nat
  OBVIOUS
<1>2. NumberedFrom(T, L, m)
  <2>1. {s.sequence : s \in T} = {s.sequence : s \in S} \cup {L + m}
    <3>1. \A s : s \in T <=> s \in S \/ s = new
      BY DEF OneMore
    <3>2. new.sequence = L + m
      OBVIOUS
    <3> HIDE DEF T, new, m
    <3> QED BY <3>1, <3>2
  <2>2. \A s, x \in T : s.sequence = x.sequence => s = x
    BY DEF NumberedFrom, OneMore
  <2>3. L + 1 .. L + m = (L + 1 .. L + k) \cup {L + m}
    OBVIOUS
  <2> QED BY <2>1, <2>2, <2>3 DEF NumberedFrom
<1>3. new \in T /\ S \subseteq T /\ \A s \in T : s.value \in Value
  BY DEF Sample, OneMore
<1>4. m \in 1 .. m /\ new.sequence = L + m /\ new.value = v
  OBVIOUS
<1>5. 1 .. k \subseteq 1 .. m /\ \A i \in 1 .. m : i \in 1 .. k \/ i = m
  OBVIOUS
<1> HIDE DEF T, m, new
<1>6. /\ Cardinality(S) = k
      /\ \A i \in 1 .. k : Nth(S, L, i) \in S /\ Nth(S, L, i).sequence = L + i
  BY SamplesCounted
<1>7. /\ Cardinality(T) = m
      /\ \A i \in 1 .. m : Nth(T, L, i) \in T /\ Nth(T, L, i).sequence = L + i
  BY <1>1, <1>2, SamplesCounted
<1>8. \A i \in 1 .. k : Nth(T, L, i) = Nth(S, L, i)
  <2> TAKE i \in 1 .. k
  <2>1. i \in 1 .. m /\ Nth(S, L, i) \in T
    BY <1>6, <1>3, <1>5
  <2> QED BY <2>1, <1>2, <1>6, <1>7 DEF NumberedFrom
<1>9. Nth(T, L, m) = new
  BY <1>2, <1>7, <1>3, <1>4 DEF NumberedFrom
<1>10. /\ InOrder(S, L) \in Seq(Value) /\ Len(InOrder(S, L)) = k
      /\ \A i \in 1 .. k : InOrder(S, L)[i] = Nth(S, L, i).value
  <2>1. InOrder(S, L) = [i \in 1 .. k |-> Nth(S, L, i).value]
    BY <1>6 DEF InOrder
  <2> QED BY <2>1, <1>6, <1>3
<1>11. /\ InOrder(T, L) \in Seq(Value) /\ Len(InOrder(T, L)) = m
      /\ \A i \in 1 .. m : InOrder(T, L)[i] = Nth(T, L, i).value
  <2>1. InOrder(T, L) = [i \in 1 .. m |-> Nth(T, L, i).value]
    BY <1>7 DEF InOrder
  <2> QED BY <2>1, <1>1, <1>7, <1>3
<1>12. /\ Append(InOrder(S, L), v) \in Seq(Value) /\ Len(Append(InOrder(S, L), v)) = m
      /\ \A i \in 1 .. k : Append(InOrder(S, L), v)[i] = InOrder(S, L)[i]
      /\ Append(InOrder(S, L), v)[m] = v
  BY <1>10, AppendProperties DEF m
<1>13. \A i \in 1 .. m : InOrder(T, L)[i] = Append(InOrder(S, L), v)[i]
  <2> TAKE i \in 1 .. m
  <2>1. CASE i \in 1 .. k
    BY <2>1, <1>8, <1>10, <1>11, <1>12
  <2>2. CASE i = m
    BY <2>2, <1>9, <1>11, <1>12, <1>4
  <2> QED BY <2>1, <2>2, <1>5
<1>14. InOrder(T, L) = Append(InOrder(S, L), v)
  BY <1>11, <1>12, <1>13, SeqEqual
<1> QED BY <1>10, <1>14 DEF T

\* The numbering of a bucket whose samples stay is the same.
LEMMA SameNumbering ==
  ASSUME NEW b \in Bucket, samples'[b] = samples[b], legacy' = legacy
  PROVE  Numbered(b)' = Numbered(b)
BY DEF Numbered, LegacyReadings

\* A commit adds its value at the end of the log of its bucket, below the limit.
LEMMA WriteAppends ==
  ASSUME NumberingInv, NEW w \in Writer, Write(w)
  PROVE  \E b \in Bucket, v \in Value :
           /\ Len(Numbered(b)) < MaxCount
           /\ Numbered(b)' = Append(Numbered(b), v)
           /\ \A c \in Bucket \ {b} : Numbered(c)' = Numbered(c)
<1> PICK b \in Bucket, v \in Value : b = bucket[w] /\ v = value[w]
  BY DEF NumberingInv, TypeOK, Write
<1> DEFINE n == Updated(w).count
           new == [sequence |-> n, value |-> v]
           L == LegacyReadings(b)
           C == Count(b)
           S == samples[b]
<1>1. legacy' = legacy /\ exists
  BY DEF NumberingInv, NothingReadIsStale, Write
<1>2. /\ samples'[b] = S \cup {new}
      /\ \A c \in Bucket \ {b} : samples'[c] = samples[c]
  BY DEF NumberingInv, TypeOK, Write
<1>3. L \in Nat /\ C \in Nat /\ L <= C
  BY <1>1, CountAssumption
  DEF NumberingInv, TypeOK, Count, LegacyReadings, LegacyCounted, Aggregate
<1>4. n = C + 1 /\ n <= MaxCount
  <2>1. Updated(w) \in Aggregate /\ n = IF seen[w] = Null THEN 1 ELSE seen[w].count + 1
    BY UpdatedType DEF NumberingInv, Write
  <2>2. seen[w] = aggregate[b]
    BY DEF NumberingInv, NothingReadIsStale, Write
  <2> QED BY <2>1, <2>2, CountAssumption DEF Count, Aggregate
<1>5. S \subseteq Sample /\ NumberedFrom(S, L, C - L)
  BY <1>3 DEF NumberedFrom, NumberingInv, TypeOK, NumbersContiguous, NumbersUnique
<1>6. /\ Len(InOrder(S, L)) = C - L
      /\ InOrder(samples'[b], L) = Append(InOrder(S, L), v)
  <2>1. C - L \in Nat /\ n = L + (C - L) + 1
    BY <1>3, <1>4
  <2>2. samples'[b] = OneMore(S, L, C - L, v)
    BY <2>1, <1>2 DEF OneMore
  <2> DEFINE k == C - L
  <2> HIDE DEF n, new, L, C, S, k
  <2>3. /\ Len(InOrder(S, L)) = k
        /\ InOrder(OneMore(S, L, k, v), L) = Append(InOrder(S, L), v)
    <3>1. k \in Nat /\ NumberedFrom(S, L, k)
      BY <2>1, <1>5 DEF k
    <3> QED BY <3>1, <1>3, <1>5, NextSampleLast
  <2> QED BY <2>2, <2>3 DEF k
<1>7. Numbered(b) = InOrder(S, L) /\ Numbered(b)' = InOrder(samples'[b], L)
  BY <1>1, <1>2 DEF Numbered, InOrder, Nth, LegacyReadings
<1>8. Len(Numbered(b)) < MaxCount
  BY <1>3, <1>4, <1>6, <1>7, CountAssumption
<1>9. \A c \in Bucket \ {b} : Numbered(c)' = Numbered(c)
  BY <1>1, <1>2, SameNumbering
<1> QED BY <1>6, <1>7, <1>8, <1>9

\* The log of every bucket, which the store refines.
Logs == [b \in Bucket |-> Numbered(b)]

LEMMA LogInit == Init => Log!Init
<1> SUFFICES ASSUME Init PROVE Log!Init
  OBVIOUS
<1>1. \A b \in Bucket : Numbered(b) = <<>>
  BY FS_EmptySet DEF Init, Numbered
<1> QED BY <1>1 DEF Log!Init

LEMMA LogStep == NumberingInv /\ [Next]_vars => [Log!Next]_Logs
<1> SUFFICES ASSUME NumberingInv, [Next]_vars
             PROVE  Log!Next \/ Logs' = Logs
  OBVIOUS
<1>1. CASE DeleteTransformer
  <2>1. \A b \in Bucket : Numbered(b)' = <<>>
    BY <1>1, FS_EmptySet DEF DeleteTransformer, Numbered
  <2>2. Log!Erase
    BY <2>1 DEF Log!Erase
  <2> QED BY <2>2 DEF Log!Next
<1>2. ASSUME NEW w \in Writer, Write(w)
      PROVE  Log!Next
  <2>1. PICK b \in Bucket, v \in Value :
           /\ Len(Numbered(b)) < MaxCount
           /\ Numbered(b)' = Append(Numbered(b), v)
           /\ \A c \in Bucket \ {b} : Numbered(c)' = Numbered(c)
    BY <1>2, WriteAppends
  <2>2. Log!Record(b, v)
    BY <2>1 DEF Log!Record
  <2> QED BY <2>2 DEF Log!Next
<1>3. CASE UNCHANGED <<rows, legacy>>
  BY <1>3, SameNumbering DEF rows, Logs
<1>4. \/ DeleteTransformer \/ UNCHANGED <<rows, legacy>>
      \/ \E w \in Writer : Write(w)
  BY DEF Next, Receive, Step, LockTransformer, TransformerGone, ReadAggregate, LimitReached,
         Commit, UnansweredCommit, Fail, vars, rows
<1> QED BY <1>1, <1>2, <1>3, <1>4

\* The store implements MetricLog: whatever writers, retries and lost answers interleave,
\* a reading is added whole, at the end of its bucket, and nothing is rewritten until the
\* transformer goes.
THEOREM IngestRefinesLog == Spec => IngestIsALog
<1>1. Log!Init /\ [][Log!Next]_Logs => Log!Spec
  BY DEF Log!Spec, Logs
<1> QED BY <1>1, LogInit, LogStep, NumberingInvariant, PTL DEF Spec, IngestIsALog

-----------------------------------------------------------------------------
(***************************************************************************)
(* An average lies within the range beside it.                             *)
(***************************************************************************)

\* The comparison of a product with two factors that grow.
LEMMA Monotone ==
  ASSUME NEW x \in Int, NEW y \in Int, NEW c \in Nat, x <= y
  PROVE  x * c <= y * c
OBVIOUS

\* A mean of a value and of earlier values is no less than what bounds both from below...
LEMMA MeanAbove ==
  ASSUME NEW lo \in Int, NEW v \in Int, NEW num \in Int, NEW den \in Nat, NEW c \in Nat,
         lo * den <= num, lo <= v
  PROVE  lo * (den * (c + 1)) <= num * c + v * den
<1>1. (lo * den) * c <= num * c
  BY Monotone
<1>2. lo * den <= v * den
  BY Monotone
<1>3. lo * (den * (c + 1)) = (lo * den) * c + lo * den
  OBVIOUS
<1> QED BY <1>1, <1>2, <1>3

\* ... and no more than what bounds both from above.
LEMMA MeanBelow ==
  ASSUME NEW hi \in Int, NEW v \in Int, NEW num \in Int, NEW den \in Nat, NEW c \in Nat,
         num <= hi * den, v <= hi
  PROVE  num * c + v * den <= hi * (den * (c + 1))
<1>1. num * c <= (hi * den) * c
  BY Monotone
<1>2. v * den <= hi * den
  BY Monotone
<1>3. hi * (den * (c + 1)) = (hi * den) * c + hi * den
  OBVIOUS
<1> QED BY <1>1, <1>2, <1>3

\* The average of the next row, in numbers.
LEMMA NextMean ==
  ASSUME NEW a \in Aggregate, NEW v \in Value
  PROVE  \E num \in Int, den \in Nat \ {0} :
           /\ a.avg = Null => num = v /\ den = 1
           /\ a.avg # Null => num = a.avg.num /\ den = a.avg.den
           /\ NextAggregate(a, v).avg.num = num * a.count + v * den
           /\ NextAggregate(a, v).avg.den = den * (a.count + 1)
<1> DEFINE base == IF a.avg = Null THEN Whole(v) ELSE a.avg
<1>1. base.num \in Int /\ base.den \in Nat \ {0}
  BY ValueAssumption DEF Aggregate, Fraction, Whole
<1>2. /\ a.avg = Null => base.num = v /\ base.den = 1
      /\ a.avg # Null => base.num = a.avg.num /\ base.den = a.avg.den
  BY DEF Whole
<1>3. /\ NextAggregate(a, v).avg.num = base.num * a.count + v * base.den
      /\ NextAggregate(a, v).avg.den = base.den * (a.count + 1)
  BY DEF NextAggregate, NextAverage
<1> HIDE DEF base
<1> QED BY <1>1, <1>2, <1>3

\* The average of the next row is not below its least reading when that of the row before
\* was not.
LEMMA NextAboveLeast ==
  ASSUME NEW a \in Aggregate, NEW v \in Value, AboveLeast(a)
  PROVE  AboveLeast(NextAggregate(a, v))
<1> PICK lo : lo = NextAggregate(a, v).min
  OBVIOUS
<1> PICK c : c = a.count
  OBVIOUS
<1>1. v \in Int /\ v # Null /\ c \in Nat /\ (a.min # Null => a.min \in Int)
  <2>1. v \in Int /\ v # Null
    BY ValueAssumption
  <2>2. a.count \in Nat
    BY CountAssumption DEF Aggregate
  <2>3. a.min \in Value \cup {Null}
    BY DEF Aggregate
  <2> QED BY <2>1, <2>2, <2>3, ValueAssumption
<1>2. lo = IF a.min = Null \/ v < a.min THEN v ELSE a.min
  BY DEF NextAggregate
<1>3. lo \in Int /\ lo # Null /\ lo <= v /\ (a.min # Null => lo <= a.min)
  BY <1>1, <1>2
<1>4. PICK num \in Int, den \in Nat \ {0} :
         /\ a.avg = Null => num = v /\ den = 1
         /\ a.avg # Null => num = a.avg.num /\ den = a.avg.den
         /\ NextAggregate(a, v).avg.num = num * c + v * den
         /\ NextAggregate(a, v).avg.den = den * (c + 1)
  BY NextMean
<1>5. lo * den <= num
  <2>1. CASE a.avg = Null
    BY <2>1, <1>3, <1>4
  <2>2. CASE a.avg # Null
    <3>1. a.min # Null /\ a.min \in Int /\ a.min * den <= num
      BY <2>2, <1>1, <1>4, NullAssumption DEF AboveLeast
    <3>2. lo * den <= a.min * den
      BY <3>1, <1>3, Monotone
    <3> QED BY <3>1, <3>2, <1>3
  <2> QED BY <2>1, <2>2
<1>6. lo * (den * (c + 1)) <= num * c + v * den
  BY <1>1, <1>3, <1>5, MeanAbove
<1> QED BY <1>3, <1>4, <1>6 DEF AboveLeast

\* Nor is it above its greatest reading.
LEMMA NextBelowGreatest ==
  ASSUME NEW a \in Aggregate, NEW v \in Value, BelowGreatest(a)
  PROVE  BelowGreatest(NextAggregate(a, v))
<1> PICK hi : hi = NextAggregate(a, v).max
  OBVIOUS
<1> PICK c : c = a.count
  OBVIOUS
<1>1. v \in Int /\ v # Null /\ c \in Nat /\ (a.max # Null => a.max \in Int)
  <2>1. v \in Int /\ v # Null
    BY ValueAssumption
  <2>2. a.count \in Nat
    BY CountAssumption DEF Aggregate
  <2>3. a.max \in Value \cup {Null}
    BY DEF Aggregate
  <2> QED BY <2>1, <2>2, <2>3, ValueAssumption
<1>2. hi = IF a.max = Null \/ a.max < v THEN v ELSE a.max
  BY DEF NextAggregate
<1>3. hi \in Int /\ hi # Null /\ v <= hi /\ (a.max # Null => a.max <= hi)
  BY <1>1, <1>2
<1>4. PICK num \in Int, den \in Nat \ {0} :
         /\ a.avg = Null => num = v /\ den = 1
         /\ a.avg # Null => num = a.avg.num /\ den = a.avg.den
         /\ NextAggregate(a, v).avg.num = num * c + v * den
         /\ NextAggregate(a, v).avg.den = den * (c + 1)
  BY NextMean
<1>5. num <= hi * den
  <2>1. CASE a.avg = Null
    BY <2>1, <1>3, <1>4
  <2>2. CASE a.avg # Null
    <3>1. a.max # Null /\ a.max \in Int /\ num <= a.max * den
      BY <2>2, <1>1, <1>4, NullAssumption DEF BelowGreatest
    <3>2. a.max * den <= hi * den
      BY <3>1, <1>3, Monotone
    <3> QED BY <3>1, <3>2, <1>3
  <2> QED BY <2>1, <2>2
<1>6. num * c + v * den <= hi * (den * (c + 1))
  BY <1>1, <1>3, <1>5, MeanBelow
<1> QED BY <1>3, <1>4, <1>6 DEF BelowGreatest

\* A first row is in range.
LEMMA FirstInRange ==
  ASSUME NEW v \in Value
  PROVE  AboveLeast(FirstAggregate(v)) /\ BelowGreatest(FirstAggregate(v))
BY ValueAssumption DEF FirstAggregate, AboveLeast, BelowGreatest, Whole

LEMMA RangeInit == Init => RangeInv
<1> SUFFICES ASSUME Init, NEW b \in Bucket
             PROVE  /\ LowKept(b) => AboveLeast(aggregate[b])
                    /\ HighKept(b) => BelowGreatest(aggregate[b])
  BY DEF RangeInv
<1> PICK a : a = aggregate[b]
  OBVIOUS
<1>1. legacy[b] = a
  BY DEF Init
<1>2. CASE a = Null
  BY <1>2 DEF AboveLeast, BelowGreatest
<1>3. CASE a \in LegacyAggregates
  <2>1. PICK v \in Value : /\ a.min \in {v, Null} /\ a.max \in {v, Null}
                           /\ a.avg \in {Whole(v), Null}
    BY <1>3 DEF LegacyAggregates
  <2>2. v \in Int /\ v # Null /\ Whole(v).num = v /\ Whole(v).den = 1
    BY ValueAssumption DEF Whole
  <2> QED BY <2>1, <2>2, <1>1 DEF LowKept, HighKept, AboveLeast, BelowGreatest
<1> QED BY <1>2, <1>3 DEF Init

LEMMA RangeStep == NumberingInv /\ RangeInv /\ [Next]_vars => RangeInv'
<1> SUFFICES ASSUME NumberingInv, RangeInv, [Next]_vars PROVE RangeInv'
  OBVIOUS
<1>1. CASE DeleteTransformer
  <2>1. \A b \in Bucket : aggregate'[b] = Null
    BY <1>1 DEF DeleteTransformer
  <2> QED BY <2>1 DEF RangeInv, AboveLeast, BelowGreatest
<1>2. ASSUME NEW w \in Writer, Write(w)
      PROVE  RangeInv'
  <2>1. bucket[w] \in Bucket /\ value[w] \in Value /\ seen[w] = aggregate[bucket[w]]
    BY <1>2 DEF Write, NumberingInv, TypeOK, NothingReadIsStale
  <2>2. /\ LowKept(bucket[w]) => AboveLeast(Updated(w))
        /\ HighKept(bucket[w]) => BelowGreatest(Updated(w))
    <3>1. CASE seen[w] = Null
      BY <3>1, <2>1, FirstInRange DEF Updated
    <3>2. CASE seen[w] # Null
      <4>1. /\ seen[w] \in Aggregate
            /\ LowKept(bucket[w]) => AboveLeast(seen[w])
            /\ HighKept(bucket[w]) => BelowGreatest(seen[w])
        BY <3>2, <2>1 DEF NumberingInv, TypeOK, RangeInv
      <4> QED BY <3>2, <4>1, <2>1, NextAboveLeast, NextBelowGreatest DEF Updated
    <3> QED BY <3>1, <3>2
  <2>3. /\ aggregate'[bucket[w]] = Updated(w)
        /\ \A c \in Bucket \ {bucket[w]} : aggregate'[c] = aggregate[c]
        /\ legacy' = legacy
    BY <1>2, <2>1 DEF Write, NumberingInv, TypeOK
  <2>4. ASSUME NEW c \in Bucket
        PROVE  /\ LowKept(c) => AboveLeast(aggregate'[c])
               /\ HighKept(c) => BelowGreatest(aggregate'[c])
    BY <2>2, <2>3 DEF RangeInv
  <2> QED BY <2>3, <2>4 DEF RangeInv, AboveLeast, BelowGreatest, LowKept, HighKept
<1>3. CASE UNCHANGED <<aggregate, legacy>>
  BY <1>3 DEF RangeInv, AboveLeast, BelowGreatest, LowKept, HighKept
<1>4. \/ DeleteTransformer \/ UNCHANGED <<aggregate, legacy>>
      \/ \E w \in Writer : Write(w)
  BY DEF Next, Receive, Step, LockTransformer, TransformerGone, ReadAggregate, LimitReached,
         Commit, UnansweredCommit, Fail, vars, rows
<1> QED BY <1>1, <1>2, <1>3, <1>4

-----------------------------------------------------------------------------
(***************************************************************************)
(* Sums over finite sets, as the fold of the library computes them: an     *)
(* element is picked and the sum of the others is added.  Which element it *)
(* is does not matter.  A statement about all finite sets follows from     *)
(* there being no least set that breaks it.                                *)
(***************************************************************************)

\* The sum of the readings of samples.
SumOf(S) == MapThenSumSet(LAMBDA s : s.value, S)

Pick(s) == CHOOSE x \in s : TRUE

\* g gives the sum of every subset of D, the way MapThenSumSet computes it.
SumsOf(g, D) ==
  g = [s \in SUBSET D |-> IF s = {} THEN 0 ELSE Pick(s).value + g[s \ {Pick(s)}]]

LEMMA SumIs ==
  ASSUME NEW D
  PROVE  SumOf(D) = (CHOOSE g : SumsOf(g, D))[D]
BY DEF SumOf, MapThenSumSet, MapThenFoldSet, SumsOf, Pick

\* Of the subsets of a finite set that have a property, one has no proper subset
\* that has it: what stands in for induction.
LEMMA LeastSubset ==
  ASSUME NEW D, IsFiniteSet(D), NEW Q \in SUBSET SUBSET D, Q # {}
  PROVE  \E m \in Q : \A u \in Q : u \subseteq m => u = m
<1>1. Q \subseteq FiniteSubsetsOf(D)
  BY FS_FiniteSubsetsOfFinite
<1>2. IsWellFoundedOn(StrictSubsetOrdering(D), FiniteSubsetsOf(D))
  BY FS_StrictSubsetOrderingWellFounded
<1>3. PICK m \in Q : \A u \in Q : <<u, m>> \notin StrictSubsetOrdering(D)
  BY <1>1, <1>2, WFMin
<1>4. \A u \in Q : u \subseteq m => u = m
  BY <1>3 DEF StrictSubsetOrdering
<1> QED BY <1>4

LEMMA PickFrom ==
  ASSUME NEW D, D # {}
  PROVE  Pick(D) \in D /\ D \ {Pick(D)} \subseteq D /\ D \ {Pick(D)} # D
BY DEF Pick

\* The sums of the subsets of a set do not depend on the set.
LEMMA SumsAgree ==
  ASSUME NEW D, IsFiniteSet(D), NEW E \in SUBSET D, NEW g, NEW h, SumsOf(g, D), SumsOf(h, E)
  PROVE  \A s \in SUBSET E : g[s] = h[s]
<1> DEFINE Q == {s \in SUBSET E : g[s] # h[s]}
<1> SUFFICES ASSUME Q # {} PROVE FALSE
  OBVIOUS
<1>1. PICK m \in Q : \A u \in Q : u \subseteq m => u = m
  <2>1. Q \in SUBSET SUBSET D
    OBVIOUS
  <2> HIDE DEF Q
  <2> QED BY <2>1, LeastSubset
<1>2. m \in SUBSET E /\ m \in SUBSET D /\ g[m] # h[m]
  OBVIOUS
<1>3. /\ g[m] = IF m = {} THEN 0 ELSE Pick(m).value + g[m \ {Pick(m)}]
      /\ h[m] = IF m = {} THEN 0 ELSE Pick(m).value + h[m \ {Pick(m)}]
  BY <1>2 DEF SumsOf
<1>4. CASE m = {}
  BY <1>2, <1>3, <1>4
<1>5. CASE m # {}
  <2>1. m \ {Pick(m)} \notin Q /\ m \ {Pick(m)} \in SUBSET E
    BY <1>1, <1>2, <1>5, PickFrom
  <2>2. g[m \ {Pick(m)}] = h[m \ {Pick(m)}]
    BY <2>1
  <2> QED BY <1>2, <1>3, <1>5, <2>2
<1> QED BY <1>4, <1>5

TheSums(D) == CHOOSE g : SumsOf(g, D)

\* A finite set has sums: otherwise one of its least subsets without would have them.
LEMMA SumsExist ==
  ASSUME NEW D, IsFiniteSet(D)
  PROVE  SumsOf(TheSums(D), D)
<1> DEFINE Q == {s \in SUBSET D : ~\E g : SumsOf(g, s)}
<1>1. Q = {}
  <2> SUFFICES ASSUME Q # {} PROVE FALSE
    OBVIOUS
  <2>1. PICK m \in Q : \A u \in Q : u \subseteq m => u = m
    <3>1. Q \in SUBSET SUBSET D
      OBVIOUS
    <3> HIDE DEF Q
    <3> QED BY <3>1, LeastSubset
  <2>2. m \in SUBSET D /\ ~\E g : SumsOf(g, m)
    OBVIOUS
  <2>3. \A s \in SUBSET m : s # m => SumsOf(TheSums(s), s) /\ IsFiniteSet(s)
    <3> TAKE s \in SUBSET m
    <3>1. s # m => \E g : SumsOf(g, s)
      BY <2>1, <2>2
    <3>2. IsFiniteSet(s)
      BY <2>2, FS_Subset
    <3> QED BY <3>1, <3>2 DEF TheSums
  <2> DEFINE rest(s) == s \ {Pick(s)}
             f == [s \in SUBSET m |-> IF s = {} THEN 0
                                      ELSE Pick(s).value + TheSums(rest(s))[rest(s)]]
  <2>4. ASSUME NEW s \in SUBSET m
        PROVE  f[s] = IF s = {} THEN 0 ELSE Pick(s).value + f[rest(s)]
    <3>1. CASE s = {}
      BY <3>1
    <3>2. CASE s # {}
      <4> DEFINE t == rest(s)
      <4>1. t \in SUBSET m /\ t # m
        BY <3>2, PickFrom
      <4>2. f[t] = TheSums(t)[t]
        <5>1. TheSums(t)[t] = IF t = {} THEN 0 ELSE Pick(t).value + TheSums(t)[rest(t)]
          <6> HIDE DEF t, f
          <6>1. SumsOf(TheSums(t), t) /\ t \in SUBSET t
            BY <4>1, <2>3
          <6> QED BY <6>1 DEF SumsOf
        <5>2. t # {} => TheSums(t)[rest(t)] = TheSums(rest(t))[rest(t)]
          <6> HIDE DEF t, f
          <6> SUFFICES ASSUME t # {} PROVE TheSums(t)[rest(t)] = TheSums(rest(t))[rest(t)]
            OBVIOUS
          <6>1. rest(t) \in SUBSET t /\ rest(t) # t
            BY PickFrom
          <6>2. rest(t) \in SUBSET m /\ rest(t) # m
            BY <6>1, <4>1
          <6> DEFINE r == rest(t)
          <6> HIDE DEF r
          <6>3. SumsOf(TheSums(t), t) /\ SumsOf(TheSums(r), r) /\ IsFiniteSet(t)
            BY <6>2, <4>1, <2>3 DEF r
          <6>4. TheSums(t)[r] = TheSums(r)[r]
            BY <6>1, <6>3, SumsAgree DEF r
          <6> QED BY <6>4 DEF r
        <5>3. f[t] = IF t = {} THEN 0 ELSE Pick(t).value + TheSums(rest(t))[rest(t)]
          <6> HIDE DEF t
          <6> QED BY <4>1
        <5> HIDE DEF t, f, rest
        <5> QED BY <5>1, <5>2, <5>3
      <4>3. f[s] = Pick(s).value + TheSums(t)[t]
        BY <3>2
      <4> HIDE DEF f
      <4> QED BY <3>2, <4>2, <4>3
    <3> QED BY <3>1, <3>2
  <2>5. SumsOf(f, m)
    <3>1. f = [s \in SUBSET m |-> f[s]]
      OBVIOUS
    <3> HIDE DEF f
    <3>2. [s \in SUBSET m |-> f[s]] =
            [s \in SUBSET m |-> IF s = {} THEN 0 ELSE Pick(s).value + f[rest(s)]]
      BY <2>4
    <3> QED BY <3>1, <3>2 DEF SumsOf
  <2> HIDE DEF f
  <2> QED BY <2>2, <2>5
<1>2. D \notin Q
  BY <1>1
<1> QED BY <1>2 DEF TheSums

\* What MapThenSumSet computes is the element it picks and the sum of the others.
LEMMA SumPicks ==
  ASSUME NEW D, IsFiniteSet(D)
  PROVE  SumOf(D) = IF D = {} THEN 0 ELSE Pick(D).value + SumOf(D \ {Pick(D)})
<1> DEFINE r == D \ {Pick(D)}
<1>1. SumOf(D) = TheSums(D)[D] /\ SumOf(r) = TheSums(r)[r]
  BY SumIs DEF TheSums
<1>2. SumsOf(TheSums(D), D)
  BY SumsExist
<1>3. TheSums(D)[D] = IF D = {} THEN 0 ELSE Pick(D).value + TheSums(D)[r]
  BY <1>2, D \in SUBSET D DEF SumsOf
<1>4. r \in SUBSET D /\ IsFiniteSet(r)
  BY FS_Subset
<1> HIDE DEF r
<1>5. TheSums(D)[r] = TheSums(r)[r]
  BY <1>2, <1>4, SumsExist, SumsAgree
<1> QED BY <1>1, <1>3, <1>5 DEF r

\* The sum of integers is an integer.
LEMMA SumIsInt ==
  ASSUME NEW D, IsFiniteSet(D), \A s \in D : s.value \in Int
  PROVE  \A S \in SUBSET D : SumOf(S) \in Int
<1> DEFINE Q == {S \in SUBSET D : SumOf(S) \notin Int}
<1> SUFFICES ASSUME Q # {} PROVE FALSE
  OBVIOUS
<1>1. PICK m \in Q : \A u \in Q : u \subseteq m => u = m
  <2>1. Q \in SUBSET SUBSET D
    OBVIOUS
  <2> HIDE DEF Q
  <2> QED BY <2>1, LeastSubset
<1>2. m \in SUBSET D /\ SumOf(m) \notin Int
  OBVIOUS
<1>3. SumOf(m) = IF m = {} THEN 0 ELSE Pick(m).value + SumOf(m \ {Pick(m)})
  BY <1>2, FS_Subset, SumPicks
<1>4. m # {}
  BY <1>2, <1>3
<1>5. SumOf(m \ {Pick(m)}) \in Int
  BY <1>1, <1>2, <1>4, PickFrom
<1>6. Pick(m).value \in Int
  BY <1>2, <1>4, PickFrom
<1> QED BY <1>2, <1>3, <1>4, <1>5, <1>6

\* Whichever element is taken out, the sum is that element and the sum of the others.
LEMMA SumTakesAny ==
  ASSUME NEW D, IsFiniteSet(D), \A s \in D : s.value \in Int
  PROVE  \A x \in D : SumOf(D) = x.value + SumOf(D \ {x})
<1> DEFINE Q == {S \in SUBSET D : \E x \in S : SumOf(S) # x.value + SumOf(S \ {x})}
<1> SUFFICES ASSUME Q # {} PROVE FALSE
  OBVIOUS
<1>1. PICK m \in Q : \A u \in Q : u \subseteq m => u = m
  <2>1. Q \in SUBSET SUBSET D
    OBVIOUS
  <2> HIDE DEF Q
  <2> QED BY <2>1, LeastSubset
<1>2. m \in SUBSET D
  OBVIOUS
<1>3. PICK x \in m : SumOf(m) # x.value + SumOf(m \ {x})
  OBVIOUS
<1>4. PICK p : p = Pick(m)
  OBVIOUS
<1>5. p \in m /\ SumOf(m) = p.value + SumOf(m \ {p})
  <2>1. IsFiniteSet(m) /\ m # {}
    BY <1>2, FS_Subset
  <2> QED BY <2>1, <1>4, PickFrom, SumPicks
<1>6. p # x
  BY <1>3, <1>5
<1>7. PICK both : both = m \ {p, x}
  OBVIOUS
<1>8. SumOf(m \ {p}) = x.value + SumOf(both)
  <2>1. m \ {p} \notin Q /\ m \ {p} \in SUBSET D /\ x \in m \ {p}
    BY <1>1, <1>2, <1>5, <1>6
  <2>2. (m \ {p}) \ {x} = both
    BY <1>7
  <2> QED BY <2>1, <2>2
<1>9. SumOf(m \ {x}) = p.value + SumOf(both)
  <2>1. m \ {x} \notin Q /\ m \ {x} \in SUBSET D /\ p \in m \ {x}
    BY <1>1, <1>2, <1>3, <1>5, <1>6
  <2>2. (m \ {x}) \ {p} = both
    BY <1>7
  <2> QED BY <2>1, <2>2
<1>10. SumOf(both) \in Int /\ p.value \in Int /\ x.value \in Int
  <2>1. both \in SUBSET D
    BY <1>2, <1>7
  <2> QED BY <2>1, <1>2, <1>3, <1>5, SumIsInt
<1> HIDE DEF Q
<1> QED BY <1>3, <1>5, <1>8, <1>9, <1>10

\* A new element adds its value to the sum.
LEMMA SumOfMore ==
  ASSUME NEW D, IsFiniteSet(D), \A s \in D : s.value \in Int, NEW x, x \notin D, x.value \in Int
  PROVE  SumOf(D \cup {x}) = SumOf(D) + x.value
<1> PICK E : E = D \cup {x}
  OBVIOUS
<1>1. IsFiniteSet(E) /\ x \in E /\ \A s \in E : s.value \in Int
  BY FS_AddElement
<1>2. SumOf(E) = x.value + SumOf(E \ {x})
  BY <1>1, SumTakesAny
<1>3. E \ {x} = D
  OBVIOUS
<1>4. SumOf(E \ {x}) = SumOf(D)
  BY <1>3, Zenon
<1>5. SumOf(D) \in Int
  BY SumIsInt
<1> QED BY <1>2, <1>4, <1>5

-----------------------------------------------------------------------------
(***************************************************************************)
(* What the row a says of the samples S and of the readings from before    *)
(* the samples table, which l keeps, is exact.                             *)
(***************************************************************************)

\* The readings that the least (greatest) is one of.
Lows(S, l) == {s.value : s \in S} \cup (IF l = Null THEN {} ELSE {l.min} \ {Null})
Highs(S, l) == {s.value : s \in S} \cup (IF l = Null THEN {} ELSE {l.max} \ {Null})

\* What the readings in l count for in the average.
Mean(S, l) ==
  IF l.avg # Null THEN l.last ELSE (CHOOSE s \in S : s.sequence = l.count + 1).value

SumBefore(S, l) == IF l = Null THEN 0 ELSE l.count * Mean(S, l)

IsLeast(K, lo) == lo \in K /\ \A x \in K : lo <= x
IsGreatest(K, hi) == hi \in K /\ \A x \in K : x <= hi

Exact(S, a, l) ==
  /\ a \in Aggregate /\ a.avg # Null
  /\ [sequence |-> a.count, value |-> a.last] \in S
  /\ IsLeast(Lows(S, l), a.min) /\ IsGreatest(Highs(S, l), a.max)
  /\ a.avg.num * a.count = a.avg.den * (SumOf(S) + SumBefore(S, l))

LEMMA SumOfOne ==
  ASSUME NEW x, x.value \in Int
  PROVE  SumOf({x}) = x.value
<1>1. IsFiniteSet({}) /\ {} \cup {x} = {x} /\ x \notin {}
  BY FS_EmptySet
<1>2. SumOf({}) = 0
  BY <1>1, SumPicks
<1>3. SumOf({} \cup {x}) = SumOf({}) + x.value
  BY <1>1, SumOfMore
<1> QED BY <1>1, <1>2, <1>3

\* What the row b after the row a says.
Follows(b, a, v) ==
  /\ b.count = a.count + 1 /\ b.last = v
  /\ b.min = IF a.min = Null \/ v < a.min THEN v ELSE a.min
  /\ b.max = IF a.max = Null \/ a.max < v THEN v ELSE a.max
  /\ b.avg # Null
  /\ \E num \in Int, den \in Nat \ {0} :
       /\ num = IF a.avg = Null THEN v ELSE a.avg.num
       /\ den = IF a.avg = Null THEN 1 ELSE a.avg.den
       /\ b.avg.num = num * a.count + v * den
       /\ b.avg.den = den * (a.count + 1)

LEMMA NextFollows ==
  ASSUME NEW a \in Aggregate, NEW v \in Value
  PROVE  Follows(NextAggregate(a, v), a, v)
<1> DEFINE b == NextAggregate(a, v)
           base == IF a.avg = Null THEN Whole(v) ELSE a.avg
<1>1. v \in Int /\ a.count \in Nat
  BY ValueAssumption, CountAssumption DEF Aggregate
<1>2. base.num \in Int /\ base.den \in Nat \ {0}
  <2>1. a.avg # Null => a.avg \in Fraction
    BY DEF Aggregate
  <2>2. Whole(v) \in Fraction
    BY <1>1 DEF Whole, Fraction
  <2> QED BY <2>1, <2>2 DEF Fraction
<1>3. /\ base.num = IF a.avg = Null THEN v ELSE a.avg.num
      /\ base.den = IF a.avg = Null THEN 1 ELSE a.avg.den
  BY DEF Whole
<1>4. /\ b.avg = [num |-> base.num * a.count + v * base.den, den |-> base.den * (a.count + 1)]
      /\ b.avg # Null
  <2>1. b.avg = [num |-> base.num * a.count + v * base.den, den |-> base.den * (a.count + 1)]
    BY DEF NextAggregate, NextAverage
  <2>2. base.num * a.count + v * base.den \in Int /\ base.den * (a.count + 1) \in Nat \ {0}
    BY <1>1, <1>2
  <2> HIDE DEF base
  <2>3. b.avg \in Fraction
    BY <2>1, <2>2 DEF Fraction
  <2> QED BY <2>1, <2>3, NullAssumption
<1>5. /\ b.count = a.count + 1 /\ b.last = v
      /\ b.min = IF a.min = Null \/ v < a.min THEN v ELSE a.min
      /\ b.max = IF a.max = Null \/ a.max < v THEN v ELSE a.max
  BY DEF NextAggregate
<1> HIDE DEF b, base
<1>6. b.avg.num = base.num * a.count + v * base.den /\ b.avg.den = base.den * (a.count + 1)
  BY <1>4
<1> QED BY <1>2, <1>3, <1>4, <1>5, <1>6 DEF Follows, b

\* A value is below the least of others, or leaves it the least...
LEMMA LeastFollows ==
  ASSUME NEW K, K \subseteq Int, NEW v \in Int, NEW lo, IsLeast(K, lo),
         NEW min, min = IF v < lo THEN v ELSE lo
  PROVE  IsLeast(K \cup {v}, min)
<1>1. lo \in Int
  BY DEF IsLeast
<1>2. min \in K \cup {v} /\ min \in Int /\ min <= lo /\ min <= v
  BY <1>1 DEF IsLeast
<1>3. ASSUME NEW x \in K PROVE min <= x
  BY <1>1, <1>2 DEF IsLeast
<1> QED BY <1>2, <1>3 DEF IsLeast

\* ... and so with the greatest.
LEMMA GreatestFollows ==
  ASSUME NEW K, K \subseteq Int, NEW v \in Int, NEW hi, IsGreatest(K, hi),
         NEW max, max = IF hi < v THEN v ELSE hi
  PROVE  IsGreatest(K \cup {v}, max)
<1>1. hi \in Int
  BY DEF IsGreatest
<1>2. max \in K \cup {v} /\ max \in Int /\ hi <= max /\ v <= max
  BY <1>1 DEF IsGreatest
<1>3. ASSUME NEW x \in K PROVE x <= max
  BY <1>1, <1>2 DEF IsGreatest
<1> QED BY <1>2, <1>3 DEF IsGreatest

\* An average that was exact stays exact.
LEMMA AverageFollows ==
  ASSUME NEW num \in Int, NEW den \in Int, NEW c \in Int, NEW t \in Int, NEW v \in Int,
         num * c = den * t
  PROVE  (num * c + v * den) * (c + 1) = (den * (c + 1)) * (t + v)
<1>1. num * c + v * den = den * (t + v)
  BY den * (t + v) = den * t + v * den
<1>2. den * (t + v) \in Int
  OBVIOUS
<1> QED BY <1>1, <1>2

\* The first reading of a bucket makes an exact row...
LEMMA FirstExact ==
  ASSUME NEW v \in Value, FirstAggregate(v) \in Aggregate
  PROVE  Exact({[sequence |-> 1, value |-> v]}, FirstAggregate(v), Null)
<1> PICK new : new = [sequence |-> 1, value |-> v]
  OBVIOUS
<1> PICK a : a = FirstAggregate(v)
  OBVIOUS
<1>1. v \in Int /\ new.value = v /\ SumOf({new}) = v
  BY SumOfOne, ValueAssumption
<1>2. Lows({new}, Null) = {v} /\ Highs({new}, Null) = {v} /\ SumBefore({new}, Null) = 0
  BY <1>1 DEF Lows, Highs, SumBefore
<1>3. IsLeast({v}, v) /\ IsGreatest({v}, v)
  BY <1>1 DEF IsLeast, IsGreatest
<1>4. /\ a.count = 1 /\ a.last = v /\ a.min = v /\ a.max = v
      /\ a.avg.num = v /\ a.avg.den = 1
  BY DEF FirstAggregate, Whole
<1>5. a.avg # Null
  BY <1>1, NullAssumption DEF FirstAggregate, Whole, Fraction
<1>6. a.avg.num * a.count = a.avg.den * (SumOf({new}) + SumBefore({new}, Null))
  BY <1>1, <1>2, <1>4
<1>7. IsLeast(Lows({new}, Null), a.min) /\ IsGreatest(Highs({new}, Null), a.max)
  BY <1>2, <1>3, <1>4, Zenon
<1> QED BY <1>4, <1>5, <1>6, <1>7 DEF Exact

\* ... and so does the first after those from before the samples table...
LEMMA LegacyExact ==
  ASSUME NEW l \in LegacyAggregates, NEW v \in Value,
         l \in Aggregate, NextAggregate(l, v) \in Aggregate
  PROVE  Exact({[sequence |-> l.count + 1, value |-> v]}, NextAggregate(l, v), l)
<1> PICK new : new = [sequence |-> l.count + 1, value |-> v]
  OBVIOUS
<1> PICK a : a = NextAggregate(l, v)
  OBVIOUS
<1> PICK u \in Value : /\ l.count = LegacyCount /\ l.last = u
                       /\ l.min \in {u, Null} /\ l.max \in {u, Null}
                       /\ l.avg \in {Whole(u), Null}
  BY DEF LegacyAggregates
<1>1. /\ u \in Int /\ v \in Int /\ u # Null /\ v # Null /\ l # Null /\ LegacyCount \in Nat
      /\ Whole(u) # Null /\ Whole(u).num = u /\ Whole(u).den = 1
  BY ValueAssumption, NullAssumption, CountAssumption DEF Whole, Fraction
<1>2. Follows(a, l, v)
  BY NextFollows
<1>3. new.value = v /\ SumOf({new}) = v
  BY <1>1, SumOfOne
<1>4. l.count = LegacyCount /\ (CHOOSE s \in {new} : s.sequence = l.count + 1) = new
  BY <1>1
<1> DEFINE mean == IF l.avg = Null THEN v ELSE u
<1>5. mean \in Int /\ SumBefore({new}, l) = LegacyCount * mean
  BY <1>1, <1>3, <1>4 DEF SumBefore, Mean
<1>6. IsLeast(Lows({new}, l), a.min)
  <2>1. a.min = IF l.min = Null \/ v < l.min THEN v ELSE l.min
    BY <1>2 DEF Follows
  <2>2. CASE l.min = Null
    <3>1. Lows({new}, l) = {v} /\ a.min = v
      BY <2>1, <2>2, <1>1, <1>3 DEF Lows
    <3>2. IsLeast({v}, v)
      BY <1>1 DEF IsLeast
    <3> QED BY <3>1, <3>2, Zenon
  <2>3. CASE l.min = u
    <3>1. Lows({new}, l) = {u} \cup {v} /\ a.min = IF v < u THEN v ELSE u
      BY <2>1, <2>3, <1>1, <1>3 DEF Lows
    <3>2. {u} \subseteq Int /\ IsLeast({u}, u)
      BY <1>1 DEF IsLeast
    <3>3. IsLeast({u} \cup {v}, a.min)
      BY <3>1, <3>2, <1>1, LeastFollows
    <3> QED BY <3>1, <3>3, Zenon
  <2> QED BY <2>2, <2>3
<1>9. IsGreatest(Highs({new}, l), a.max)
  <2>1. a.max = IF l.max = Null \/ l.max < v THEN v ELSE l.max
    BY <1>2 DEF Follows
  <2>2. CASE l.max = Null
    <3>1. Highs({new}, l) = {v} /\ a.max = v
      BY <2>1, <2>2, <1>1, <1>3 DEF Highs
    <3>2. IsGreatest({v}, v)
      BY <1>1 DEF IsGreatest
    <3> QED BY <3>1, <3>2, Zenon
  <2>3. CASE l.max = u
    <3>1. Highs({new}, l) = {u} \cup {v} /\ a.max = IF u < v THEN v ELSE u
      BY <2>1, <2>3, <1>1, <1>3 DEF Highs
    <3>2. {u} \subseteq Int /\ IsGreatest({u}, u)
      BY <1>1 DEF IsGreatest
    <3>3. IsGreatest({u} \cup {v}, a.max)
      BY <3>1, <3>2, <1>1, GreatestFollows
    <3> QED BY <3>1, <3>3, Zenon
  <2> QED BY <2>2, <2>3
<1>7. a.avg.num * a.count = a.avg.den * (SumOf({new}) + SumBefore({new}, l))
  <2>1. PICK num \in Int, den \in Nat \ {0} :
           /\ num = IF l.avg = Null THEN v ELSE l.avg.num
           /\ den = IF l.avg = Null THEN 1 ELSE l.avg.den
           /\ a.avg.num = num * LegacyCount + v * den
           /\ a.avg.den = den * (LegacyCount + 1)
    BY <1>2, <1>4 DEF Follows
  <2>2. num = mean /\ den = 1
    BY <2>1, <1>1
  <2> HIDE DEF mean
  <2> DEFINE t == LegacyCount * mean
  <2>3. t \in Int /\ num * LegacyCount = den * t
    BY <2>2, <1>1, <1>5
  <2> HIDE DEF t
  <2>4. (num * LegacyCount + v * den) * (LegacyCount + 1) = (den * (LegacyCount + 1)) * (t + v)
    BY <2>3, <1>1, AverageFollows
  <2>5. a.count = LegacyCount + 1
    BY <1>2, <1>4 DEF Follows
  <2>6. SumOf({new}) + SumBefore({new}, l) = t + v
    BY <2>3, <1>1, <1>3, <1>5 DEF t
  <2> QED BY <2>1, <2>4, <2>5, <2>6
<1>8. [sequence |-> a.count, value |-> a.last] = new /\ a.avg # Null
  BY <1>2 DEF Follows
<1> QED BY <1>6, <1>7, <1>8, <1>9 DEF Exact

\* ... and a reading added to an exact row.
LEMMA NextExact ==
  ASSUME NEW S, IsFiniteSet(S), S \subseteq Sample, NEW a, NEW l \in Aggregate \cup {Null},
         Exact(S, a, l), NEW v \in Value, NextAggregate(a, v) \in Aggregate,
         NEW new, new = [sequence |-> a.count + 1, value |-> v], new \notin S,
         l # Null => Mean(S, l) \in Int /\ Mean(S \cup {new}, l) = Mean(S, l)
  PROVE  Exact(S \cup {new}, NextAggregate(a, v), l)
<1> PICK T : T = S \cup {new}
  OBVIOUS
<1> PICK b : b = NextAggregate(a, v)
  OBVIOUS
<1>1. a \in Aggregate /\ a.count \in Nat /\ v \in Int /\ v # Null /\ a.avg # Null
  BY ValueAssumption, CountAssumption DEF Exact, Aggregate
<1>2. Follows(b, a, v)
  BY <1>1, NextFollows
<1>3. new.value = v /\ \A s \in S : s.value \in Int
  BY ValueAssumption DEF Sample
<1>4. SumOf(T) = SumOf(S) + v /\ SumOf(S) \in Int
  BY <1>1, <1>3, SumOfMore, SumIsInt
<1>5. SumBefore(T, l) = SumBefore(S, l) /\ SumBefore(S, l) \in Int
  BY CountAssumption DEF SumBefore, Aggregate
<1>6. /\ Lows(T, l) = Lows(S, l) \cup {v} /\ Lows(S, l) \subseteq Int
      /\ Highs(T, l) = Highs(S, l) \cup {v} /\ Highs(S, l) \subseteq Int
  <2>1. {s.value : s \in T} = {s.value : s \in S} \cup {v}
    BY <1>3
  <2>2. l # Null => l.min \in Int \cup {Null} /\ l.max \in Int \cup {Null}
    BY ValueAssumption DEF Aggregate
  <2>3. Lows(T, l) = Lows(S, l) \cup {v} /\ Lows(S, l) \subseteq Int
    BY <2>1, <2>2, <1>3 DEF Lows
  <2>4. Highs(T, l) = Highs(S, l) \cup {v} /\ Highs(S, l) \subseteq Int
    BY <2>1, <2>2, <1>3 DEF Highs
  <2> QED BY <2>3, <2>4
<1>7. IsLeast(Lows(T, l), b.min) /\ IsGreatest(Highs(T, l), b.max)
  <2>1. /\ IsLeast(Lows(S, l), a.min) /\ a.min \in Int
        /\ IsGreatest(Highs(S, l), a.max) /\ a.max \in Int
    BY <1>6 DEF Exact, IsLeast, IsGreatest
  <2>2. b.min = (IF v < a.min THEN v ELSE a.min) /\ b.max = (IF a.max < v THEN v ELSE a.max)
    BY <2>1, <1>2, ValueAssumption, NullAssumption DEF Follows
  <2>3. IsLeast(Lows(S, l) \cup {v}, b.min)
    BY <2>1, <2>2, <1>1, <1>6, LeastFollows
  <2>4. IsGreatest(Highs(S, l) \cup {v}, b.max)
    BY <2>1, <2>2, <1>1, <1>6, GreatestFollows
  <2> QED BY <2>3, <2>4, <1>6, Zenon
<1>8. b.avg.num * b.count = b.avg.den * (SumOf(T) + SumBefore(T, l))
  <2>1. PICK num \in Int, den \in Nat \ {0} :
           /\ num = a.avg.num /\ den = a.avg.den
           /\ b.avg.num = num * a.count + v * den
           /\ b.avg.den = den * (a.count + 1)
    BY <1>1, <1>2 DEF Follows
  <2> DEFINE t == SumOf(S) + SumBefore(S, l)
  <2>2. t \in Int /\ num * a.count = den * t
    BY <2>1, <1>4, <1>5 DEF Exact
  <2>3. SumOf(T) + SumBefore(T, l) = t + v
    BY <1>1, <1>4, <1>5
  <2> HIDE DEF t
  <2>4. (num * a.count + v * den) * (a.count + 1) = (den * (a.count + 1)) * (t + v)
    BY <2>2, <1>1, AverageFollows
  <2>5. b.count = a.count + 1
    BY <1>2 DEF Follows
  <2> QED BY <2>1, <2>3, <2>4, <2>5
<1>9. [sequence |-> b.count, value |-> b.last] = new /\ b.avg # Null
  BY <1>2 DEF Follows
<1> QED BY <1>7, <1>8, <1>9 DEF Exact

\* Every row is exact.
ExactInv ==
  LegacyStands /\ \A b \in Bucket : samples[b] # {} => Exact(samples[b], aggregate[b], legacy[b])

\* Samples that come later leave the first one the first.
LEMMA FirstSettled ==
  ASSUME NEW S, S \in SUBSET Sample, NEW L \in Nat, NEW k \in Nat, k > 0, NumberedFrom(S, L, k),
         NEW T, S \subseteq T, \A x \in T : x \in S \/ x.sequence = L + k + 1
  PROVE  Nth(T, L, 1) = Nth(S, L, 1) /\ Nth(S, L, 1).value \in Int
<1>1. L + 1 \in L + 1 .. L + k /\ L + k + 1 # L + 1
  OBVIOUS
<1>2. PICK s \in S : s.sequence = L + 1
  BY <1>1 DEF NumberedFrom
<1>3. \A x \in T : x.sequence = L + 1 => x = s
  BY <1>1, <1>2 DEF NumberedFrom
<1>4. Nth(S, L, 1) = s /\ Nth(T, L, 1) = s
  BY <1>2, <1>3 DEF Nth
<1>5. s.value \in Int
  BY ValueAssumption DEF Sample
<1> QED BY <1>4, <1>5

LEMMA ExactInit == Init => ExactInv
BY DEF Init, ExactInv, LegacyStands

\* A commit leaves an exact row.
LEMMA WriteExact ==
  ASSUME NumberingInv, ExactInv, NEW w \in Writer, Write(w)
  PROVE  Exact(samples'[bucket[w]], aggregate'[bucket[w]], legacy'[bucket[w]])
<1> PICK b \in Bucket, v \in Value : b = bucket[w] /\ v = value[w]
  BY DEF NumberingInv, TypeOK, Write
<1> PICK S : S = samples[b]
  OBVIOUS
<1> PICK a : a = aggregate[b]
  OBVIOUS
<1> PICK l : l = legacy[b]
  OBVIOUS
<1> PICK u : u = Updated(w)
  OBVIOUS
<1> PICK new : new = [sequence |-> u.count, value |-> v]
  OBVIOUS
<1>1. seen[w] = a /\ exists /\ l \in LegacyAggregates \cup {Null} /\ S \subseteq Sample
      /\ a \in Aggregate \cup {Null} /\ l \in Aggregate \cup {Null}
  BY DEF NumberingInv, NothingReadIsStale, Write, TypeOK, ExactInv, LegacyStands
<1>2. /\ u \in Aggregate
      /\ u.count = IF a = Null THEN 1 ELSE a.count + 1
  BY <1>1, UpdatedType DEF NumberingInv, Write
<1>3. u = IF a = Null THEN FirstAggregate(v) ELSE NextAggregate(a, v)
  BY <1>1 DEF Updated
<1>4. samples'[b] = S \cup {new} /\ aggregate'[b] = u /\ legacy'[b] = l /\ bucket[w] = b
  BY DEF NumberingInv, TypeOK, Write
<1>5. CASE S = {}
  <2>1. a = l
    BY <1>1, <1>5 DEF ExactInv, LegacyStands
  <2>2. S \cup {new} = {new}
    BY <1>5
  <2>3. CASE a = Null
    <3>1. new = [sequence |-> 1, value |-> v] /\ u = FirstAggregate(v)
      BY <2>3, <1>2, <1>3
    <3>2. Exact({[sequence |-> 1, value |-> v]}, FirstAggregate(v), Null)
      BY <3>1, <1>2, FirstExact
    <3>3. Exact({new}, u, l)
      BY <2>1, <2>3, <3>1, <3>2, Zenon
    <3> QED BY <3>3, <2>2, <1>4, Zenon
  <2>4. CASE a # Null
    <3>1. new = [sequence |-> l.count + 1, value |-> v] /\ u = NextAggregate(l, v)
          /\ l \in LegacyAggregates /\ l \in Aggregate
      BY <2>1, <2>4, <1>1, <1>2, <1>3
    <3>2. Exact({[sequence |-> l.count + 1, value |-> v]}, NextAggregate(l, v), l)
      BY <3>1, <1>2, LegacyExact
    <3>3. Exact({new}, u, l)
      BY <3>1, <3>2, Zenon
    <3> QED BY <3>3, <2>2, <1>4, Zenon
  <2> QED BY <2>3, <2>4
<1>6. CASE S # {}
  <2>1. Exact(S, a, l)
    BY <1>6 DEF ExactInv
  <2>2. a \in Aggregate /\ a # Null /\ a.count \in Nat
    BY <2>1, NullAssumption, CountAssumption DEF Exact, Aggregate
  <2>3. PICK L \in Nat : /\ L = LegacyReadings(b) /\ L <= a.count
                         /\ L = IF l = Null THEN 0 ELSE l.count
    <3>1. LegacyReadings(b) = IF l = Null THEN 0 ELSE l.count
      BY DEF LegacyReadings
    <3>2. LegacyReadings(b) \in Nat
      BY <1>1, <3>1, CountAssumption DEF Aggregate
    <3>3. LegacyReadings(b) <= a.count
      BY <1>1, <2>2 DEF NumberingInv, LegacyCounted, Count
    <3> QED BY <3>1, <3>2, <3>3
  <2>4. PICK k \in Nat : a.count = L + k /\ NumberedFrom(S, L, k)
    <3>1. a.count - L \in Nat /\ a.count = L + (a.count - L)
      BY <2>2, <2>3
    <3>2. {s.sequence : s \in S} = L + 1 .. a.count
      BY <2>2, <2>3 DEF NumberingInv, NumbersContiguous, Count
    <3>3. NumberedFrom(S, L, a.count - L)
      BY <3>1, <3>2 DEF NumberedFrom, NumberingInv, NumbersUnique
    <3> QED BY <3>1, <3>3
  <2>5. IsFiniteSet(S)
    BY <2>4, SamplesCounted
  <2>6. new = [sequence |-> a.count + 1, value |-> v] /\ u = NextAggregate(a, v)
    BY <1>2, <1>3, <2>2
  <2>7. new \notin S
    <3>1. new.sequence \notin L + 1 .. L + k
      BY <2>4, <2>6
    <3> QED BY <3>1, <2>4 DEF NumberedFrom
  <2>8. l # Null => Mean(S, l) \in Int /\ Mean(S \cup {new}, l) = Mean(S, l)
    <3> SUFFICES ASSUME l # Null
                 PROVE  Mean(S, l) \in Int /\ Mean(S \cup {new}, l) = Mean(S, l)
      OBVIOUS
    <3>1. L = l.count /\ l \in Aggregate
      BY <1>1, <2>3
    <3>2. k > 0
      <4>1. k = 0 => L + 1 .. L + k = {}
        OBVIOUS
      <4> QED BY <4>1, <1>6, <2>4 DEF NumberedFrom
    <3>3. Nth(S \cup {new}, L, 1) = Nth(S, L, 1) /\ Nth(S, L, 1).value \in Int
      <4> PICK T : T = S \cup {new}
        OBVIOUS
      <4>1. S \in SUBSET Sample /\ S \subseteq T /\ \A x \in T : x \in S \/ x.sequence = L + k + 1
        BY <1>1, <2>4, <2>6
      <4>2. Nth(T, L, 1) = Nth(S, L, 1) /\ Nth(S, L, 1).value \in Int
        BY <4>1, <3>2, <2>4, FirstSettled
      <4> QED BY <4>2, Zenon
    <3>4. CASE l.avg # Null
      BY <3>1, <3>4, ValueAssumption DEF Mean, Aggregate
    <3>5. CASE l.avg = Null
      <4>1. Mean(S, l) = Nth(S, L, 1).value /\ Mean(S \cup {new}, l) = Nth(S \cup {new}, L, 1).value
        BY <3>1, <3>5, Zenon DEF Mean, Nth
      <4> QED BY <4>1, <3>3
    <3> QED BY <3>4, <3>5
  <2>9. Exact(S \cup {new}, NextAggregate(a, v), l)
    BY <1>1, <1>2, <2>1, <2>5, <2>6, <2>7, <2>8, NextExact
  <2> QED BY <2>6, <2>9, <1>4, Zenon
<1> QED BY <1>5, <1>6

LEMMA ExactStep == NumberingInv /\ ExactInv /\ [Next]_vars => ExactInv'
<1> SUFFICES ASSUME NumberingInv, ExactInv, [Next]_vars PROVE ExactInv'
  OBVIOUS
<1>1. CASE DeleteTransformer
  BY <1>1 DEF DeleteTransformer, ExactInv, LegacyStands
<1>2. ASSUME NEW w \in Writer, Write(w)
      PROVE  ExactInv'
  <2>1. PICK b \in Bucket : b = bucket[w]
    BY <1>2 DEF Write, NumberingInv, TypeOK
  <2>2. Exact(samples'[b], aggregate'[b], legacy'[b])
    BY <1>2, <2>1, WriteExact
  <2>3. /\ \A c \in Bucket \ {b} : aggregate'[c] = aggregate[c] /\ samples'[c] = samples[c]
        /\ legacy' = legacy /\ exists' = exists /\ samples'[b] # {}
    BY <1>2, <2>1 DEF Write, NumberingInv, TypeOK
  <2>4. aggregate'[b].avg # Null
    BY <2>2 DEF Exact
  <2>5. LegacyStands'
    BY <2>3, <2>4 DEF ExactInv, LegacyStands
  <2>6. ASSUME NEW c \in Bucket, samples'[c] # {}
        PROVE  Exact(samples'[c], aggregate'[c], legacy'[c])
    BY <2>2, <2>3, <2>6 DEF ExactInv
  <2> QED BY <2>5, <2>6 DEF ExactInv
<1>3. CASE UNCHANGED <<rows, legacy>>
  BY <1>3 DEF rows, ExactInv, LegacyStands
<1>4. \/ DeleteTransformer \/ UNCHANGED <<rows, legacy>>
      \/ \E w \in Writer : Write(w)
  BY DEF Next, Receive, Step, LockTransformer, TransformerGone, ReadAggregate, LimitReached,
         Commit, UnansweredCommit, Fail, vars, rows
<1> QED BY <1>1, <1>2, <1>3, <1>4

LEMMA ExactInvariant == Spec => []ExactInv
BY ExactInit, ExactStep, NumberingInvariant, PTL DEF Spec

\* What a writer has read is still the row when it commits, the numbers of the samples of
\* every bucket run without gap or repetition up to its count, and averages are in range.
THEOREM IngestInvariant == Spec => []IngestInv
BY NumberingInvariant, ExactInvariant, RangeInit, RangeStep, PTL
DEF Spec, IngestInv, ExactInv

\* In every reachable state the average of each row lies between its least and its
\* greatest reading, also when the row began without an average, or without an average
\* and a range; a row that began with an average and without one end of the range is
\* only in range at its other end.
THEOREM AverageInRange == Spec => []AverageWithinRange
<1>1. IngestInv => AverageWithinRange
  BY DEF IngestInv, RangeInv, AboveLeast, BelowGreatest, AverageWithinRange
<1> QED BY <1>1, IngestInvariant, PTL

\* In every reachable state each row that has samples says what they say: their number,
\* the last of them, the range and the average of all readings.
THEOREM AggregatesExact == Spec => []AggregateIsExact
<1>1. NumberingInv /\ ExactInv => AggregateIsExact
  <2> SUFFICES ASSUME NumberingInv, ExactInv, NEW b \in Bucket, samples[b] # {}
               PROVE  LET a == aggregate[b]
                          n == LegacyReadings(b)
                          lows == Readings(b) \cup (IF n > 0 THEN {legacy[b].min} \ {Null} ELSE {})
                          highs == Readings(b) \cup (IF n > 0 THEN {legacy[b].max} \ {Null} ELSE {})
                      IN /\ a # Null
                         /\ Cardinality(samples[b]) = a.count - n
                         /\ {s.sequence : s \in samples[b]} = n + 1 .. a.count
                         /\ [sequence |-> a.count, value |-> a.last] \in samples[b]
                         /\ a.min = Min(lows) /\ a.max = Max(highs)
                         /\ a.avg.num * a.count =
                              a.avg.den * (Total(b) + IF n = 0 THEN 0 ELSE n * LegacyMean(b))
    BY DEF AggregateIsExact
  <2> PICK a : a = aggregate[b]
    OBVIOUS
  <2> PICK l : l = legacy[b]
    OBVIOUS
  <2> PICK n : n = LegacyReadings(b)
    OBVIOUS
  <2>1. Exact(samples[b], a, l)
    BY DEF ExactInv
  <2>2. a \in Aggregate /\ a # Null /\ a.count \in Nat
    BY <2>1, NullAssumption, CountAssumption DEF Exact, Aggregate
  <2>3. n = (IF l = Null THEN 0 ELSE l.count) /\ n \in Nat /\ (n > 0 <=> l # Null)
    BY CountAssumption DEF LegacyReadings, NumberingInv, TypeOK, Aggregate
  <2>4. {s.sequence : s \in samples[b]} = n + 1 .. a.count
    BY <2>2 DEF NumberingInv, NumbersContiguous, Count
  <2>5. Cardinality(samples[b]) = a.count - n
    <3>1. n + 1 <= a.count
      <4>1. PICK s \in samples[b] : TRUE
        OBVIOUS
      <4>2. s.sequence \in n + 1 .. a.count
        BY <2>4
      <4> QED BY <4>2, <2>2, <2>3
    <3>2. a.count - n \in Nat /\ a.count = n + (a.count - n)
      BY <3>1, <2>2, <2>3
    <3>3. NumberedFrom(samples[b], n, a.count - n)
      BY <3>2, <2>4 DEF NumberedFrom, NumberingInv, NumbersUnique
    <3> QED BY <3>2, <3>3, <2>3, SamplesCounted
  <2> PICK lows, highs :
         /\ lows = Readings(b) \cup (IF n > 0 THEN {l.min} \ {Null} ELSE {})
         /\ highs = Readings(b) \cup (IF n > 0 THEN {l.max} \ {Null} ELSE {})
    OBVIOUS
  <2>6. a.min = Min(lows) /\ a.max = Max(highs)
    <3>1. lows = Lows(samples[b], l) /\ highs = Highs(samples[b], l)
      BY <2>3 DEF Lows, Highs, Readings
    <3>2. IsLeast(lows, a.min) /\ IsGreatest(highs, a.max)
      BY <3>1, <2>1, Zenon DEF Exact
    <3>3. lows \subseteq Int /\ highs \subseteq Int
      <4>1. l \in Aggregate \cup {Null}
        BY DEF NumberingInv, TypeOK
      <4>2. l # Null => l.min \in Int \cup {Null} /\ l.max \in Int \cup {Null}
        BY <4>1, ValueAssumption DEF Aggregate
      <4>3. samples[b] \subseteq Sample
        BY DEF NumberingInv, TypeOK
      <4>4. \A s \in Sample : s.value \in Int
        BY ValueAssumption DEF Sample
      <4> QED BY <2>3, <4>2, <4>3, <4>4 DEF Readings
    <3>4. \A x \in lows : (\A y \in lows : x <= y) => x = a.min
      BY <3>2, <3>3 DEF IsLeast
    <3>5. \A x \in highs : (\A y \in highs : x >= y) => x = a.max
      BY <3>2, <3>3 DEF IsGreatest
    <3>6. \A y \in highs : a.max >= y
      BY <3>2, <3>3 DEF IsGreatest
    <3> QED BY <3>2, <3>4, <3>5, <3>6 DEF Min, Max, IsLeast, IsGreatest
  <2>7. a.avg.num * a.count =
          a.avg.den * (Total(b) + IF n = 0 THEN 0 ELSE n * LegacyMean(b))
    <3>1. Total(b) = SumOf(samples[b])
      BY DEF Total, SumOf
    <3>2. SumBefore(samples[b], l) = IF n = 0 THEN 0 ELSE n * LegacyMean(b)
      <4>1. l # Null => LegacyMean(b) = Mean(samples[b], l)
        BY <2>3 DEF LegacyMean, Mean
      <4> QED BY <4>1, <2>3 DEF SumBefore
    <3>3. a.avg.num * a.count = a.avg.den * (SumOf(samples[b]) + SumBefore(samples[b], l))
      BY <2>1 DEF Exact
    <3> QED BY <3>1, <3>2, <3>3
  <2>8. [sequence |-> a.count, value |-> a.last] \in samples[b]
    BY <2>1 DEF Exact
  <2> QED BY <2>2, <2>4, <2>5, <2>6, <2>7, <2>8
<1> QED BY <1>1, NumberingInvariant, ExactInvariant, PTL
=============================================================================
