--------------------------- MODULE HistoryPaging ---------------------------
(***************************************************************************)
(* MetricsRepository.list with resolution=samples, and fetchMetricHistory  *)
(* of readings.js, which asks for page after page of one metric key.  The  *)
(* history consists of samples and, for minutes without samples, of        *)
(* aggregates.  Devices choose the time of a reading, so samples are       *)
(* inserted anywhere, also while a client is paging.                       *)
(*                                                                         *)
(* A point is a time and a sequence number: that of a sample, or 0 for an  *)
(* aggregate, whose time is the start of its minute.                       *)
(***************************************************************************)
EXTENDS Naturals, FiniteSets

CONSTANTS
  Minute,      \* ticks of the clock in one
  LastTime,    \* bounds of the model: times are 0 .. LastTime,
  MaxSamples,  \* and so many samples are inserted
  Limit        \* points per page, 1000 in the program

ASSUME PagingAssumption ==
  /\ Minute \in Nat \ {0} /\ Limit \in Nat \ {0}
  /\ LastTime \in Nat /\ MaxSamples \in Nat

VARIABLES
  samples,   \* rows of metric_samples
  minutes,   \* rows of metrics_1m_kv, by their bucket_ts
  phase,     \* of the client: idle, paging, done, failed
  cursor,    \* before and beforeSequence of its next request
  history,   \* what it has got
  received,  \* how many points it has got
  due        \* auxiliary: the points there were when it began

vars == <<samples, minutes, phase, cursor, history, received, due>>

Time == 0 .. LastTime
Point == [time : Time, sequence : 0 .. MaxSamples]

\* Of the first request, which has no cursor.
Start == [time |-> LastTime + 1, sequence |-> 0]

TypeOK ==
  /\ samples \subseteq Point
  /\ minutes \subseteq Time
  /\ phase \in {"idle", "paging", "done", "failed"}
  /\ cursor \in Point \cup {Start}
  /\ history \subseteq Point
  /\ received \in Nat
  /\ due \subseteq Point
  /\ \A p \in samples : p.sequence > 0

BucketOf(t) == t - (t % Minute)
Sampled(b) == \E p \in samples : BucketOf(p.time) = b

Precedes(p, q) == p.time < q.time \/ (p.time = q.time /\ p.sequence < q.sequence)

\* ORDER BY time and sequence descending, LIMIT n.
Latest(n, points) == {p \in points : Cardinality({q \in points : Precedes(p, q)}) < n}

\* Mutant: the point of the cursor comes again.
SamplesUpTo(c) == {p \in samples : Precedes(p, c) \/ p = c}

SamplesBefore(c) == {p \in samples : Precedes(p, c)}

\* Mutant: sampled minutes are taken out after the limit.
AggregatesLimitedFirst(c) ==
  {p \in Latest(Limit, {[time |-> b, sequence |-> 0] : b \in {x \in minutes : x < c.time}}) :
     ~Sampled(p.time)}

\* "Exclude sampled minutes before limiting".
AggregatesBefore(c) ==
  {[time |-> b, sequence |-> 0] : b \in {x \in minutes : x < c.time /\ ~Sampled(x)}}

Page(c) ==
  Latest(Limit, Latest(Limit, SamplesBefore(c)) \cup Latest(Limit, AggregatesBefore(c)))

\* upsertValue: a reading becomes the next sample of its minute.
InsertSample(t) ==
  /\ Cardinality(samples) < MaxSamples
  /\ LET n == Cardinality({p \in samples : BucketOf(p.time) = BucketOf(t)}) + 1
     IN samples' = samples \cup {[time |-> t, sequence |-> n]}
  /\ minutes' = minutes \cup {BucketOf(t)}
  /\ UNCHANGED <<phase, cursor, history, received, due>>

\* All there is to see.
Visible == SamplesBefore(Start) \cup AggregatesBefore(Start)

StartPaging ==
  /\ phase = "idle"
  /\ phase' = "paging"
  /\ due' = Visible
  /\ UNCHANGED <<samples, minutes, cursor, history, received>>

Oldest(points) == CHOOSE p \in points : \A q \in points : p = q \/ Precedes(p, q)

\* Mutant: the next request has the cursor of the one before.
FetchPageAgain ==
  /\ phase = "paging"
  /\ LET page == Page(cursor) IN
       /\ history' = history \cup page
       /\ received' = received + Cardinality(page)
       /\ phase' = IF Cardinality(page) < Limit THEN "done" ELSE "failed"
  /\ UNCHANGED <<samples, minutes, cursor, due>>

FetchPage ==
  /\ phase = "paging"
  /\ LET page == Page(cursor) IN
       /\ history' = history \cup page
       /\ received' = received + Cardinality(page)
       /\ IF Cardinality(page) < Limit
          THEN phase' = "done" /\ UNCHANGED cursor
          ELSE /\ cursor' = Oldest(page)
               /\ phase' = IF Oldest(page) = cursor THEN "failed" ELSE "paging"
  /\ UNCHANGED <<samples, minutes, due>>

Init ==
  /\ samples = {}
  /\ minutes \in SUBSET {BucketOf(t) : t \in Time}
  /\ phase = "idle" /\ cursor = Start
  /\ history = {} /\ received = 0 /\ due = {}

Next == StartPaging \/ FetchPage \/ \E t \in Time : InsertSample(t)

\* The client asks for the next page as soon as it has one, and requests are answered.
Spec == Init /\ [][Next]_vars /\ WF_vars(FetchPage)

(***************************************************************************)
(* Properties.                                                             *)
(***************************************************************************)

\* Paging reaches everything that was there when it began; only an aggregate whose
\* minute has been sampled meanwhile may be missing.
HistoryIsComplete ==
  phase = "done" =>
    \A p \in due : p \in history \/ (p.sequence = 0 /\ Sampled(p.time))

\* No point comes twice, and no minute both as an aggregate and as samples, although
\* every page is a query of its own.
NothingTwice ==
  /\ received = Cardinality(history)
  /\ \A p, q \in history : p.sequence = 0 /\ BucketOf(q.time) = p.time => p = q

\* Why that is so: what the client has is behind the cursor, what is to come before it;
\* and a sample that was seen is still there and hides the aggregate of its minute, also
\* if the cursor stands at it in the first tick of that minute.
BehindTheCursor ==
  /\ phase \in {"idle", "paging"} => \A p \in history : ~Precedes(p, cursor)
  /\ \A p \in history : p.sequence > 0 => p \in samples
  /\ cursor \in history \cup {Start}

\* A minute is named by its start, in the database and in what the client has.
MinutesBegin ==
  /\ \A b \in minutes : BucketOf(b) = b
  /\ \A p \in history : p.sequence = 0 => BucketOf(p.time) = p.time

\* Why paging reaches everything: what was there when it began and has not come yet is
\* before the cursor, and still in the tables.  And the cursor of each request precedes
\* that of the one before, so that the client's guard never strikes.
StillToCome ==
  /\ phase # "failed" /\ (phase = "idle" => cursor = Start)
  /\ \A p \in due :
       \/ p \in history \/ (p.sequence = 0 /\ Sampled(p.time))
       \/ /\ phase = "paging" /\ Precedes(p, cursor)
          /\ p \in samples \/ (p.sequence = 0 /\ p.time \in minutes)
  /\ phase = "idle" => due = {}

\* No page repeats anything, nor leaves anything out, and the next one will not either:
\* the inductive invariant.
PagingInv == TypeOK /\ NothingTwice /\ BehindTheCursor /\ MinutesBegin /\ StillToCome

\* Paging comes to its end while devices go on inserting, and the client's guard
\* against a cursor that does not move never strikes.
PagingEnds == phase = "paging" ~> phase = "done"
=============================================================================
