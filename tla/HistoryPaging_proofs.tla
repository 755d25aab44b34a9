------------------------ MODULE HistoryPaging_proofs ------------------------
(***************************************************************************)
(* Proofs about HistoryPaging, for any size of a page, of a minute and of  *)
(* the history, and any insertions meanwhile: PagingInv is inductive, and  *)
(* a history that has come to its end is complete.  Then about ErrorRing,  *)
(* the other list of a transformer that is read newest first.              *)
(***************************************************************************)
EXTENDS HistoryPaging, ErrorRing, Integers, FiniteSetTheorems, FunctionTheorems, NaturalsInduction,
        WellFoundedInduction, TLAPS

(***************************************************************************)
(* Minutes and points.                                                     *)
(***************************************************************************)

\* A minute does not begin after what is in it.
LEMMA BucketBegins ==
  ASSUME NEW t \in Time
  PROVE  BucketOf(t) \in Time /\ BucketOf(t) <= t
<1>1. t \in Nat /\ Minute \in Nat /\ Minute > 0 /\ t <= LastTime /\ LastTime \in Nat
  BY PagingAssumption DEF Time
<1>2. t % Minute \in 0 .. t
  BY <1>1
<1>3. QED BY <1>1, <1>2 DEF BucketOf, Time

\* The beginning of a minute is in it.
LEMMA BucketOfBucket ==
  ASSUME NEW t \in Time
  PROVE  BucketOf(BucketOf(t)) = BucketOf(t)
<1>1. t \in Nat /\ Minute \in Nat /\ Minute > 0
  BY PagingAssumption DEF Time
<1>2. (t - (t % Minute)) % Minute = 0
  BY <1>1
<1>3. t - (t % Minute) \in Nat
  BY BucketBegins, <1>1 DEF BucketOf, Time
<1>4. QED BY <1>2, <1>3 DEF BucketOf

\* Points are ordered.
LEMMA PrecedesOrders ==
  ASSUME NEW p \in Point \cup {Start}, NEW q \in Point \cup {Start}, NEW r \in Point \cup {Start}
  PROVE  /\ ~Precedes(p, p)
         /\ Precedes(p, q) => ~Precedes(q, p)
         /\ Precedes(p, q) /\ Precedes(q, r) => Precedes(p, r)
         /\ p = q \/ Precedes(p, q) \/ Precedes(q, p)
<1>1. /\ p.time \in Nat /\ p.sequence \in Nat /\ q.time \in Nat /\ q.sequence \in Nat
      /\ r.time \in Nat /\ r.sequence \in Nat
  BY PagingAssumption DEF Point, Start, Time
<1>2. p.time = q.time /\ p.sequence = q.sequence => p = q
  BY PagingAssumption DEF Point, Start, Time
<1>3. QED BY <1>1, <1>2 DEF Precedes

\* There are finitely many.
LEMMA PointsAreFinite ==
  ASSUME NEW S \in SUBSET Point
  PROVE  IsFiniteSet(S) /\ Cardinality(S) \in Nat
<1>1. IsFiniteSet(Time) /\ IsFiniteSet(0 .. MaxSamples)
  BY FS_Interval, PagingAssumption DEF Time
<1>2. IsFiniteSet(Time \X (0 .. MaxSamples))
  BY <1>1, FS_Product
<1> DEFINE f == [p \in Point |-> <<p.time, p.sequence>>]
<1>3. f \in Injection(Point, Time \X (0 .. MaxSamples))
  <2>1. f \in [Point -> Time \X (0 .. MaxSamples)]
    BY DEF Point
  <2>2. ASSUME NEW p \in Point, NEW q \in Point, f[p] = f[q] PROVE p = q
    BY <2>2 DEF Point
  <2>3. QED BY <2>1, <2>2 DEF Injection, IsInjective
<1>4. IsFiniteSet(Point)
  BY <1>2, <1>3, FS_Injection
<1>5. QED BY <1>4, FS_Subset, FS_CardinalityType

\* A set of numbers has a least one.
LEMMA LeastExists ==
  ASSUME NEW S \in SUBSET Nat, S # {}
  PROVE  \E m \in S : \A y \in S : m <= y
<1>1. PICK m \in S : \A y \in S : <<y, m>> \notin OpToRel(<, Nat)
  BY NatLessThanWellFounded, WFMin
<1>2. ASSUME NEW y \in S PROVE m <= y
  <2>1. ~(y < m)
    BY <1>1 DEF OpToRel
  <2>2. QED BY <2>1
<1>3. QED BY <1>2

\* A set of points has an oldest one.
LEMMA OldestExists ==
  ASSUME NEW S \in SUBSET Point, S # {}
  PROVE  \E p \in S : \A q \in S : p = q \/ Precedes(p, q)
<1> DEFINE times == {p.time : p \in S}
<1>1. times \in SUBSET Nat /\ times # {}
  BY PagingAssumption DEF Point, Time
<1>2. PICK t \in times : \A u \in times : t <= u
  BY <1>1, LeastExists, Zenon
<1> DEFINE numbers == {p.sequence : p \in {q \in S : q.time = t}}
<1>3. numbers \in SUBSET Nat /\ numbers # {}
  BY PagingAssumption DEF Point
<1>4. PICK n \in numbers : \A k \in numbers : n <= k
  BY <1>3, LeastExists, Zenon
<1>5. PICK p \in S : p.time = t /\ p.sequence = n
  BY <1>4
<1>6. ASSUME NEW q \in S PROVE p = q \/ Precedes(p, q)
  <2>1. q.time \in Nat /\ t \in Nat /\ t <= q.time /\ n \in Nat /\ q.sequence \in Nat
    BY <1>2, <1>3, <1>1, PagingAssumption DEF Point
  <2>2. q.time = t => n <= q.sequence
    BY <1>4
  <2>3. q.time = t /\ q.sequence = n => p = q
    BY <1>5 DEF Point
  <2>4. QED BY <2>1, <2>2, <2>3, <1>5 DEF Precedes
<1>7. QED BY <1>6

\* Counting backwards.
LEMMA Mirrored ==
  ASSUME NEW n \in Nat, NEW i \in Nat, NEW j \in Nat
  PROVE  /\ n - i < n - j => j < i
         /\ n - i = n - j => i = j
OBVIOUS

\* And a latest one.
LEMMA LatestExists ==
  ASSUME NEW S \in SUBSET Point, S # {}
  PROVE  \E p \in S : \A q \in S : p = q \/ Precedes(q, p)
<1> DEFINE back(p) == [time |-> LastTime - p.time, sequence |-> MaxSamples - p.sequence]
<1> DEFINE B == {back(p) : p \in S}
<1>1. \A p \in S : back(p) \in Point
  BY PagingAssumption DEF Point, Time
<1>2. B \in SUBSET Point /\ B # {}
  BY <1>1
<1> HIDE DEF B
<1>3. PICK b \in B : \A c \in B : b = c \/ Precedes(b, c)
  BY <1>2, OldestExists, Zenon
<1>4. PICK p \in S : b = back(p)
  BY DEF B
<1>5. ASSUME NEW q \in S PROVE p = q \/ Precedes(q, p)
  <2>1. back(q) \in B
    BY DEF B
  <2>2. back(p) = back(q) \/ Precedes(back(p), back(q))
    BY <1>3, <1>4, <2>1
  <2>3. /\ LastTime \in Nat /\ MaxSamples \in Nat
        /\ p.time \in Nat /\ q.time \in Nat /\ p.sequence \in Nat /\ q.sequence \in Nat
    BY PagingAssumption DEF Point, Time
  <2>4. p.time = q.time /\ p.sequence = q.sequence => p = q
    BY DEF Point
  <2>5. CASE back(p) = back(q)
    BY <2>5, <2>3, <2>4
  <2>6. CASE Precedes(back(p), back(q))
    <3>1. \/ LastTime - p.time < LastTime - q.time
          \/ /\ LastTime - p.time = LastTime - q.time
             /\ MaxSamples - p.sequence < MaxSamples - q.sequence
      BY <2>6 DEF Precedes
    <3>2. q.time < p.time \/ (q.time = p.time /\ q.sequence < p.sequence)
      BY <3>1, <2>3, Mirrored
    <3>3. QED BY <3>2 DEF Precedes
  <2>7. QED BY <2>2, <2>5, <2>6
<1>6. QED BY <1>5

(***************************************************************************)
(* ORDER BY and LIMIT.                                                     *)
(***************************************************************************)

\* What comes after p.
After(p, S) == {q \in S : Precedes(p, q)}

\* What precedes has more after it.
LEMMA AfterGrows ==
  ASSUME NEW S \in SUBSET Point, NEW p \in Point, NEW q \in Point, Precedes(p, q)
  PROVE  Cardinality(After(q, S)) <= Cardinality(After(p, S))
<1>1. After(q, S) \subseteq After(p, S)
  BY PrecedesOrders DEF After
<1>2. After(p, S) \in SUBSET Point
  BY DEF After
<1>3. IsFiniteSet(After(p, S))
  BY <1>2, PointsAreFinite
<1>4. QED BY <1>1, <1>3, FS_Subset

LEMMA LatestIsOf ==
  ASSUME NEW n \in Nat, NEW S \in SUBSET Point
  PROVE  /\ Latest(n, S) \in SUBSET S
         /\ \A p \in S : p \in Latest(n, S) <=> Cardinality(After(p, S)) < n
BY DEF Latest, After

\* With a point, everything after it is among the latest.
LEMMA LatestIsUpward ==
  ASSUME NEW n \in Nat, NEW S \in SUBSET Point, NEW p \in Latest(n, S), NEW q \in S, Precedes(p, q)
  PROVE  q \in Latest(n, S)
<1>1. p \in S /\ p \in Point /\ q \in Point /\ Cardinality(After(p, S)) < n
  BY LatestIsOf
<1>2. After(p, S) \in SUBSET Point /\ After(q, S) \in SUBSET Point
  BY DEF After
<1>3. Cardinality(After(p, S)) \in Nat /\ Cardinality(After(q, S)) \in Nat
  BY <1>2, PointsAreFinite
<1>4. Cardinality(After(q, S)) <= Cardinality(After(p, S))
  BY <1>1, AfterGrows
<1>5. QED BY <1>1, <1>3, <1>4, LatestIsOf

\* If one point does not fit, the limit is reached by what comes after it.
LEMMA LimitIsReached ==
  ASSUME NEW n \in Nat, NEW S \in SUBSET Point, NEW x \in S, x \notin Latest(n, S)
  PROVE  /\ n <= Cardinality(Latest(n, S))
         /\ \A y \in Latest(n, S) : Precedes(x, y)
<1>1. ASSUME NEW y \in Latest(n, S) PROVE Precedes(x, y)
  <2>1. y \in S /\ y \in Point /\ x \in Point
    BY LatestIsOf
  <2>2. ~Precedes(y, x)
    BY LatestIsUpward
  <2>3. QED BY <2>1, <2>2, PrecedesOrders
<1>2. n <= Cardinality(Latest(n, S))
  <2>1. S \ Latest(n, S) \in SUBSET Point /\ S \ Latest(n, S) # {}
    OBVIOUS
  <2>2. PICK z \in S \ Latest(n, S) : \A q \in S \ Latest(n, S) : z = q \/ Precedes(q, z)
    BY <2>1, LatestExists, Zenon
  <2>3. After(z, S) \subseteq Latest(n, S)
    <3>1. ASSUME NEW q \in After(z, S), q \notin Latest(n, S) PROVE FALSE
      <4>1. q \in S /\ Precedes(z, q) /\ q \in Point /\ z \in Point
        BY DEF After
      <4>2. z = q \/ Precedes(q, z)
        BY <2>2, <3>1, <4>1
      <4>3. QED BY <4>1, <4>2, PrecedesOrders
    <3>2. QED BY <3>1
  <2>4. Latest(n, S) \in SUBSET Point /\ After(z, S) \in SUBSET Point
    BY LatestIsOf DEF After
  <2>5. /\ IsFiniteSet(Latest(n, S)) /\ Cardinality(Latest(n, S)) \in Nat
        /\ Cardinality(After(z, S)) \in Nat
    BY <2>4, PointsAreFinite
  <2>6. Cardinality(After(z, S)) <= Cardinality(Latest(n, S))
    BY <2>3, <2>5, FS_Subset
  <2>7. ~(Cardinality(After(z, S)) < n)
    BY <2>2, LatestIsOf
  <2>8. QED BY <2>5, <2>6, <2>7
<1>3. QED BY <1>1, <1>2

(***************************************************************************)
(* A page of two tables.                                                   *)
(***************************************************************************)

\* The latest of the latest of both.
Merged(n, A, B) == Latest(n, Latest(n, A) \cup Latest(n, B))

\* What is not older than a point of the page is on it.
LEMMA NothingIsSkipped ==
  ASSUME NEW n \in Nat, NEW A \in SUBSET Point, NEW B \in SUBSET Point,
         NEW o \in Merged(n, A, B), NEW x \in A, Precedes(o, x)
  PROVE  x \in Merged(n, A, B)
<1> DEFINE U == Latest(n, A) \cup Latest(n, B)
<1>1. /\ Latest(n, A) \in SUBSET A /\ Latest(n, B) \in SUBSET B
  BY LatestIsOf
<1>2. U \in SUBSET Point
  BY <1>1
<1> HIDE DEF U
<1>3. Merged(n, A, B) = Latest(n, U)
  BY DEF Merged, U
<1>4. o \in U /\ o \in Point /\ Cardinality(After(o, U)) < n
  BY <1>2, <1>3, LatestIsOf
<1>5. x \in Latest(n, A)
  <2>1. SUFFICES ASSUME x \notin Latest(n, A) PROVE FALSE
    OBVIOUS
  <2>2. n <= Cardinality(Latest(n, A)) /\ \A y \in Latest(n, A) : Precedes(x, y)
    BY <2>1, LimitIsReached
  <2>3. Latest(n, A) \subseteq After(o, U)
    BY <2>2, <1>1, <1>4, PrecedesOrders DEF After, U
  <2>4. After(o, U) \in SUBSET Point /\ Latest(n, A) \in SUBSET Point
    BY <1>1, <1>2 DEF After
  <2>5. /\ IsFiniteSet(After(o, U)) /\ Cardinality(After(o, U)) \in Nat
        /\ Cardinality(Latest(n, A)) \in Nat
    BY <2>4, PointsAreFinite
  <2>6. Cardinality(Latest(n, A)) <= Cardinality(After(o, U))
    BY <2>3, <2>5, FS_Subset
  <2>7. QED BY <1>4, <2>2, <2>5, <2>6
<1>6. x \in U
  BY <1>5 DEF U
<1>7. x \in Latest(n, U)
  BY <1>2, <1>3, <1>6, LatestIsUpward
<1>8. QED BY <1>3, <1>7

\* A page that is not full has everything.
LEMMA ShortPageHasAll ==
  ASSUME NEW n \in Nat, NEW A \in SUBSET Point, NEW B \in SUBSET Point,
         Cardinality(Merged(n, A, B)) < n
  PROVE  A \subseteq Merged(n, A, B)
<1> DEFINE U == Latest(n, A) \cup Latest(n, B)
<1>1. /\ Latest(n, A) \in SUBSET A /\ Latest(n, B) \in SUBSET B
  BY LatestIsOf
<1>2. U \in SUBSET Point
  BY <1>1
<1>3. Latest(n, A) \subseteq U
  OBVIOUS
<1> HIDE DEF U
<1>4. Merged(n, A, B) = Latest(n, U)
  BY DEF Merged, U
<1>5. Latest(n, U) \in SUBSET U
  BY <1>2, LatestIsOf
<1>6. /\ IsFiniteSet(U) /\ Cardinality(U) \in Nat /\ Cardinality(Latest(n, U)) \in Nat
      /\ Cardinality(Latest(n, A)) \in Nat
  <2>1. Latest(n, U) \in SUBSET Point /\ Latest(n, A) \in SUBSET Point
    BY <1>1, <1>2, <1>5
  <2>2. QED BY <1>2, <2>1, PointsAreFinite
<1>7. Latest(n, U) = U
  <2>1. ASSUME NEW x \in U, x \notin Latest(n, U) PROVE FALSE
    <3>1. n <= Cardinality(Latest(n, U))
      BY <1>2, <2>1, LimitIsReached
    <3>2. QED BY <3>1, <1>4, <1>6
  <2>2. QED BY <2>1, <1>5
<1>8. Cardinality(Latest(n, A)) < n
  <2>1. Cardinality(Latest(n, A)) <= Cardinality(U)
    BY <1>3, <1>6, FS_Subset
  <2>2. QED BY <2>1, <1>4, <1>6, <1>7
<1>9. A \subseteq Latest(n, A)
  <2>1. ASSUME NEW x \in A, x \notin Latest(n, A) PROVE FALSE
    <3>1. n <= Cardinality(Latest(n, A))
      BY <2>1, LimitIsReached
    <3>2. QED BY <3>1, <1>6, <1>8
  <2>2. QED BY <2>1
<1>10. QED BY <1>3, <1>4, <1>7, <1>9

\* The tables are alike.
LEMMA MergedIsSymmetric == \A n, A, B : Merged(n, A, B) = Merged(n, B, A)
<1>1. ASSUME NEW n, NEW A, NEW B PROVE Merged(n, A, B) = Merged(n, B, A)
  <2>1. Latest(n, A) \cup Latest(n, B) = Latest(n, B) \cup Latest(n, A)
    OBVIOUS
  <2>2. QED BY <2>1 DEF Merged
<1>2. QED BY <1>1

(***************************************************************************)
(* A page of the history.                                                  *)
(***************************************************************************)

\* What the page of a cursor may hold.
Before(c) == SamplesBefore(c) \cup AggregatesBefore(c)

\* Samples and aggregates are told apart by their numbers, and are before the cursor.
LEMMA BeforeIsBefore ==
  ASSUME TypeOK, NEW c \in Point \cup {Start}
  PROVE  /\ SamplesBefore(c) \in SUBSET Point /\ AggregatesBefore(c) \in SUBSET Point
         /\ \A p \in SamplesBefore(c) : p \in samples /\ p.sequence > 0 /\ Precedes(p, c)
         /\ \A p \in AggregatesBefore(c) :
              p.sequence = 0 /\ p.time \in minutes /\ ~Sampled(p.time) /\ Precedes(p, c)
<1>1. ASSUME NEW p \in AggregatesBefore(c)
      PROVE  /\ p \in Point /\ p.sequence = 0 /\ p.time \in minutes /\ ~Sampled(p.time)
             /\ Precedes(p, c)
  <2>1. PICK b \in minutes : b < c.time /\ ~Sampled(b) /\ p = [time |-> b, sequence |-> 0]
    BY DEF AggregatesBefore
  <2>2. p.time = b /\ p.sequence = 0
    BY <2>1
  <2>3. b \in Time /\ 0 \in 0 .. MaxSamples
    BY PagingAssumption DEF TypeOK
  <2>4. p \in Point
    BY <2>1, <2>3 DEF Point
  <2>5. QED BY <2>1, <2>2, <2>4 DEF Precedes
<1>2. SamplesBefore(c) \in SUBSET Point /\ \A p \in SamplesBefore(c) :
        p \in samples /\ p.sequence > 0 /\ Precedes(p, c)
  BY DEF TypeOK, SamplesBefore
<1>3. QED BY <1>1, <1>2

\* A page has points before the cursor, all of them unless it is full, and else all that
\* do not precede its oldest one.
LEMMA PageIsAnInterval ==
  ASSUME TypeOK, NEW c \in Point \cup {Start}
  PROVE  /\ Page(c) \in SUBSET Before(c) /\ Page(c) \in SUBSET Point
         /\ Cardinality(Page(c)) < Limit => Page(c) = Before(c)
         /\ \A o \in Page(c), x \in Before(c) : Precedes(o, x) => x \in Page(c)
<1> DEFINE A == SamplesBefore(c)
           B == AggregatesBefore(c)
<1>1. A \in SUBSET Point /\ B \in SUBSET Point /\ Limit \in Nat
  BY BeforeIsBefore, PagingAssumption
<1>2. Page(c) = Merged(Limit, A, B) /\ Before(c) = A \cup B
  BY DEF Page, Merged, Before
<1> HIDE DEF A, B
<1>3. Page(c) = Merged(Limit, B, A)
  BY <1>2, MergedIsSymmetric
<1>4. Page(c) \in SUBSET (A \cup B)
  <2> DEFINE U == Latest(Limit, A) \cup Latest(Limit, B)
  <2>1. Latest(Limit, A) \in SUBSET A /\ Latest(Limit, B) \in SUBSET B
    BY <1>1, LatestIsOf
  <2>2. U \in SUBSET Point /\ U \in SUBSET (A \cup B)
    BY <1>1, <2>1
  <2>3. Page(c) = Latest(Limit, U)
    BY <1>2 DEF Merged
  <2> HIDE DEF U
  <2>4. QED BY <1>1, <2>2, <2>3, LatestIsOf
<1>5. Cardinality(Page(c)) < Limit => Page(c) = A \cup B
  <2>1. SUFFICES ASSUME Cardinality(Page(c)) < Limit PROVE Page(c) = A \cup B
    OBVIOUS
  <2>2. A \subseteq Merged(Limit, A, B)
    BY <1>1, <1>2, <2>1, ShortPageHasAll
  <2>3. B \subseteq Merged(Limit, B, A)
    BY <1>1, <1>3, <2>1, ShortPageHasAll
  <2>4. QED BY <1>2, <1>3, <1>4, <2>2, <2>3
<1>6. ASSUME NEW o \in Page(c), NEW x \in A \cup B, Precedes(o, x) PROVE x \in Page(c)
  <2>1. CASE x \in A
    BY <1>1, <1>2, <1>6, <2>1, NothingIsSkipped
  <2>2. CASE x \in B
    BY <1>1, <1>3, <1>6, <2>2, NothingIsSkipped
  <2>3. QED BY <1>6, <2>1, <2>2
<1>7. QED BY <1>1, <1>2, <1>4, <1>5, <1>6

\* The next cursor is on the page, and precedes the rest of it.
LEMMA OldestIsOldest ==
  ASSUME NEW S \in SUBSET Point, S # {}
  PROVE  Oldest(S) \in S /\ \A q \in S : Oldest(S) = q \/ Precedes(Oldest(S), q)
<1>1. \E p \in S : \A q \in S : p = q \/ Precedes(p, q)
  BY OldestExists
<1>2. QED BY <1>1 DEF Oldest

\* What a step of FetchPage does: the client gets the page, and either all is behind the
\* page, or the next cursor divides what was before the one before.
LEMMA PageTakesAll ==
  ASSUME PagingInv, FetchPage, NEW x \in Before(cursor)
  PROVE  x \in Page(cursor) \/ (phase' = "paging" /\ Precedes(x, cursor'))
<1>1. TypeOK /\ cursor \in Point \cup {Start}
  BY DEF PagingInv, TypeOK
<1>2. /\ Page(cursor) \in SUBSET Before(cursor) /\ Page(cursor) \in SUBSET Point
      /\ Cardinality(Page(cursor)) < Limit => Page(cursor) = Before(cursor)
      /\ \A o \in Page(cursor), y \in Before(cursor) : Precedes(o, y) => y \in Page(cursor)
  BY <1>1, PageIsAnInterval
<1>3. CASE Cardinality(Page(cursor)) < Limit
  BY <1>2, <1>3
<1>4. CASE ~(Cardinality(Page(cursor)) < Limit)
  <2>1. Page(cursor) # {}
    BY <1>4, FS_EmptySet, PagingAssumption
  <2> DEFINE o == Oldest(Page(cursor))
  <2>2. o \in Page(cursor) /\ cursor' = o /\ phase' = IF o = cursor THEN "failed" ELSE "paging"
    BY <1>2, <1>4, <2>1, OldestIsOldest DEF FetchPage
  <2> HIDE DEF o
  <2>3. /\ SamplesBefore(cursor) \in SUBSET Point /\ AggregatesBefore(cursor) \in SUBSET Point
        /\ \A p \in Before(cursor) : Precedes(p, cursor)
    BY <1>1, BeforeIsBefore DEF Before
  <2>4. o # cursor
    BY <1>1, <1>2, <2>2, <2>3, PrecedesOrders
  <2>5. x \in Point /\ o \in Point
    BY <1>2, <2>2, <2>3 DEF Before
  <2>6. x \in Page(cursor) \/ Precedes(x, o)
    BY <1>2, <2>2, <2>5, PrecedesOrders
  <2>7. QED BY <2>2, <2>4, <2>6
<1>5. QED BY <1>3, <1>4

\* The outcomes of a request.
LEMMA FetchPageTurns ==
  ASSUME PagingInv, FetchPage
  PROVE  /\ history' = history \cup Page(cursor)
         /\ received' = received + Cardinality(Page(cursor))
         /\ UNCHANGED <<samples, minutes, due>>
         /\ \/ phase' = "done" /\ cursor' = cursor
            \/ /\ phase' = "paging" /\ cursor' \in Page(cursor)
               /\ \A q \in Page(cursor) : cursor' = q \/ Precedes(cursor', q)
<1>1. TypeOK /\ cursor \in Point \cup {Start}
  BY DEF PagingInv, TypeOK
<1>2. Page(cursor) \in SUBSET Before(cursor) /\ Page(cursor) \in SUBSET Point
  BY <1>1, PageIsAnInterval
<1>3. CASE Cardinality(Page(cursor)) < Limit
  BY <1>3 DEF FetchPage
<1>4. CASE ~(Cardinality(Page(cursor)) < Limit)
  <2>1. Page(cursor) # {}
    BY <1>4, FS_EmptySet, PagingAssumption
  <2> DEFINE o == Oldest(Page(cursor))
  <2>2. o \in Page(cursor) /\ \A q \in Page(cursor) : o = q \/ Precedes(o, q)
    BY <1>2, <2>1, OldestIsOldest
  <2>3. cursor' = o /\ phase' = IF o = cursor THEN "failed" ELSE "paging"
    BY <1>4 DEF FetchPage
  <2> HIDE DEF o
  <2>4. /\ SamplesBefore(cursor) \in SUBSET Point /\ AggregatesBefore(cursor) \in SUBSET Point
        /\ \A p \in Before(cursor) : Precedes(p, cursor)
    BY <1>1, BeforeIsBefore DEF Before
  <2>5. o # cursor
    BY <1>1, <1>2, <2>2, <2>4, PrecedesOrders
  <2>6. phase' = "paging" /\ cursor' \in Page(cursor)
    BY <2>2, <2>3, <2>5
  <2>7. QED BY <2>2, <2>3, <2>6 DEF FetchPage
<1>5. QED BY <1>3, <1>4

(***************************************************************************)
(* The steps.                                                              *)
(***************************************************************************)

\* The number a sample gets is in range.
LEMMA NumberFits ==
  ASSUME TypeOK, Cardinality(samples) < MaxSamples, NEW t \in Time
  PROVE  Cardinality({p \in samples : BucketOf(p.time) = BucketOf(t)}) + 1 \in 1 .. MaxSamples
<1> DEFINE M == {p \in samples : BucketOf(p.time) = BucketOf(t)}
<1>1. samples \in SUBSET Point /\ M \in SUBSET samples /\ M \in SUBSET Point
  BY DEF TypeOK
<1> HIDE DEF M
<1>2. IsFiniteSet(samples) /\ Cardinality(samples) \in Nat /\ Cardinality(M) \in Nat
  BY <1>1, PointsAreFinite
<1>3. Cardinality(M) <= Cardinality(samples)
  BY <1>1, <1>2, FS_Subset
<1>4. Cardinality(M) + 1 \in 1 .. MaxSamples
  BY <1>2, <1>3, PagingAssumption
<1>5. QED BY <1>4 DEF M

\* Another sample hides aggregates and takes none of what is still to come away.
LEMMA InsertKeeps ==
  ASSUME PagingInv, NEW t \in Time, InsertSample(t)
  PROVE  PagingInv'
<1> DEFINE n == Cardinality({p \in samples : BucketOf(p.time) = BucketOf(t)}) + 1
<1>1. n \in 1 .. MaxSamples
  BY NumberFits DEF PagingInv, InsertSample
<1>2. samples' = samples \cup {[time |-> t, sequence |-> n]}
  BY DEF InsertSample
<1> HIDE DEF n
<1>3. /\ BucketOf(t) \in Time /\ BucketOf(BucketOf(t)) = BucketOf(t)
  BY BucketBegins, BucketOfBucket
<1>4. /\ minutes' = minutes \cup {BucketOf(t)}
      /\ UNCHANGED <<phase, cursor, history, received, due>>
  BY DEF InsertSample
<1>5. TypeOK'
  <2>1. [time |-> t, sequence |-> n] \in Point
    BY <1>1 DEF Point
  <2>2. \A p \in samples' : p \in Point /\ p.sequence > 0
    BY <1>1, <1>2, <2>1 DEF PagingInv, TypeOK
  <2>3. minutes' \subseteq Time
    BY <1>3, <1>4 DEF PagingInv, TypeOK
  <2>4. QED BY <1>4, <2>2, <2>3 DEF PagingInv, TypeOK
<1>6. NothingTwice'
  BY <1>4 DEF PagingInv, NothingTwice, BucketOf
<1>7. BehindTheCursor'
  BY <1>2, <1>4 DEF PagingInv, BehindTheCursor, Precedes, Start
<1>8. MinutesBegin'
  BY <1>3, <1>4 DEF PagingInv, MinutesBegin, BucketOf
<1>9. StillToCome'
  <2>1. \A b : Sampled(b) => Sampled(b)'
    BY <1>2 DEF Sampled, BucketOf
  <2>2. StillToCome
    BY DEF PagingInv
  <2>3. QED BY <1>2, <1>4, <2>1, <2>2 DEF StillToCome, Precedes
<1>10. QED BY <1>5, <1>6, <1>7, <1>8, <1>9 DEF PagingInv

\* When paging begins, all there is is before the cursor.
LEMMA StartKeeps ==
  ASSUME PagingInv, StartPaging
  PROVE  PagingInv'
<1>1. TypeOK /\ cursor = Start /\ Start \in Point \cup {Start}
  BY DEF PagingInv, StillToCome, StartPaging
<1>2. /\ phase' = "paging" /\ due' = Before(Start)
      /\ UNCHANGED <<samples, minutes, cursor, history, received>>
  BY DEF StartPaging, Visible, Before
<1>3. /\ SamplesBefore(Start) \in SUBSET Point /\ AggregatesBefore(Start) \in SUBSET Point
      /\ \A p \in SamplesBefore(Start) : p \in samples /\ p.sequence > 0 /\ Precedes(p, Start)
      /\ \A p \in AggregatesBefore(Start) :
           p.sequence = 0 /\ p.time \in minutes /\ ~Sampled(p.time) /\ Precedes(p, Start)
  BY <1>1, BeforeIsBefore
<1>4. TypeOK'
  BY <1>2, <1>3 DEF PagingInv, TypeOK, Before
<1>5. NothingTwice'
  BY <1>2 DEF PagingInv, NothingTwice, BucketOf
<1>6. BehindTheCursor'
  BY <1>2 DEF PagingInv, BehindTheCursor, Precedes, StartPaging, Start
<1>7. MinutesBegin'
  BY <1>2 DEF PagingInv, MinutesBegin, BucketOf
<1>8. StillToCome'
  <2>1. \A p \in Before(Start) :
          Precedes(p, cursor) /\ (p \in samples \/ (p.sequence = 0 /\ p.time \in minutes))
    BY <1>1, <1>3 DEF Before
  <2>2. \A p : Precedes(p, cursor) => Precedes(p, cursor)'
    BY <1>2 DEF Precedes
  <2>3. QED BY <1>2, <2>1, <2>2 DEF StillToCome
<1>9. QED BY <1>4, <1>5, <1>6, <1>7, <1>8 DEF PagingInv

\* Where the client has an aggregate there is no sample on the page, and conversely.
LEMMA FetchNothingTwice ==
  ASSUME PagingInv, FetchPage
  PROVE  NothingTwice'
<1> DEFINE page == Page(cursor)
<1>1. TypeOK /\ cursor \in Point \cup {Start}
  BY DEF PagingInv, TypeOK
<1>2. page \in SUBSET Point /\ page \in SUBSET Before(cursor)
  BY <1>1, PageIsAnInterval
<1>3. \A p \in Before(cursor) :
        /\ Precedes(p, cursor)
        /\ p.sequence > 0 => p \in samples
        /\ p.sequence = 0 => p.time \in minutes /\ ~Sampled(p.time)
  <2>1. /\ \A p \in SamplesBefore(cursor) : p \in samples /\ p.sequence > 0 /\ Precedes(p, cursor)
        /\ \A p \in AggregatesBefore(cursor) :
             p.sequence = 0 /\ p.time \in minutes /\ ~Sampled(p.time) /\ Precedes(p, cursor)
    BY <1>1, BeforeIsBefore
  <2>2. \A p \in SamplesBefore(cursor) : p.sequence # 0
    BY <1>1 DEF TypeOK, SamplesBefore
  <2>3. \A p \in AggregatesBefore(cursor) : ~(p.sequence > 0)
    BY <2>1
  <2>4. QED BY <2>1, <2>2, <2>3 DEF Before
<1>4. history' = history \cup page /\ received' = received + Cardinality(page)
  BY FetchPageTurns
<1> HIDE DEF page
<1>5. /\ history \in SUBSET Point /\ received = Cardinality(history)
      /\ \A p \in history : ~Precedes(p, cursor)
      /\ \A p \in history : p.sequence > 0 => p \in samples
      /\ \A p \in history : p.sequence = 0 => BucketOf(p.time) = p.time
      /\ \A b \in minutes : BucketOf(b) = b
      /\ \A p, q \in history : p.sequence = 0 /\ BucketOf(q.time) = p.time => p = q
  BY DEF PagingInv, TypeOK, NothingTwice, BehindTheCursor, MinutesBegin, FetchPage
<1>6. received' = Cardinality(history')
  <2>1. history \cap page = {}
    BY <1>2, <1>3, <1>5
  <2>2. /\ IsFiniteSet(history) /\ IsFiniteSet(page)
        /\ Cardinality(history) \in Nat /\ Cardinality(page) \in Nat
    BY <1>2, <1>5, PointsAreFinite
  <2>3. Cardinality(history \cup page) =
          Cardinality(history) + Cardinality(page) - Cardinality(history \cap page)
    BY <2>2, FS_Union
  <2>4. Cardinality(history \cap page) = 0
    BY <2>1, FS_EmptySet
  <2>5. QED BY <1>4, <1>5, <2>2, <2>3, <2>4
<1>7. ASSUME NEW p \in history \cup page, NEW q \in history \cup page,
             p.sequence = 0, BucketOf(q.time) = p.time
      PROVE  p = q
  <2>1. p \in Point /\ q \in Point
    BY <1>2, <1>5
  <2>2. /\ p.time \in Nat /\ q.time \in Nat /\ q.sequence \in Nat
        /\ p.time = q.time /\ q.sequence = 0 => p = q
    BY <1>7, <2>1, PagingAssumption DEF Point, Time
  <2>3. p.time <= q.time
    BY <1>7, <2>1, BucketBegins DEF Point
  <2>4. CASE q.sequence = 0
    <3>1. BucketOf(q.time) = q.time
      BY <1>2, <1>3, <1>5, <2>4
    <3>2. QED BY <1>7, <2>2, <2>4, <3>1
  <2>5. CASE q.sequence > 0
    <3>1. q \in samples
      BY <1>2, <1>3, <1>5, <2>5
    <3>2. Sampled(p.time)
      BY <1>7, <3>1 DEF Sampled
    <3>3. p \in history
      BY <1>2, <1>3, <1>7, <3>2
    <3>4. CASE q \in history
      BY <1>5, <1>7, <3>3, <3>4
    <3>5. CASE q \in page
      <4>1. Precedes(q, cursor) /\ ~Precedes(p, cursor)
        BY <1>2, <1>3, <1>5, <3>3, <3>5
      <4>2. cursor.time \in Nat /\ cursor.sequence \in Nat
        BY <1>1, PagingAssumption DEF Point, Start, Time
      <4>3. FALSE
        BY <4>1, <4>2, <2>2, <2>3, <2>5, <1>7 DEF Precedes
      <4>4. QED BY <4>3
    <3>6. QED BY <3>4, <3>5
  <2>6. QED BY <2>2, <2>4, <2>5
<1>8. QED BY <1>4, <1>6, <1>7 DEF NothingTwice, BucketOf

\* A page keeps the invariant.
LEMMA FetchKeeps ==
  ASSUME PagingInv, FetchPage
  PROVE  PagingInv'
<1> DEFINE page == Page(cursor)
<1>1. TypeOK /\ cursor \in Point \cup {Start} /\ phase = "paging"
  BY DEF PagingInv, TypeOK, FetchPage
<1>2. /\ page \in SUBSET Point /\ page \in SUBSET Before(cursor)
      /\ IsFiniteSet(page) /\ Cardinality(page) \in Nat
  BY <1>1, PageIsAnInterval, PointsAreFinite
<1>3. \A p \in Before(cursor) :
        /\ Precedes(p, cursor)
        /\ p.sequence > 0 => p \in samples
        /\ p.sequence = 0 => p.time \in minutes
  <2>1. /\ \A p \in SamplesBefore(cursor) : p \in samples /\ p.sequence > 0 /\ Precedes(p, cursor)
        /\ \A p \in AggregatesBefore(cursor) :
             p.sequence = 0 /\ p.time \in minutes /\ ~Sampled(p.time) /\ Precedes(p, cursor)
    BY <1>1, BeforeIsBefore
  <2>2. \A p \in SamplesBefore(cursor) : p.sequence # 0
    BY <1>1 DEF TypeOK, SamplesBefore
  <2>3. \A p \in AggregatesBefore(cursor) : ~(p.sequence > 0)
    BY <2>1
  <2>4. QED BY <2>1, <2>2, <2>3 DEF Before
<1>4. /\ history' = history \cup page
      /\ received' = received + Cardinality(page)
      /\ UNCHANGED <<samples, minutes, due>>
      /\ \/ phase' = "done" /\ cursor' = cursor
         \/ /\ phase' = "paging" /\ cursor' \in page
            /\ \A q \in page : cursor' = q \/ Precedes(cursor', q)
  BY FetchPageTurns
<1>5. \A x \in Before(cursor) : x \in page \/ (phase' = "paging" /\ Precedes(x, cursor'))
  BY PageTakesAll
<1> HIDE DEF page
<1>6. TypeOK'
  <2>1. received' \in Nat
    BY <1>1, <1>2, <1>4 DEF TypeOK
  <2>2. QED BY <1>1, <1>2, <1>4, <2>1 DEF TypeOK
<1>7. NothingTwice'
  BY FetchNothingTwice
<1>8. BehindTheCursor'
  <2>1. ASSUME NEW p \in history', p.sequence > 0 PROVE p \in samples'
    BY <1>2, <1>3, <1>4, <2>1 DEF PagingInv, BehindTheCursor
  <2>2. ASSUME phase' = "paging", NEW p \in history' PROVE ~Precedes(p, cursor')
    <3>1. cursor' \in page /\ \A q \in page : cursor' = q \/ Precedes(cursor', q)
      BY <1>4, <2>2
    <3>2. cursor' \in Point /\ Precedes(cursor', cursor)
      BY <1>2, <1>3, <3>1
    <3>3. CASE p \in page
      BY <1>2, <3>1, <3>2, <3>3, PrecedesOrders
    <3>4. CASE p \in history
      <4>1. p \in Point /\ ~Precedes(p, cursor)
        BY <1>1, <3>4 DEF PagingInv, TypeOK, BehindTheCursor
      <4>2. QED BY <1>1, <3>2, <4>1, PrecedesOrders
    <3>5. QED BY <1>4, <3>3, <3>4
  <2>3. phase' # "idle"
    BY <1>4
  <2> HIDE DEF Precedes
  <2>4. \A p : Precedes(p, cursor)' <=> Precedes(p, cursor')
    BY DEF Precedes
  <2>5. cursor' \in history' \cup {Start}
    BY <1>4 DEF PagingInv, BehindTheCursor
  <2>6. Start' = Start
    BY DEF Start
  <2>7. QED BY <2>1, <2>2, <2>3, <2>4, <2>5, <2>6 DEF BehindTheCursor
<1>9. MinutesBegin'
  BY <1>2, <1>3, <1>4 DEF PagingInv, MinutesBegin, BucketOf
<1>10. StillToCome'
  <2>1. phase' \in {"done", "paging"}
    BY <1>4
  <2>2. ASSUME NEW p \in due
        PROVE  \/ p \in history' \/ (p.sequence = 0 /\ Sampled(p.time))
               \/ /\ phase' = "paging" /\ Precedes(p, cursor')
                  /\ p \in samples \/ (p.sequence = 0 /\ p.time \in minutes)
    <3>1. CASE p \in history \/ (p.sequence = 0 /\ Sampled(p.time))
      BY <1>4, <3>1
    <3>2. CASE Precedes(p, cursor) /\ p \in samples
      <4>1. p \in Before(cursor)
        BY <3>2 DEF Before, SamplesBefore
      <4>2. QED BY <1>4, <1>5, <3>2, <4>1
    <3>3. CASE Precedes(p, cursor) /\ p.sequence = 0 /\ p.time \in minutes /\ ~Sampled(p.time)
      <4>1. cursor.time \in Nat /\ cursor.sequence \in Nat /\ p \in Point
        BY <1>1, PagingAssumption DEF Point, Start, Time, TypeOK
      <4>2. p.time < cursor.time
        <5>1. SUFFICES ASSUME p.time = cursor.time, 0 < cursor.sequence PROVE FALSE
          BY <3>3 DEF Precedes
        <5>2. cursor \in samples
          BY <5>1, <4>1 DEF PagingInv, BehindTheCursor, Start
        <5>3. Sampled(p.time)
          BY <3>3, <5>1, <5>2 DEF PagingInv, MinutesBegin, Sampled
        <5>4. QED BY <3>3, <5>3
      <4>3. p = [time |-> p.time, sequence |-> 0]
        BY <3>3, <4>1 DEF Point
      <4>4. p \in Before(cursor)
        BY <3>3, <4>2, <4>3 DEF Before, AggregatesBefore
      <4>5. QED BY <1>4, <1>5, <3>3, <4>4
    <3>4. QED BY <3>1, <3>2, <3>3 DEF PagingInv, StillToCome
  <2>3. \A p : Precedes(p, cursor)' <=> Precedes(p, cursor')
    BY DEF Precedes
  <2>4. \A b : Sampled(b)' <=> Sampled(b)
    BY <1>4 DEF Sampled, BucketOf
  <2>5. QED BY <1>4, <2>1, <2>2, <2>3, <2>4 DEF StillToCome
<1>11. QED BY <1>6, <1>7, <1>8, <1>9, <1>10 DEF PagingInv

(***************************************************************************)
(* The theorems.                                                           *)
(***************************************************************************)

\* At first there are aggregates of old minutes, and nothing has been asked for.
LEMMA InitPaging == Init => PagingInv
<1> SUFFICES ASSUME Init PROVE PagingInv
  OBVIOUS
<1>1. TypeOK
  BY BucketBegins DEF Init, TypeOK
<1>2. NothingTwice
  BY FS_EmptySet DEF Init, NothingTwice
<1>3. BehindTheCursor
  BY DEF Init, BehindTheCursor
<1>4. MinutesBegin
  BY BucketOfBucket DEF Init, MinutesBegin
<1>5. StillToCome
  BY DEF Init, StillToCome
<1>6. QED BY <1>1, <1>2, <1>3, <1>4, <1>5 DEF PagingInv

\* Every step keeps the invariant.
LEMMA PagingInductive == PagingInv /\ [Next]_vars => PagingInv'
<1> SUFFICES ASSUME PagingInv, [Next]_vars PROVE PagingInv'
  OBVIOUS
<1>1. CASE StartPaging
  BY <1>1, StartKeeps
<1>2. CASE FetchPage
  BY <1>2, FetchKeeps
<1>3. ASSUME NEW t \in Time, InsertSample(t) PROVE PagingInv'
  BY <1>3, InsertKeeps
<1>4. CASE UNCHANGED vars
  BY <1>4 DEF vars, PagingInv, TypeOK, NothingTwice, BehindTheCursor, MinutesBegin, StillToCome,
              BucketOf, Sampled, Precedes, Start, Point, Time
<1>5. QED BY <1>1, <1>2, <1>3, <1>4 DEF Next

\* No page repeats a point of another one, and no minute comes both as an aggregate and as
\* samples, wherever and whenever samples are inserted while the client is paging.
THEOREM PagingInvariant == Spec => []PagingInv
<1>1. Init => PagingInv
  BY InitPaging
<1>2. PagingInv /\ [Next]_vars => PagingInv'
  BY PagingInductive
<1>3. QED BY <1>1, <1>2, PTL DEF Spec

\* When paging is done, the client has everything that was there when it began, but for
\* aggregates of minutes that have been sampled since.
THEOREM HistoryComplete == Spec => []HistoryIsComplete
<1>1. PagingInv => HistoryIsComplete
  BY DEF PagingInv, StillToCome, HistoryIsComplete
<1>2. QED BY <1>1, PagingInvariant, PTL

(***************************************************************************)
(* The errors of a transformer.  The ring keeps the latest accepted ones,  *)
(* and no more than Keep, for any number of reporters, any ring size and   *)
(* whatever the clocks show.                                               *)
(***************************************************************************)
-----------------------------------------------------------------------------
(***************************************************************************)
(* The operators of the ring.                                              *)
(***************************************************************************)

\* What the prune leaves of a set of rows: as many as fit, none of them earlier than a
\* row it takes away.
LEMMA ExcessLeavesNewest ==
  ASSUME NEW table, IsFiniteSet(table), NEW gone \in ExcessRows(table)
  PROVE  /\ gone \subseteq table
         /\ Cardinality(table \ gone) =
              IF Cardinality(table) < Keep THEN Cardinality(table) ELSE Keep
         /\ \A kept \in table \ gone, other \in gone : other.createdAt <= kept.createdAt
<1>1. PICK top \in Newest(Keep, table) : gone = table \ top
  BY DEF ExcessRows
<1>2. /\ top \subseteq table
      /\ Cardinality(top) = IF Cardinality(table) < Keep THEN Cardinality(table) ELSE Keep
      /\ \A kept \in top, other \in table \ top : other.createdAt <= kept.createdAt
  BY DEF Newest, kSubset
<1>3. table \ gone = top
  BY <1>1, <1>2
<1> QED BY <1>1, <1>2, <1>3

\* Of as many rows as fit nothing is in excess, and a listing starts with the latest.
LEMMA ListingStartsLatest ==
  ASSUME NEW table, IsFiniteSet(table), table # {}, Cardinality(table) <= Keep,
         \A e \in table : e.createdAt \in Nat,
         NEW list \in Listings(table)
  PROVE  list[1] \in table /\ \A e \in table : e.createdAt <= list[1].createdAt
<1>1. PICK top \in Newest(Keep, table) :
        /\ list \in [1 .. Cardinality(top) -> top]
        /\ \A i, j \in 1 .. Cardinality(top) :
             i < j => list[i] # list[j] /\ list[j].createdAt <= list[i].createdAt
  BY DEF Listings
<1> DEFINE n == Cardinality(table)
<1>2. n \in Nat /\ n # 0
  BY FS_CardinalityType, FS_EmptySet
<1>3. top = table
  <2>1. top \in SUBSET table /\ Cardinality(top) = n
    BY RingAssumption, <1>2 DEF Newest, kSubset
  <2> QED BY <2>1, FS_Subset
<1>4. list \in Surjection(1 .. n, table)
  <2>1. list \in [1 .. n -> table] /\ \A i, j \in 1 .. n : i < j => list[i] # list[j]
    BY <1>1, <1>3
  <2>2. \A i, j \in 1 .. n : list[i] = list[j] => i = j
    <3> SUFFICES ASSUME NEW i \in 1 .. n, NEW j \in 1 .. n, i # j
                 PROVE  list[i] # list[j]
      OBVIOUS
    <3>1. i < j \/ j < i
      BY <1>2
    <3> QED BY <2>1, <3>1
  <2>3. list \in Injection(1 .. n, table)
    BY <2>1, <2>2 DEF Injection, IsInjective
  <2>4. Cardinality(1 .. n) = n
    BY <1>2, FS_Interval
  <2> HIDE DEF n
  <2> QED BY <2>3, <2>4, FS_Injection DEF n
<1>5. 1 \in 1 .. n
  BY <1>2
<1>6. ASSUME NEW e \in table PROVE e.createdAt <= list[1].createdAt
  <2>1. PICK j \in 1 .. n : list[j] = e
    BY <1>4 DEF Surjection
  <2>2. j = 1 \/ 1 < j
    BY <1>2
  <2> QED BY <1>1, <1>3, <1>5, <2>1, <2>2
<1> QED BY <1>1, <1>3, <1>5, <1>6

-----------------------------------------------------------------------------
(***************************************************************************)
(* Type correctness.                                                       *)
(***************************************************************************)

LEMMA RingInitType == RingInit => RingType
BY RingAssumption DEF RingInit, RingType, NoError

\* The row an insert writes, and what it may find in excess.
LEMMA InsertType ==
  ASSUME RingType, NEW r \in Reporter, InsertError(r)
  PROVE  /\ mine'[r].id = lastId + 1
         /\ mine'[r] \in Rows
         /\ excess'[r] \in ExcessRows(errors \cup {mine'[r]})
         /\ excess'[r] \subseteq Rows
         /\ \A q \in Reporter \ {r} : mine'[q] = mine[q] /\ excess'[q] = excess[q]
<1>1. PICK now \in Times :
        LET row == [id |-> lastId', createdAt |-> now] IN
          /\ mine' = [mine EXCEPT ![r] = row]
          /\ \E gone \in ExcessRows(errors \cup {row}) : excess' = [excess EXCEPT ![r] = gone]
  BY DEF InsertError
<1> DEFINE row == [id |-> lastId', createdAt |-> now]
<1>2. PICK gone \in ExcessRows(errors \cup {row}) : excess' = [excess EXCEPT ![r] = gone]
  BY <1>1
<1>3. row \in Rows /\ row.id = lastId + 1
  <2>1. lastId' \in 1 .. MaxReports /\ lastId' = lastId + 1
    BY RingAssumption DEF RingType, InsertError
  <2> QED BY <2>1 DEF Rows
<1>4. gone \subseteq errors \cup {row}
  BY DEF ExcessRows
<1>5. mine' = [mine EXCEPT ![r] = row]
  BY <1>1
<1> HIDE DEF row
<1>6. gone \subseteq Rows
  BY <1>3, <1>4 DEF RingType
<1> QED BY <1>2, <1>3, <1>5, <1>6 DEF RingType

LEMMA RingTypeInductive ==
  RingType /\ [RingNext]_ringVars => RingType'
<1> SUFFICES ASSUME RingType, [RingNext]_ringVars
             PROVE  RingType'
  OBVIOUS
<1> USE DEF RingType
<1>1. CASE DeleteTransformer
  BY <1>1 DEF DeleteTransformer
<1>2. ASSUME NEW r \in Reporter, Receive(r) PROVE RingType'
  BY <1>2 DEF Receive
<1>3. ASSUME NEW r \in Reporter, TransformerGone(r) PROVE RingType'
  BY <1>3 DEF TransformerGone, Finish, Unlock
<1>4. ASSUME NEW r \in Reporter, LockTransformer(r) PROVE RingType'
  BY <1>4 DEF LockTransformer
<1>5. ASSUME NEW r \in Reporter, InsertError(r) PROVE RingType'
  <2>1. /\ mine' \in [Reporter -> Rows \cup {NoError}]
        /\ excess' \in [Reporter -> SUBSET Rows]
    <3>1. mine' = [mine EXCEPT ![r] = mine'[r]] /\ excess' = [excess EXCEPT ![r] = excess'[r]]
      BY <1>5 DEF InsertError
    <3> QED BY <1>5, <3>1, InsertType
  <2>2. lastId' \in 0 .. MaxReports
    BY RingAssumption, <1>5 DEF InsertError
  <2>3. UNCHANGED <<exists, lock, errors, accepted>>
    BY <1>5 DEF InsertError
  <2>4. pc' = [pc EXCEPT ![r] = "pruned"]
    BY <1>5 DEF InsertError
  <2> QED BY <1>5, <2>1, <2>2, <2>3, <2>4, InsertType
<1>6. ASSUME NEW r \in Reporter, Commit(r) PROVE RingType'
  BY <1>6 DEF Commit, Finish, Unlock
<1>7. ASSUME NEW r \in Reporter, OwnRowDeleted(r) \/ Fail(r) PROVE RingType'
  BY <1>7 DEF OwnRowDeleted, Fail, Finish, Unlock
<1>8. CASE UNCHANGED ringVars
  BY <1>8 DEF ringVars
<1> QED BY <1>1, <1>2, <1>3, <1>4, <1>5, <1>6, <1>7, <1>8 DEF RingNext

-----------------------------------------------------------------------------
(***************************************************************************)
(* The ring.  The lock makes what an insert found in excess still the      *)
(* excess at its commit, and the youngest error is stamped last.           *)
(***************************************************************************)

LEMMA InitRing == RingInit => RingInv
<1> SUFFICES ASSUME RingInit PROVE RingInv
  OBVIOUS
<1>1. /\ RingType /\ LockProtects /\ AcceptedNumbered
      /\ ReportPending /\ KeepsTheLatestTimes
  BY RingAssumption, RingInitType
  DEF RingInit, LockProtects, AcceptedNumbered,
      ReportPending, KeepsTheLatestTimes
<1>2. RoomIsUsed /\ AtMostKept
  BY RingAssumption, FS_EmptySet DEF RingInit, RoomIsUsed, AtMostKept
<1> QED BY <1>1, <1>2 DEF RingInv

\* A step that ends or restarts a report without a commit changes no rows.
LEMMA StopRing ==
  ASSUME RingInv, RingType', NEW r \in Reporter,
      TransformerGone(r) \/ OwnRowDeleted(r) \/ Fail(r)
  PROVE  RingInv'
<1>1. /\ UNCHANGED <<errors, lastId, accepted>> /\ Unlock(r)
      /\ pc'[r] \in {"idle", "begun"}
      /\ \A q \in Reporter \ {r} :
           pc'[q] = pc[q] /\ mine'[q] = mine[q] /\ excess'[q] = excess[q]
  BY DEF TransformerGone, OwnRowDeleted, Fail, Finish, RingInv, RingType
<1>2. LockProtects'
  BY RingAssumption, <1>1 DEF Unlock, RingInv, LockProtects
<1>3. AcceptedNumbered' /\ ReportPending'
  BY <1>1 DEF RingInv, AcceptedNumbered, ReportPending
<1>4. RoomIsUsed' /\ AtMostKept' /\ KeepsTheLatestTimes'
  BY <1>1 DEF RingInv, RoomIsUsed, AtMostKept, KeepsTheLatestTimes
<1> QED BY <1>2, <1>3, <1>4 DEF RingInv

LEMMA InsertRing ==
  ASSUME RingInv, RingType', NEW r \in Reporter, InsertError(r)
  PROVE  RingInv'
<1> USE DEF RingInv
<1>1. /\ UNCHANGED <<lock, errors, accepted>> /\ lastId' = lastId + 1
      /\ pc[r] = "locked" /\ pc' = [pc EXCEPT ![r] = "pruned"]
  BY DEF InsertError
<1>2. LockProtects'
  BY <1>1 DEF LockProtects, RingType
<1>3. lastId \in Nat /\ \A e \in accepted : e.id \in Nat /\ e.id < lastId'
  BY <1>1 DEF RingType, Rows, AcceptedNumbered
<1>4. AcceptedNumbered'
  BY <1>1, <1>3 DEF AcceptedNumbered
<1>5. ReportPending'
  <2>1. \A q \in Reporter \ {r} : pc'[q] # "pruned"
    BY <1>1 DEF LockProtects, RingType
  <2>2. excess'[r] \in ExcessRows(errors' \cup {mine'[r]})
    <3>1. errors' = errors
      BY <1>1
    <3>2. excess'[r] \in ExcessRows(errors \cup {mine'[r]})
      BY InsertType
    <3> QED BY <3>1, <3>2
  <2>3. mine'[r].id = lastId'
    BY <1>1, InsertType
  <2>4. \A e \in accepted' : e.id < lastId'
    BY <1>1, <1>3
  <2> QED BY <2>1, <2>2, <2>3, <2>4 DEF ReportPending
<1>6. RoomIsUsed' /\ AtMostKept' /\ KeepsTheLatestTimes'
  BY <1>1 DEF RoomIsUsed, AtMostKept, KeepsTheLatestTimes
<1> QED BY <1>2, <1>4, <1>5, <1>6

LEMMA CommitRing ==
  ASSUME RingInv, RingType', NEW r \in Reporter, Commit(r)
  PROVE  RingInv'
<1> USE DEF RingInv
<1> DEFINE new == mine[r]
           grown == errors \cup {new}
           n == Cardinality(accepted)
<1>1. /\ UNCHANGED <<lastId>> /\ Unlock(r)
      /\ errors' = grown \ excess[r] /\ accepted' = accepted \cup {new}
      /\ new \notin excess[r] /\ pc[r] = "pruned"
      /\ pc' = [pc EXCEPT ![r] = "idle"]
  BY DEF Commit, Finish
<1>2. /\ new \in Rows /\ new.id = lastId
      /\ \A e \in accepted : e.id < lastId
      /\ excess[r] \in ExcessRows(grown)
  BY <1>1 DEF ReportPending, RingType
<1>3. new \notin accepted /\ IsFiniteSet(accepted) /\ errors \subseteq accepted /\ n \in Nat
  BY <1>2, FS_CardinalityType DEF RoomIsUsed, RingType, Rows
<1>4. /\ IsFiniteSet(accepted') /\ Cardinality(accepted') = n + 1
      /\ IsFiniteSet(errors) /\ IsFiniteSet(grown)
      /\ Cardinality(grown) = Cardinality(errors) + 1
  <2>1. IsFiniteSet(errors)
    BY <1>3, FS_Subset
  <2> QED BY <1>1, <1>3, <2>1, FS_AddElement
<1>5. /\ Cardinality(errors') = IF Cardinality(grown) < Keep THEN Cardinality(grown) ELSE Keep
      /\ \A kept \in errors', other \in excess[r] : other.createdAt <= kept.createdAt
      /\ excess[r] \subseteq grown
  <2> HIDE DEF grown
  <2>1. /\ excess[r] \subseteq grown
        /\ Cardinality(grown \ excess[r]) =
             IF Cardinality(grown) < Keep THEN Cardinality(grown) ELSE Keep
        /\ \A kept \in grown \ excess[r], other \in excess[r] : other.createdAt <= kept.createdAt
    <3>1. IsFiniteSet(grown)
      BY <1>4
    <3>2. excess[r] \in ExcessRows(grown)
      BY <1>2
    <3> QED BY <3>1, <3>2, ExcessLeavesNewest
  <2> QED BY <1>1, <2>1
<1>6. RoomIsUsed' /\ AtMostKept'
  <2>1. Cardinality(errors') = IF n + 1 < Keep THEN n + 1 ELSE Keep
    BY RingAssumption, <1>3, <1>4, <1>5 DEF RoomIsUsed
  <2>2. errors' \subseteq accepted'
    BY <1>1, <1>3
  <2>3. Cardinality(errors') <= Keep
    BY RingAssumption, <2>1, <1>3
  <2> QED BY <1>4, <2>1, <2>2, <2>3 DEF RoomIsUsed, AtMostKept
<1>7. AcceptedNumbered'
  BY <1>1, <1>2 DEF AcceptedNumbered, RingType
<1>8. KeepsTheLatestTimes'
  <2> SUFFICES ASSUME NEW kept \in errors', NEW dropped \in accepted' \ errors'
               PROVE  dropped.createdAt <= kept.createdAt
    BY DEF KeepsTheLatestTimes
  <2>1. CASE dropped \in excess[r]
    BY <2>1, <1>5
  <2>2. CASE dropped \notin excess[r]
    <3>1. dropped \in accepted \ errors
      BY <2>2, <1>1
    <3>2. CASE kept \in errors
      BY <3>1, <3>2 DEF KeepsTheLatestTimes
    <3>3. CASE kept = new
      <4>1. Cardinality(errors) = Keep
        <5>1. errors # accepted
          BY <3>1
        <5>2. Cardinality(errors) # Cardinality(accepted)
          BY <1>3, <5>1, FS_Subset
        <5> QED BY <5>2 DEF RoomIsUsed
      <4>2. PICK out \in excess[r] : TRUE
        <5>1. Cardinality(errors') # Cardinality(grown)
          BY RingAssumption, <1>4, <1>5, <4>1
        <5>2. excess[r] # {}
          BY <1>1, <5>1
        <5> QED BY <5>2
      <4>3. out \in errors
        BY <4>2, <1>1, <1>5
      <4>4. dropped.createdAt <= out.createdAt /\ out.createdAt <= kept.createdAt
        BY <3>1, <4>2, <4>3, <1>5 DEF KeepsTheLatestTimes
      <4>5. dropped.createdAt \in Nat /\ out.createdAt \in Nat /\ kept.createdAt \in Nat
        BY RingAssumption, <3>1, <3>3, <4>3, <1>2 DEF RingType, Rows
      <4> QED BY <4>4, <4>5
    <3> QED BY <3>2, <3>3, <1>1
  <2> QED BY <2>1, <2>2
<1>9. LockProtects' /\ ReportPending'
  <2>1. \A q \in Reporter \ {r} : pc[q] # "pruned" /\ lock # q
    BY <1>1 DEF LockProtects
  <2> QED BY RingAssumption, <1>1, <2>1
    DEF Unlock, LockProtects, ReportPending, RingType
<1> QED BY <1>6, <1>7, <1>8, <1>9

LEMMA RingInductive ==
  RingInv /\ [RingNext]_ringVars => RingInv'
<1> SUFFICES ASSUME RingInv, [RingNext]_ringVars
             PROVE  RingInv'
  OBVIOUS
<1>1. RingType'
  BY RingTypeInductive DEF RingInv
<1>2. CASE DeleteTransformer
  <2>1. /\ UNCHANGED <<lock, lastId, pc, mine, excess>> /\ lock = Free
        /\ errors' = {} /\ accepted' = {}
    BY <1>2 DEF DeleteTransformer
  <2>2. /\ LockProtects' /\ AcceptedNumbered'
        /\ ReportPending' /\ KeepsTheLatestTimes'
    BY RingAssumption, <2>1
    DEF RingInv, LockProtects, AcceptedNumbered,
        ReportPending, KeepsTheLatestTimes
  <2>3. RoomIsUsed' /\ AtMostKept'
    BY RingAssumption, <2>1, FS_EmptySet DEF RoomIsUsed, AtMostKept
  <2> QED BY <1>1, <2>2, <2>3 DEF RingInv
<1>3. ASSUME NEW r \in Reporter, Receive(r) \/ LockTransformer(r) PROVE RingInv'
  <2>1. /\ UNCHANGED <<errors, lastId, mine, excess, accepted>>
        /\ pc'[r] \in {"begun",
            "locked"} /\ \A q \in Reporter \ {r} : pc'[q] = pc[q]
    BY <1>3 DEF Receive, LockTransformer, RingInv, RingType
  <2>2. LockProtects'
    BY RingAssumption, <1>3 DEF Receive, LockTransformer, RingInv,
        LockProtects, RingType
  <2>3. /\ AcceptedNumbered' /\ ReportPending' /\ RoomIsUsed'
        /\ AtMostKept' /\ KeepsTheLatestTimes'
    BY <2>1
    DEF RingInv, AcceptedNumbered, ReportPending, RoomIsUsed, AtMostKept,
        KeepsTheLatestTimes
  <2> QED BY <1>1, <2>2, <2>3 DEF RingInv
<1>4. CASE UNCHANGED ringVars
  BY <1>1, <1>4
  DEF ringVars, RingInv, LockProtects, AcceptedNumbered, ReportPending,
      RoomIsUsed, AtMostKept,
      KeepsTheLatestTimes
<1> QED BY <1>1, <1>2, <1>3, <1>4, StopRing, InsertRing, CommitRing DEF RingNext

\* At most Keep errors are stored, as many as there is room for, and each of them at a
\* time no earlier than that of any accepted error that is not stored any more.
THEOREM RingInvariant == RingSpec => []RingInv
<1>1. RingInit => RingInv
  BY InitRing
<1>2. RingInv /\ [RingNext]_ringVars => RingInv'
  BY RingInductive
<1>3. QED BY <1>1, <1>2, PTL DEF RingSpec

\* No error is dropped in favour of one that is stored with an earlier time.
THEOREM LatestTimesKept == RingSpec => []KeepsTheLatestTimes
<1>1. RingInv => KeepsTheLatestTimes
  BY DEF RingInv
<1> QED BY <1>1, RingInvariant, PTL

\* Where the times of the accepted errors rise with their ids, the stored errors are the
\* newest accepted ones.
THEOREM NewestKept == RingSpec => []NewestKeptWhileClocksAgree
<1>1. RingInv => NewestKeptWhileClocksAgree
  <2> SUFFICES ASSUME RingInv, ClocksAgree
               PROVE  KeepsTheNewest
    BY DEF NewestKeptWhileClocksAgree
  <2>1. ASSUME NEW kept \in errors, NEW dropped \in accepted \ errors
        PROVE  dropped.id < kept.id
    <3>1. kept \in accepted /\ kept # dropped /\ dropped.createdAt <= kept.createdAt
      BY DEF RingInv, RoomIsUsed, KeepsTheLatestTimes
    <3>2. kept \in Rows /\ dropped \in Rows
      BY <3>1 DEF RingInv, RingType
    <3>3. kept.id # dropped.id
      BY <3>1 DEF RingInv, AcceptedNumbered
    <3>4. kept.createdAt \in Nat /\ dropped.createdAt \in Nat
      BY RingAssumption, <3>2 DEF Rows
    <3>5. ~(kept.createdAt < dropped.createdAt)
      BY <3>1, <3>4
    <3>6. ~(kept.id < dropped.id)
      BY <3>1, <3>5 DEF ClocksAgree
    <3> QED BY <3>2, <3>3, <3>6 DEF Rows
  <2> QED BY <2>1 DEF KeepsTheNewest, RingInv, RoomIsUsed
<1> QED BY <1>1, RingInvariant, PTL

\* The list the panel shows starts with the accepted error that has the latest time.
THEOREM LatestFirst == RingSpec => []LatestListedFirst
<1>1. RingInv => LatestListedFirst
  <2> SUFFICES ASSUME RingInv, NEW latest \in accepted,
                      \A e \in accepted \ {latest} : e.createdAt < latest.createdAt,
                      NEW list \in Listings(errors)
               PROVE  list[1] = latest
    BY DEF LatestListedFirst
  <2>1. /\ IsFiniteSet(errors) /\ Cardinality(errors) <= Keep /\ errors \subseteq accepted
        /\ \A x \in accepted : x.createdAt \in Nat
    BY RingAssumption, FS_Subset
      DEF RingInv, RoomIsUsed, AtMostKept, RingType, Rows
  <2>2. errors # {}
    <3>1. Cardinality(accepted) \in Nat /\ Cardinality(accepted) # 0
      BY FS_CardinalityType, FS_EmptySet DEF RingInv, RoomIsUsed
    <3>2. Cardinality(errors) # 0
      BY RingAssumption, <3>1 DEF RingInv, RoomIsUsed
    <3> QED BY <3>2, FS_EmptySet
  <2>3. list[1] \in errors /\ \A x \in errors : x.createdAt <= list[1].createdAt
    BY <2>1, <2>2, ListingStartsLatest
  <2>4. latest.createdAt <= list[1].createdAt
    BY <2>3 DEF RingInv, KeepsTheLatestTimes
  <2> QED BY <2>1, <2>3, <2>4
<1> QED BY <1>1, RingInvariant, PTL
=============================================================================
