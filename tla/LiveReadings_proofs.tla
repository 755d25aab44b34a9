------------------------ MODULE LiveReadings_proofs ------------------------
(***************************************************************************)
(* The readings page shows the selected transformer only, its socket       *)
(* belongs to the selection, a quiet view is complete, and a history takes *)
(* nothing away: proofs for any number of transformers, readings, loads    *)
(* and connects.  A reading is shown when the view has it or, of           *)
(* aggregates, a later one (Show); ReadingsInv follows each announced      *)
(* reading from the hub to the channel, the answer or the view.            *)
(***************************************************************************)
EXTENDS LiveReadings, WellFoundedInduction, TLAPS

(***************************************************************************)
(* Points: what Merge keeps.                                               *)
(***************************************************************************)

\* A set of numbers up to N that is not empty has a largest one.
LEMMA LargestExists ==
  ASSUME NEW N \in Nat, NEW S \in SUBSET (1 .. N), NEW x \in S
  PROVE  \E m \in S : \A y \in S : y <= m
<1> DEFINE T == {N - y : y \in S}
<1>1. T \in SUBSET Nat /\ T # {}
  OBVIOUS
<1>2. PICK z \in T : \A w \in T : <<w, z>> \notin OpToRel(<, Nat)
  BY <1>1, NatLessThanWellFounded, WFMin
<1>3. PICK m \in S : z = N - m
  OBVIOUS
<1>4. ASSUME NEW y \in S PROVE y <= m
  <2>1. ~(N - y < N - m)
    BY <1>1, <1>2, <1>3 DEF OpToRel
  <2> QED BY <2>1
<1> QED BY <1>4

\* Merging shows every point that goes in.
LEMMA MergeShows ==
  ASSUME PageAssumption, NEW A \in SUBSET Reading, NEW B \in SUBSET Reading, NEW n \in A \cup B
  PROVE  Show(Merge(A, B), n)
<1>1. CASE charts
  BY <1>1 DEF Merge, Show
<1>2. CASE ~charts
  <2> DEFINE P == A \cup B
             S == {m[2] : m \in {x \in P : x[1] = n[1]}}
  <2>1. S \in SUBSET (1 .. MaxReadings) /\ n[2] \in S
    BY DEF Reading
  <2>2. PICK k \in S : \A y \in S : y <= k
    <3> HIDE DEF S
    <3> QED BY <2>1, LargestExists DEF PageAssumption
  <2>3. PICK m \in P : m[1] = n[1] /\ m[2] = k
    BY <2>2
  <2>4. \A x \in P : x[1] = m[1] => x[2] <= m[2]
    BY <2>2, <2>3
  <2>5. m \in Merge(A, B)
    BY <1>2, <2>3, <2>4 DEF Merge
  <2>6. n[2] <= m[2]
    BY <2>3, <2>4
  <2> QED BY <1>2, <2>3, <2>5, <2>6 DEF Show
<1> QED BY <1>1, <1>2

\* Merging adds nothing, and merging again changes nothing.
LEMMA MergeKeeps ==
  ASSUME NEW A, NEW B
  PROVE  Merge(A, B) \subseteq A \cup B /\ Merge(Merge(A, B), {}) = Merge(A, B)
BY DEF Merge

\* More points show what fewer do.
LEMMA ShowMore ==
  ASSUME NEW P, NEW Q, P \subseteq Q, NEW n, Show(P, n)
  PROVE  Show(Q, n)
BY DEF Show

\* What is shown by points that are shown is shown.
LEMMA ShowThrough ==
  ASSUME PageAssumption, NEW P \in SUBSET Reading, NEW Q \in SUBSET Reading, NEW n \in Reading,
         Show(P, n), \A m \in P : Show(Q, m)
  PROVE  Show(Q, n)
<1>1. PICK m \in P : m = n \/ (~charts /\ m[1] = n[1] /\ n[2] <= m[2])
  BY DEF Show
<1>2. PICK k \in Q : k = m \/ (~charts /\ k[1] = m[1] /\ m[2] <= k[2])
  BY DEF Show
<1>3. n[2] \in Nat /\ m[2] \in Nat /\ k[2] \in Nat
  BY DEF Reading, PageAssumption
<1>4. k = n \/ (~charts /\ k[1] = n[1] /\ n[2] <= k[2])
  BY <1>1, <1>2, <1>3
<1> QED BY <1>4 DEF Show

\* Points that show all of a larger set merge to the same.
LEMMA SameMerge ==
  ASSUME PageAssumption, NEW P \in SUBSET Reading, NEW Q \in SUBSET Reading, P \subseteq Q,
         \A n \in Q : Show(P, n)
  PROVE  Merge(P, {}) = Merge(Q, {})
<1>1. CASE charts
  BY <1>1 DEF Merge, Show
<1>2. CASE ~charts
  <2>1. \A n \in Q : n[2] \in Nat /\ n = <<n[1], n[2]>>
    BY DEF Reading, PageAssumption
  <2>2. ASSUME NEW n \in Merge(P, {}) PROVE n \in Merge(Q, {})
    <3>1. n \in P /\ \A m \in P : m[1] = n[1] => m[2] <= n[2]
      BY <1>2 DEF Merge
    <3>2. ASSUME NEW m \in Q, m[1] = n[1] PROVE m[2] <= n[2]
      <4>1. PICK k \in P : k = m \/ (k[1] = m[1] /\ m[2] <= k[2])
        BY DEF Show
      <4>2. k[1] = n[1] /\ m[2] <= k[2]
        BY <2>1, <4>1, <3>2
      <4> QED BY <2>1, <3>1, <4>2
    <3> QED BY <1>2, <3>1, <3>2 DEF Merge
  <2>3. ASSUME NEW n \in Merge(Q, {}) PROVE n \in Merge(P, {})
    <3>1. n \in Q /\ \A m \in Q : m[1] = n[1] => m[2] <= n[2]
      BY <1>2 DEF Merge
    <3>2. PICK k \in P : k = n \/ (k[1] = n[1] /\ n[2] <= k[2])
      BY <3>1 DEF Show
    <3>3. k[1] = n[1] /\ k[2] = n[2]
      BY <2>1, <3>1, <3>2
    <3>4. k = n
      BY <2>1, <3>1, <3>3
    <3> QED BY <1>2, <3>1, <3>4 DEF Merge
  <2> QED BY <2>2, <2>3
<1> QED BY <1>1, <1>2

(***************************************************************************)
(* What the invariant says of the page.                                    *)
(***************************************************************************)

LEMMA StoredAreReadings ==
  ASSUME NEW t PROVE Stored(t) \in SUBSET Reading
BY DEF Stored

LEMMA StoredOfOne ==
  ASSUME NEW t \in Transformer, NEW n \in UNION {Stored(x) : x \in Transformer}, n[1] = t
  PROVE  n \in Stored(t)
BY DEF Stored

LEMMA SelectionShown == ReadingsInv => ViewOfSelection
BY DEF ReadingsInv, ShownIsStored, Stored, ViewOfSelection

LEMMA QuietIsComplete ==
  ASSUME PageAssumption, ReadingsInv, Quiet
  PROVE  view \subseteq Stored(selected)
         /\ Merge(view, lost \cap Stored(selected)) = Merge(Stored(selected), {})
<1> DEFINE St == Stored(selected)
           X == view \cup (lost \cap St)
<1>1. view \subseteq St /\ St \in SUBSET Reading /\ selected \in Transformer
  BY StoredAreReadings DEF ReadingsInv, TypeOK, ShownIsStored
<1>2. Settled /\ loaded
  BY DEF Quiet, Settled
<1>3. Complete(view)
  BY <1>2 DEF ReadingsInv, NothingIsMissed
<1>4. LostOrOnItsWay = lost
  BY DEF Quiet, LostOrOnItsWay, ToSet
<1>5. ASSUME NEW n \in St PROVE Show(X, n)
  <2>1. n \in started \/ n \in lost
    BY <1>1, <1>5 DEF Quiet, Unannounced
  <2>2. CASE n \in lost
    BY <1>5, <2>2 DEF Show
  <2>3. CASE n \in started /\ n \notin lost
    BY <1>3, <1>4, <1>5, <2>3, ShowMore DEF Complete
  <2> QED BY <2>1, <2>2, <2>3
<1>6. Merge(X, {}) = Merge(St, {})
  <2> HIDE DEF X
  <2>1. X \subseteq St
    BY <1>1 DEF X
  <2> QED BY <1>1, <1>5, <2>1, SameMerge
<1>7. Merge(view, lost \cap St) = Merge(X, {})
  BY DEF Merge
<1> QED BY <1>1, <1>6, <1>7

\* A history that arrives is merged with what came live; both together show the view.
LEMMA HistoryKeepsView ==
  ASSUME PageAssumption, ReadingsInv, NEW g \in Generation, HistoryArrives(g)
  PROVE  Merge(view', view) = view'
<1>1. Merge(view, view) = Merge(view, {}) /\ Merge(view, {}) = view
  BY DEF Merge, ReadingsInv, ShownIsStored
<1>2. CASE IsCurrent(g) /\ chosen
  <2> DEFINE P == answer[g] \cup live
  <2>1. view' = Merge(answer[g], live)
    BY <1>2 DEF HistoryArrives
  <2>2. P \in SUBSET Reading /\ view \in SUBSET Reading /\ answer[g] # None
        /\ answer[g] \in SUBSET Reading /\ live \in SUBSET Reading
    BY StoredAreReadings DEF HistoryArrives, ReadingsInv, TypeOK, ShownIsStored
  <2>3. view' \in SUBSET Reading
    BY <2>1, <2>2, MergeKeeps
  <2>4. \A m \in P : Show(view', m)
    BY <2>1, <2>2, MergeShows
  <2>5. \A n \in view : Show(P, n)
    BY <1>2, <2>2 DEF IsCurrent, ReadingsInv, AnswerKeepsView
  <2>6. \A n \in view : Show(view', n)
    <3> HIDE DEF P
    <3> QED BY <2>2, <2>3, <2>4, <2>5, ShowThrough
  <2>7. \A n \in view' \cup view : Show(view', n)
    BY <2>6 DEF Show
  <2>8. Merge(view', {}) = Merge(view' \cup view, {})
    BY <2>2, <2>3, <2>7, SameMerge
  <2>9. Merge(view' \cup view, {}) = Merge(view', view)
    BY DEF Merge
  <2>10. Merge(view', {}) = view'
    BY <2>1, MergeKeeps
  <2> QED BY <2>8, <2>9, <2>10
<1>3. CASE ~(IsCurrent(g) /\ chosen)
  BY <1>1, <1>3 DEF HistoryArrives
<1> QED BY <1>2, <1>3

(***************************************************************************)
(* The connection and the announcements.                                   *)
(***************************************************************************)

ConnectionType ==
  /\ Feed!TypeOK
  /\ wsGeneration \in 0 .. MaxConnects
  /\ attempts \subseteq [session : Session, target : Transformer]
  /\ socket \in [session : Session, target : Transformer] \cup {None}
  /\ ready \in BOOLEAN
  /\ socket # None => state[socket.session] # "ended"

\* The part of the invariant that is about the connection.
LinkInv == ConnectionType /\ ConnectsInOrder /\ StoredThenSent

LEMMA EndKeepsFeed ==
  ASSUME Feed!TypeOK, NEW s \in Session, Feed!End(s)
  PROVE  Feed!TypeOK'
BY DEF Feed!TypeOK, Feed!End

LEMMA RangeOfEmpty == ToSet(<<>>) = {}
BY DEF ToSet

\* What holds after a connection is given up, whatever becomes of the attempts.
LEMMA Disconnected ==
  ASSUME PageAssumption, LinkInv, Disconnect, UNCHANGED <<log, lost>>
  PROVE  /\ Feed!TypeOK' /\ StoredThenSent'
         /\ wsGeneration' = wsGeneration + 1 /\ wsGeneration' \in Session
         /\ socket' = None /\ ready' = FALSE
         /\ \A s \in Session : s > wsGeneration => state'[s] = "new"
         /\ \A s \in Session : state'[s] = "new" => due'[s] = {} /\ channel'[s] = <<>>
<1>1. wsGeneration' = wsGeneration + 1 /\ wsGeneration' \in Session /\ socket' = None /\ ready' = FALSE
  BY DEF LinkInv, ConnectionType, Disconnect, Session, PageAssumption
<1>2. CASE socket = None
  <2>1. UNCHANGED feed
    BY <1>2 DEF Disconnect
  <2>2. Feed!TypeOK'
    BY <2>1 DEF LinkInv, ConnectionType, feed, Feed!TypeOK
  <2>3. StoredThenSent'
    BY <2>1 DEF LinkInv, StoredThenSent, Stored, feed
  <2> QED BY <1>1, <2>1, <2>2, <2>3 DEF LinkInv, ConnectsInOrder, feed
<1>3. CASE socket # None
  <2>1. socket.session \in Session /\ socket.session = wsGeneration /\ Feed!End(socket.session)
    BY <1>3 DEF LinkInv, ConnectionType, ConnectsInOrder, Disconnect
  <2>2. Feed!TypeOK'
    BY <2>1, EndKeepsFeed DEF LinkInv, ConnectionType
  <2>3. /\ state' = [state EXCEPT ![socket.session] = "ended"]
        /\ due' = [due EXCEPT ![socket.session] = {}]
        /\ channel' = [channel EXCEPT ![socket.session] = <<>>]
        /\ started' = started
    BY <2>1 DEF Feed!End
  <2>4. StoredThenSent'
    BY <2>1, <2>3, RangeOfEmpty DEF LinkInv, ConnectionType, StoredThenSent, Stored, Feed!TypeOK
  <2>5. \A s \in Session : s > wsGeneration => s # wsGeneration
    BY DEF Session, LinkInv, ConnectionType
  <2> QED BY <1>1, <2>1, <2>2, <2>3, <2>4, <2>5 DEF LinkInv, ConnectionType, ConnectsInOrder, Feed!TypeOK
<1> QED BY <1>2, <1>3

\* A connection is given up.
LEMMA ClearConnection ==
  ASSUME PageAssumption, LinkInv, ClearWs, UNCHANGED <<log, lost>>
  PROVE  LinkInv' /\ socket' = None
<1>1. Disconnect /\ attempts' = attempts
  BY DEF ClearWs
<1>2. /\ Feed!TypeOK' /\ StoredThenSent'
      /\ wsGeneration' = wsGeneration + 1 /\ wsGeneration' \in Session
      /\ socket' = None /\ ready' = FALSE
      /\ \A s \in Session : s > wsGeneration => state'[s] = "new"
      /\ \A s \in Session : state'[s] = "new" => due'[s] = {} /\ channel'[s] = <<>>
  BY <1>1, Disconnected
<1>3. ConnectionType'
  <2>1. wsGeneration' \in 0 .. MaxConnects
    BY <1>2 DEF Session
  <2>2. attempts' \subseteq [session : Session, target : Transformer]
    BY <1>1 DEF LinkInv, ConnectionType
  <2> QED BY <1>2, <2>1, <2>2 DEF ConnectionType
<1>4. \A s \in Session : s > wsGeneration' => s > wsGeneration
  BY <1>2 DEF LinkInv, ConnectionType, Session
<1>5. \A a \in attempts : a.session <= wsGeneration' /\ a.session # wsGeneration'
  BY <1>2 DEF LinkInv, ConnectionType, ConnectsInOrder, Session
<1>6. ConnectsInOrder'
  BY <1>1, <1>2, <1>4, <1>5 DEF ConnectsInOrder
<1> QED BY <1>2, <1>3, <1>6 DEF LinkInv

\* connectWs: the new attempt is for the selection.
LEMMA ConnectConnection ==
  ASSUME PageAssumption, LinkInv, ConnectWs, selected \in Transformer, selected' = selected,
         UNCHANGED <<log, lost>>
  PROVE  LinkInv' /\ socket' = None
<1> DEFINE b == [session |-> wsGeneration', target |-> selected]
<1>1. Disconnect /\ attempts' = attempts \cup {b}
  BY DEF ConnectWs
<1>2. /\ Feed!TypeOK' /\ StoredThenSent'
      /\ wsGeneration' = wsGeneration + 1 /\ wsGeneration' \in Session
      /\ socket' = None /\ ready' = FALSE
      /\ \A s \in Session : s > wsGeneration => state'[s] = "new"
      /\ \A s \in Session : state'[s] = "new" => due'[s] = {} /\ channel'[s] = <<>>
  BY <1>1, Disconnected
<1>3. b \in [session : Session, target : Transformer] /\ b.session = wsGeneration' /\ b.target = selected
  BY <1>2
<1>4. ConnectionType'
  <2> HIDE DEF b
  <2>1. wsGeneration' \in 0 .. MaxConnects
    BY <1>2 DEF Session
  <2>2. attempts' \subseteq [session : Session, target : Transformer]
    BY <1>1, <1>3 DEF LinkInv, ConnectionType
  <2> QED BY <1>2, <2>1, <2>2 DEF ConnectionType
<1>5. /\ wsGeneration' > wsGeneration
      /\ \A s \in Session : s > wsGeneration' => s > wsGeneration
  BY <1>2 DEF LinkInv, ConnectionType, Session
<1>6. \A a \in attempts : a.session <= wsGeneration' /\ a.session # wsGeneration'
  BY <1>2 DEF LinkInv, ConnectionType, ConnectsInOrder, Session
<1>7. wsGeneration' <= wsGeneration' /\ state'[wsGeneration'] = "new"
  BY <1>2, <1>5 DEF Session
<1>8. ConnectsInOrder'
  <2> HIDE DEF b
  <2> QED BY <1>1, <1>2, <1>3, <1>5, <1>6, <1>7 DEF ConnectsInOrder
<1> QED BY <1>2, <1>4, <1>8 DEF LinkInv

LEMMA RangeOfTail ==
  ASSUME NEW S, NEW q \in Seq(S), q # <<>>
  PROVE  ToSet(q) = {Head(q)} \cup ToSet(Tail(q)) /\ Head(q) \in S /\ Tail(q) \in Seq(S)
<1>1. Head(q) = q[1] /\ Tail(q) \in Seq(S) /\ Len(q) >= 1 /\ Len(Tail(q)) = Len(q) - 1 /\ Len(q) \in Nat
  OBVIOUS
<1>2. \A i \in 1 .. Len(Tail(q)) : Tail(q)[i] = q[i + 1]
  OBVIOUS
<1>3. DOMAIN q = 1 .. Len(q) /\ DOMAIN Tail(q) = 1 .. Len(Tail(q))
  OBVIOUS
<1>4. ASSUME NEW x \in ToSet(q) PROVE x = Head(q) \/ x \in ToSet(Tail(q))
  <2>1. PICK i \in 1 .. Len(q) : x = q[i]
    BY <1>3 DEF ToSet
  <2>2. CASE i = 1
    BY <1>1, <2>1, <2>2
  <2>3. CASE i # 1
    <3>1. i - 1 \in 1 .. Len(Tail(q)) /\ Tail(q)[i - 1] = x
      BY <1>1, <1>2, <2>1, <2>3
    <3> QED BY <1>3, <3>1 DEF ToSet
  <2> QED BY <2>2, <2>3
<1>5. Head(q) \in ToSet(q) /\ Head(q) \in S
  BY <1>1, <1>3 DEF ToSet
<1>6. ASSUME NEW x \in ToSet(Tail(q)) PROVE x \in ToSet(q)
  <2>1. PICK i \in 1 .. Len(Tail(q)) : x = Tail(q)[i]
    BY <1>3 DEF ToSet
  <2>2. i + 1 \in 1 .. Len(q) /\ x = q[i + 1]
    BY <1>1, <1>2, <2>1
  <2> QED BY <1>3, <2>2 DEF ToSet
<1> QED BY <1>1, <1>4, <1>5, <1>6

LEMMA RangeOfAppend ==
  ASSUME NEW S, NEW q \in Seq(S), NEW e \in S
  PROVE  ToSet(Append(q, e)) = ToSet(q) \cup {e} /\ Append(q, e) # <<>>
<1>1. Append(q, e) \in Seq(S) /\ Len(Append(q, e)) = Len(q) + 1 /\ Len(q) \in Nat
  OBVIOUS
<1>2. DOMAIN q = 1 .. Len(q) /\ DOMAIN Append(q, e) = 1 .. (Len(q) + 1)
  BY <1>1
<1>3. Append(q, e)[Len(q) + 1] = e /\ \A i \in 1 .. Len(q) : Append(q, e)[i] = q[i]
  OBVIOUS
<1>4. \A i \in 1 .. (Len(q) + 1) : i = Len(q) + 1 \/ i \in 1 .. Len(q)
  BY <1>1
<1>5. Len(q) + 1 \in 1 .. (Len(q) + 1) /\ \A i \in 1 .. Len(q) : i \in 1 .. (Len(q) + 1)
  BY <1>1
<1> QED BY <1>1, <1>2, <1>3, <1>4, <1>5 DEF ToSet

\* Nothing happens to the connection, and nothing is unstored.
LEMMA LinkStays ==
  ASSUME LinkInv, UNCHANGED <<feed, connection, selected, lost>>, \A t \in Transformer : Stored(t) \subseteq Stored(t)'
  PROVE  LinkInv'
<1>1. ConnectionType'
  BY DEF LinkInv, ConnectionType, connection, feed, Feed!TypeOK
<1>2. ConnectsInOrder'
  BY DEF LinkInv, ConnectsInOrder, connection, feed
<1>3. StoredThenSent'
  BY DEF LinkInv, StoredThenSent, feed
<1> QED BY <1>1, <1>2, <1>3 DEF LinkInv

LEMMA RecordOfFields ==
  ASSUME NEW a \in [session : Session, target : Transformer],
         NEW b \in [session : Session, target : Transformer],
         a.session = b.session, a.target = b.target
  PROVE  a = b
OBVIOUS

LEMMA TokenKeepsLink ==
  ASSUME LinkInv, NEW a \in attempts, TokenArrives(a) \/ TokenMissing(a)
  PROVE  LinkInv'
<1>1. /\ attempts' = attempts \ {a} /\ UNCHANGED <<feed, log, lost, selected, wsGeneration, ready>>
      /\ socket' = socket \/ (IsLatest(a) /\ socket' = a)
  BY DEF TokenArrives, TokenMissing, logs, page
<1>2. a \in [session : Session, target : Transformer]
  BY DEF LinkInv, ConnectionType
<1>3. IsLatest(a) => a.session = wsGeneration /\ a.target = selected /\ socket = None /\ state[a.session] = "new"
  BY DEF LinkInv, ConnectsInOrder, IsLatest
<1>4. \A b \in attempts' : b.session # wsGeneration \/ (~IsLatest(a) /\ b.session = wsGeneration)
  <2>1. SUFFICES ASSUME NEW b \in attempts, b # a, b.session = wsGeneration, IsLatest(a) PROVE FALSE
    BY <1>1
  <2>2. b.target = a.target /\ b.session = a.session /\ b \in [session : Session, target : Transformer]
    BY <1>3, <2>1 DEF LinkInv, ConnectsInOrder, ConnectionType
  <2> QED BY <1>2, <2>1, <2>2, RecordOfFields
<1>5. ConnectionType'
  BY <1>1, <1>2, <1>3 DEF LinkInv, ConnectionType, feed, Feed!TypeOK
<1>6. ConnectsInOrder'
  BY <1>1, <1>2, <1>3, <1>4 DEF LinkInv, ConnectsInOrder, feed
<1>7. StoredThenSent'
  BY <1>1 DEF LinkInv, StoredThenSent, feed, Stored
<1> QED BY <1>5, <1>6, <1>7 DEF LinkInv

LEMMA SubscribeKeepsLink ==
  ASSUME LinkInv, Subscribe
  PROVE  LinkInv'
<1>1. /\ socket # None /\ socket.session \in Session /\ socket.target \in Transformer
      /\ Feed!Join(socket.session, socket.target)
      /\ UNCHANGED <<log, lost, selected, wsGeneration, attempts, socket, ready>>
  BY DEF Subscribe, LinkInv, ConnectionType, logs, page, connection
<1>2. /\ state[socket.session] = "new"
      /\ state' = [state EXCEPT ![socket.session] = "open"]
      /\ topic' = [topic EXCEPT ![socket.session] = socket.target]
      /\ UNCHANGED <<started, running, due, channel, delivered>>
  BY <1>1 DEF Feed!Join
<1>3. Feed!TypeOK'
  BY <1>1, <1>2 DEF LinkInv, ConnectionType, Feed!TypeOK
<1>4. ConnectionType'
  BY <1>1, <1>2, <1>3 DEF LinkInv, ConnectionType, Feed!TypeOK
<1>5. ConnectsInOrder'
  <2>1. \A s \in Session : s > wsGeneration => s # socket.session
    BY <1>1 DEF LinkInv, ConnectionType, ConnectsInOrder, Session
  <2>2. \A b \in attempts : b.session # wsGeneration
    BY <1>1 DEF LinkInv, ConnectsInOrder
  <2>3. state'[socket.session] = "open" /\ topic'[socket.session] = socket.target
    BY <1>1, <1>2 DEF LinkInv, ConnectionType, Feed!TypeOK
  <2>4. \A s \in Session : s # socket.session => state'[s] = state[s]
    BY <1>1, <1>2 DEF LinkInv, ConnectionType, Feed!TypeOK
  <2> QED BY <1>1, <1>2, <2>1, <2>2, <2>3, <2>4 DEF LinkInv, ConnectsInOrder, ConnectionType
<1>6. StoredThenSent'
  BY <1>1, <1>2 DEF LinkInv, StoredThenSent, Stored
<1> QED BY <1>4, <1>5, <1>6 DEF LinkInv

LEMMA ReadyKeepsLink ==
  ASSUME LinkInv, ReadyArrives
  PROVE  LinkInv'
<1>1. /\ socket # None /\ state[socket.session] # "new" /\ ready' = TRUE
      /\ UNCHANGED <<feed, log, lost, selected, wsGeneration, attempts, socket>>
  BY DEF ReadyArrives, logs, page
<1>2. ConnectionType'
  BY <1>1 DEF LinkInv, ConnectionType, feed, Feed!TypeOK
<1>3. ConnectsInOrder'
  BY <1>1 DEF LinkInv, ConnectsInOrder, feed
<1>4. StoredThenSent'
  BY <1>1 DEF LinkInv, StoredThenSent, feed, Stored
<1> QED BY <1>2, <1>3, <1>4 DEF LinkInv

LEMMA CloseKeepsLink ==
  ASSUME LinkInv, SocketCloses
  PROVE  LinkInv'
<1>1. /\ socket # None /\ socket.session \in Session /\ socket.session = wsGeneration
      /\ Feed!End(socket.session) /\ socket' = None /\ ready' = FALSE
      /\ UNCHANGED <<log, lost, selected, wsGeneration, attempts>>
  BY DEF SocketCloses, LinkInv, ConnectionType, ConnectsInOrder, logs, page
<1>2. Feed!TypeOK'
  BY <1>1, EndKeepsFeed DEF LinkInv, ConnectionType
<1>3. /\ state' = [state EXCEPT ![socket.session] = "ended"]
      /\ due' = [due EXCEPT ![socket.session] = {}]
      /\ channel' = [channel EXCEPT ![socket.session] = <<>>]
      /\ started' = started
  BY <1>1 DEF Feed!End
<1>4. ConnectionType'
  BY <1>1, <1>2 DEF LinkInv, ConnectionType
<1>5. ConnectsInOrder'
  <2>1. \A s \in Session : s > wsGeneration => s # socket.session
    BY <1>1 DEF LinkInv, ConnectionType, Session
  <2>2. \A b \in attempts : b.session # wsGeneration
    BY <1>1 DEF LinkInv, ConnectsInOrder
  <2> QED BY <1>1, <1>3, <2>1, <2>2 DEF LinkInv, ConnectsInOrder, ConnectionType, Feed!TypeOK
<1>6. StoredThenSent'
  BY <1>1, <1>3, RangeOfEmpty DEF LinkInv, ConnectionType, StoredThenSent, Stored, Feed!TypeOK
<1> QED BY <1>4, <1>5, <1>6 DEF LinkInv

\* The hub goes on: no session begins or ends, and only announced readings are sent.
LEMMA FeedKeepsLink ==
  ASSUME LinkInv, UNCHANGED <<connection, selected, log, lost, topic>>, Feed!TypeOK',
         \A s \in Session : /\ state'[s] = "new" <=> state[s] = "new"
                            /\ state'[s] = "ended" => state[s] = "ended"
                            /\ state[s] = "new" => due'[s] = due[s] /\ channel'[s] = channel[s]
                            /\ due'[s] \cup ToSet(channel'[s]) \subseteq started',
         started' \subseteq UNION {Stored(t) : t \in Transformer}
  PROVE  LinkInv'
<1>1. UNCHANGED <<wsGeneration, attempts, socket, ready>>
  BY DEF connection
<1>2. socket # None => socket.session \in Session
  BY DEF LinkInv, ConnectionType
<1>3. \A a \in attempts : a.session \in Session
  BY DEF LinkInv, ConnectionType
<1>4. ConnectionType'
  BY <1>1, <1>2 DEF LinkInv, ConnectionType
<1>5. ConnectsInOrder'
  BY <1>1, <1>2, <1>3 DEF LinkInv, ConnectsInOrder
<1>6. StoredThenSent'
  BY DEF LinkInv, StoredThenSent, Stored
<1> QED BY <1>4, <1>5, <1>6 DEF LinkInv

LEMMA AnnounceKeepsLink ==
  ASSUME LinkInv, NEW n \in Reading, Announce(n)
  PROVE  LinkInv'
<1>1. /\ started' = started \cup {n} /\ running' = running \cup {n}
      /\ due' = [s \in Session |-> IF s \in Feed!Audience(n) THEN due[s] \cup {n} ELSE due[s]]
      /\ UNCHANGED <<state, topic, channel, delivered, connection, selected, log, lost>>
      /\ n \in UNION {Stored(t) : t \in Transformer}
  BY DEF Announce, Feed!Announce, Unannounced, logs, page
<1>2. Feed!TypeOK'
  BY <1>1 DEF LinkInv, ConnectionType, Feed!TypeOK
<1>3. \A s \in Session : s \in Feed!Audience(n) => state[s] = "open"
  BY DEF Feed!Audience
<1>4. \A s \in Session : /\ state'[s] = "new" <=> state[s] = "new"
                         /\ state'[s] = "ended" => state[s] = "ended"
                         /\ state[s] = "new" => due'[s] = due[s] /\ channel'[s] = channel[s]
                         /\ due'[s] \cup ToSet(channel'[s]) \subseteq started'
  BY <1>1, <1>3 DEF LinkInv, StoredThenSent
<1>5. started' \subseteq UNION {Stored(t) : t \in Transformer}
  BY <1>1 DEF LinkInv, StoredThenSent
<1> QED BY <1>1, <1>2, <1>4, <1>5, FeedKeepsLink

LEMMA OfferKeepsLink ==
  ASSUME LinkInv, NEW n \in Reading, NEW r \in Session, Feed!Offer(n, r), UNCHANGED <<logs, page, connection>>
  PROVE  LinkInv'
<1>1. /\ n \in running /\ state[r] # "new"
      /\ channel' = [channel EXCEPT ![r] = Append(@, n)]
      /\ due' = [due EXCEPT ![r] = @ \ {n}]
      /\ UNCHANGED <<state, topic, started, running, delivered, selected, log, lost>>
  BY DEF Feed!Offer, Feed!Receptive, logs, page
<1>2. Feed!TypeOK'
  BY <1>1 DEF LinkInv, ConnectionType, Feed!TypeOK
<1>3. ToSet(Append(channel[r], n)) = ToSet(channel[r]) \cup {n} /\ n \in started
  BY <1>1, RangeOfAppend DEF LinkInv, ConnectionType, Feed!TypeOK
<1>4. \A s \in Session : /\ state'[s] = "new" <=> state[s] = "new"
                         /\ state'[s] = "ended" => state[s] = "ended"
                         /\ state[s] = "new" => due'[s] = due[s] /\ channel'[s] = channel[s]
                         /\ due'[s] \cup ToSet(channel'[s]) \subseteq started'
  BY <1>1, <1>3 DEF LinkInv, ConnectionType, Feed!TypeOK, StoredThenSent
<1> QED BY <1>1, <1>2, <1>4, FeedKeepsLink DEF LinkInv, StoredThenSent

LEMMA FallBehindKeepsLink ==
  ASSUME LinkInv, NEW n \in Reading, NEW r \in Session, Feed!FallBehind(n, r), UNCHANGED <<logs, page, connection>>
  PROVE  LinkInv'
<1>1. /\ n \in running /\ state[r] \in {"open", "failing"}
      /\ state' = [state EXCEPT ![r] = "failing"]
      /\ due' = [due EXCEPT ![r] = IF state[r] = "open" THEN {n} ELSE @ \cup {n}]
      /\ UNCHANGED <<topic, started, running, channel, delivered, selected, log, lost>>
  BY DEF Feed!FallBehind, Feed!Receptive, logs, page
<1>2. Feed!TypeOK'
  BY <1>1 DEF LinkInv, ConnectionType, Feed!TypeOK
<1>3. n \in started
  BY <1>1 DEF LinkInv, ConnectionType, Feed!TypeOK
<1>4. \A s \in Session : /\ state'[s] = "new" <=> state[s] = "new"
                         /\ state'[s] = "ended" => state[s] = "ended"
                         /\ state[s] = "new" => due'[s] = due[s] /\ channel'[s] = channel[s]
                         /\ due'[s] \cup ToSet(channel'[s]) \subseteq started'
  BY <1>1, <1>3 DEF LinkInv, ConnectionType, Feed!TypeOK, StoredThenSent
<1> QED BY <1>1, <1>2, <1>4, FeedKeepsLink DEF LinkInv, StoredThenSent

LEMMA HubKeepsLink ==
  ASSUME LinkInv, HubStep
  PROVE  LinkInv'
<1>1. UNCHANGED <<logs, page, connection, selected, log, lost>>
  BY DEF HubStep, logs, page
<1>2. CASE \E n \in Reading, r \in Session : Feed!Offer(n, r) \/ Feed!FallBehind(n, r)
  BY <1>1, <1>2, OfferKeepsLink, FallBehindKeepsLink
<1>3. CASE \E n \in Reading : Feed!EndAnnouncement(n)
  <2>1. \E n \in Reading : running' = running \ {n} /\ UNCHANGED <<state, topic, started, due, channel, delivered>>
    BY <1>3 DEF Feed!EndAnnouncement
  <2>2. Feed!TypeOK'
    BY <2>1 DEF LinkInv, ConnectionType, Feed!TypeOK
  <2> QED BY <1>1, <2>1, <2>2, FeedKeepsLink DEF LinkInv, StoredThenSent
<1>4. CASE \E r \in Session : Feed!Cut(r)
  <2>1. PICK r \in Session : Feed!Cut(r)
    BY <1>4
  <2>2. /\ state[r] = "failing"
        /\ state' = [state EXCEPT ![r] = "cut"]
        /\ due' = [due EXCEPT ![r] = {}]
        /\ UNCHANGED <<topic, started, running, channel, delivered>>
    BY <2>1 DEF Feed!Cut
  <2>3. Feed!TypeOK'
    BY <2>2 DEF LinkInv, ConnectionType, Feed!TypeOK
  <2>4. \A s \in Session : /\ state'[s] = "new" <=> state[s] = "new"
                           /\ state'[s] = "ended" => state[s] = "ended"
                           /\ state[s] = "new" => due'[s] = due[s] /\ channel'[s] = channel[s]
                           /\ due'[s] \cup ToSet(channel'[s]) \subseteq started'
    BY <2>2 DEF LinkInv, ConnectionType, Feed!TypeOK, StoredThenSent
  <2> QED BY <1>1, <2>2, <2>3, <2>4, FeedKeepsLink DEF LinkInv, StoredThenSent
<1> QED BY <1>2, <1>3, <1>4 DEF HubStep

\* A point leaves the channel; it is a stored one.
LEMMA PointKeepsLink ==
  ASSUME LinkInv, PointArrives
  PROVE  /\ LinkInv'
         /\ Head(channel[socket.session]) \in Reading
         /\ Head(channel[socket.session]) \in UNION {Stored(t) : t \in Transformer}
         /\ ToSet(channel[socket.session]) = {Head(channel[socket.session])} \cup ToSet(channel'[socket.session])
<1> DEFINE r == socket.session
<1>1. /\ r \in Session /\ state[r] # "new" /\ channel[r] # <<>>
      /\ channel' = [channel EXCEPT ![r] = Tail(@)]
      /\ delivered' = [delivered EXCEPT ![r] = Append(@, Head(channel[r]))]
      /\ UNCHANGED <<state, topic, started, running, due, connection, selected, log, lost>>
  BY DEF PointArrives, Feed!Deliver, logs, LinkInv, ConnectionType
<1>2. channel[r] \in Seq(Reading) /\ delivered[r] \in Seq(Reading)
  BY <1>1 DEF LinkInv, ConnectionType, Feed!TypeOK
<1> HIDE DEF r
<1>3. /\ ToSet(channel[r]) = {Head(channel[r])} \cup ToSet(Tail(channel[r]))
      /\ Head(channel[r]) \in Reading /\ Tail(channel[r]) \in Seq(Reading)
  BY <1>1, <1>2, RangeOfTail
<1>4. Append(delivered[r], Head(channel[r])) \in Seq(Reading)
  BY <1>2, <1>3
<1>5. Feed!TypeOK'
  BY <1>1, <1>3, <1>4 DEF LinkInv, ConnectionType, Feed!TypeOK
<1>6. channel'[r] = Tail(channel[r])
  BY <1>1 DEF LinkInv, ConnectionType, Feed!TypeOK
<1>7. \A s \in Session : /\ state'[s] = "new" <=> state[s] = "new"
                         /\ state'[s] = "ended" => state[s] = "ended"
                         /\ state[s] = "new" => due'[s] = due[s] /\ channel'[s] = channel[s]
                         /\ due'[s] \cup ToSet(channel'[s]) \subseteq started'
  BY <1>1, <1>3, <1>6 DEF LinkInv, ConnectionType, Feed!TypeOK, StoredThenSent
<1>8. LinkInv'
  BY <1>1, <1>5, <1>7, FeedKeepsLink DEF LinkInv, StoredThenSent
<1>9. Head(channel[r]) \in started
  BY <1>1, <1>3 DEF LinkInv, StoredThenSent
<1> QED BY <1>3, <1>6, <1>8, <1>9 DEF LinkInv, StoredThenSent, r

(***************************************************************************)
(* The log, the loads and the view.                                        *)
(***************************************************************************)

PageType ==
  /\ charts \in BOOLEAN
  /\ Log!TypeOK
  /\ lost \subseteq Reading
  /\ selected \in Transformer
  /\ listed \in BOOLEAN /\ chosen \in BOOLEAN /\ reload \in BOOLEAN
  /\ live \subseteq view /\ view \subseteq Reading

LoadType ==
  /\ loadGeneration \in 0 .. MaxLoads
  /\ load \in [Generation -> Transformer \cup {None}]
  /\ answer \in [Generation -> (SUBSET Reading) \cup {None}]
  /\ loaded \in BOOLEAN

ChainType ==
  /\ chain \in [Chain -> {"none", "errors", "registers", "metrics"}]
  /\ chainOf \in [Chain -> Transformer \cup Generation \cup {None}]

\* The part of the invariant that is about what is shown.
ShownInv == PageType /\ LoadType /\ ShownIsStored /\ AnswerKeepsView

LEMMA Parts == ReadingsInv <=> LinkInv /\ ShownInv /\ ChainType /\ NothingIsMissed
BY DEF ReadingsInv, TypeOK, LinkInv, ShownInv, ConnectionType, PageType, LoadType, ChainType

LEMMA PartsNext == LinkInv' /\ ShownInv' /\ ChainType' /\ NothingIsMissed' => ReadingsInv'
BY Parts, PTL

LEMMA LogGrows ==
  ASSUME Log!TypeOK, NEW t \in Transformer, StoreReading(t)
  PROVE  Log!TypeOK' /\ \A x \in Transformer : Stored(x) \subseteq Stored(x)'
<1>1. log' = [log EXCEPT ![t] = Append(@, "reading")] /\ log \in [Transformer -> Seq({"reading"})]
  BY DEF StoreReading, Log!Record, Log!TypeOK
<1>2. Append(log[t], "reading") \in Seq({"reading"}) /\ Len(Append(log[t], "reading")) = Len(log[t]) + 1
  BY <1>1
<1>3. log' \in [Transformer -> Seq({"reading"})] /\ \A x \in Transformer : Len(log[x]) \in Nat /\ Len(log'[x]) \in Nat
  BY <1>1, <1>2
<1>4. \A x \in Transformer : Len(log[x]) <= Len(log'[x])
  BY <1>1, <1>2, <1>3
<1>5. \A n \in Reading : n[2] \in Int
  BY DEF Reading
<1> QED BY <1>3, <1>4, <1>5 DEF Stored, Log!TypeOK

\* The page and its loads stay, and nothing is unstored.
LEMMA ShownStays ==
  ASSUME ShownInv, UNCHANGED <<charts, page, loads>>, Log!TypeOK', lost' \subseteq Reading,
         \A t \in Transformer : Stored(t) \subseteq Stored(t)'
  PROVE  ShownInv'
<1>1. PageType' /\ LoadType'
  BY DEF ShownInv, PageType, LoadType, page, loads
<1>2. ShownIsStored'
  <2>1. \A g \in Generation : load[g] # None => load[g] \in Transformer
    BY DEF ShownInv, LoadType
  <2> QED BY <2>1 DEF ShownInv, PageType, ShownIsStored, Merge, page, loads
<1>3. AnswerKeepsView'
  BY DEF ShownInv, AnswerKeepsView, Show, page, loads
<1> QED BY <1>1, <1>2, <1>3 DEF ShownInv

\* A load of the selection is started, or only asked for; the view stays or is emptied.
LEMMA StartKeepsShown ==
  ASSUME PageAssumption, ShownInv, StartLoad, PageType', UNCHANGED <<charts, log, selected>>,
         UNCHANGED <<view, live>> \/ (chosen' /\ view' = {})
  PROVE  ShownInv' /\ (chosen' => loaded' = FALSE /\ \A g \in Generation : g = loadGeneration' => answer'[g] = None)
<1>1. CASE chosen'
  <2> DEFINE k == loadGeneration + 1
  <2>1. /\ k \in Generation /\ loadGeneration' = k /\ loaded' = FALSE /\ answer' = answer
        /\ load' = [load EXCEPT ![k] = selected]
    BY <1>1 DEF StartLoad, ShownInv, LoadType, Generation, PageAssumption
  <2>2. \A g \in Generation : g # k => (g <= loadGeneration => g <= k)
    BY <2>1 DEF Generation, ShownInv, LoadType
  <2>3. answer[k] = None
    BY <2>1 DEF ShownInv, ShownIsStored, Generation, LoadType
  <2>4. LoadType'
    <3>1. k \in 0 .. MaxLoads
      BY <2>1 DEF Generation
    <3> HIDE DEF k
    <3> QED BY <2>1, <3>1 DEF ShownInv, LoadType, PageType
  <2>5. ShownIsStored'
    <3>1. k <= k
      BY <2>1 DEF Generation
    <3>2. view' \subseteq Stored(selected)' /\ (Merge(view, {}) = view)'
      BY DEF ShownInv, ShownIsStored, Stored, Merge
    <3>3. ASSUME NEW g \in Generation
          PROVE  /\ load'[g] # None => g <= loadGeneration'
                 /\ answer'[g] # None => load'[g] # None /\ answer'[g] \subseteq Stored(load[g])'
      <4>1. CASE g = k
        BY <2>1, <2>3, <3>1, <4>1
      <4>2. CASE g # k
        <5>1. load'[g] = load[g]
          BY <2>1, <4>2 DEF ShownInv, LoadType
        <5> QED BY <2>1, <2>2, <4>2, <5>1 DEF ShownInv, ShownIsStored, Stored
      <4> QED BY <4>1, <4>2
    <3> QED BY <3>2, <3>3 DEF ShownIsStored
  <2>6. AnswerKeepsView'
    BY <2>1, <2>3 DEF AnswerKeepsView
  <2> QED BY <2>1, <2>3, <2>4, <2>5, <2>6 DEF ShownInv
<1>2. CASE ~chosen'
  <2>1. UNCHANGED <<loads, view, live>>
    BY <1>2 DEF StartLoad
  <2>2. LoadType'
    BY <2>1 DEF ShownInv, LoadType, loads
  <2>3. ShownIsStored'
    BY <2>1 DEF ShownInv, ShownIsStored, Stored, Merge, loads
  <2>4. AnswerKeepsView'
    BY <2>1 DEF ShownInv, AnswerKeepsView, Show, loads
  <2> QED BY <1>2, <2>2, <2>3, <2>4 DEF ShownInv
<1> QED BY <1>1, <1>2

\* The view is emptied; the loads stay, and may be of another transformer then.
LEMMA EmptyKeepsShown ==
  ASSUME ShownInv, PageType', UNCHANGED <<charts, log, loads>>, view' = {}
  PROVE  ShownInv'
<1>1. LoadType'
  BY DEF ShownInv, LoadType, loads
<1>2. ShownIsStored'
  BY DEF ShownInv, ShownIsStored, Stored, Merge, loads
<1>3. AnswerKeepsView'
  BY DEF AnswerKeepsView
<1> QED BY <1>1, <1>2, <1>3 DEF ShownInv

\* The answer to a load has everything that is stored.
LEMMA QueryKeepsShown ==
  ASSUME PageAssumption, ShownInv, NEW g \in Generation, QueryHistory(g)
  PROVE  ShownInv' /\ \A n \in Stored(load[g]) : Show(answer'[g], n)
<1> DEFINE A == Merge(Stored(load[g]), {})
<1>1. /\ load[g] # None /\ answer' = [answer EXCEPT ![g] = A]
      /\ UNCHANGED <<charts, log, lost, page, loadGeneration, load, loaded>>
  BY DEF QueryHistory, logs
<1>2. Stored(load[g]) \in SUBSET Reading /\ A \subseteq Stored(load[g])
  BY StoredAreReadings, MergeKeeps
<1>3. \A n \in Stored(load[g]) : Show(A, n)
  BY <1>2, MergeShows
<1> HIDE DEF A
<1>4. PageType' /\ LoadType'
  BY <1>1, <1>2 DEF ShownInv, PageType, LoadType, page, Log!TypeOK
<1>5. answer'[g] = A
  BY <1>1 DEF ShownInv, LoadType
<1>6. \A h \in Generation : h # g => answer'[h] = answer[h]
  BY <1>1 DEF ShownInv, LoadType
<1>7. ShownIsStored'
  <2>1. UNCHANGED <<view, selected>>
    BY <1>1 DEF page
  <2>2. view' \subseteq Stored(selected)' /\ (Merge(view, {}) = view)'
    BY <1>1, <2>1 DEF ShownInv, ShownIsStored, Stored, Merge
  <2>3. ASSUME NEW h \in Generation
        PROVE  /\ load'[h] # None => h <= loadGeneration'
               /\ answer'[h] # None => load'[h] # None /\ answer'[h] \subseteq Stored(load[h])'
    BY <1>1, <1>2, <1>5, <1>6 DEF ShownInv, ShownIsStored, Stored
  <2> QED BY <2>2, <2>3 DEF ShownIsStored
<1>8. AnswerKeepsView'
  <2>1. UNCHANGED <<view, live, selected>> /\ view \subseteq Stored(selected)
    BY <1>1 DEF page, ShownInv, ShownIsStored
  <2>2. ASSUME NEW h \in Generation, h = loadGeneration, load[h] = selected, answer'[h] # None, NEW n \in view
        PROVE  Show(answer'[h] \cup live, n)
    <3>1. CASE h = g
      BY <1>3, <1>5, <2>1, <2>2, <3>1, ShowMore
    <3>2. CASE h # g
      BY <1>6, <2>2, <3>2 DEF ShownInv, AnswerKeepsView
    <3> QED BY <3>1, <3>2
  <2> QED BY <1>1, <2>1, <2>2 DEF AnswerKeepsView, Show
<1> QED BY <1>3, <1>4, <1>5, <1>7, <1>8 DEF ShownInv

\* A load ends; the view stays or, when it is the latest load, becomes one of stored points.
LEMMA EndKeepsShown ==
  ASSUME ShownInv, NEW g \in Generation, PageType', UNCHANGED <<charts, log, selected, loadGeneration>>,
         load' = [load EXCEPT ![g] = None], answer' = [answer EXCEPT ![g] = None], loaded' \in BOOLEAN,
         \/ UNCHANGED <<view, live>>
         \/ g = loadGeneration /\ view' \subseteq Stored(selected) /\ Merge(view', {}) = view'
  PROVE  ShownInv'
<1>1. LoadType'
  BY DEF ShownInv, LoadType
<1>2. answer'[g] = None /\ load'[g] = None
  BY DEF ShownInv, LoadType
<1>3. \A h \in Generation : h # g => answer'[h] = answer[h] /\ load'[h] = load[h]
  BY DEF ShownInv, LoadType
<1>4. ShownIsStored'
  <2>1. view' \subseteq Stored(selected)' /\ (Merge(view, {}) = view)'
    BY DEF ShownInv, ShownIsStored, Stored, Merge
  <2>2. ASSUME NEW h \in Generation
        PROVE  /\ load'[h] # None => h <= loadGeneration'
               /\ answer'[h] # None => load'[h] # None /\ answer'[h] \subseteq Stored(load[h])'
    BY <1>2, <1>3 DEF ShownInv, ShownIsStored, Stored
  <2> QED BY <2>1, <2>2 DEF ShownIsStored
<1>5. AnswerKeepsView'
  <2>1. ASSUME NEW h \in Generation, h = loadGeneration', load'[h] = selected', answer'[h] # None
        PROVE  \A n \in view' : Show(answer'[h] \cup live', n)
    <3>1. h # g
      BY <1>2, <2>1
    <3> QED BY <1>3, <2>1, <3>1 DEF ShownInv, AnswerKeepsView
  <2> QED BY <2>1 DEF AnswerKeepsView, Show
<1> QED BY <1>1, <1>4, <1>5 DEF ShownInv

\* What the answer to the latest load and live points become.
LEMMA HistoryKeepsShown ==
  ASSUME PageAssumption, ShownInv, NEW g \in Generation, HistoryArrives(g)
  PROVE  /\ ShownInv'
         /\ IsCurrent(g) /\ chosen => \A n \in answer[g] \cup live : Show(view', n)
<1>1. /\ answer[g] # None /\ loaded' = (loaded \/ IsCurrent(g))
      /\ load' = [load EXCEPT ![g] = None] /\ answer' = [answer EXCEPT ![g] = None]
      /\ UNCHANGED <<charts, log, lost, selected, listed, chosen, reload, loadGeneration>>
  BY DEF HistoryArrives, LoadEnds, logs
<1>2. loaded' \in BOOLEAN
  BY <1>1 DEF ShownInv, LoadType, IsCurrent
<1>3. CASE IsCurrent(g) /\ chosen
  <2>1. view' = Merge(answer[g], live) /\ live' = live \cap view'
    BY <1>3 DEF HistoryArrives
  <2>2. /\ answer[g] \subseteq Stored(selected) /\ g = loadGeneration
        /\ live \subseteq Stored(selected) /\ Stored(selected) \in SUBSET Reading
    BY <1>1, <1>3, StoredAreReadings DEF IsCurrent, ShownInv, ShownIsStored, PageType
  <2>3. view' \subseteq Stored(selected) /\ Merge(view', {}) = view'
    BY <2>1, <2>2, MergeKeeps
  <2>4. \A n \in answer[g] \cup live : Show(view', n)
    BY <2>1, <2>2, MergeShows
  <2>5. PageType'
    BY <1>1, <2>1, <2>2, <2>3 DEF ShownInv, PageType, Log!TypeOK
  <2> QED BY <1>1, <1>2, <2>2, <2>3, <2>4, <2>5, EndKeepsShown
<1>4. CASE ~(IsCurrent(g) /\ chosen)
  <2>1. UNCHANGED <<view, live>>
    BY <1>4 DEF HistoryArrives
  <2>2. PageType'
    BY <1>1, <2>1 DEF ShownInv, PageType, Log!TypeOK
  <2> QED BY <1>1, <1>2, <1>4, <2>1, <2>2, EndKeepsShown
<1> QED BY <1>3, <1>4

LEMMA FailureKeepsShown ==
  ASSUME ShownInv, NEW g \in Generation, HistoryFails(g)
  PROVE  ShownInv'
<1>1. /\ load' = [load EXCEPT ![g] = None] /\ answer' = [answer EXCEPT ![g] = None]
      /\ UNCHANGED <<charts, log, lost, page, loadGeneration, loaded>>
  BY DEF HistoryFails, LoadEnds, logs
<1>2. PageType' /\ loaded' \in BOOLEAN /\ UNCHANGED <<view, live, selected>>
  BY <1>1 DEF ShownInv, PageType, LoadType, page, Log!TypeOK
<1> QED BY <1>1, <1>2, EndKeepsShown

\* A point of the selection comes live: what it displaces is still shown.
LEMMA PointKeepsShown ==
  ASSUME PageAssumption, ShownInv, PointArrives,
         NEW n \in UNION {Stored(t) : t \in Transformer}, n = Head(channel[socket.session])
  PROVE  /\ ShownInv'
         /\ n[1] = selected /\ chosen =>
              /\ \A x \in view \cup {n} : Show(view', x)
              /\ \A g \in Generation :
                   g = loadGeneration /\ load[g] = selected /\ answer[g] # None =>
                     \A x \in view' : Show(answer[g] \cup live', x)
<1>1. UNCHANGED <<charts, log, lost, selected, listed, chosen, reload, loads>>
  BY DEF PointArrives, logs
<1>2. CASE n[1] = selected /\ chosen
  <2>1. view' = Merge(view, {n}) /\ live' = (live \cup {n}) \cap view'
    BY <1>2 DEF PointArrives
  <2>2. /\ n \in Stored(selected) /\ view \subseteq Stored(selected) /\ live \subseteq view
        /\ Stored(selected) \in SUBSET Reading
    BY <1>2, StoredOfOne, StoredAreReadings DEF ShownInv, ShownIsStored, PageType
  <2>3. view' \subseteq Stored(selected) /\ Merge(view', {}) = view' /\ view' \subseteq view \cup {n}
    BY <2>1, <2>2, MergeKeeps
  <2>4. \A x \in view \cup {n} : Show(view', x)
    BY <2>1, <2>2, MergeShows
  <2>5. ASSUME NEW g \in Generation, g = loadGeneration, load[g] = selected, answer[g] # None, NEW x \in view'
        PROVE  Show(answer[g] \cup live', x)
    <3>1. CASE x = n
      BY <2>1, <2>5, <3>1 DEF Show
    <3>2. CASE x # n
      <4>1. x \in view
        BY <2>3, <2>5, <3>2
      <4>2. PICK k \in answer[g] \cup live : k = x \/ (~charts /\ k[1] = x[1] /\ x[2] <= k[2])
        BY <2>5, <4>1 DEF ShownInv, AnswerKeepsView, Show
      <4>3. CASE k \in answer[g]
        BY <4>2, <4>3 DEF Show
      <4>4. CASE k \in live
        <5>1. k \in Reading /\ x \in Reading /\ k \in view
          BY <2>2, <4>1, <4>4
        <5>2. k = x
          <6>1. ASSUME ~charts, k[1] = x[1], x[2] <= k[2] PROVE k = x
            <7>1. k[2] <= x[2]
              BY <2>1, <2>5, <5>1, <6>1 DEF Merge
            <7>2. k[2] \in Nat /\ x[2] \in Nat /\ k = <<k[1], k[2]>> /\ x = <<x[1], x[2]>>
              BY <5>1 DEF Reading
            <7> QED BY <6>1, <7>1, <7>2
          <6> QED BY <4>2, <6>1
        <5> QED BY <2>1, <2>5, <4>4, <5>2 DEF Show
      <4> QED BY <4>2, <4>3, <4>4
    <3> QED BY <3>1, <3>2
  <2>6. PageType' /\ LoadType'
    BY <1>1, <2>1, <2>2, <2>3 DEF ShownInv, PageType, LoadType, loads, Log!TypeOK
  <2>7. ShownIsStored'
    <3>1. view' \subseteq Stored(selected)' /\ (Merge(view, {}) = view)'
      BY <1>1, <2>3 DEF Stored, Merge
    <3> QED BY <1>1, <3>1 DEF ShownInv, ShownIsStored, Stored, loads
  <2>8. AnswerKeepsView'
    BY <1>1, <2>5 DEF AnswerKeepsView, Show, loads
  <2> QED BY <2>4, <2>5, <2>6, <2>7, <2>8 DEF ShownInv
<1>3. CASE ~(n[1] = selected /\ chosen)
  <2>1. UNCHANGED <<view, live>>
    BY <1>3 DEF PointArrives
  <2>2. PageType' /\ LoadType'
    BY <1>1, <2>1 DEF ShownInv, PageType, LoadType, loads, Log!TypeOK
  <2>3. ShownIsStored' /\ AnswerKeepsView'
    BY <1>1, <2>1 DEF ShownInv, ShownIsStored, AnswerKeepsView, Show, Stored, Merge, loads
  <2> QED BY <1>3, <2>2, <2>3 DEF ShownInv
<1> QED BY <1>2, <1>3

(***************************************************************************)
(* Nothing is missed: each step of the program.                            *)
(***************************************************************************)

\* Without a connection nothing is promised.
LEMMA NothingToMiss ==
  ASSUME socket' = None \/ ready' = FALSE \/ chosen' = FALSE \/ reload' = TRUE
  PROVE  NothingIsMissed'
BY DEF NothingIsMissed, Settled

\* Neither is it while the latest load has no answer.
LEMMA NothingAnswered ==
  ASSUME loaded' = FALSE, \A g \in Generation : g = loadGeneration' => answer'[g] = None
  PROVE  NothingIsMissed'
BY DEF NothingIsMissed

\* View and loads stay; what has been announced in this step, or was on its way, is on its way.
LEMMA MissedStays ==
  ASSUME NothingIsMissed, UNCHANGED <<charts, selected, socket, loads, view, live>>,
         Settled' => Settled,
         Settled /\ Settled' =>
           \A n \in Stored(selected)' \cap started' :
             \/ n \in LostOrOnItsWay'
             \/ n \in Stored(selected) \cap started /\ n \notin LostOrOnItsWay
  PROVE  NothingIsMissed'
<1>1. SUFFICES ASSUME Settled, Settled'
               PROVE  /\ loaded' => Complete(view)'
                      /\ \A g \in Generation :
                           g = loadGeneration' /\ load'[g] = selected' /\ answer'[g] # None =>
                             Complete(answer[g] \cup live)'
  BY DEF NothingIsMissed
<1>2. UNCHANGED <<loadGeneration, load, answer, loaded>>
  BY DEF loads
<1>3. Complete(view) => Complete(view)'
  BY <1>1, <1>2 DEF Complete, Show
<1>4. \A g \in Generation : Complete(answer[g] \cup live) => Complete(answer[g] \cup live)'
  BY <1>1, <1>2 DEF Complete, Show
<1> QED BY <1>1, <1>2, <1>3, <1>4 DEF NothingIsMissed

\* Readings that are stored now have not been announced.
LEMMA StoreKeeps ==
  ASSUME ReadingsInv, NEW t \in Transformer, StoreReading(t)
  PROVE  ReadingsInv'
<1>1. UNCHANGED <<charts, lost, feed, page, loads, chains, connection>>
  BY DEF StoreReading
<1>2. Log!TypeOK' /\ \A x \in Transformer : Stored(x) \subseteq Stored(x)'
  BY LogGrows DEF ReadingsInv, TypeOK
<1>3. LinkInv'
  BY <1>1, <1>2, LinkStays, Parts DEF page
<1>4. ShownInv'
  BY <1>1, <1>2, ShownStays, Parts DEF ShownInv, PageType
<1>5. ChainType'
  BY <1>1, Parts DEF ChainType, chains
<1>6. NothingIsMissed'
  <2>1. UNCHANGED <<charts, selected, socket, loads, view, live, started, due, channel, lost, state, ready, chosen, reload>>
    BY <1>1 DEF page, feed, connection
  <2>2. ASSUME NEW n \in Stored(selected)' \cap started' PROVE n \in Stored(selected)
    <3>1. n \in UNION {Stored(x) : x \in Transformer}
      BY <2>1 DEF ReadingsInv, StoredThenSent
    <3> QED BY <2>1, <3>1 DEF Stored
  <2> QED BY <2>1, <2>2, MissedStays, Parts DEF Settled, LostOrOnItsWay
<1> QED BY <1>3, <1>4, <1>5, <1>6, PartsNext

\* An open connection of the transformer is in the audience of a reading.
LEMMA AnnounceKeeps ==
  ASSUME ReadingsInv, NEW n \in Reading, Announce(n)
  PROVE  ReadingsInv'
<1>1. /\ started' = started \cup {n}
      /\ due' = [s \in Session |-> IF s \in Feed!Audience(n) THEN due[s] \cup {n} ELSE due[s]]
      /\ UNCHANGED <<state, topic, channel, delivered, connection, page, loads, chains, charts, log, lost>>
  BY DEF Announce, Feed!Announce, logs
<1>2. LinkInv'
  BY AnnounceKeepsLink, Parts
<1>3. ShownInv'
  BY <1>1, ShownStays, Parts DEF ShownInv, PageType, Log!TypeOK, Stored
<1>4. ChainType'
  BY <1>1, Parts DEF ChainType, chains
<1>5. NothingIsMissed'
  <2>1. UNCHANGED <<charts, selected, socket, loads, view, live, channel, lost, state, ready, chosen, reload, log>>
    BY <1>1 DEF page, connection
  <2>2. ASSUME Settled, NEW x \in Stored(selected) \cap started', x \notin started
        PROVE  x \in due'[socket.session]
    <3>1. x = n /\ n[1] = selected
      BY <1>1, <2>2 DEF Stored
    <3>2. /\ socket.session \in Session /\ state[socket.session] = "open"
          /\ topic[socket.session] = selected
      BY <2>2 DEF Settled, ReadingsInv, TypeOK, ConnectsInOrder
    <3>3. socket.session \in Feed!Audience(n)
      BY <3>1, <3>2 DEF Feed!Audience
    <3> QED BY <1>1, <3>1, <3>2, <3>3
  <2>3. Settled => socket.session \in Session
    BY DEF Settled, ReadingsInv, TypeOK
  <2>4. Settled => due[socket.session] \subseteq due'[socket.session]
    BY <1>1, <2>3
  <2> QED BY <2>1, <2>2, <2>4, MissedStays, Parts DEF Settled, LostOrOnItsWay, Stored
<1> QED BY <1>2, <1>3, <1>4, <1>5, PartsNext

LEMMA LoseKeeps ==
  ASSUME ReadingsInv, NEW n \in Reading, LoseAnnouncement(n)
  PROVE  ReadingsInv'
<1>1. /\ lost' = lost \cup {n} /\ n \in UNION {Stored(t) : t \in Transformer}
      /\ UNCHANGED <<charts, log, feed, page, loads, chains, connection>>
  BY DEF LoseAnnouncement, Unannounced
<1>2. LinkInv'
  <2>1. ConnectionType'
    BY <1>1, Parts DEF LinkInv, ConnectionType, connection, feed, Feed!TypeOK
  <2>2. ConnectsInOrder'
    BY <1>1, Parts DEF LinkInv, ConnectsInOrder, connection, feed, page
  <2>3. StoredThenSent'
    BY <1>1, Parts DEF LinkInv, StoredThenSent, feed, Stored
  <2> QED BY <2>1, <2>2, <2>3 DEF LinkInv
<1>3. ShownInv'
  BY <1>1, ShownStays, Parts DEF ShownInv, PageType, Log!TypeOK, Stored
<1>4. ChainType'
  BY <1>1, Parts DEF ChainType, chains
<1>5. NothingIsMissed'
  <2>1. UNCHANGED <<charts, selected, socket, loads, view, live, started, due, channel, state, ready, chosen, reload, log>>
    BY <1>1 DEF page, connection, feed
  <2> QED BY <1>1, <2>1, MissedStays, Parts DEF Settled, LostOrOnItsWay, Stored
<1> QED BY <1>2, <1>3, <1>4, <1>5, PartsNext

\* From due into the channel; a session that falls behind is not open.
LEMMA HubKeeps ==
  ASSUME ReadingsInv, HubStep
  PROVE  ReadingsInv'
<1>1. UNCHANGED <<logs, page, loads, chains, connection>>
  BY DEF HubStep
<1>2. LinkInv'
  BY HubKeepsLink, Parts
<1>3. ShownInv'
  BY <1>1, ShownStays, Parts DEF ShownInv, PageType, Log!TypeOK, Stored, logs
<1>4. ChainType'
  BY <1>1, Parts DEF ChainType, chains
<1>5. NothingIsMissed'
  <2>1. UNCHANGED <<charts, selected, socket, loads, view, live, lost, ready, chosen, reload, log>>
    BY <1>1 DEF page, connection, logs
  <2>2. Settled => socket.session \in Session /\ state[socket.session] = "open"
    BY DEF Settled, ReadingsInv, TypeOK
  <2>3. /\ started' = started
        /\ Settled' => Settled
        /\ Settled /\ Settled' =>
             due[socket.session] \cup ToSet(channel[socket.session])
               \subseteq due'[socket.session] \cup ToSet(channel'[socket.session])
    <3> DEFINE r == socket.session
    <3>1. socket # None => r \in Session
      BY DEF ReadingsInv, TypeOK
    <3>2. ASSUME NEW n \in Reading, NEW s \in Session, Feed!Offer(n, s)
          PROVE  /\ started' = started /\ state' = state
                 /\ \A x \in Session : due[x] \cup ToSet(channel[x]) \subseteq due'[x] \cup ToSet(channel'[x])
      <4>1. /\ channel' = [channel EXCEPT ![s] = Append(@, n)]
            /\ due' = [due EXCEPT ![s] = @ \ {n}]
            /\ UNCHANGED <<state, started>>
        BY <3>2 DEF Feed!Offer
      <4>2. ToSet(Append(channel[s], n)) = ToSet(channel[s]) \cup {n}
        BY RangeOfAppend DEF ReadingsInv, TypeOK, Feed!TypeOK
      <4> QED BY <4>1, <4>2 DEF ReadingsInv, TypeOK, Feed!TypeOK
    <3>3. ASSUME NEW n \in Reading, NEW s \in Session, Feed!FallBehind(n, s)
          PROVE  /\ started' = started /\ state'[s] = "failing" /\ channel' = channel
                 /\ \A x \in Session : x # s => state'[x] = state[x] /\ due'[x] = due[x]
      BY <3>3 DEF Feed!FallBehind, ReadingsInv, TypeOK, Feed!TypeOK
    <3>4. ASSUME NEW s \in Session, Feed!Cut(s)
          PROVE  /\ started' = started /\ state'[s] = "cut" /\ channel' = channel
                 /\ \A x \in Session : x # s => state'[x] = state[x] /\ due'[x] = due[x]
      BY <3>4 DEF Feed!Cut, ReadingsInv, TypeOK, Feed!TypeOK
    <3>5. ASSUME NEW n \in Reading, Feed!EndAnnouncement(n)
          PROVE  UNCHANGED <<started, state, due, channel>>
      BY <3>5 DEF Feed!EndAnnouncement
    <3> QED BY <2>1, <3>1, <3>2, <3>3, <3>4, <3>5 DEF HubStep, Settled
  <2> QED BY <2>1, <2>3, MissedStays, Parts DEF LostOrOnItsWay, Stored
<1> QED BY <1>2, <1>3, <1>4, <1>5, PartsNext

(***************************************************************************)
(* The connection.                                                         *)
(***************************************************************************)

LEMMA TokenKeeps ==
  ASSUME ReadingsInv, NEW a \in attempts, TokenArrives(a) \/ TokenMissing(a)
  PROVE  ReadingsInv'
<1>1. /\ UNCHANGED <<logs, feed, page, loads, chains, ready>>
      /\ socket' = socket \/ (IsLatest(a) /\ socket' = a)
  BY DEF TokenArrives, TokenMissing
<1>2. LinkInv'
  BY TokenKeepsLink, Parts
<1>3. ShownInv'
  BY <1>1, ShownStays, Parts DEF ShownInv, PageType, Log!TypeOK, Stored, logs
<1>4. ChainType'
  BY <1>1, Parts DEF ChainType, chains
<1>5. NothingIsMissed'
  <2>1. CASE socket' = socket
    BY <1>1, <2>1, MissedStays, Parts DEF logs, feed, page, Settled, LostOrOnItsWay, Stored
  <2>2. CASE IsLatest(a)
    <3>1. socket = None
      BY <2>2 DEF IsLatest, ReadingsInv, ConnectsInOrder
    <3>2. ready' = FALSE
      BY <1>1, <3>1 DEF ReadingsInv, ConnectsInOrder, TypeOK
    <3> QED BY <3>2, NothingToMiss
  <2> QED BY <1>1, <2>1, <2>2
<1> QED BY <1>2, <1>3, <1>4, <1>5, PartsNext

LEMMA SubscribeKeeps ==
  ASSUME ReadingsInv, Subscribe
  PROVE  ReadingsInv'
<1>1. /\ UNCHANGED <<logs, page, loads, chains, connection>>
      /\ state[socket.session] = "new"
  BY DEF Subscribe, Feed!Join
<1>2. LinkInv'
  BY SubscribeKeepsLink, Parts
<1>3. ShownInv'
  BY <1>1, ShownStays, Parts DEF ShownInv, PageType, Log!TypeOK, Stored, logs
<1>4. ChainType'
  BY <1>1, Parts DEF ChainType, chains
<1>5. NothingIsMissed'
  <2>1. ready' = FALSE
    BY <1>1 DEF ReadingsInv, ConnectsInOrder, TypeOK, connection
  <2> QED BY <2>1, NothingToMiss
<1> QED BY <1>2, <1>3, <1>4, <1>5, PartsNext

\* With a ticked register the history is loaded again; without one nothing is promised.
LEMMA ReadyKeeps ==
  ASSUME PageAssumption, ReadingsInv, ReadyArrives
  PROVE  ReadingsInv'
<1>1. UNCHANGED <<logs, feed, page, chains>> /\ StartLoad
  BY DEF ReadyArrives
<1>2. LinkInv'
  BY ReadyKeepsLink, Parts
<1>3. PageType' /\ UNCHANGED <<charts, log, selected, view, live, chosen>>
  BY <1>1, Parts DEF ShownInv, PageType, Log!TypeOK, logs, page
<1>4. ShownInv' /\ (chosen' => loaded' = FALSE /\ \A g \in Generation : g = loadGeneration' => answer'[g] = None)
  BY <1>1, <1>3, StartKeepsShown, Parts
<1>5. ChainType'
  BY <1>1, Parts DEF ChainType, chains
<1>6. NothingIsMissed'
  <2>1. CASE chosen'
    BY <1>4, <2>1, NothingAnswered
  <2>2. CASE ~chosen'
    <3>1. chosen' = FALSE
      BY <1>3, <2>2 DEF ReadingsInv, TypeOK
    <3> QED BY <3>1, NothingToMiss
  <2> QED BY <2>1, <2>2
<1> QED BY <1>2, <1>4, <1>5, <1>6, PartsNext

LEMMA CloseKeeps ==
  ASSUME ReadingsInv, SocketCloses
  PROVE  ReadingsInv'
<1>1. UNCHANGED <<logs, page, loads, chains>> /\ socket' = None
  BY DEF SocketCloses
<1>2. LinkInv'
  BY CloseKeepsLink, Parts
<1>3. ShownInv'
  BY <1>1, ShownStays, Parts DEF ShownInv, PageType, Log!TypeOK, Stored, logs
<1>4. ChainType'
  BY <1>1, Parts DEF ChainType, chains
<1>5. NothingIsMissed'
  BY <1>1, NothingToMiss
<1> QED BY <1>2, <1>3, <1>4, <1>5, PartsNext

LEMMA ReconnectKeeps ==
  ASSUME PageAssumption, ReadingsInv, Reconnect
  PROVE  ReadingsInv'
<1>1. UNCHANGED <<logs, page, loads, chains, log, lost, selected>> /\ ConnectWs
  BY DEF Reconnect, logs, page
<1>2. LinkInv' /\ socket' = None
  BY <1>1, ConnectConnection, Parts DEF ShownInv, PageType
<1>3. ShownInv'
  BY <1>1, ShownStays, Parts DEF ShownInv, PageType, Log!TypeOK, Stored, logs
<1>4. ChainType'
  BY <1>1, Parts DEF ChainType, chains
<1>5. NothingIsMissed'
  BY <1>2, NothingToMiss
<1> QED BY <1>2, <1>3, <1>4, <1>5, PartsNext

\* A point of the selection goes from the channel into the view, or is shown by a later one.
LEMMA PointKeeps ==
  ASSUME PageAssumption, ReadingsInv, PointArrives
  PROVE  ReadingsInv'
<1> DEFINE n == Head(channel[socket.session])
<1>1. /\ socket # None /\ socket.session \in Session /\ Feed!Deliver(socket.session)
      /\ UNCHANGED <<charts, log, lost, selected, listed, chosen, reload, loads, chains, connection>>
  BY DEF PointArrives, logs, ReadingsInv, TypeOK
<1>2. /\ LinkInv' /\ n \in Reading /\ n \in UNION {Stored(t) : t \in Transformer}
      /\ ToSet(channel[socket.session]) = {n} \cup ToSet(channel'[socket.session])
  BY PointKeepsLink, Parts
<1>3. n \in Reading /\ n = Head(channel[socket.session])
  BY <1>2
<1> HIDE DEF n
<1>4. /\ ShownInv'
      /\ n[1] = selected /\ chosen =>
           /\ \A x \in view \cup {n} : Show(view', x)
           /\ \A g \in Generation :
                g = loadGeneration /\ load[g] = selected /\ answer[g] # None =>
                  \A x \in view' : Show(answer[g] \cup live', x)
  BY <1>2, <1>3, PointKeepsShown, Parts
<1>5. ChainType'
  BY <1>1, Parts DEF ChainType, chains
<1>6. UNCHANGED <<socket, ready, started, due, state>>
  BY <1>1 DEF connection, Feed!Deliver
<1>7. LostOrOnItsWay \ {n} \subseteq LostOrOnItsWay'
  BY <1>1, <1>2, <1>6 DEF LostOrOnItsWay
<1>8. UNCHANGED <<loadGeneration, load, answer, loaded>>
  BY <1>1 DEF loads
<1>9. NothingIsMissed'
  <2>1. CASE n[1] = selected /\ chosen
    <3>1. view \in SUBSET Reading /\ view' \in SUBSET Reading /\ live \in SUBSET Reading /\ live' \in SUBSET Reading
          /\ live \subseteq view
      BY <1>4, Parts DEF ShownInv, PageType
    <3>2. ASSUME Complete(view) PROVE Complete(view)'
      <4>1. ASSUME NEW x \in Stored(selected) \cap started, x \notin LostOrOnItsWay' PROVE Show(view', x)
        <5>1. x = n \/ Show(view, x)
          BY <1>7, <3>2, <4>1 DEF Complete
        <5>2. \A m \in view : Show(view', m)
          BY <1>4, <2>1
        <5>3. x \in Reading
          BY <4>1 DEF Stored
        <5> QED BY <1>4, <2>1, <3>1, <5>1, <5>2, <5>3, ShowThrough
      <4> QED BY <1>1, <1>6, <4>1 DEF Complete, Show, Stored
    <3>3. ASSUME NEW g \in Generation, g = loadGeneration, load[g] = selected, answer[g] # None,
                 Complete(answer[g] \cup live)
          PROVE  Complete(answer[g] \cup live)'
      <4> DEFINE P == answer[g] \cup live
                 Q == answer[g] \cup live'
      <4>1. answer[g] \in SUBSET Reading
        BY <3>3, Parts DEF ShownInv, LoadType
      <4>2. P \in SUBSET Reading /\ Q \in SUBSET Reading
        BY <3>1, <4>1
      <4>3. \A m \in view' : Show(Q, m)
        BY <1>4, <2>1, <3>3
      <4>4. \A m \in view \cup {n} : Show(Q, m)
        <5>1. \A m \in view \cup {n} : m \in Reading /\ Show(view', m)
          BY <1>2, <1>4, <2>1, <3>1
        <5> HIDE DEF Q
        <5> QED BY <3>1, <4>2, <4>3, <5>1, ShowThrough
      <4>5. \A m \in P : Show(Q, m)
        <5>1. \A m \in answer[g] : Show(Q, m)
          BY DEF Show
        <5> QED BY <3>1, <4>4, <5>1
      <4>6. ASSUME NEW x \in Stored(selected) \cap started, x \notin LostOrOnItsWay' PROVE Show(Q, x)
        <5>1. x = n \/ Show(P, x)
          BY <1>7, <3>3, <4>6 DEF Complete
        <5>2. x \in Reading
          BY <4>6 DEF Stored
        <5> HIDE DEF P, Q
        <5> QED BY <4>2, <4>4, <4>5, <5>1, <5>2, ShowThrough
      <4> QED BY <1>1, <1>6, <1>8, <4>6 DEF Complete, Show, Stored
    <3>4. Settled' => Settled
      BY <1>1, <1>6 DEF Settled
    <3> QED BY <1>1, <1>8, <3>2, <3>3, <3>4, Parts DEF NothingIsMissed
  <2>2. CASE ~(n[1] = selected /\ chosen)
    <3>1. UNCHANGED <<view, live>>
      BY <1>3, <2>2 DEF PointArrives
    <3>2. Settled' => Settled /\ n[1] # selected
      BY <1>1, <1>6, <2>2 DEF Settled
    <3>3. Settled /\ Settled' => \A x \in Stored(selected)' \cap started' :
            x \in LostOrOnItsWay' \/ (x \in Stored(selected) \cap started /\ x \notin LostOrOnItsWay)
      BY <1>1, <1>6, <1>7, <3>2 DEF Stored
    <3> QED BY <1>1, <1>6, <3>1, <3>2, <3>3, MissedStays, Parts
  <2> QED BY <2>1, <2>2
<1> QED BY <1>2, <1>4, <1>5, <1>9, PartsNext

(***************************************************************************)
(* The page.                                                               *)
(***************************************************************************)

LEMMA NewChainType ==
  ASSUME ChainType, NEW c \in Chain, NewChain(c)
  PROVE  ChainType'
BY DEF ChainType, NewChain

LEMMA EndChainType ==
  ASSUME ChainType, NEW c \in Chain, EndChain(c)
  PROVE  ChainType' /\ ConnectWs
BY DEF ChainType, EndChain

LEMMA SelectKeeps ==
  ASSUME PageAssumption, ReadingsInv, NEW c \in Chain,
         (\E t \in Transformer : Select(t, c)) \/ Refresh(c)
  PROVE  ReadingsInv'
<1>1. /\ ClearWs /\ NewChain(c) /\ UNCHANGED <<charts, log, lost, loads>>
      /\ PageType' /\ (UNCHANGED page \/ view' = {})
  BY Parts DEF Select, Refresh, logs, page, ShownInv, PageType, Log!TypeOK
<1>2. LinkInv' /\ socket' = None
  BY <1>1, ClearConnection, Parts
<1>3. ShownInv'
  BY <1>1, ShownStays, EmptyKeepsShown, Parts DEF ShownInv, PageType, Stored
<1>4. ChainType'
  BY <1>1, NewChainType, Parts
<1> QED BY <1>2, <1>3, <1>4, NothingToMiss, PartsNext

LEMMA ErrorsKeep ==
  ASSUME ReadingsInv, NEW c \in Chain, ErrorsArrive(c)
  PROVE  ReadingsInv'
<1>1. UNCHANGED <<logs, feed, page, loads, connection>>
  BY DEF ErrorsArrive
<1>2. LinkInv'
  BY <1>1, LinkStays, Parts DEF logs, page, Stored
<1>3. ShownInv'
  BY <1>1, ShownStays, Parts DEF ShownInv, PageType, Log!TypeOK, Stored, logs
<1>4. ChainType'
  BY Parts DEF ErrorsArrive, ChainType, ShownInv, PageType
<1>5. NothingIsMissed'
  BY <1>1, MissedStays, Parts DEF logs, feed, page, connection, Settled, LostOrOnItsWay, Stored
<1> QED BY <1>2, <1>3, <1>4, <1>5, PartsNext

LEMMA DroppedKeeps ==
  ASSUME PageAssumption, ReadingsInv, NEW c \in Chain, ListDropped(c) \/ NoRegisters(c)
  PROVE  ReadingsInv'
<1>1. /\ EndChain(c) /\ UNCHANGED <<charts, log, lost, selected, loads>>
      /\ PageType' /\ (UNCHANGED page \/ view' = {})
  BY Parts DEF ListDropped, NoRegisters, logs, page, ShownInv, PageType, Log!TypeOK
<1>2. ChainType' /\ ConnectWs
  BY <1>1, EndChainType, Parts
<1>3. LinkInv' /\ socket' = None
  BY <1>1, <1>2, ConnectConnection, Parts DEF ShownInv, PageType
<1>4. ShownInv'
  BY <1>1, ShownStays, EmptyKeepsShown, Parts DEF ShownInv, PageType, Stored
<1> QED BY <1>2, <1>3, <1>4, NothingToMiss, PartsNext

\* The registers of the selection: the view is emptied, and the history is loaded.
LEMMA RegistersKeep ==
  ASSUME PageAssumption, ReadingsInv, NEW c \in Chain, RegistersArrive(c)
  PROVE  ReadingsInv'
<1>1. /\ StartLoad /\ chosen' = TRUE /\ view' = {} /\ live' = {} /\ listed' = TRUE
      /\ UNCHANGED <<charts, log, lost, feed, selected, reload, connection>>
  BY DEF RegistersArrive, logs
<1>2. PageType'
  BY <1>1, Parts DEF ShownInv, PageType, Log!TypeOK
<1>3. LinkInv'
  BY <1>1, LinkStays, Parts DEF Stored
<1>4. ShownInv' /\ loaded' = FALSE /\ \A g \in Generation : g = loadGeneration' => answer'[g] = None
  BY <1>1, <1>2, StartKeepsShown, Parts
<1>5. ChainType'
  <2>1. loadGeneration + 1 \in Generation
    BY <1>1, Parts DEF StartLoad, ShownInv, LoadType, Generation, PageAssumption
  <2> QED BY <2>1, Parts DEF RegistersArrive, ChainType
<1>6. NothingIsMissed'
  BY <1>4, NothingAnswered
<1> QED BY <1>3, <1>4, <1>5, <1>6, PartsNext

\* An answer has everything that is stored, so everything that has been announced.
LEMMA QueryKeeps ==
  ASSUME PageAssumption, ReadingsInv, NEW g \in Generation, QueryHistory(g)
  PROVE  ReadingsInv'
<1>1. /\ UNCHANGED <<logs, feed, page, loadGeneration, load, loaded, chains, connection>>
      /\ \A h \in Generation : h # g => answer'[h] = answer[h]
  BY Parts DEF QueryHistory, ShownInv, LoadType
<1>2. LinkInv'
  BY <1>1, LinkStays, Parts DEF logs, page, Stored
<1>3. ShownInv' /\ \A n \in Stored(load[g]) : Show(answer'[g], n)
  BY QueryKeepsShown, Parts
<1>4. ChainType'
  BY <1>1, Parts DEF ChainType, chains
<1>5. NothingIsMissed'
  <2>1. /\ UNCHANGED <<charts, selected, socket, view, live, log, started, LostOrOnItsWay>>
        /\ (Settled' => Settled)
    BY <1>1 DEF logs, feed, page, connection, Settled, LostOrOnItsWay
  <2>2. Complete(view) => Complete(view)'
    BY <2>1 DEF Complete, Show, Stored
  <2>3. ASSUME NEW h \in Generation, h = loadGeneration, load[h] = selected, answer'[h] # None, Settled
        PROVE  Complete(answer[h] \cup live)'
    <3>1. CASE h = g
      <4>1. \A n \in Stored(selected) : Show(answer'[h] \cup live, n)
        BY <1>3, <2>3, <3>1, ShowMore
      <4> QED BY <2>1, <4>1 DEF Complete, Show, Stored
    <3>2. CASE h # g
      <4>1. Complete(answer[h] \cup live) /\ answer'[h] = answer[h]
        BY <1>1, <2>3, <3>2, Parts DEF NothingIsMissed
      <4> QED BY <2>1, <4>1 DEF Complete, Show, Stored
    <3> QED BY <3>1, <3>2
  <2> QED BY <1>1, <2>1, <2>2, <2>3, Parts DEF NothingIsMissed
<1> QED BY <1>2, <1>3, <1>4, <1>5, PartsNext

\* A load ends: the chain that awaits it, if any, connects.
LEMMA LoadEndKeepsLink ==
  ASSUME PageAssumption, ReadingsInv, NEW g \in Generation, LoadEnds(g), UNCHANGED <<logs, selected>>
  PROVE  LinkInv' /\ ChainType' /\ (socket' = None \/ UNCHANGED <<feed, connection>>)
<1>1. CASE \E c \in Chain : chain[c] = "metrics" /\ chainOf[c] = g
  <2>1. PICK c \in Chain : EndChain(c)
    BY <1>1 DEF LoadEnds
  <2>2. ChainType' /\ ConnectWs
    BY <2>1, EndChainType, Parts
  <2> QED BY <2>2, ConnectConnection, Parts DEF ShownInv, PageType, logs
<1>2. CASE ~\E c \in Chain : chain[c] = "metrics" /\ chainOf[c] = g
  <2>1. UNCHANGED <<feed, chains, connection>>
    BY <1>2 DEF LoadEnds
  <2> QED BY <2>1, LinkStays, Parts DEF logs, Stored, ChainType, chains
<1> QED BY <1>1, <1>2

LEMMA HistoryKeeps ==
  ASSUME PageAssumption, ReadingsInv, NEW g \in Generation, HistoryArrives(g)
  PROVE  ReadingsInv'
<1>1. /\ LoadEnds(g) /\ answer[g] # None /\ loaded' = (loaded \/ IsCurrent(g))
      /\ UNCHANGED <<charts, log, lost, logs, selected, listed, chosen, reload, loadGeneration>>
      /\ load' = [load EXCEPT ![g] = None] /\ answer' = [answer EXCEPT ![g] = None]
  BY DEF HistoryArrives, LoadEnds, logs
<1>2. LinkInv' /\ ChainType' /\ (socket' = None \/ UNCHANGED <<feed, connection>>)
  BY <1>1, LoadEndKeepsLink
<1>3. ShownInv' /\ (IsCurrent(g) /\ chosen => \A n \in answer[g] \cup live : Show(view', n))
  BY HistoryKeepsShown, Parts
<1>4. NothingIsMissed'
  <2>1. CASE socket' = None
    BY <2>1, NothingToMiss
  <2>2. CASE UNCHANGED <<feed, connection>>
    <3>1. UNCHANGED <<socket, started, LostOrOnItsWay>> /\ (Settled' => Settled)
      BY <1>1, <2>2 DEF feed, connection, LostOrOnItsWay, Settled
    <3>2. answer'[g] = None /\ \A h \in Generation : h # g => answer'[h] = answer[h] /\ load'[h] = load[h]
      BY <1>1, Parts DEF ShownInv, LoadType
    <3>3. CASE IsCurrent(g) /\ chosen
      <4>1. ASSUME Settled PROVE Complete(view)'
        <5>1. Complete(answer[g] \cup live) /\ answer[g] \cup live \in SUBSET Reading /\ view' \in SUBSET Reading
          BY <1>1, <1>3, <3>3, <4>1, Parts DEF NothingIsMissed, IsCurrent, ShownInv, PageType, LoadType
        <5>2. ASSUME NEW x \in Stored(selected) \cap started, x \notin LostOrOnItsWay PROVE Show(view', x)
          <6>1. Show(answer[g] \cup live, x) /\ x \in Reading
            BY <5>1, <5>2 DEF Complete, Stored
          <6> QED BY <1>3, <3>3, <5>1, <6>1, ShowThrough
        <5> QED BY <1>1, <3>1, <5>2 DEF Complete, Show, Stored
      <4> QED BY <1>1, <3>1, <3>2, <3>3, <4>1 DEF NothingIsMissed, IsCurrent
    <3>4. CASE ~(IsCurrent(g) /\ chosen)
      <4>1. UNCHANGED <<view, live>>
        BY <3>4 DEF HistoryArrives
      <4>2. Settled' => ~IsCurrent(g)
        BY <1>1, <3>1, <3>4 DEF Settled
      <4>3. Complete(view) => Complete(view)'
        BY <1>1, <3>1, <4>1 DEF Complete, Show, Stored
      <4>4. \A h \in Generation : h # g /\ Complete(answer[h] \cup live) => Complete(answer[h] \cup live)'
        BY <1>1, <3>1, <3>2, <4>1 DEF Complete, Show, Stored
      <4> QED BY <1>1, <3>1, <3>2, <4>2, <4>3, <4>4, Parts DEF NothingIsMissed
    <3> QED BY <3>3, <3>4
  <2> QED BY <1>2, <2>1, <2>2
<1> QED BY <1>2, <1>3, <1>4, PartsNext

LEMMA FailureKeeps ==
  ASSUME PageAssumption, ReadingsInv, NEW g \in Generation, HistoryFails(g)
  PROVE  ReadingsInv'
<1>1. /\ LoadEnds(g) /\ UNCHANGED <<charts, log, lost, logs, page, loadGeneration, loaded>>
      /\ load' = [load EXCEPT ![g] = None] /\ answer' = [answer EXCEPT ![g] = None]
  BY DEF HistoryFails, LoadEnds, logs
<1>2. LinkInv' /\ ChainType' /\ (socket' = None \/ UNCHANGED <<feed, connection>>)
  BY <1>1, LoadEndKeepsLink DEF page
<1>3. ShownInv'
  BY FailureKeepsShown, Parts
<1>4. NothingIsMissed'
  <2>1. CASE socket' = None
    BY <2>1, NothingToMiss
  <2>2. CASE UNCHANGED <<feed, connection>>
    <3>1. UNCHANGED <<selected, view, live, socket, started, LostOrOnItsWay>> /\ (Settled' => Settled)
      BY <1>1, <2>2 DEF feed, connection, page, LostOrOnItsWay, Settled
    <3>2. answer'[g] = None /\ \A h \in Generation : h # g => answer'[h] = answer[h] /\ load'[h] = load[h]
      BY <1>1, Parts DEF ShownInv, LoadType
    <3>3. Complete(view) => Complete(view)'
      BY <1>1, <3>1 DEF Complete, Show, Stored
    <3>4. \A h \in Generation : h # g /\ Complete(answer[h] \cup live) => Complete(answer[h] \cup live)'
      BY <1>1, <3>1, <3>2 DEF Complete, Show, Stored
    <3> QED BY <1>1, <3>1, <3>2, <3>3, <3>4, Parts DEF NothingIsMissed
  <2> QED BY <1>2, <2>1, <2>2
<1> QED BY <1>2, <1>3, <1>4, PartsNext

\* A tick sets the timer; without a ticked register nothing is promised.
LEMMA TickKeeps ==
  ASSUME ReadingsInv, Tick \/ TickNone
  PROVE  ReadingsInv'
<1>1. /\ UNCHANGED <<charts, log, lost, feed, selected, loads, chains, connection>>
      /\ PageType' /\ (UNCHANGED <<view, live>> \/ view' = {})
      /\ (chosen' = FALSE \/ reload' = TRUE)
  BY Parts DEF Tick, TickNone, logs, ShownInv, PageType, Log!TypeOK
<1>2. LinkInv'
  BY <1>1, LinkStays, Parts DEF Stored
<1>3. ShownInv'
  <2>1. CASE view' = {}
    BY <1>1, <2>1, EmptyKeepsShown, Parts
  <2>2. CASE UNCHANGED <<view, live>>
    <3>1. LoadType'
      BY <1>1, Parts DEF ShownInv, LoadType, loads
    <3>2. ShownIsStored' /\ AnswerKeepsView'
      BY <1>1, <2>2, Parts DEF ShownInv, ShownIsStored, AnswerKeepsView, Show, Stored, Merge, loads
    <3> QED BY <1>1, <3>1, <3>2 DEF ShownInv
  <2> QED BY <1>1, <2>1, <2>2
<1>4. ChainType'
  BY <1>1, Parts DEF ChainType, chains
<1> QED BY <1>1, <1>2, <1>3, <1>4, NothingToMiss, PartsNext

LEMMA ReloadKeeps ==
  ASSUME PageAssumption, ReadingsInv, TickAll \/ Reload
  PROVE  ReadingsInv'
<1>1. /\ StartLoad /\ UNCHANGED <<charts, log, lost, feed, selected, view, live, chains, connection>>
      /\ PageType'
  BY Parts DEF TickAll, Reload, logs, ShownInv, PageType, Log!TypeOK
<1>2. LinkInv'
  BY <1>1, LinkStays, Parts DEF Stored
<1>3. ShownInv' /\ (chosen' => loaded' = FALSE /\ \A g \in Generation : g = loadGeneration' => answer'[g] = None)
  BY <1>1, StartKeepsShown, Parts
<1>4. ChainType'
  BY <1>1, Parts DEF ChainType, chains
<1>5. NothingIsMissed'
  <2>1. CASE chosen'
    BY <1>3, <2>1, NothingAnswered
  <2>2. CASE ~chosen'
    BY <1>1, <2>2, NothingToMiss DEF PageType
  <2> QED BY <2>1, <2>2
<1> QED BY <1>2, <1>3, <1>4, <1>5, PartsNext

(***************************************************************************)
(* The theorems.                                                           *)
(***************************************************************************)

LEMMA InitReadings == PageAssumption /\ Init => ReadingsInv
<1> SUFFICES ASSUME PageAssumption, Init PROVE ReadingsInv
  OBVIOUS
<1>1. log \in [Transformer -> {<<>>}] /\ Log!TypeOK /\ Feed!TypeOK
  <2>1. <<>> \in Seq({"reading"}) /\ <<>> \in Seq(Reading)
    OBVIOUS
  <2>2. log \in [Transformer -> {<<>>}] /\ Log!TypeOK
    BY <2>1 DEF Init, Log!Init, Log!TypeOK
  <2>3. Feed!TypeOK
    BY <2>1 DEF Init, Feed!Init, Feed!TypeOK
  <2> QED BY <2>2, <2>3
<1>2. TypeOK
  <2>1. 0 \in 0 .. MaxLoads /\ 0 \in 0 .. MaxConnects
    BY DEF PageAssumption
  <2>2. chain \in [Chain -> {"none", "errors", "registers", "metrics"}]
    BY DEF Init
  <2> QED BY <1>1, <2>1, <2>2 DEF Init, TypeOK
<1>3. ConnectsInOrder /\ StoredThenSent
  BY RangeOfEmpty DEF Init, Feed!Init, ConnectsInOrder, StoredThenSent, Session
<1>4. ShownIsStored /\ AnswerKeepsView /\ NothingIsMissed
  BY DEF Init, ShownIsStored, Merge, AnswerKeepsView, NothingIsMissed, Settled
<1> QED BY <1>2, <1>3, <1>4 DEF ReadingsInv

LEMMA StandStillKeeps == ReadingsInv /\ UNCHANGED vars => ReadingsInv'
<1> SUFFICES ASSUME ReadingsInv, UNCHANGED vars PROVE ReadingsInv'
  OBVIOUS
<1>1. UNCHANGED <<charts, log, lost, feed, page, loads, chains, connection>>
  BY DEF vars, logs
<1>2. LinkInv'
  BY <1>1, LinkStays, Parts DEF Stored, page
<1>3. ShownInv'
  BY <1>1, ShownStays, Parts DEF ShownInv, PageType, Log!TypeOK, Stored
<1>4. ChainType'
  BY <1>1, Parts DEF ChainType, chains
<1>5. NothingIsMissed'
  BY <1>1, MissedStays, Parts DEF feed, page, connection, Settled, LostOrOnItsWay, Stored
<1> QED BY <1>2, <1>3, <1>4, <1>5, PartsNext

LEMMA ReadingsInductive == PageAssumption /\ ReadingsInv /\ [Next]_vars => ReadingsInv'
<1> SUFFICES ASSUME PageAssumption, ReadingsInv, [Next]_vars PROVE ReadingsInv'
  OBVIOUS
<1>1. CASE Server
  BY <1>1, StoreKeeps, AnnounceKeeps, LoseKeeps, HubKeeps DEF Server
<1>2. CASE Connection
  BY <1>2, TokenKeeps, SubscribeKeeps, ReadyKeeps, PointKeeps, CloseKeeps, ReconnectKeeps DEF Connection
<1>3. CASE Page
  BY <1>3, SelectKeeps, ErrorsKeep, DroppedKeeps, RegistersKeep, QueryKeeps, HistoryKeeps, FailureKeeps,
     TickKeeps, ReloadKeeps DEF Page
<1>4. CASE UNCHANGED vars
  BY <1>4, StandStillKeeps
<1> QED BY <1>1, <1>2, <1>3, <1>4 DEF Next

\* The inductive invariant holds: among other things the socket is the selection's
\* (readings.js:1028, 1058) and no announced reading falls between history and live points.
THEOREM ReadingsInvariant == Spec => []ReadingsInv
BY PageAssumption, InitReadings, ReadingsInductive, PTL DEF Spec

\* Whatever answers come late, the view has points of the selected transformer only
\* (readings.js:934, 983).
THEOREM OnlyTheSelection == Spec => []ViewOfSelection
BY ReadingsInvariant, SelectionShown, PTL

\* A quiet page shows all that is stored but for lost announcements (readings.js:943, 973).
THEOREM QuietIsCurrent == Spec => []QuietViewIsComplete
<1>1. ReadingsInv => QuietViewIsComplete
  BY PageAssumption, QuietIsComplete DEF QuietViewIsComplete
<1> QED BY <1>1, ReadingsInvariant, PTL

\* A history that arrives takes nothing away that is shown (readings.js:943).
THEOREM NothingTakenAway == Spec => HistoryTakesNothingAway
<1>1. ReadingsInv /\ [Next]_vars => [\A g \in Generation : HistoryArrives(g) => Merge(view', view) = view']_vars
  BY PageAssumption, HistoryKeepsView
<1> QED BY <1>1, ReadingsInvariant, PTL DEF Spec, HistoryTakesNothingAway

=============================================================================
