------------------------- MODULE MetricsHub_proofs -------------------------
(***************************************************************************)
(* Proofs about MetricsHub, for any number of sessions and concurrent      *)
(* broadcasts and any capacity of a queue: HubInv is inductive, nothing    *)
(* leaks, and the hub implements LiveFeed step by step.                    *)
(***************************************************************************)
EXTENDS MetricsHub, SequenceTheorems, TLAPS

(***************************************************************************)
(* Sequences.                                                              *)
(***************************************************************************)

\* What a sequence holds after an element is appended.
LEMMA AppendHolds ==
  ASSUME NEW S, NEW q \in Seq(S), NEW e \in S
  PROVE  ToSet(Append(q, e)) = ToSet(q) \cup {e}
<1>1. /\ Append(q, e) \in Seq(S) /\ Len(Append(q, e)) = Len(q) + 1
      /\ Append(q, e)[Len(q) + 1] = e
      /\ \A i \in 1 .. Len(q) : Append(q, e)[i] = q[i]
  OBVIOUS
<1>2. DOMAIN Append(q, e) = 1 .. Len(q) + 1 /\ DOMAIN q = 1 .. Len(q) /\ Len(q) \in Nat
  OBVIOUS
<1> DEFINE a == Append(q, e)
<1> HIDE DEF a
<1>3. ToSet(a) = ToSet(q) \cup {e}
  BY <1>1, <1>2 DEF ToSet, a
<1>4. QED BY <1>3 DEF a

\* What a sequence holds behind another first element, and that it has one.
LEMMA ConsHolds ==
  ASSUME NEW S, NEW q \in Seq(S), NEW e \in S
  PROVE  /\ <<e>> \o q \in Seq(S) /\ <<e>> \o q # <<>>
         /\ Head(<<e>> \o q) = e /\ Tail(<<e>> \o q) = q
         /\ ToSet(<<e>> \o q) = {e} \cup ToSet(q)
<1> DEFINE c == <<e>> \o q
<1>1. /\ c \in Seq(S) /\ Len(c) = Len(q) + 1 /\ c[1] = e
      /\ \A i \in 1 .. Len(q) : c[i + 1] = q[i]
      /\ Len(q) \in Nat /\ DOMAIN q = 1 .. Len(q)
  OBVIOUS
<1> HIDE DEF c
<1>2. c # <<>> /\ Head(c) = e
  BY <1>1
<1>3. Tail(c) = q
  BY <1>1
<1>4. ToSet(c) = {e} \cup ToSet(q)
  <2>1. DOMAIN c = 1 .. Len(q) + 1
    BY <1>1
  <2>2. ASSUME NEW i \in DOMAIN c PROVE c[i] \in {e} \cup ToSet(q)
    <3>1. i = 1 \/ (i - 1 \in 1 .. Len(q) /\ c[i] = q[i - 1])
      BY <1>1, <2>1
    <3>2. QED BY <1>1, <3>1 DEF ToSet
  <2>3. e \in ToSet(c) /\ ToSet(q) \subseteq ToSet(c)
    BY <1>1, <2>1 DEF ToSet
  <2>4. QED BY <2>2, <2>3 DEF ToSet
<1>5. QED BY <1>1, <1>2, <1>3, <1>4 DEF c

\* The first element and the rest are the sequence.
LEMMA HeadAndTail ==
  ASSUME NEW S, NEW q \in Seq(S), q # <<>>
  PROVE  Head(q) \in S /\ Tail(q) \in Seq(S) /\ <<Head(q)>> \o Tail(q) = q
OBVIOUS

\* Appending commutes with what stands before.
LEMMA AppendBehind ==
  ASSUME NEW S, NEW q \in Seq(S), NEW e \in S, NEW f \in S
  PROVE  /\ <<>> \o q = q
         /\ <<f>> \o Append(q, e) = Append(<<f>> \o q, e)
OBVIOUS

(***************************************************************************)
(* The invariant.                                                          *)
(***************************************************************************)

\* The steps that change the map, a set, or how far a session is.
LEMMA MapSteps ==
  [Next]_vars => \/ \E s \in Session : Join(s) \/ Leave(s) \/ CloseOwn(s)
                 \/ \E p \in Publisher : RemoveFailed(p)
                 \/ UNCHANGED <<entry, members, phase>>
BY DEF Next, vars, sets, publishers, Walk, Writer, StartBroadcast, TrySend, NextQueue,
       CloseFailed, EndBroadcast, WriterReceives, WriterSends, WriterCloses, Disconnect

\* What add does: s is in the set of the map, which stays the same if there was one.
LEMMA AddAdds ==
  ASSUME TypeOK, SetsAreOfTheMap, NEW s \in Session, AddQueue(s)
  PROVE  /\ entry' \in Session /\ members' \in [Session -> SUBSET Session]
         /\ entry # None => entry' = entry
         /\ members'[entry'] = members[entry'] \cup {s}
         /\ \A x \in Session : x # entry' => members'[x] = {}
         /\ entry = None => \A x \in Session : members[x] = {}
<1> USE DEF TypeOK, SetsAreOfTheMap, AddQueue
<1>1. CASE entry = None
  BY <1>1, HubAssumption
<1>2. CASE entry # None
  BY <1>2
<1>3. QED BY <1>1, <1>2

\* What remove does inside compute: s is in no set, every other queue stays where it is.
LEMMA RemoveRemoves ==
  ASSUME TypeOK, SetsAreOfTheMap, NEW s \in Session, RemoveQueue(s)
  PROVE  /\ entry' \in Session \cup {None} /\ members' \in [Session -> SUBSET Session]
         /\ \A x \in Session : members'[x] = members[x] \ {s}
         /\ entry' # None => entry' = entry /\ members'[entry] # {}
         /\ entry # None /\ members'[entry] # {} => entry' = entry
<1>1. members' \in [Session -> SUBSET Session]
  BY DEF TypeOK, RemoveQueue
<1>2. \A x \in Session : members'[x] = members[x] \ {s}
  BY DEF TypeOK, SetsAreOfTheMap, RemoveQueue
<1>3. QED BY <1>1, <1>2 DEF TypeOK, SetsAreOfTheMap, RemoveQueue

\* A publication is a payload.
LEMMA NextPayload ==
  ASSUME published \in 0 .. MaxPayloads, published < MaxPayloads
  PROVE  published + 1 \in Payload /\ published + 1 \in 0 .. MaxPayloads
BY HubAssumption DEF Payload

\* Every step keeps the types.
LEMMA TypeInductive == HubInv /\ [Next]_vars => TypeOK'
<1> SUFFICES ASSUME HubInv, [Next]_vars PROVE TypeOK'
  OBVIOUS
<1>0. TypeOK /\ SetsAreOfTheMap
  BY DEF HubInv
<1>1. ASSUME NEW p \in Publisher, StartBroadcast(p) PROVE TypeOK'
  <2> DEFINE n == published + 1
  <2>1. n \in Payload /\ n \in 0 .. MaxPayloads /\ published' = n
    BY <1>0, <1>1, NextPayload DEF TypeOK, StartBroadcast
  <2> HIDE DEF n
  <2>2. owed' \in [Session -> SUBSET Payload]
    BY <1>0, <1>1, <2>1 DEF TypeOK, StartBroadcast
  <2>3. CASE entry = None
    BY <1>0, <1>1, <2>1, <2>2, <2>3 DEF TypeOK, StartBroadcast, sets
  <2>4. CASE entry # None
    <3>1. /\ pc' \in [Publisher -> {"idle", "walking", "removing", "closing"}]
          /\ payload' \in [Publisher -> Payload \cup {0}]
          /\ walking' \in [Publisher -> Session \cup {None}]
          /\ ahead' \in [Publisher -> Session \cup {None}]
      <4>1. PICK s \in members[entry] : ahead' = [ahead EXCEPT ![p] = s]
        BY <1>1, <2>4 DEF StartBroadcast
      <4>2. entry \in Session /\ s \in Session
        BY <1>0, <2>4, <4>1 DEF TypeOK
      <4>3. /\ pc' = [pc EXCEPT ![p] = "walking"] /\ payload' = [payload EXCEPT ![p] = n]
            /\ walking' = [walking EXCEPT ![p] = entry]
        BY <1>1, <2>1, <2>4 DEF StartBroadcast
      <4>4. QED BY <1>0, <2>1, <4>1, <4>2, <4>3 DEF TypeOK
    <3>2. QED BY <1>0, <1>1, <2>1, <2>2, <3>1 DEF TypeOK, StartBroadcast, sets
  <2>5. QED BY <2>3, <2>4
<1>2. ASSUME NEW p \in Publisher, NEW s \in Session, TrySend(p, s) PROVE TypeOK'
  <2>1. payload[p] \in Payload
    BY <1>2 DEF TrySend, NextQueue, HubInv, TypeOK, BroadcastsInOrder, Payload
  <2>2. queue' \in [Session -> Seq(Payload)]
    <3>1. queue \in [Session -> Seq(Payload)]
      BY <1>0 DEF TypeOK
    <3>2. queue' = queue \/ queue' = [queue EXCEPT ![s] = Append(queue[s], payload[p])]
      BY <1>2 DEF TrySend
    <3>3. Append(queue[s], payload[p]) \in Seq(Payload)
      BY <2>1, <3>1, AppendProperties
    <3>4. QED BY <3>1, <3>2, <3>3
  <2>3. /\ visited' \in [Publisher -> SUBSET Session]
        /\ ahead' \in [Publisher -> Session \cup {None}]
    BY <1>0, <1>2 DEF TypeOK, TrySend, NextQueue, Unvisited, HubInv, BroadcastsInOrder
  <2>4. /\ pc' \in [Publisher -> {"idle", "walking", "removing", "closing"}]
        /\ victim' \in [Publisher -> Session \cup {None}]
    BY <1>0, <1>2 DEF TypeOK, TrySend
  <2>5. QED BY <1>0, <1>2, <2>2, <2>3, <2>4 DEF TypeOK, TrySend, sets
<1>3. ASSUME NEW p \in Publisher, RemoveFailed(p) PROVE TypeOK'
  <2>1. victim[p] \in Session
    BY <1>3 DEF RemoveFailed, HubInv, TypeOK, BroadcastsInOrder
  <2>2. entry' \in Session \cup {None} /\ members' \in [Session -> SUBSET Session]
    BY <1>0, <1>3, <2>1, RemoveRemoves DEF RemoveFailed
  <2>3. QED BY <1>0, <1>3, <2>2 DEF TypeOK, RemoveFailed
<1>4. ASSUME NEW p \in Publisher, CloseFailed(p) PROVE TypeOK'
  <2>1. victim[p] \in Session
    BY <1>4 DEF CloseFailed, HubInv, TypeOK, BroadcastsInOrder
  <2>2. QED BY <1>0, <1>4, <2>1 DEF TypeOK, CloseFailed, sets
<1>5. ASSUME NEW p \in Publisher, EndBroadcast(p) PROVE TypeOK'
  BY <1>0, <1>5 DEF TypeOK, EndBroadcast, sets
<1>6. ASSUME NEW s \in Session, Join(s) PROVE TypeOK'
  <2>1. entry' \in Session /\ members' \in [Session -> SUBSET Session]
    BY <1>0, <1>6, AddAdds DEF Join
  <2>2. QED BY <1>0, <1>6, <2>1 DEF TypeOK, Join, publishers
<1>7. ASSUME NEW s \in Session, WriterReceives(s) PROVE TypeOK'
  <2>1. queue[s] \in Seq(Payload) /\ queue[s] # <<>>
    BY <1>0, <1>7 DEF TypeOK, WriterReceives
  <2>2. Head(queue[s]) \in Payload /\ Tail(queue[s]) \in Seq(Payload)
    BY <2>1, HeadAndTail
  <2>3. QED BY <1>0, <1>7, <2>2 DEF TypeOK, WriterReceives, sets, publishers
<1>8. ASSUME NEW s \in Session, WriterSends(s) PROVE TypeOK'
  <2>1. writing[s] \in Payload /\ delivered[s] \in Seq(Payload)
    BY <1>0, <1>8 DEF TypeOK, WriterSends
  <2>2. delivered' \in [Session -> Seq(Payload)] /\ writing' \in [Session -> Payload \cup {0}]
    BY <1>0, <1>8, <2>1 DEF TypeOK, WriterSends
  <2>3. QED BY <1>0, <1>8, <2>2 DEF TypeOK, WriterSends, sets, publishers
<1>9. ASSUME NEW s \in Session, WriterCloses(s) \/ Disconnect(s) PROVE TypeOK'
  BY <1>0, <1>9 DEF TypeOK, WriterCloses, Disconnect, sets, publishers
<1>10. ASSUME NEW s \in Session, Leave(s) PROVE TypeOK'
  <2>1. entry' \in Session \cup {None} /\ members' \in [Session -> SUBSET Session]
    BY <1>0, <1>10, RemoveRemoves DEF Leave
  <2>2. QED BY <1>0, <1>10, <2>1 DEF TypeOK, Leave, publishers
<1>11. ASSUME NEW s \in Session, CloseOwn(s) PROVE TypeOK'
  BY <1>0, <1>11 DEF TypeOK, CloseOwn, sets, publishers
<1>12. CASE UNCHANGED vars
  BY <1>0, <1>12 DEF TypeOK, vars, sets, publishers
<1>13. QED
  BY <1>1, <1>2, <1>3, <1>4, <1>5, <1>6, <1>7, <1>8, <1>9, <1>10, <1>11, <1>12
  DEF Next, Walk, Writer

\* Every step keeps the sets in order, and no subscription is lost.
LEMMA SetsInductive == HubInv /\ [Next]_vars => SetsAreOfTheMap' /\ JoinedIsSubscribed'
<1> SUFFICES ASSUME HubInv, [Next]_vars PROVE SetsAreOfTheMap' /\ JoinedIsSubscribed'
  OBVIOUS
<1>0. TypeOK /\ SetsAreOfTheMap /\ JoinedIsSubscribed
  BY DEF HubInv
<1>1. ASSUME NEW s \in Session, Join(s) PROVE SetsAreOfTheMap' /\ JoinedIsSubscribed'
  <2>1. /\ entry' \in Session /\ members' \in [Session -> SUBSET Session]
        /\ entry # None => entry' = entry
        /\ members'[entry'] = members[entry'] \cup {s}
        /\ \A x \in Session : x # entry' => members'[x] = {}
        /\ entry = None => \A x \in Session : members[x] = {}
    BY <1>0, <1>1, AddAdds DEF Join
  <2>2. /\ phase'[s] = "joined" /\ \A x \in Session \ {s} : phase'[x] = phase[x]
        /\ closed' = closed /\ victim' = victim
    BY <1>0, <1>1 DEF TypeOK, Join, publishers
  <2>3. SetsAreOfTheMap'
    BY <1>0, <2>1, <2>2 DEF SetsAreOfTheMap
  <2>4. JoinedIsSubscribed'
    BY <1>0, <2>1, <2>2, HubAssumption DEF JoinedIsSubscribed, Failing
  <2>5. QED BY <2>3, <2>4
<1>2. ASSUME NEW s \in Session, RemoveQueue(s), closed' = closed, victim' = victim,
             \A x \in Session \ {s} : phase'[x] = phase[x],
             (phase'[s] = phase[s] /\ Failing(s)) \/ phase'[s] = "leaving"
      PROVE  SetsAreOfTheMap' /\ JoinedIsSubscribed'
  <2>1. /\ entry' \in Session \cup {None} /\ members' \in [Session -> SUBSET Session]
        /\ \A x \in Session : members'[x] = members[x] \ {s}
        /\ entry' # None => entry' = entry /\ members'[entry] # {}
        /\ entry # None /\ members'[entry] # {} => entry' = entry
    BY <1>0, <1>2, RemoveRemoves
  <2>2. SetsAreOfTheMap'
    <3>1. \A x \in Session : x # entry' => members'[x] = {}
      BY <1>0, <2>1, HubAssumption DEF SetsAreOfTheMap, TypeOK
    <3>2. \A y, x \in Session : y \in members'[x] => phase'[y] = "joined"
      BY <1>0, <1>2, <2>1 DEF SetsAreOfTheMap
    <3>3. QED BY <2>1, <3>1, <3>2 DEF SetsAreOfTheMap
  <2>3. JoinedIsSubscribed'
    <3> SUFFICES ASSUME NEW x \in Session, phase'[x] = "joined", x \notin closed', ~Failing(x)'
                 PROVE  entry' # None /\ x \in members'[entry']
      BY DEF JoinedIsSubscribed
    <3>1. x # s /\ phase[x] = "joined" /\ x \notin closed /\ ~Failing(x)
      BY <1>2 DEF Failing
    <3>2. entry # None /\ entry \in Session /\ x \in members[entry]
      BY <1>0, <3>1 DEF JoinedIsSubscribed, TypeOK
    <3>3. QED BY <2>1, <3>1, <3>2
  <2>4. QED BY <2>2, <2>3
<1>3. ASSUME NEW p \in Publisher, RemoveFailed(p)
      PROVE  SetsAreOfTheMap' /\ JoinedIsSubscribed'
  <2>1. victim[p] \in Session /\ Failing(victim[p])
    BY <1>3 DEF RemoveFailed, HubInv, TypeOK, BroadcastsInOrder, Failing
  <2>2. QED BY <1>2, <1>3, <2>1 DEF RemoveFailed
<1>4. ASSUME NEW s \in Session, Leave(s) PROVE SetsAreOfTheMap' /\ JoinedIsSubscribed'
  BY <1>0, <1>2, <1>4 DEF Leave, publishers, TypeOK
<1>5. ASSUME NEW s \in Session, CloseOwn(s) PROVE SetsAreOfTheMap' /\ JoinedIsSubscribed'
  <2>1. /\ phase[s] = "leaving" /\ phase'[s] = "done" /\ UNCHANGED <<entry, members, victim>>
        /\ \A x \in Session \ {s} : phase'[x] = phase[x]
        /\ closed \subseteq closed'
    BY <1>0, <1>5 DEF CloseOwn, sets, publishers, TypeOK
  <2>2. QED BY <1>0, <2>1 DEF SetsAreOfTheMap, JoinedIsSubscribed, Failing
<1>6. CASE UNCHANGED <<entry, members, phase>>
  <2>1. SetsAreOfTheMap'
    BY <1>0, <1>6 DEF SetsAreOfTheMap
  <2>2. \A x \in Session : x \notin closed' => x \notin closed
                           /\ (Failing(x) => Failing(x)')
    <3>1. ASSUME NEW p \in Publisher, CloseFailed(p)
          PROVE  \A x \in Session : x \notin closed' => x \notin closed
                                    /\ (Failing(x) => Failing(x)')
      BY <1>0, <3>1 DEF CloseFailed, Failing, TypeOK
    <3>2. ASSUME NEW p \in Publisher, NEW s \in Session, TrySend(p, s)
          PROVE  \A x \in Session : x \notin closed' => x \notin closed
                                    /\ (Failing(x) => Failing(x)')
      <4>1. victim[p] = None /\ closed' = closed
        BY <3>2 DEF TrySend, NextQueue, HubInv, BroadcastsInOrder
      <4>2. \A q \in Publisher \ {p} : victim'[q] = victim[q]
        BY <1>0, <3>2 DEF TrySend, TypeOK
      <4>3. QED BY <4>1, <4>2, HubAssumption DEF Failing
    <3>3. ASSUME NEW s \in Session, CloseOwn(s)
          PROVE  closed \subseteq closed' /\ victim' = victim
      BY <3>3 DEF CloseOwn, publishers
    <3>4. CASE UNCHANGED <<closed, victim>>
      BY <3>4 DEF Failing
    <3>5. QED
      BY <3>1, <3>2, <3>3, <3>4
      DEF Next, vars, sets, publishers, Walk, Writer, StartBroadcast, RemoveFailed, EndBroadcast,
          WriterReceives, WriterSends, WriterCloses, Disconnect, Join, Leave, Failing
  <2>3. JoinedIsSubscribed'
    BY <1>0, <1>6, <2>2 DEF JoinedIsSubscribed
  <2>4. QED BY <2>1, <2>3
<1>7. QED BY <1>1, <1>3, <1>4, <1>5, <1>6, MapSteps

\* A session never becomes new again.
LEMMA NeverNewAgain ==
  ASSUME TypeOK, [Next]_vars, NEW s \in Session, phase[s] # "new"
  PROVE  phase'[s] # "new"
<1>1. ASSUME NEW x \in Session, Join(x) \/ Leave(x) \/ CloseOwn(x) PROVE phase'[s] # "new"
  BY <1>1 DEF TypeOK, Join, Leave, CloseOwn
<1>2. ASSUME NEW p \in Publisher, RemoveFailed(p) PROVE phase'[s] # "new"
  BY <1>2 DEF RemoveFailed
<1>3. QED BY <1>1, <1>2, MapSteps

\* Every step keeps the sessions in order.
LEMMA SessionsInductive == HubInv /\ [Next]_vars => SessionsInOrder'
<1> SUFFICES ASSUME HubInv, [Next]_vars PROVE SessionsInOrder'
  OBVIOUS
<1>0. TypeOK /\ SessionsInOrder
  BY DEF HubInv
<1>1. ASSUME NEW p \in Publisher, StartBroadcast(p) PROVE SessionsInOrder'
  BY <1>0, <1>1 DEF TypeOK, SessionsInOrder, StartBroadcast
<1>2. ASSUME NEW p \in Publisher, CloseFailed(p) PROVE SessionsInOrder'
  <2>1. victim[p] \in Session /\ phase[victim[p]] # "new"
    BY <1>0, <1>2 DEF TypeOK, CloseFailed, HubInv, BroadcastsInOrder
  <2>2. QED BY <1>0, <1>2, <2>1 DEF SessionsInOrder, CloseFailed
<1>3. ASSUME NEW s \in Session, Join(s) PROVE SessionsInOrder'
  BY <1>0, <1>3 DEF TypeOK, SessionsInOrder, Join
<1>4. ASSUME NEW s \in Session, WriterCloses(s) \/ Disconnect(s) PROVE SessionsInOrder'
  BY <1>0, <1>4 DEF TypeOK, SessionsInOrder, WriterCloses, Disconnect
<1>5. ASSUME NEW s \in Session, Leave(s) PROVE SessionsInOrder'
  BY <1>0, <1>5 DEF TypeOK, SessionsInOrder, Leave
<1>6. ASSUME NEW s \in Session, CloseOwn(s) PROVE SessionsInOrder'
  BY <1>0, <1>6 DEF TypeOK, SessionsInOrder, CloseOwn
<1>7. CASE UNCHANGED <<phase, closed, owed, socket>>
  BY <1>0, <1>7 DEF SessionsInOrder
<1>8. QED
  BY <1>1, <1>2, <1>3, <1>4, <1>5, <1>6, <1>7
  DEF Next, vars, Walk, Writer, TrySend, RemoveFailed, EndBroadcast, WriterReceives, WriterSends

\* What holds of every running broadcast.
BroadcastInOrder(p) ==
  /\ IF pc[p] = "idle" THEN payload[p] = 0 /\ ahead[p] = None
                       ELSE payload[p] \in 1 .. published /\ walking[p] \in Session
  /\ pc[p] = "idle" => visited[p] = {}
  /\ IF pc[p] \in {"removing", "closing"} THEN victim[p] \in visited[p] ELSE victim[p] = None
  /\ ahead[p] # None => ahead[p] \notin visited[p] /\ phase[ahead[p]] # "new"
  /\ \A s \in visited[p] : phase[s] # "new"

\* A step that leaves a broadcast alone leaves it in order.
LEMMA OtherBroadcasts ==
  ASSUME TypeOK, [Next]_vars, NEW q \in Publisher, BroadcastInOrder(q),
         pc'[q] = pc[q], payload'[q] = payload[q], walking'[q] = walking[q],
         visited'[q] = visited[q], ahead'[q] = ahead[q], victim'[q] = victim[q],
         published' \in {published, published + 1}
  PROVE  BroadcastInOrder(q)'
<1>1. /\ \A s \in visited[q] : s \in Session /\ phase'[s] # "new"
      /\ ahead[q] # None => phase'[ahead[q]] # "new"
  BY NeverNewAgain DEF BroadcastInOrder, TypeOK
<1>2. payload[q] \in 1 .. published => payload[q] \in 1 .. published'
  BY DEF TypeOK
<1>3. QED BY <1>1, <1>2 DEF BroadcastInOrder

\* Every step keeps the broadcasts in order, and of different payloads.
LEMMA BroadcastsInductive ==
  HubInv /\ [Next]_vars => BroadcastsInOrder' /\ BroadcastsDiffer'
<1> SUFFICES ASSUME HubInv, [Next]_vars PROVE BroadcastsInOrder' /\ BroadcastsDiffer'
  OBVIOUS
<1>0. /\ TypeOK /\ SetsAreOfTheMap /\ BroadcastsDiffer
      /\ \A q \in Publisher : BroadcastInOrder(q)
  BY DEF HubInv, BroadcastsInOrder, BroadcastInOrder
<1> DEFINE Same(q) ==
      /\ pc'[q] = pc[q] /\ payload'[q] = payload[q] /\ walking'[q] = walking[q]
      /\ visited'[q] = visited[q] /\ ahead'[q] = ahead[q] /\ victim'[q] = victim[q]
<1>1. ASSUME NEW p \in Publisher, published' \in {published, published + 1},
             \A q \in Publisher \ {p} : Same(q),
             BroadcastInOrder(p)',
             payload'[p] \in {0, payload[p], published'},
             payload'[p] = published' => payload'[p] = payload[p] \/ published' = published + 1
      PROVE  BroadcastsInOrder' /\ BroadcastsDiffer'
  <2>1. \A q \in Publisher : BroadcastInOrder(q)'
    BY <1>0, <1>1, OtherBroadcasts
  <2>2. BroadcastsDiffer'
    <3>1. \A q \in Publisher : payload[q] \in 0 .. published /\ published \in Nat
      BY <1>0 DEF BroadcastInOrder, TypeOK
    <3>2. QED BY <1>0, <1>1, <3>1 DEF BroadcastsDiffer
  <2>3. QED BY <2>1, <2>2 DEF BroadcastsInOrder, BroadcastInOrder
<1>2. ASSUME NEW p \in Publisher, StartBroadcast(p) PROVE BroadcastsInOrder' /\ BroadcastsDiffer'
  <2>1. \A q \in Publisher \ {p} : Same(q)
    BY <1>0, <1>2 DEF StartBroadcast, TypeOK
  <2>2. published' = published + 1 /\ published \in Nat /\ published' \in 1 .. published'
    BY <1>0, <1>2 DEF StartBroadcast, TypeOK
  <2>3. CASE entry = None
    <3>1. Same(p)
      BY <1>2, <2>3 DEF StartBroadcast
    <3>2. BroadcastInOrder(p)'
      BY <1>0, <2>2, <3>1, OtherBroadcasts
    <3>3. QED BY <1>1, <2>1, <2>2, <3>1, <3>2
  <2>4. CASE entry # None
    <3>1. PICK s \in members[entry] : ahead' = [ahead EXCEPT ![p] = s]
      BY <1>2, <2>4 DEF StartBroadcast
    <3>2. entry \in Session /\ s \in Session /\ phase[s] = "joined"
      BY <1>0, <2>4, <3>1 DEF TypeOK, SetsAreOfTheMap
    <3>3. /\ pc'[p] = "walking" /\ payload'[p] = published' /\ walking'[p] = entry
          /\ ahead'[p] = s /\ visited'[p] = visited[p] /\ victim'[p] = victim[p]
          /\ phase' = phase
      BY <1>0, <1>2, <2>4, <3>1 DEF StartBroadcast, TypeOK
    <3>4. visited[p] = {} /\ victim[p] = None
      BY <1>0, <1>2 DEF StartBroadcast, BroadcastInOrder
    <3>5. BroadcastInOrder(p)'
      BY <2>2, <3>2, <3>3, <3>4 DEF BroadcastInOrder
    <3>6. QED BY <1>1, <2>1, <2>2, <3>3, <3>5
  <2>5. QED BY <2>3, <2>4
<1>3. ASSUME NEW p \in Publisher, NEW s \in Session, TrySend(p, s)
      PROVE  BroadcastsInOrder' /\ BroadcastsDiffer'
  <2>1. /\ \A q \in Publisher \ {p} : Same(q)
        /\ published' = published /\ payload' = payload /\ walking' = walking /\ phase' = phase
    BY <1>0, <1>3 DEF TrySend, NextQueue, TypeOK
  <2>2. /\ pc[p] = "walking" /\ ahead[p] = s
        /\ visited'[p] = visited[p] \cup {s}
        /\ ahead'[p] \in (Unvisited(p) \ {s}) \cup {None}
        /\ \/ pc'[p] = "removing" /\ victim'[p] = s
           \/ pc'[p] = pc[p] /\ victim'[p] = victim[p]
    BY <1>0, <1>3 DEF TrySend, NextQueue, TypeOK
  <2>3. walking[p] \in Session /\ phase[s] # "new"
    BY <1>0, <2>2, HubAssumption DEF BroadcastInOrder
  <2>4. \A x \in Unvisited(p) : phase[x] = "joined" /\ x \notin visited[p]
    BY <1>0, <2>3 DEF Unvisited, SetsAreOfTheMap, TypeOK
  <2>5. BroadcastInOrder(p)'
    BY <1>0, <2>1, <2>2, <2>3, <2>4 DEF BroadcastInOrder
  <2>6. QED BY <1>0, <1>1, <2>1, <2>5
<1>4. ASSUME NEW p \in Publisher, RemoveFailed(p) PROVE BroadcastsInOrder' /\ BroadcastsDiffer'
  <2>1. /\ \A q \in Publisher \ {p} : Same(q)
        /\ published' = published /\ payload' = payload /\ walking' = walking /\ phase' = phase
        /\ visited' = visited /\ ahead' = ahead /\ victim' = victim
        /\ pc[p] = "removing" /\ pc'[p] = "closing"
    BY <1>0, <1>4 DEF RemoveFailed, TypeOK
  <2>2. BroadcastInOrder(p)'
    BY <1>0, <2>1 DEF BroadcastInOrder
  <2>3. QED BY <1>1, <2>1, <2>2
<1>5. ASSUME NEW p \in Publisher, CloseFailed(p) PROVE BroadcastsInOrder' /\ BroadcastsDiffer'
  <2>1. /\ \A q \in Publisher \ {p} : Same(q)
        /\ published' = published /\ payload' = payload /\ walking' = walking /\ phase' = phase
        /\ visited' = visited /\ ahead' = ahead /\ victim'[p] = None
        /\ pc[p] = "closing" /\ pc'[p] = "walking"
    BY <1>0, <1>5 DEF CloseFailed, TypeOK
  <2>2. BroadcastInOrder(p)'
    BY <1>0, <2>1 DEF BroadcastInOrder
  <2>3. QED BY <1>1, <2>1, <2>2
<1>6. ASSUME NEW p \in Publisher, EndBroadcast(p) PROVE BroadcastsInOrder' /\ BroadcastsDiffer'
  <2>1. /\ \A q \in Publisher \ {p} : Same(q)
        /\ published' = published /\ payload'[p] = 0 /\ phase' = phase
        /\ visited'[p] = {} /\ ahead'[p] = None /\ victim'[p] = victim[p]
        /\ pc[p] = "walking" /\ pc'[p] = "idle"
    BY <1>0, <1>6 DEF EndBroadcast, TypeOK
  <2>2. BroadcastInOrder(p)'
    BY <1>0, <2>1 DEF BroadcastInOrder
  <2>3. published \in Nat /\ payload[p] \in 1 .. published
    BY <1>0, <2>1 DEF BroadcastInOrder, TypeOK
  <2>4. QED BY <1>1, <2>1, <2>2, <2>3
<1>7. CASE UNCHANGED publishers
  <2>1. \A q \in Publisher : BroadcastInOrder(q)'
    BY <1>0, <1>7, OtherBroadcasts DEF publishers
  <2>2. QED BY <1>0, <1>7, <2>1 DEF BroadcastsInOrder, BroadcastInOrder, BroadcastsDiffer, publishers
<1>8. QED
  BY <1>2, <1>3, <1>4, <1>5, <1>6, <1>7
  DEF Next, vars, Walk, Writer, WriterReceives, WriterSends, WriterCloses, Disconnect, Join,
      Leave, CloseOwn

\* Every step leaves no session behind that a broadcast owes its payload to.
LEMMA NobodyInductive == HubInv /\ [Next]_vars => NobodyIsMissed'
<1> SUFFICES ASSUME HubInv, [Next]_vars PROVE NobodyIsMissed'
  OBVIOUS
<1>0. /\ TypeOK /\ SetsAreOfTheMap /\ SessionsInOrder /\ NobodyIsMissed
      /\ \A q \in Publisher : BroadcastInOrder(q)
  BY DEF HubInv, BroadcastsInOrder, BroadcastInOrder
<1>1. ASSUME NEW p \in Publisher, StartBroadcast(p) PROVE NobodyIsMissed'
  <2> SUFFICES ASSUME NEW q \in Publisher, NEW x \in Session,
                      payload'[q] \in owed'[x], entry' # None, x \in members'[entry']
               PROVE  walking'[q] = entry' /\ (ahead'[q] # None \/ x \in visited'[q])
    BY DEF NobodyIsMissed
  <2>1. entry' = entry /\ members' = members /\ visited' = visited /\ entry \in Session
    BY <1>0, <1>1 DEF StartBroadcast, sets, TypeOK
  <2>2. CASE q = p
    <3>1. PICK s \in members[entry] : ahead' = [ahead EXCEPT ![p] = s]
      BY <1>1, <2>1 DEF StartBroadcast
    <3>2. s \in Session /\ s # None
      BY <1>0, <2>1, <3>1, HubAssumption DEF TypeOK
    <3>3. QED BY <1>0, <1>1, <2>1, <2>2, <3>1, <3>2 DEF StartBroadcast, TypeOK
  <2>3. CASE q # p
    <3>1. /\ payload'[q] = payload[q] /\ walking'[q] = walking[q] /\ ahead'[q] = ahead[q]
          /\ published' = published + 1 /\ published \in Nat
          /\ owed'[x] \subseteq owed[x] \cup {published'}
      BY <1>0, <1>1, <2>3 DEF StartBroadcast, TypeOK
    <3>2. payload[q] \in 0 .. published
      BY <1>0, <3>1 DEF BroadcastInOrder
    <3>3. payload[q] \in owed[x]
      BY <3>1, <3>2
    <3>4. QED BY <1>0, <2>1, <3>1, <3>3 DEF NobodyIsMissed
  <2>4. QED BY <2>2, <2>3
<1>2. ASSUME NEW p \in Publisher, NEW s \in Session, TrySend(p, s) PROVE NobodyIsMissed'
  <2>1. /\ UNCHANGED <<entry, members, owed, payload, walking>>
        /\ \A q \in Publisher \ {p} : ahead'[q] = ahead[q] /\ visited'[q] = visited[q]
        /\ visited'[p] = visited[p] \cup {s}
        /\ ahead'[p] = None => \A x \in Unvisited(p) \ {s} : payload[p] \notin owed[x]
    BY <1>0, <1>2 DEF TrySend, NextQueue, sets, TypeOK
  <2>2. QED BY <1>0, <2>1 DEF NobodyIsMissed, Unvisited
<1>3. ASSUME NEW s \in Session, RemoveQueue(s), UNCHANGED <<owed, payload, walking, ahead, visited>>
      PROVE  NobodyIsMissed'
  <2>1. /\ \A x \in Session : members'[x] = members[x] \ {s}
        /\ entry' # None => entry' = entry
        /\ entry' \in Session \cup {None}
    BY <1>0, <1>3, RemoveRemoves
  <2>2. QED BY <1>0, <1>3, <2>1 DEF NobodyIsMissed
<1>4. ASSUME NEW p \in Publisher, RemoveFailed(p) PROVE NobodyIsMissed'
  <2>1. victim[p] \in Session
    BY <1>0, <1>4 DEF RemoveFailed, TypeOK, BroadcastInOrder
  <2>2. QED BY <1>3, <1>4, <2>1 DEF RemoveFailed
<1>5. ASSUME NEW s \in Session, Leave(s) PROVE NobodyIsMissed'
  BY <1>3, <1>5 DEF Leave, publishers
<1>6. ASSUME NEW s \in Session, Join(s) PROVE NobodyIsMissed'
  <2>1. /\ entry' \in Session
        /\ entry # None => entry' = entry
        /\ members'[entry'] = members[entry'] \cup {s}
        /\ entry = None => \A x \in Session : members[x] = {}
    BY <1>0, <1>6, AddAdds DEF Join
  <2>2. owed[s] = {} /\ UNCHANGED <<owed, payload, walking, ahead, visited>>
    BY <1>0, <1>6 DEF Join, publishers, SessionsInOrder
  <2>3. QED BY <1>0, <2>1, <2>2 DEF NobodyIsMissed
<1>7. ASSUME NEW p \in Publisher, EndBroadcast(p) PROVE NobodyIsMissed'
  <2>1. /\ \A q \in Publisher \ {p} : payload'[q] = payload[q] /\ walking'[q] = walking[q]
                                      /\ visited'[q] = visited[q]
        /\ payload'[p] = 0 /\ UNCHANGED <<entry, members, owed, ahead>>
    BY <1>0, <1>7 DEF EndBroadcast, sets, TypeOK
  <2>2. \A x \in Session : 0 \notin owed[x]
    BY <1>0 DEF TypeOK, Payload
  <2>3. QED BY <1>0, <2>1, <2>2 DEF NobodyIsMissed
<1>8. CASE UNCHANGED <<entry, members, owed, payload, walking, ahead, visited>>
  BY <1>0, <1>8 DEF NobodyIsMissed
<1>9. QED
  BY <1>1, <1>2, <1>4, <1>5, <1>6, <1>7, <1>8
  DEF Next, vars, sets, publishers, Walk, Writer, CloseFailed, WriterReceives, WriterSends,
      WriterCloses, Disconnect, CloseOwn

\* What is on its way to a session is a sequence of payloads.
LEMMA OnItsWayType ==
  ASSUME TypeOK, NEW s \in Session
  PROVE  /\ OnItsWay(s) \in Seq(Payload) /\ delivered[s] \in Seq(Payload)
         /\ queue[s] \in Seq(Payload) /\ writing[s] \in Payload \cup {0}
<1>1. /\ delivered[s] \in Seq(Payload) /\ queue[s] \in Seq(Payload)
      /\ writing[s] \in Payload \cup {0}
  BY DEF TypeOK
<1>2. CASE writing[s] = 0
  BY <1>1, <1>2, AppendBehind DEF OnItsWay
<1>3. CASE writing[s] # 0
  BY <1>1, <1>3, ConsHolds DEF OnItsWay
<1>4. QED BY <1>1, <1>2, <1>3

\* A payload that enters the queue is the last on its way.
LEMMA EnterQueue ==
  ASSUME TypeOK, NEW s \in Session, NEW n \in Payload,
         queue'[s] = Append(queue[s], n),
         writing'[s] = writing[s], delivered'[s] = delivered[s]
  PROVE  /\ OnItsWay(s)' = Append(OnItsWay(s), n)
         /\ Given(s)' = Given(s) \cup {n}
<1>1. /\ OnItsWay(s) \in Seq(Payload) /\ delivered[s] \in Seq(Payload)
      /\ queue[s] \in Seq(Payload) /\ writing[s] \in Payload \cup {0}
  BY OnItsWayType
<1>2. OnItsWay(s)' = Append(OnItsWay(s), n)
  <2>1. CASE writing[s] = 0
    <3>1. Append(queue[s], n) \in Seq(Payload)
      BY <1>1, AppendProperties
    <3>2. <<>> \o queue[s] = queue[s] /\ <<>> \o Append(queue[s], n) = Append(queue[s], n)
      BY <1>1, <3>1
    <3>3. QED BY <2>1, <3>2 DEF OnItsWay
  <2>2. CASE writing[s] # 0
    BY <1>1, <2>2, AppendBehind DEF OnItsWay
  <2>3. QED BY <2>1, <2>2
<1>3. QED BY <1>1, <1>2, AppendHolds DEF Given

\* The writer takes a payload from the queue: it is still the next on its way.
LEMMA LeaveQueue ==
  ASSUME TypeOK, NEW s \in Session, WriterReceives(s)
  PROVE  OnItsWay(s)' = OnItsWay(s)
<1>1. /\ queue[s] \in Seq(Payload) /\ queue[s] # <<>> /\ writing[s] = 0
      /\ queue'[s] = Tail(queue[s]) /\ writing'[s] = Head(queue[s])
  BY DEF TypeOK, WriterReceives
<1>2. Head(queue[s]) \in Payload /\ 0 \notin Payload
  <2>1. Head(queue[s]) \in Payload
    BY <1>1, HeadAndTail
  <2>2. 0 \notin Payload
    BY DEF Payload
  <2>3. QED BY <2>1, <2>2
<1>3. <<Head(queue[s])>> \o Tail(queue[s]) = queue[s] /\ <<>> \o queue[s] = queue[s]
  BY <1>1, HeadAndTail
<1>4. QED BY <1>1, <1>2, <1>3 DEF OnItsWay

\* The writer sends a payload: it was the next on its way.
LEMMA LeaveWriter ==
  ASSUME TypeOK, NEW s \in Session, WriterSends(s)
  PROVE  /\ OnItsWay(s) # <<>> /\ OnItsWay(s)' = Tail(OnItsWay(s))
         /\ delivered'[s] = Append(delivered[s], Head(OnItsWay(s)))
         /\ Given(s)' = Given(s)
<1>1. /\ queue[s] \in Seq(Payload) /\ delivered[s] \in Seq(Payload)
      /\ writing[s] \in Payload /\ writing[s] # 0
      /\ queue'[s] = queue[s] /\ writing'[s] = 0
      /\ delivered'[s] = Append(delivered[s], writing[s])
  BY DEF TypeOK, WriterSends
<1>2. OnItsWay(s) = <<writing[s]>> \o queue[s] /\ OnItsWay(s)' = <<>> \o queue[s]
  BY <1>1 DEF OnItsWay
<1>3. OnItsWay(s)' = queue[s]
  BY <1>1, <1>2
<1>4. /\ OnItsWay(s) # <<>> /\ Head(OnItsWay(s)) = writing[s] /\ Tail(OnItsWay(s)) = queue[s]
      /\ ToSet(OnItsWay(s)) = {writing[s]} \cup ToSet(queue[s])
  BY <1>1, <1>2, ConsHolds
<1>5. ToSet(delivered'[s]) = ToSet(delivered[s]) \cup {writing[s]}
  BY <1>1, AppendHolds
<1>6. QED BY <1>1, <1>3, <1>4, <1>5 DEF Given

\* No step gives a session what it has.
LEMMA TwiceInductive == HubInv /\ [Next]_vars => NothingComesTwice'
<1> SUFFICES ASSUME HubInv, [Next]_vars PROVE NothingComesTwice'
  OBVIOUS
<1>0. /\ TypeOK /\ BroadcastsDiffer /\ NothingComesTwice
      /\ \A q \in Publisher : BroadcastInOrder(q)
  BY DEF HubInv, BroadcastsInOrder, BroadcastInOrder
<1>1. ASSUME NEW p \in Publisher, StartBroadcast(p) PROVE NothingComesTwice'
  <2>1. /\ published' = published + 1 /\ published \in Nat
        /\ \A x \in Session : owed'[x] \subseteq owed[x] \cup {published'}
        /\ \A q \in Publisher \ {p} : payload'[q] = payload[q]
        /\ payload'[p] \in {payload[p], published'}
        /\ UNCHANGED <<queue, writing, delivered, visited, victim>>
    BY <1>0, <1>1 DEF StartBroadcast, TypeOK
  <2>2. \A x \in Session : Given(x)' = Given(x)
    BY <2>1 DEF Given, OnItsWay
  <2>3. \A x \in Session : Given(x) \cup owed[x] \subseteq 1 .. published
    BY <1>0 DEF NothingComesTwice
  <2>4. /\ \A x \in Session : published' \notin Given(x)
        /\ 1 .. published \subseteq 1 .. published' /\ published' \in 1 .. published'
    BY <2>1, <2>3
  <2>5. \A x \in Session : Given(x)' \cup owed'[x] \subseteq 1 .. published'
    BY <2>1, <2>2, <2>3, <2>4
  <2>6. \A q \in Publisher, x \in Session : payload'[q] \in Given(x)' =>
          x \in visited'[q] /\ victim'[q] # x
    BY <1>0, <2>1, <2>2, <2>4 DEF NothingComesTwice
  <2>7. QED BY <2>5, <2>6 DEF NothingComesTwice
<1>2. ASSUME NEW p \in Publisher, NEW s \in Session, TrySend(p, s) PROVE NothingComesTwice'
  <2>1. /\ pc[p] = "walking" /\ ahead[p] = s
        /\ visited'[p] = visited[p] \cup {s}
        /\ \A q \in Publisher \ {p} : visited'[q] = visited[q] /\ victim'[q] = victim[q]
        /\ UNCHANGED <<owed, published, payload, writing, delivered>>
    BY <1>0, <1>2 DEF TrySend, NextQueue, TypeOK
  <2>2. /\ payload[p] \in 1 .. published /\ payload[p] # 0 /\ s \notin visited[p]
        /\ victim[p] = None /\ payload[p] \in Payload
    <3>1. payload[p] \in 1 .. published /\ s \notin visited[p] /\ victim[p] = None
      BY <1>0, <2>1, HubAssumption DEF BroadcastInOrder
    <3>2. payload[p] # 0
      BY <3>1
    <3>3. payload[p] \in Payload \cup {0}
      BY <1>0 DEF TypeOK
    <3>4. QED BY <3>1, <3>2, <3>3
  <2>3. \A q \in Publisher : payload[q] = payload[p] => q = p
    BY <1>0, <2>2 DEF BroadcastsDiffer
  <2>4. CASE Fails(s)
    <3>1. queue' = queue /\ victim'[p] = s
      BY <1>0, <1>2, <2>4 DEF TrySend, TypeOK
    <3>2. \A x \in Session : Given(x)' = Given(x)
      BY <2>1, <3>1 DEF Given, OnItsWay
    <3>3. payload[p] \notin Given(s)
      BY <1>0, <2>2 DEF NothingComesTwice
    <3>4. QED BY <1>0, <2>1, <2>2, <3>1, <3>2, <3>3 DEF NothingComesTwice
  <2>5. CASE ~Fails(s)
    <3>1. /\ queue'[s] = Append(queue[s], payload[p]) /\ victim' = victim
          /\ \A x \in Session \ {s} : queue'[x] = queue[x]
      BY <1>0, <1>2, <2>5 DEF TrySend, TypeOK
    <3>2. Given(s)' = Given(s) \cup {payload[p]}
      BY <1>0, <2>1, <2>2, <3>1, EnterQueue
    <3>3. \A x \in Session \ {s} : Given(x)' = Given(x)
      BY <2>1, <3>1 DEF Given, OnItsWay
    <3>4. \A x \in Session : Given(x)' \cup owed'[x] \subseteq 1 .. published'
      BY <1>0, <2>1, <2>2, <3>2, <3>3 DEF NothingComesTwice
    <3>5. ASSUME NEW q \in Publisher, NEW x \in Session, payload'[q] \in Given(x)'
          PROVE  x \in visited'[q] /\ victim'[q] # x
      <4>1. CASE x = s /\ payload[q] = payload[p]
        BY <2>1, <2>2, <2>3, <3>1, <4>1, HubAssumption
      <4>2. CASE ~(x = s /\ payload[q] = payload[p])
        <5>1. payload[q] \in Given(x)
          BY <2>1, <3>2, <3>3, <3>5, <4>2
        <5>2. QED BY <1>0, <2>1, <3>1, <5>1 DEF NothingComesTwice
      <4>3. QED BY <4>1, <4>2
    <3>6. QED BY <3>4, <3>5 DEF NothingComesTwice
  <2>6. QED BY <2>4, <2>5
<1>3. ASSUME NEW p \in Publisher, CloseFailed(p) \/ EndBroadcast(p) PROVE NothingComesTwice'
  <2>1. /\ UNCHANGED <<owed, published, queue, writing, delivered>>
        /\ \A q \in Publisher \ {p} :
             payload'[q] = payload[q] /\ visited'[q] = visited[q] /\ victim'[q] = victim[q]
        /\ \/ payload'[p] = payload[p] /\ visited'[p] = visited[p] /\ victim'[p] = None
           \/ payload'[p] = 0
    BY <1>0, <1>3 DEF CloseFailed, EndBroadcast, TypeOK
  <2>2. \A x \in Session : Given(x)' = Given(x) /\ 0 \notin Given(x)
    BY <1>0, <2>1 DEF Given, OnItsWay, NothingComesTwice
  <2>3. QED BY <1>0, <2>1, <2>2, HubAssumption DEF NothingComesTwice
<1>4. ASSUME NEW s \in Session, WriterReceives(s) \/ WriterSends(s) PROVE NothingComesTwice'
  <2>1. /\ UNCHANGED <<owed, published, payload, visited, victim>>
        /\ \A x \in Session \ {s} :
             queue'[x] = queue[x] /\ writing'[x] = writing[x] /\ delivered'[x] = delivered[x]
    BY <1>0, <1>4 DEF WriterReceives, WriterSends, publishers, TypeOK
  <2>2. Given(s)' = Given(s)
    <3>1. CASE WriterReceives(s)
      BY <1>0, <3>1, LeaveQueue DEF Given, WriterReceives
    <3>2. CASE WriterSends(s)
      BY <1>0, <3>2, LeaveWriter
    <3>3. QED BY <1>4, <3>1, <3>2
  <2>3. \A x \in Session \ {s} : Given(x)' = Given(x)
    BY <2>1 DEF Given, OnItsWay
  <2>4. QED BY <1>0, <2>1, <2>2, <2>3 DEF NothingComesTwice
<1>5. CASE UNCHANGED <<owed, published, payload, visited, victim, queue, writing, delivered>>
  <2>1. \A x \in Session : Given(x)' = Given(x)
    BY <1>5 DEF Given, OnItsWay
  <2>2. QED BY <1>0, <1>5, <2>1 DEF NothingComesTwice
<1>6. QED
  BY <1>1, <1>2, <1>3, <1>4, <1>5
  DEF Next, vars, sets, publishers, Walk, Writer, RemoveFailed, WriterCloses, Disconnect, Join,
      Leave, CloseOwn

\* The hub starts with no entry, no broadcast and only new sessions.
LEMMA InitHub == Init => HubInv
<1> SUFFICES ASSUME Init PROVE HubInv
  OBVIOUS
<1>1. TypeOK
  <2>1. 0 \in 0 .. MaxPayloads /\ <<>> \in Seq(Payload)
    BY HubAssumption
  <2>2. QED BY <2>1 DEF Init, TypeOK
<1>2. JoinedIsSubscribed /\ SetsAreOfTheMap /\ SessionsInOrder
  BY DEF Init, JoinedIsSubscribed, SetsAreOfTheMap, SessionsInOrder
<1>3. BroadcastsInOrder /\ BroadcastsDiffer /\ NobodyIsMissed
  BY DEF Init, BroadcastsInOrder, BroadcastsDiffer, NobodyIsMissed
<1>4. NothingComesTwice
  <2>1. \A s \in Session : OnItsWay(s) = <<>> /\ delivered[s] = <<>> /\ owed[s] = {}
    <3>1. <<>> \o <<>> = <<>>
      OBVIOUS
    <3>2. QED BY <3>1 DEF Init, OnItsWay
  <2>2. \A s \in Session : Given(s) = {}
    BY <2>1 DEF Given, ToSet
  <2>3. QED BY <2>1, <2>2 DEF NothingComesTwice
<1>5. QED BY <1>1, <1>2, <1>3, <1>4 DEF HubInv

\* Every step keeps the invariant.
LEMMA HubInductive == HubInv /\ [Next]_vars => HubInv'
BY TypeInductive, SetsInductive, SessionsInductive, BroadcastsInductive, NobodyInductive,
   TwiceInductive DEF HubInv

\* HubInv always holds: no subscription is lost, however adds, removes and broadcasts interleave.
THEOREM HubInvariant == Spec => []HubInv
BY InitHub, HubInductive, PTL DEF Spec

\* No queue of an ended session stays in a set, no empty set stays in the map.
THEOREM NoLeak == Spec => []NothingLeaks
<1>1. HubInv => NothingLeaks
  BY DEF HubInv, SetsAreOfTheMap, NothingLeaks
<1>2. QED BY <1>1, HubInvariant, PTL

(***************************************************************************)
(* The hub implements LiveFeed.  First the steps of the feed, in terms of  *)
(* what the mapping says of each session.                                  *)
(***************************************************************************)

\* The feed does not see the session move.
Unmoved(s) ==
  /\ FeedState(s)' = FeedState(s) /\ TopicFor(s)' = TopicFor(s) /\ DueTo(s)' = DueTo(s)
  /\ ToCome(s)' = ToCome(s) /\ Received(s)' = Received(s)

\* No announcement begins or ends.
SameAnnouncements == published' = published /\ Running' = Running

FeedVars ==
  << [s \in Session |-> FeedState(s)], [s \in Session |-> TopicFor(s)], 1 .. published, Running,
     [s \in Session |-> DueTo(s)], [s \in Session |-> ToCome(s)], [s \in Session |-> Received(s)] >>

\* The feed stutters.
LEMMA FeedStutters ==
  ASSUME SameAnnouncements, \A s \in Session : Unmoved(s)
  PROVE  FeedVars' = FeedVars
BY DEF SameAnnouncements, Unmoved, FeedVars

\* A session joins.
LEMMA FeedJoins ==
  ASSUME NEW s \in Session, SameAnnouncements, \A x \in Session \ {s} : Unmoved(x),
         FeedState(s) = "new", FeedState(s)' = "open",
         DueTo(s)' = DueTo(s), ToCome(s)' = ToCome(s), Received(s)' = Received(s)
  PROVE  Feed!Join(s, "metrics")
<1>1. TopicFor(s)' = "metrics"
  BY DEF TopicFor
<1>2. QED BY <1>1 DEF SameAnnouncements, Unmoved, Feed!Join

\* An announcement begins, which the open sessions are due.
LEMMA FeedAnnounces ==
  ASSUME NEW n \in Payload, n \notin 1 .. published, 1 .. published' = (1 .. published) \cup {n},
         Running' = Running \cup {n},
         \A s \in Session :
           /\ FeedState(s)' = FeedState(s) /\ TopicFor(s)' = TopicFor(s)
           /\ ToCome(s)' = ToCome(s) /\ Received(s)' = Received(s)
           /\ DueTo(s)' = IF FeedState(s) = "open" THEN DueTo(s) \cup {n} ELSE DueTo(s)
  PROVE  Feed!Announce(n)
<1>1. \A s \in Session : FeedState(s) = "open" => TopicFor(s) = "metrics"
  BY DEF TopicFor
<1>2. QED BY <1>1 DEF Feed!Announce, Feed!Audience

\* An announcement that no session is open for.
LEMMA FeedAnnouncesToNobody ==
  ASSUME NEW n \in Payload, n \notin 1 .. published, 1 .. published' = (1 .. published) \cup {n},
         Running' = Running,
         \A s \in Session : Unmoved(s) /\ FeedState(s) # "open"
  PROVE  Feed!AnnounceToNobody(n)
BY DEF Unmoved, Feed!AnnounceToNobody, Feed!Audience

\* A session that has neither got nor missed the payload gets it.
LEMMA FeedOffers ==
  ASSUME NEW n \in Payload, NEW s \in Session, SameAnnouncements,
         \A x \in Session \ {s} : Unmoved(x),
         n \in Running, FeedState(s) = "open" \/ (FeedState(s) = "failing" /\ n \notin DueTo(s)),
         n \notin ToSet(Received(s)) \cup ToSet(ToCome(s)),
         FeedState(s)' = FeedState(s), ToCome(s)' = Append(ToCome(s), n),
         DueTo(s)' = DueTo(s) \ {n}, Received(s)' = Received(s)
  PROVE  Feed!Offer(n, s)
<1>1. TopicFor(s) = "metrics" /\ TopicFor(s)' = "metrics"
  BY DEF TopicFor
<1>2. Feed!Receptive(n, s)
  <2>1. n \notin Feed!ToSet(Received(s)) \cup Feed!ToSet(ToCome(s))
    BY DEF ToSet, Feed!ToSet
  <2>2. QED BY <1>1, <2>1 DEF Feed!Receptive
<1>3. QED BY <1>1, <1>2 DEF SameAnnouncements, Unmoved, Feed!Offer

\* ... or falls behind.
LEMMA FeedFallsBehind ==
  ASSUME NEW n \in Payload, NEW s \in Session, SameAnnouncements,
         \A x \in Session \ {s} : Unmoved(x),
         n \in Running, FeedState(s) = "open" \/ (FeedState(s) = "failing" /\ n \notin DueTo(s)),
         n \notin ToSet(Received(s)) \cup ToSet(ToCome(s)),
         FeedState(s)' = "failing", ToCome(s)' = ToCome(s), Received(s)' = Received(s),
         DueTo(s)' = IF FeedState(s) = "open" THEN {n} ELSE DueTo(s) \cup {n}
  PROVE  Feed!FallBehind(n, s)
<1>1. TopicFor(s) = "metrics" /\ TopicFor(s)' = "metrics"
  BY DEF TopicFor
<1>2. Feed!Receptive(n, s)
  <2>1. n \notin Feed!ToSet(Received(s)) \cup Feed!ToSet(ToCome(s))
    BY DEF ToSet, Feed!ToSet
  <2>2. QED BY <1>1, <2>1 DEF Feed!Receptive
<1>3. QED BY <1>1, <1>2 DEF SameAnnouncements, Unmoved, Feed!FallBehind

\* A failing session is cut.
LEMMA FeedCuts ==
  ASSUME NEW s \in Session, SameAnnouncements, \A x \in Session \ {s} : Unmoved(x),
         FeedState(s) = "failing", FeedState(s)' = "cut", DueTo(s)' = {},
         ToCome(s)' = ToCome(s), Received(s)' = Received(s)
  PROVE  Feed!Cut(s)
<1>1. TopicFor(s) = "metrics" /\ TopicFor(s)' = "metrics"
  BY DEF TopicFor
<1>2. QED BY <1>1 DEF SameAnnouncements, Unmoved, Feed!Cut

\* An announcement ends that nobody is due.
LEMMA FeedEndsAnnouncement ==
  ASSUME NEW n \in Payload, n \in Running, Running' = Running \ {n}, published' = published,
         \A s \in Session : Unmoved(s) /\ n \notin DueTo(s)
  PROVE  Feed!EndAnnouncement(n)
BY DEF Unmoved, Feed!EndAnnouncement

\* The next payload on its way is delivered.
LEMMA FeedDelivers ==
  ASSUME NEW s \in Session, SameAnnouncements, \A x \in Session \ {s} : Unmoved(x),
         FeedState(s) \in {"open", "failing", "cut"}, FeedState(s)' = FeedState(s),
         DueTo(s)' = DueTo(s), ToCome(s) # <<>>, ToCome(s)' = Tail(ToCome(s)),
         Received(s)' = Append(Received(s), Head(ToCome(s)))
  PROVE  Feed!Deliver(s)
<1>1. TopicFor(s)' = TopicFor(s)
  BY DEF TopicFor
<1>2. QED BY <1>1 DEF SameAnnouncements, Unmoved, Feed!Deliver

\* A session ends.
LEMMA FeedEnds ==
  ASSUME NEW s \in Session, SameAnnouncements, \A x \in Session \ {s} : Unmoved(x),
         FeedState(s) # "ended", FeedState(s)' = "ended", DueTo(s)' = {},
         ToCome(s)' = <<>>, Received(s)' = <<>>
  PROVE  Feed!End(s)
<1>1. TopicFor(s)' = None
  BY DEF TopicFor
<1>2. QED BY <1>1 DEF SameAnnouncements, Unmoved, Feed!End

(***************************************************************************)
(* Then, for every step of the hub, the step of the feed it is.            *)
(***************************************************************************)

\* What the invariant says of a session in each state of the feed.
LEMMA FeedStates ==
  ASSUME HubInv, NEW s \in Session
  PROVE  /\ FeedState(s) = "ended" <=> socket[s] = "closed"
         /\ FeedState(s) = "new" <=> socket[s] = "open" /\ phase[s] = "new"
         /\ FeedState(s) = "cut" <=> socket[s] = "open" /\ phase[s] # "new" /\ s \in closed
         /\ FeedState(s) = "failing" <=>
              socket[s] = "open" /\ phase[s] # "new" /\ s \notin closed /\ Failing(s)
         /\ FeedState(s) = "open" <=>
              socket[s] = "open" /\ phase[s] # "new" /\ s \notin closed /\ ~Failing(s)
         /\ FeedState(s) \in {"open", "failing"} => phase[s] = "joined"
         /\ FeedState(s) = "open" => entry # None /\ s \in members[entry]
<1>1. socket[s] \in {"open", "closed"} /\ phase[s] \in {"new", "joined", "leaving", "done"}
  BY DEF HubInv, TypeOK
<1>2. /\ FeedState(s) = "ended" <=> socket[s] = "closed"
      /\ FeedState(s) = "new" <=> socket[s] = "open" /\ phase[s] = "new"
      /\ FeedState(s) = "cut" <=> socket[s] = "open" /\ phase[s] # "new" /\ s \in closed
      /\ FeedState(s) = "failing" <=>
           socket[s] = "open" /\ phase[s] # "new" /\ s \notin closed /\ Failing(s)
      /\ FeedState(s) = "open" <=>
           socket[s] = "open" /\ phase[s] # "new" /\ s \notin closed /\ ~Failing(s)
  BY <1>1 DEF FeedState
<1>3. FeedState(s) \in {"open", "failing"} => phase[s] = "joined"
  BY <1>1, <1>2 DEF HubInv, SessionsInOrder
<1>4. QED BY <1>2, <1>3 DEF HubInv, JoinedIsSubscribed

\* A session is not moved by a step that keeps what the mapping reads.
LEMMA Unmoves ==
  ASSUME NEW s \in Session, FeedState(s)' = FeedState(s), DueTo(s)' = DueTo(s),
         socket'[s] = socket[s], queue'[s] = queue[s], writing'[s] = writing[s],
         delivered'[s] = delivered[s]
  PROVE  Unmoved(s)
BY DEF Unmoved, TopicFor, ToCome, Received, OnItsWay

\* A broadcast begins: an announcement.
LEMMA StartBroadcastAnnounces ==
  ASSUME HubInv, NEW p \in Publisher, StartBroadcast(p)
  PROVE  Feed!Next
<1> DEFINE n == published + 1
<1>0. /\ TypeOK /\ NobodyIsMissed /\ NothingComesTwice
      /\ \A q \in Publisher : BroadcastInOrder(q)
  BY DEF HubInv, BroadcastsInOrder, BroadcastInOrder
<1>1. /\ n \in Payload /\ n \notin 1 .. published /\ published' = n /\ published \in Nat
      /\ 1 .. published' = (1 .. published) \cup {n} /\ n # 0
  BY <1>0, NextPayload DEF StartBroadcast, TypeOK
<1> HIDE DEF n
<1>2. /\ UNCHANGED <<socket, phase, closed, victim, queue, writing, delivered, visited>>
      /\ \A q \in Publisher \ {p} : payload'[q] = payload[q]
      /\ \A x \in Session : owed'[x] = IF phase[x] = "joined" THEN owed[x] \cup {n} ELSE owed[x]
      /\ IF entry = None THEN payload' = payload ELSE payload'[p] = n
  BY <1>0, <1>1 DEF StartBroadcast, TypeOK
<1>3. payload[p] = 0 /\ visited[p] = {} /\ victim[p] = None
  BY <1>0 DEF BroadcastInOrder, StartBroadcast
<1>4. \A x \in Session : /\ FeedState(x)' = FeedState(x) /\ TopicFor(x)' = TopicFor(x)
                         /\ ToCome(x)' = ToCome(x) /\ Received(x)' = Received(x)
  BY <1>2 DEF FeedState, Failing, TopicFor, ToCome, Received, OnItsWay
<1>5. \A x \in Session, q \in Publisher : victim[q] = x => q # p
  BY <1>3, HubAssumption
<1>6. \A x \in Session : FeedState(x) # "open" => DueTo(x)' = DueTo(x)
  <2> SUFFICES ASSUME NEW x \in Session, FeedState(x) # "open" PROVE DueTo(x)' = DueTo(x)
    OBVIOUS
  <2>1. {payload[q] : q \in {r \in Publisher : victim[r] = x}}'
          = {payload[q] : q \in {r \in Publisher : victim[r] = x}}
    BY <1>2, <1>5
  <2>2. QED BY <1>4, <2>1 DEF DueTo
<1>7. CASE entry = None
  <2>1. \A x \in Session : FeedState(x) # "open"
    BY <1>7, FeedStates
  <2>2. Running' = Running
    BY <1>2, <1>7 DEF Running
  <2>3. Feed!AnnounceToNobody(n)
    BY <1>1, <1>4, <1>6, <2>1, <2>2, FeedAnnouncesToNobody DEF Unmoved
  <2>4. QED BY <1>1, <2>3 DEF Feed!Next
<1>8. CASE entry # None
  <2>1. \A q \in Publisher : payload[q] # n
    <3>1. \A q \in Publisher : payload[q] \in 0 .. published
      BY <1>0, <1>1 DEF BroadcastInOrder
    <3>2. QED BY <1>1, <3>1
  <2>2. Running' = Running \cup {n}
    BY <1>1, <1>2, <1>3, <1>8 DEF Running
  <2>3. ASSUME NEW x \in Session, FeedState(x) = "open" PROVE DueTo(x)' = DueTo(x) \cup {n}
    <3>1. /\ DueTo(x) = {m \in owed[x] : \E q \in Publisher : payload[q] = m /\ x \notin visited[q]}
          /\ DueTo(x)' = {m \in owed'[x] :
                            \E q \in Publisher : payload'[q] = m /\ x \notin visited'[q]}
      BY <1>4, <2>3 DEF DueTo
    <3>2. owed'[x] = owed[x] \cup {n} /\ 0 \notin owed[x]
      <4>1. phase[x] = "joined"
        BY <2>3, FeedStates
      <4>2. owed[x] \subseteq 1 .. published
        BY <1>0 DEF NothingComesTwice
      <4>3. 0 \notin 1 .. published
        BY <1>1
      <4>4. owed'[x] = owed[x] \cup {n}
        BY <1>2, <4>1
      <4>5. QED BY <4>2, <4>3, <4>4
    <3>3. \A m \in owed[x] : \A q \in Publisher :
            payload'[q] = m /\ x \notin visited'[q] <=> payload[q] = m /\ x \notin visited[q]
      <4>1. n \notin owed[x]
        BY <1>0, <1>1 DEF NothingComesTwice
      <4>2. QED BY <1>2, <1>3, <1>8, <3>2, <4>1
    <3>4. /\ payload'[p] = n /\ x \notin visited'[p]
      BY <1>2, <1>3, <1>8
    <3>5. QED BY <3>1, <3>2, <3>3, <3>4
  <2>4. Feed!Announce(n)
    BY <1>1, <1>4, <1>6, <2>2, <2>3, FeedAnnounces
  <2>5. QED BY <1>1, <2>4 DEF Feed!Next
<1>9. QED BY <1>7, <1>8

\* A broadcast tries a queue: an offer, or the session falls behind; nothing if it is over.
LEMMA TrySendOffers ==
  ASSUME HubInv, NEW p \in Publisher, NEW s \in Session, TrySend(p, s)
  PROVE  Feed!Next \/ FeedVars' = FeedVars
<1> DEFINE n == payload[p]
<1>0. /\ TypeOK /\ BroadcastsDiffer /\ NothingComesTwice
      /\ \A q \in Publisher : BroadcastInOrder(q)
  BY DEF HubInv, BroadcastsInOrder, BroadcastInOrder
<1>1. /\ pc[p] = "walking" /\ ahead[p] = s
      /\ visited'[p] = visited[p] \cup {s}
      /\ \A q \in Publisher \ {p} : visited'[q] = visited[q] /\ victim'[q] = victim[q]
      /\ UNCHANGED <<socket, phase, closed, owed, published, payload, writing, delivered>>
      /\ \A x \in Session \ {s} : queue'[x] = queue[x]
      /\ IF Fails(s) THEN queue'[s] = queue[s] /\ victim'[p] = s
                     ELSE queue'[s] = Append(queue[s], n) /\ victim'[p] = victim[p]
  BY <1>0 DEF TrySend, NextQueue, TypeOK
<1>2. n \in 1 .. published /\ s \notin visited[p] /\ victim[p] = None /\ phase[s] # "new"
  BY <1>0, <1>1, HubAssumption DEF BroadcastInOrder
<1>3. n # 0
  BY <1>2
<1>4. n \in Payload
  <2>1. payload[p] \in Payload \cup {0}
    BY <1>0 DEF TypeOK
  <2>2. QED BY <1>3, <2>1
<1>5. n \in Running /\ \A q \in Publisher : payload[q] = n => q = p
  BY <1>0, <1>3 DEF Running, BroadcastsDiffer
<1>6. n \notin Given(s)
  BY <1>0, <1>2 DEF NothingComesTwice
<1> HIDE DEF n
<1>7. SameAnnouncements
  BY <1>1 DEF SameAnnouncements, Running
<1>8. \A x \in Session \ {s} : (Failing(x)' <=> Failing(x)) /\ FeedState(x)' = FeedState(x)
  <2>1. \A x \in Session \ {s} : Failing(x)' <=> Failing(x)
    BY <1>1, <1>2, HubAssumption DEF Failing
  <2>2. QED BY <1>1, <2>1 DEF FeedState
<1>9. \A x \in Session \ {s} : Unmoved(x)
  <2> SUFFICES ASSUME NEW x \in Session \ {s} PROVE Unmoved(x)
    OBVIOUS
  <2>1. \A q \in Publisher : victim'[q] = x <=> victim[q] = x
    BY <1>1, <1>2, HubAssumption
  <2>2. {payload[q] : q \in {r \in Publisher : victim[r] = x}}'
          = {payload[q] : q \in {r \in Publisher : victim[r] = x}}
    BY <1>1, <2>1
  <2>3. \A q \in Publisher : x \in visited'[q] <=> x \in visited[q]
    BY <1>1
  <2>4. {m \in owed[x] : \E q \in Publisher : payload[q] = m /\ x \notin visited[q]}'
          = {m \in owed[x] : \E q \in Publisher : payload[q] = m /\ x \notin visited[q]}
    BY <1>1, <2>3
  <2>5. DueTo(x)' = DueTo(x)
    BY <1>8, <2>2, <2>4 DEF DueTo
  <2>6. QED BY <1>1, <1>8, <2>5, Unmoves
<1>10. \A q \in Publisher \ {p} : (victim'[q] = s <=> victim[q] = s) /\ (victim[q] = s => payload[q] # n)
  BY <1>1, <1>5
<1>11. FeedState(s) = "failing" => n \notin DueTo(s)
  BY <1>2, <1>5, HubAssumption DEF DueTo
<1>12. socket[s] = "open" => n \notin ToSet(Received(s)) \cup ToSet(ToCome(s))
  BY <1>6 DEF Given, Received, ToCome
<1>13. CASE Fails(s)
  <2>1. Failing(s)' /\ victim'[p] = s /\ queue' [s] = queue[s]
    BY <1>1, <1>13 DEF Failing
  <2>2. CASE FeedState(s) \in {"open", "failing"}
    <3>1. FeedState(s)' = "failing"
      BY <1>1, <2>1, <2>2, FeedStates DEF FeedState
    <3>2. DueTo(s)' = {payload[q] : q \in {r \in Publisher : victim'[r] = s}}
      BY <1>1, <3>1 DEF DueTo
    <3>3. FeedState(s) = "failing" =>
            DueTo(s) = {payload[q] : q \in {r \in Publisher : victim[r] = s}}
      BY DEF DueTo
    <3>4. FeedState(s) = "open" => \A q \in Publisher : victim[q] # s
      BY FeedStates DEF Failing
    <3>5. DueTo(s)' = IF FeedState(s) = "open" THEN {n} ELSE DueTo(s) \cup {n}
      <4>1. CASE FeedState(s) = "open"
        BY <1>10, <2>1, <3>2, <3>4, <4>1 DEF n
      <4>2. CASE FeedState(s) = "failing"
        BY <1>2, <1>10, <2>1, <3>2, <3>3, <4>2, HubAssumption DEF n
      <4>3. QED BY <2>2, <4>1, <4>2
    <3>6. socket[s] = "open" /\ ToCome(s)' = ToCome(s) /\ Received(s)' = Received(s)
      BY <1>1, <2>1, <2>2, FeedStates DEF ToCome, Received, OnItsWay
    <3>7. Feed!FallBehind(n, s)
      BY <1>4, <1>5, <1>7, <1>9, <1>11, <1>12, <2>2, <3>1, <3>5, <3>6, FeedFallsBehind
    <3>8. QED BY <1>4, <3>7 DEF Feed!Next
  <2>3. CASE FeedState(s) \notin {"open", "failing"}
    <3>1. FeedState(s)' = FeedState(s)
      BY <1>1, <1>2, <2>3, FeedStates DEF FeedState
    <3>2. DueTo(s)' = DueTo(s)
      BY <2>3, <3>1 DEF DueTo
    <3>3. Unmoved(s)
      BY <1>1, <2>1, <3>1, <3>2, Unmoves
    <3>4. QED BY <1>7, <1>9, <3>3, FeedStutters
  <2>4. QED BY <2>2, <2>3
<1>14. CASE ~Fails(s)
  <2>1. /\ s \notin closed /\ queue'[s] = Append(queue[s], n)
        /\ \A q \in Publisher : victim'[q] = s <=> victim[q] = s
    BY <1>1, <1>14 DEF Fails
  <2>2. FeedState(s)' = FeedState(s)
    BY <1>1, <2>1 DEF FeedState, Failing
  <2>3. CASE socket[s] = "open"
    <3>1. FeedState(s) \in {"open", "failing"}
      BY <1>2, <2>1, <2>3, FeedStates
    <3>2. OnItsWay(s)' = Append(OnItsWay(s), n)
      BY <1>0, <1>1, <1>4, <2>1, EnterQueue
    <3>3. ToCome(s)' = Append(ToCome(s), n) /\ Received(s)' = Received(s)
      BY <1>1, <2>3, <3>2 DEF ToCome, Received
    <3>4. DueTo(s)' = DueTo(s) \ {n}
      <4>1. CASE FeedState(s) = "open"
        <5>1. /\ DueTo(s) = {m \in owed[s] : \E q \in Publisher : payload[q] = m /\ s \notin visited[q]}
              /\ DueTo(s)' = {m \in owed[s] : \E q \in Publisher : payload[q] = m /\ s \notin visited'[q]}
          BY <1>1, <2>2, <4>1 DEF DueTo
        <5>2. QED BY <1>1, <1>5, <5>1 DEF n
      <4>2. CASE FeedState(s) = "failing"
        <5>1. DueTo(s) = {payload[q] : q \in {r \in Publisher : victim[r] = s}}
              /\ DueTo(s)' = {payload[q] : q \in {r \in Publisher : victim'[r] = s}}
          BY <1>1, <2>2, <4>2 DEF DueTo
        <5>2. QED BY <1>11, <2>1, <4>2, <5>1
      <4>3. QED BY <3>1, <4>1, <4>2
    <3>5. Feed!Offer(n, s)
      BY <1>4, <1>5, <1>7, <1>9, <1>11, <1>12, <2>2, <2>3, <3>1, <3>3, <3>4, FeedOffers
    <3>6. QED BY <1>4, <3>5 DEF Feed!Next
  <2>4. CASE socket[s] # "open"
    <3>1. socket[s] = "closed" /\ FeedState(s) = "ended"
      BY <1>0, <2>4, FeedStates DEF TypeOK
    <3>2. Unmoved(s)
      BY <1>1, <2>2, <3>1 DEF Unmoved, TopicFor, DueTo, ToCome, Received
    <3>3. QED BY <1>7, <1>9, <3>2, FeedStutters
  <2>5. QED BY <2>3, <2>4
<1>15. QED BY <1>13, <1>14

\* A failed queue is taken out of its set: the feed does not see it.
LEMMA RemoveFailedStutters ==
  ASSUME NEW p \in Publisher, RemoveFailed(p)
  PROVE  FeedVars' = FeedVars
<1>1. UNCHANGED <<socket, phase, closed, victim, queue, writing, delivered, published, payload,
                  visited, owed>>
  BY DEF RemoveFailed
<1>2. SameAnnouncements /\ \A x \in Session : Unmoved(x)
  BY <1>1 DEF SameAnnouncements, Running, Unmoved, TopicFor, DueTo, ToCome, Received, OnItsWay,
              FeedState, Failing
<1>3. QED BY <1>2, FeedStutters

\* It is closed: the session is cut, if it still lasts and nobody else has closed it.
LEMMA CloseFailedCuts ==
  ASSUME HubInv, NEW p \in Publisher, CloseFailed(p)
  PROVE  Feed!Next \/ FeedVars' = FeedVars
<1>0. TypeOK /\ \A q \in Publisher : BroadcastInOrder(q)
  BY DEF HubInv, BroadcastsInOrder, BroadcastInOrder
<1> PICK s \in Session : s = victim[p]
  BY <1>0, HubAssumption DEF CloseFailed, TypeOK, BroadcastInOrder
<1>1. s \in Session /\ phase[s] # "new" /\ Failing(s) /\ s # None
  BY <1>0, HubAssumption DEF CloseFailed, TypeOK, BroadcastInOrder, Failing
<1>2. /\ UNCHANGED <<socket, phase, queue, writing, delivered, published, payload, visited, owed>>
      /\ closed' = closed \cup {s} /\ victim'[p] = None
      /\ \A q \in Publisher \ {p} : victim'[q] = victim[q]
  BY <1>0 DEF CloseFailed, TypeOK
<1>3. SameAnnouncements
  BY <1>2 DEF SameAnnouncements, Running
<1>4. ASSUME NEW x \in Session \ {s} PROVE Unmoved(x)
  <2>1. \A q \in Publisher : victim'[q] = x <=> victim[q] = x
    BY <1>2, HubAssumption
  <2>2. FeedState(x)' = FeedState(x)
    BY <1>2, <2>1 DEF FeedState, Failing
  <2>3. {payload[q] : q \in {r \in Publisher : victim[r] = x}}'
          = {payload[q] : q \in {r \in Publisher : victim[r] = x}}
    BY <1>2, <2>1
  <2>4. DueTo(x)' = DueTo(x)
    BY <1>2, <2>2, <2>3 DEF DueTo
  <2>5. QED BY <1>2, <2>2, <2>4, Unmoves
<1>5. CASE FeedState(s) = "failing"
  <2>1. FeedState(s)' = "cut"
    BY <1>1, <1>2, <1>5, FeedStates DEF FeedState
  <2>2. DueTo(s)' = {} /\ ToCome(s)' = ToCome(s) /\ Received(s)' = Received(s)
    BY <1>2, <2>1 DEF DueTo, ToCome, Received, OnItsWay
  <2>3. Feed!Cut(s)
    BY <1>1, <1>3, <1>4, <1>5, <2>1, <2>2, FeedCuts
  <2>4. QED BY <1>1, <2>3 DEF Feed!Next
<1>6. CASE FeedState(s) # "failing"
  <2>1. FeedState(s) \in {"ended", "cut"}
    BY <1>0, <1>1, <1>6, FeedStates DEF TypeOK
  <2>2. FeedState(s)' = FeedState(s)
    BY <1>1, <1>2, <2>1, FeedStates DEF FeedState
  <2>3. DueTo(s)' = DueTo(s)
    BY <2>1, <2>2 DEF DueTo
  <2>4. Unmoved(s)
    BY <1>1, <1>2, <2>2, <2>3, Unmoves
  <2>5. QED BY <1>3, <1>4, <2>4, FeedStutters
<1>7. QED BY <1>5, <1>6

\* A broadcast ends: it owes nobody its payload any more.
LEMMA EndBroadcastEnds ==
  ASSUME HubInv, NEW p \in Publisher, EndBroadcast(p)
  PROVE  Feed!Next
<1> DEFINE n == payload[p]
<1>0. /\ TypeOK /\ BroadcastsDiffer /\ NobodyIsMissed /\ NothingComesTwice
      /\ \A q \in Publisher : BroadcastInOrder(q)
  BY DEF HubInv, BroadcastsInOrder, BroadcastInOrder
<1>1. /\ pc[p] = "walking" /\ ahead[p] = None
      /\ UNCHANGED <<socket, phase, closed, victim, queue, writing, delivered, published, owed>>
      /\ payload'[p] = 0
      /\ \A q \in Publisher \ {p} : payload'[q] = payload[q] /\ visited'[q] = visited[q]
  BY <1>0 DEF EndBroadcast, TypeOK
<1>2. n \in 1 .. published /\ victim[p] = None
  BY <1>0, <1>1 DEF BroadcastInOrder
<1>3. n # 0
  BY <1>2
<1>4. n \in Payload
  <2>1. payload[p] \in Payload \cup {0}
    BY <1>0 DEF TypeOK
  <2>2. QED BY <1>3, <2>1
<1>5. \A q \in Publisher : payload[q] = n => q = p
  BY <1>0, <1>3 DEF BroadcastsDiffer
<1>6. n \in Running /\ Running' = Running \ {n}
  <2>1. n \in Running
    BY <1>3 DEF Running
  <2>2. \A q \in Publisher \ {p} : payload'[q] = payload[q] /\ payload[q] # n
    BY <1>1, <1>5
  <2>3. QED BY <1>1, <2>1, <2>2 DEF Running
<1>7. \A x \in Session : FeedState(x)' = FeedState(x)
  BY <1>1 DEF FeedState, Failing
<1>8. ASSUME NEW x \in Session PROVE n \notin DueTo(x) /\ DueTo(x)' = DueTo(x)
  <2>1. CASE FeedState(x) = "open"
    <3>1. /\ DueTo(x) = {m \in owed[x] : \E q \in Publisher : payload[q] = m /\ x \notin visited[q]}
          /\ DueTo(x)' = {m \in owed[x] :
                            \E q \in Publisher : payload'[q] = m /\ x \notin visited'[q]}
      BY <1>1, <1>7, <2>1 DEF DueTo
    <3>2. n \in owed[x] => x \in visited[p]
      BY <1>0, <1>1, <2>1, FeedStates DEF NobodyIsMissed
    <3>3. n \notin DueTo(x)
      BY <1>5, <3>1, <3>2
    <3>4. 0 \notin owed[x]
      <4>1. owed[x] \subseteq 1 .. published
        BY <1>0 DEF NothingComesTwice
      <4>2. QED BY <4>1
    <3>5. QED BY <1>1, <3>1, <3>2, <3>3, <3>4
  <2>2. CASE FeedState(x) = "failing"
    <3>1. /\ DueTo(x) = {payload[q] : q \in {r \in Publisher : victim[r] = x}}
          /\ DueTo(x)' = {payload'[q] : q \in {r \in Publisher : victim[r] = x}}
      BY <1>1, <1>7, <2>2 DEF DueTo
    <3>2. \A q \in Publisher : victim[q] = x => q # p
      BY <1>2, HubAssumption
    <3>3. QED BY <1>1, <1>5, <3>1, <3>2
  <2>3. CASE FeedState(x) \notin {"open", "failing"}
    BY <1>7, <2>3 DEF DueTo
  <2>4. QED BY <2>1, <2>2, <2>3
<1>9. \A x \in Session : Unmoved(x)
  BY <1>1, <1>7, <1>8, Unmoves
<1> HIDE DEF n
<1>10. Feed!EndAnnouncement(n)
  BY <1>1, <1>4, <1>6, <1>8, <1>9, FeedEndsAnnouncement
<1>11. QED BY <1>4, <1>10 DEF Feed!Next

\* The steps of a session: what concerns s does not move another one.
LEMMA OtherSessions ==
  ASSUME TypeOK, NEW s \in Session, NEW x \in Session \ {s},
         Join(s) \/ Writer(s) \/ Disconnect(s) \/ Leave(s) \/ CloseOwn(s)
  PROVE  Unmoved(x) /\ SameAnnouncements
<1>1. /\ UNCHANGED <<victim, published, payload, visited, owed>>
      /\ socket'[x] = socket[x] /\ phase'[x] = phase[x] /\ (x \in closed' <=> x \in closed)
      /\ queue'[x] = queue[x] /\ writing'[x] = writing[x] /\ delivered'[x] = delivered[x]
  BY DEF TypeOK, Writer, publishers, Join, WriterReceives, WriterSends, WriterCloses, Disconnect,
         Leave, CloseOwn
<1>2. FeedState(x)' = FeedState(x)
  BY <1>1 DEF FeedState, Failing
<1>3. DueTo(x)' = DueTo(x)
  BY <1>1, <1>2 DEF DueTo
<1>4. SameAnnouncements
  BY <1>1 DEF SameAnnouncements, Running
<1>5. QED BY <1>1, <1>2, <1>3, <1>4, Unmoves

\* The session of a step of its own either moves, or the feed stutters.
LEMMA SessionStutters ==
  ASSUME TypeOK, NEW s \in Session, Unmoved(s),
         Join(s) \/ Writer(s) \/ Disconnect(s) \/ Leave(s) \/ CloseOwn(s)
  PROVE  FeedVars' = FeedVars
<1>1. \A x \in Session \ {s} : Unmoved(x)
  BY OtherSessions
<1>2. SameAnnouncements
  BY DEF TypeOK, Writer, publishers, Join, WriterReceives, WriterSends, WriterCloses, Disconnect,
         Leave, CloseOwn, SameAnnouncements, Running
<1>3. QED BY <1>1, <1>2, FeedStutters

\* What a session of the feed is owed and sees does not change once its socket is closed.
LEMMA ClosedUnmoved ==
  ASSUME NEW s \in Session, socket[s] = "closed", socket'[s] = "closed"
  PROVE  Unmoved(s)
BY DEF Unmoved, FeedState, TopicFor, DueTo, ToCome, Received

\* A session joins the feed, unless its client has left already.
LEMMA JoinJoins ==
  ASSUME HubInv, NEW s \in Session, Join(s)
  PROVE  Feed!Next \/ FeedVars' = FeedVars
<1>0. TypeOK /\ SessionsInOrder /\ \A q \in Publisher : BroadcastInOrder(q)
  BY DEF HubInv, BroadcastsInOrder, BroadcastInOrder
<1>1. /\ phase[s] = "new" /\ phase'[s] = "joined" /\ s \notin closed /\ owed[s] = {}
      /\ UNCHANGED <<socket, closed, queue, writing, delivered, owed, victim, published, payload>>
  BY <1>0 DEF Join, publishers, TypeOK, SessionsInOrder
<1>2. ~Failing(s)
  BY <1>0, <1>1, HubAssumption DEF Failing, BroadcastInOrder
<1>3. CASE socket[s] = "open"
  <2>1. FeedState(s) = "new" /\ FeedState(s)' = "open"
    <3>1. ~Failing(s)'
      BY <1>1, <1>2 DEF Failing
    <3>2. QED BY <1>1, <1>3, <3>1 DEF FeedState
  <2>2. DueTo(s) = {} /\ DueTo(s)' = {}
    BY <1>1, <2>1 DEF DueTo
  <2>3. ToCome(s)' = ToCome(s) /\ Received(s)' = Received(s)
    BY <1>1 DEF ToCome, Received, OnItsWay
  <2>4. SameAnnouncements
    BY <1>1 DEF SameAnnouncements, Running
  <2>5. \A x \in Session \ {s} : Unmoved(x)
    BY <1>0, OtherSessions
  <2>6. Feed!Join(s, "metrics")
    BY <2>1, <2>2, <2>3, <2>4, <2>5, FeedJoins
  <2>7. QED BY <2>6 DEF Feed!Next
<1>4. CASE socket[s] = "closed"
  <2>1. Unmoved(s)
    BY <1>1, <1>4, ClosedUnmoved
  <2>2. QED BY <1>0, <2>1, SessionStutters
<1>5. QED BY <1>0, <1>3, <1>4 DEF TypeOK

\* The writer takes a payload: it is still on its way.
LEMMA WriterReceivesStutters ==
  ASSUME HubInv, NEW s \in Session, WriterReceives(s)
  PROVE  FeedVars' = FeedVars
<1>0. TypeOK
  BY DEF HubInv
<1>1. /\ socket[s] = "open"
      /\ UNCHANGED <<socket, phase, closed, delivered, owed, victim, visited, payload>>
  BY DEF WriterReceives, publishers
<1>2. OnItsWay(s)' = OnItsWay(s)
  BY <1>0, LeaveQueue
<1>3. Unmoved(s)
  <2>1. FeedState(s)' = FeedState(s)
    BY <1>1 DEF FeedState, Failing
  <2>2. DueTo(s)' = DueTo(s)
    BY <1>1, <2>1 DEF DueTo
  <2>3. QED BY <1>1, <1>2, <2>1, <2>2 DEF Unmoved, TopicFor, ToCome, Received
<1>4. QED BY <1>0, <1>3, SessionStutters DEF Writer

\* The writer sends it: a delivery.
LEMMA WriterSendsDelivers ==
  ASSUME HubInv, NEW s \in Session, WriterSends(s)
  PROVE  Feed!Next
<1>0. TypeOK
  BY DEF HubInv
<1>1. /\ socket[s] = "open" /\ phase[s] = "joined"
      /\ UNCHANGED <<socket, phase, closed, owed, victim, visited, payload, published>>
  BY DEF WriterSends, publishers
<1>2. /\ OnItsWay(s) # <<>> /\ OnItsWay(s)' = Tail(OnItsWay(s))
      /\ delivered'[s] = Append(delivered[s], Head(OnItsWay(s)))
  BY <1>0, LeaveWriter
<1>3. FeedState(s)' = FeedState(s) /\ FeedState(s) \in {"open", "failing", "cut"}
  BY <1>1 DEF FeedState, Failing
<1>4. DueTo(s)' = DueTo(s)
  BY <1>1, <1>3 DEF DueTo
<1>5. /\ ToCome(s) # <<>> /\ ToCome(s)' = Tail(ToCome(s))
      /\ Received(s)' = Append(Received(s), Head(ToCome(s)))
  BY <1>1, <1>2 DEF ToCome, Received
<1>6. SameAnnouncements
  BY <1>1 DEF SameAnnouncements, Running
<1>7. \A x \in Session \ {s} : Unmoved(x)
  BY <1>0, OtherSessions DEF Writer
<1>8. Feed!Deliver(s)
  BY <1>3, <1>4, <1>5, <1>6, <1>7, FeedDelivers
<1>9. QED BY <1>8 DEF Feed!Next

\* The socket is closed, by either side: the session of the feed ends.
LEMMA CloseEnds ==
  ASSUME HubInv, NEW s \in Session, WriterCloses(s) \/ Disconnect(s)
  PROVE  Feed!Next
<1>0. TypeOK
  BY DEF HubInv
<1>1. /\ socket[s] = "open" /\ socket'[s] = "closed"
      /\ UNCHANGED <<published, payload>>
  BY <1>0 DEF WriterCloses, Disconnect, publishers, TypeOK
<1>2. FeedState(s) # "ended" /\ FeedState(s)' = "ended"
  BY <1>1 DEF FeedState
<1>3. DueTo(s)' = {} /\ ToCome(s)' = <<>> /\ Received(s)' = <<>>
  BY <1>1, <1>2 DEF DueTo, ToCome, Received
<1>4. SameAnnouncements
  BY <1>1 DEF SameAnnouncements, Running
<1>5. \A x \in Session \ {s} : Unmoved(x)
  BY <1>0, OtherSessions DEF Writer
<1>6. Feed!End(s)
  BY <1>2, <1>3, <1>4, <1>5, FeedEnds
<1>7. QED BY <1>6 DEF Feed!Next

\* The finally block runs when the socket is closed: the feed has ended for the session.
LEMMA FinallyStutters ==
  ASSUME HubInv, NEW s \in Session, Leave(s) \/ CloseOwn(s)
  PROVE  FeedVars' = FeedVars
<1>0. TypeOK /\ SessionsInOrder
  BY DEF HubInv
<1>1. socket[s] = "closed" /\ socket' = socket
  BY <1>0 DEF Leave, CloseOwn, SessionsInOrder
<1>2. Unmoved(s)
  BY <1>1, ClosedUnmoved
<1>3. QED BY <1>0, <1>2, SessionStutters

\* A step that changes nothing.
LEMMA NothingMoves ==
  ASSUME UNCHANGED vars
  PROVE  FeedVars' = FeedVars
<1>1. SameAnnouncements /\ \A x \in Session : Unmoved(x)
  BY DEF vars, sets, publishers, SameAnnouncements, Running, Unmoved, TopicFor, DueTo, ToCome,
         Received, OnItsWay, FeedState, Failing
<1>2. QED BY <1>1, FeedStutters

\* The hub starts as the feed does.
LEMMA FeedInit == Init => Feed!Init
<1> SUFFICES ASSUME Init PROVE Feed!Init
  OBVIOUS
<1>1. \A s \in Session : /\ FeedState(s) = "new" /\ TopicFor(s) = None /\ DueTo(s) = {}
                         /\ ToCome(s) = <<>> /\ Received(s) = <<>>
  <2>1. <<>> \o <<>> = <<>>
    OBVIOUS
  <2>2. QED BY <2>1 DEF Init, FeedState, TopicFor, DueTo, ToCome, Received, OnItsWay
<1>2. 1 .. published = {}
  BY DEF Init
<1>3. Running = {}
  BY DEF Init, Running
<1>4. QED BY <1>1, <1>2, <1>3 DEF Feed!Init

\* Every step of the hub is a step of the feed, or the feed does not see it.
LEMMA FeedStep == HubInv /\ [Next]_vars => Feed!Next \/ FeedVars' = FeedVars
<1> SUFFICES ASSUME HubInv, [Next]_vars PROVE Feed!Next \/ FeedVars' = FeedVars
  OBVIOUS
<1>1. ASSUME NEW p \in Publisher, StartBroadcast(p) \/ Walk(p)
      PROVE  Feed!Next \/ FeedVars' = FeedVars
  BY <1>1, StartBroadcastAnnounces, TrySendOffers, RemoveFailedStutters, CloseFailedCuts,
     EndBroadcastEnds DEF Walk
<1>2. ASSUME NEW s \in Session, Join(s) \/ Writer(s) \/ Disconnect(s) \/ Leave(s) \/ CloseOwn(s)
      PROVE  Feed!Next \/ FeedVars' = FeedVars
  BY <1>2, JoinJoins, WriterReceivesStutters, WriterSendsDelivers, CloseEnds, FinallyStutters
  DEF Writer
<1>3. QED BY <1>1, <1>2, NothingMoves DEF Next

\* A session that has joined gets every payload whose broadcast begins after that, and none
\* twice, or it is cut off before the broadcast it has missed is over: the hub implements the
\* feed.
THEOREM HubRefinesFeed == Spec => HubIsAFeed
<1>1. Init /\ HubInv => Feed!Init
  BY FeedInit
<1>2. HubInv /\ [Next]_vars => [Feed!Next]_FeedVars
  BY FeedStep
<1>3. Feed!Init /\ [][Feed!Next]_FeedVars => Feed!Spec
  BY DEF Feed!Spec, FeedVars, Feed!feed
<1>4. QED BY <1>1, <1>2, <1>3, HubInvariant, PTL DEF Spec, HubIsAFeed
=============================================================================
