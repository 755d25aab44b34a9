----------------------------- MODULE MetricsHub -----------------------------
(***************************************************************************)
(* MetricsWsHub and the coroutines of a metrics WebSocket around it.       *)
(*                                                                         *)
(* The hub maps a transformer to the set of its subscribers' queues; other *)
(* transformers do not interfere, so one entry of the map is modelled.     *)
(* add and remove run inside the map's compute, so they are atomic with    *)
(* respect to each other; the queue is closed after remove's compute.      *)
(* broadcast takes the set out of the map once and walks it while others   *)
(* change it, one trySend per queue.  Its iterator is weakly consistent:   *)
(* it has chosen the next queue when it returns one, and returns it even   *)
(* if it is removed meanwhile.  A set that has become empty leaves the     *)
(* map; who still walks it walks a detached set.  Sets are named by the    *)
(* session whose add created them.                                         *)
(*                                                                         *)
(* A session has a writer coroutine that moves payloads from the queue to  *)
(* the socket, and a frame loop whose end (client gone, socket closed,     *)
(* failure) runs the finally block.                                        *)
(***************************************************************************)
EXTENDS Naturals, Sequences, FiniteSets, SequencesExt

CONSTANTS
  Session,      \* WebSocket connections, one after another or at once
  Publisher,    \* handlers that broadcast a stored reading
  MaxPayloads,  \* bound of the model: payloads ever broadcast
  Capacity,     \* of a queue, 64 in the program
  None          \* no set, no session

ASSUME HubAssumption ==
  /\ None \notin Session
  /\ MaxPayloads \in Nat /\ Capacity \in Nat \ {0}

VARIABLES
  entry,      \* the set in the map, None when the transformer has no entry
  members,    \* the queues in each set, named by their session
  queue,      \* payloads waiting for the writer
  closed,     \* queues that were closed
  phase,      \* of the session: new, joined (add has returned), leaving, done (finally has run)
  socket,     \* open, or closed by either side
  writing,    \* the payload the writer is sending
  delivered,  \* payloads the client has got
  published,  \* number of payloads; a payload is its number
  pc, payload, walking, visited,  \* of a running broadcast
  ahead,      \* the queue its iterator returns next, None at the end
  victim,     \* the queue that has failed
  owed        \* auxiliary: payloads whose broadcast began after the session had joined

sets == <<entry, members>>
publishers == <<published, pc, payload, walking, visited, ahead, victim>>
vars == <<sets, queue, closed, phase, socket, writing, delivered, publishers, owed>>

Payload == 1 .. MaxPayloads

TypeOK ==
  /\ entry \in Session \cup {None}
  /\ members \in [Session -> SUBSET Session]
  /\ queue \in [Session -> Seq(Payload)]
  /\ closed \subseteq Session
  /\ phase \in [Session -> {"new", "joined", "leaving", "done"}]
  /\ socket \in [Session -> {"open", "closed"}]
  /\ writing \in [Session -> Payload \cup {0}]
  /\ delivered \in [Session -> Seq(Payload)]
  /\ published \in 0 .. MaxPayloads
  /\ pc \in [Publisher -> {"idle", "walking", "removing", "closing"}]
  /\ payload \in [Publisher -> Payload \cup {0}]
  /\ walking \in [Publisher -> Session \cup {None}]
  /\ visited \in [Publisher -> SUBSET Session]
  /\ ahead \in [Publisher -> Session \cup {None}]
  /\ victim \in [Publisher -> Session \cup {None}]
  /\ owed \in [Session -> SUBSET Payload]

(***************************************************************************)
(* The hub.                                                                *)
(***************************************************************************)

\* Mutant: the set is looked up first and added to later, when it may be detached.
AddToStaleSet(s) ==
  \E set \in {x \in Session : x = s \/ phase[x] # "new"} :
    /\ entry' = IF entry = None /\ set = s THEN s ELSE entry
    /\ members' = [members EXCEPT ![set] = @ \cup {s}]

\* add: into the set of the map, or into a new one.
AddQueue(s) ==
  LET set == IF entry = None THEN s ELSE entry IN
  /\ entry' = set
  /\ members' = [members EXCEPT ![set] = @ \cup {s}]

\* Mutant: an empty set stays in the map.
RemoveQueueKeepSet(s) ==
  /\ members' = [x \in Session |-> IF x = entry THEN members[x] \ {s} ELSE members[x]]
  /\ UNCHANGED entry

\* remove inside compute: out of the set in the map, an empty set out of the map.
RemoveQueue(s) ==
  /\ members' = [x \in Session |-> IF x = entry THEN members[x] \ {s} ELSE members[x]]
  /\ entry' = IF entry # None /\ members'[entry] = {} THEN None ELSE entry

StartBroadcast(p) ==
  /\ pc[p] = "idle" /\ published < MaxPayloads
  /\ published' = published + 1
  /\ owed' = [s \in Session |->
                IF phase[s] = "joined" THEN owed[s] \cup {published'} ELSE owed[s]]
  /\ IF entry = None
     THEN UNCHANGED <<pc, payload, walking, ahead>>
     ELSE /\ pc' = [pc EXCEPT ![p] = "walking"]
          /\ payload' = [payload EXCEPT ![p] = published']
          /\ walking' = [walking EXCEPT ![p] = entry]
          /\ \E s \in members[entry] : ahead' = [ahead EXCEPT ![p] = s]
  /\ UNCHANGED <<sets, queue, closed, phase, socket, writing, delivered, visited, victim>>

Unvisited(p) == members[walking[p]] \ visited[p]

\* The iterator returns s and chooses the next queue.  It comes to its end only when it has
\* passed every queue that has been there all the time; one added while it walked may come
\* or not.
NextQueue(p, s) ==
  LET left == Unvisited(p) \ {s} IN
  /\ pc[p] = "walking" /\ ahead[p] = s
  /\ visited' = [visited EXCEPT ![p] = @ \cup {s}]
  /\ \E next \in left \cup {None} :
       /\ next = None => \A x \in left : payload[p] \notin owed[x]
       /\ ahead' = [ahead EXCEPT ![p] = next]

Fails(s) == s \in closed \/ Len(queue[s]) = Capacity

\* Mutant: a full queue loses the payload and nobody notices.
TrySendOrDrop(p, s) ==
  /\ NextQueue(p, s)
  /\ queue' = IF Fails(s) THEN queue ELSE [queue EXCEPT ![s] = Append(@, payload[p])]
  /\ UNCHANGED <<sets, closed, phase, socket, writing, delivered, published, pc, payload,
                 walking, victim, owed>>

TrySend(p, s) ==
  /\ NextQueue(p, s)
  /\ IF Fails(s)
     THEN /\ pc' = [pc EXCEPT ![p] = "removing"]
          /\ victim' = [victim EXCEPT ![p] = s]
          /\ UNCHANGED queue
     ELSE /\ queue' = [queue EXCEPT ![s] = Append(@, payload[p])]
          /\ UNCHANGED <<pc, victim>>
  /\ UNCHANGED <<sets, closed, phase, socket, writing, delivered, published, payload,
                 walking, owed>>

\* remove, for a queue that has failed: its set, then the queue itself.
RemoveFailed(p) ==
  /\ pc[p] = "removing"
  /\ RemoveQueue(victim[p])
  /\ pc' = [pc EXCEPT ![p] = "closing"]
  /\ UNCHANGED <<queue, closed, phase, socket, writing, delivered, published, payload,
                 walking, visited, ahead, victim, owed>>

CloseFailed(p) ==
  /\ pc[p] = "closing"
  /\ closed' = closed \cup {victim[p]}
  /\ pc' = [pc EXCEPT ![p] = "walking"]
  /\ victim' = [victim EXCEPT ![p] = None]
  /\ UNCHANGED <<sets, queue, phase, socket, writing, delivered, published, payload, walking,
                 visited, ahead, owed>>

EndBroadcast(p) ==
  /\ pc[p] = "walking" /\ ahead[p] = None
  /\ pc' = [pc EXCEPT ![p] = "idle"]
  /\ payload' = [payload EXCEPT ![p] = 0]
  /\ walking' = [walking EXCEPT ![p] = None]
  /\ visited' = [visited EXCEPT ![p] = {}]
  /\ UNCHANGED <<sets, queue, closed, phase, socket, writing, delivered, published, ahead,
                 victim, owed>>

(***************************************************************************)
(* A session.                                                              *)
(***************************************************************************)

\* The client is authenticated and allowed: subscribe, start the writer.  It may have
\* left meanwhile.
Join(s) ==
  /\ phase[s] = "new"
  /\ AddQueue(s)
  /\ phase' = [phase EXCEPT ![s] = "joined"]
  /\ UNCHANGED <<queue, closed, socket, writing, delivered, publishers, owed>>

WriterReceives(s) ==
  /\ phase[s] = "joined" /\ socket[s] = "open"
  /\ writing[s] = 0 /\ queue[s] # <<>>
  /\ writing' = [writing EXCEPT ![s] = Head(queue[s])]
  /\ queue' = [queue EXCEPT ![s] = Tail(@)]
  /\ UNCHANGED <<sets, closed, phase, socket, delivered, publishers, owed>>

WriterSends(s) ==
  /\ phase[s] = "joined" /\ socket[s] = "open" /\ writing[s] # 0
  /\ delivered' = [delivered EXCEPT ![s] = Append(@, writing[s])]
  /\ writing' = [writing EXCEPT ![s] = 0]
  /\ UNCHANGED <<sets, queue, closed, phase, socket, publishers, owed>>

\* Mutant: only a send that times out closes the socket.
WriterClosesOnTimeout(s) ==
  /\ phase[s] = "joined" /\ socket[s] = "open"
  /\ writing[s] # 0
  /\ socket' = [socket EXCEPT ![s] = "closed"]
  /\ UNCHANGED <<sets, queue, closed, phase, writing, delivered, publishers, owed>>

\* The client does not read for 5 seconds, or the queue is closed and drained: the
\* writer closes the socket.
WriterCloses(s) ==
  /\ phase[s] = "joined" /\ socket[s] = "open"
  /\ writing[s] # 0 \/ (s \in closed /\ queue[s] = <<>>)
  /\ socket' = [socket EXCEPT ![s] = "closed"]
  /\ UNCHANGED <<sets, queue, closed, phase, writing, delivered, publishers, owed>>

\* The client leaves, access ends, or the connection fails.
Disconnect(s) ==
  /\ socket[s] = "open"
  /\ socket' = [socket EXCEPT ![s] = "closed"]
  /\ UNCHANGED <<sets, queue, closed, phase, writing, delivered, publishers, owed>>

\* The frame loop has ended: the finally block removes the queue, closes it, cancels the
\* writer.
Leave(s) ==
  /\ phase[s] = "joined" /\ socket[s] = "closed"
  /\ RemoveQueue(s)
  /\ phase' = [phase EXCEPT ![s] = "leaving"]
  /\ UNCHANGED <<queue, closed, socket, writing, delivered, publishers, owed>>

CloseOwn(s) ==
  /\ phase[s] = "leaving"
  /\ closed' = closed \cup {s}
  /\ phase' = [phase EXCEPT ![s] = "done"]
  /\ UNCHANGED <<sets, queue, socket, writing, delivered, publishers, owed>>

Init ==
  /\ entry = None
  /\ members = [s \in Session |-> {}]
  /\ queue = [s \in Session |-> <<>>]
  /\ closed = {}
  /\ phase = [s \in Session |-> "new"]
  /\ socket = [s \in Session |-> "open"]
  /\ writing = [s \in Session |-> 0]
  /\ delivered = [s \in Session |-> <<>>]
  /\ published = 0
  /\ pc = [p \in Publisher |-> "idle"]
  /\ payload = [p \in Publisher |-> 0]
  /\ walking = [p \in Publisher |-> None]
  /\ visited = [p \in Publisher |-> {}]
  /\ ahead = [p \in Publisher |-> None]
  /\ victim = [p \in Publisher |-> None]
  /\ owed = [s \in Session |-> {}]

Walk(p) ==
  (\E s \in Session : TrySend(p, s)) \/ RemoveFailed(p) \/ CloseFailed(p) \/ EndBroadcast(p)
Writer(s) == WriterReceives(s) \/ WriterSends(s) \/ WriterCloses(s)

Next ==
  \/ \E p \in Publisher : StartBroadcast(p) \/ Walk(p)
  \/ \E s \in Session : Join(s) \/ Writer(s) \/ Disconnect(s) \/ Leave(s) \/ CloseOwn(s)

Spec == Init /\ [][Next]_vars

\* The coroutine dispatcher runs what is ready, and a send ends within its timeout.
Fairness ==
  /\ \A p \in Publisher : WF_vars(Walk(p))
  /\ \A s \in Session : WF_vars(Writer(s)) /\ WF_vars(Leave(s) \/ CloseOwn(s))

FairSpec == Spec /\ Fairness

(***************************************************************************)
(* Properties.                                                             *)
(***************************************************************************)

Failing(s) == \E p \in Publisher : victim[p] = s

\* A subscription is not lost: the queue of a joined session is in the set a broadcast
\* will walk, until somebody has closed it or is about to.
JoinedIsSubscribed ==
  \A s \in Session : phase[s] = "joined" /\ s \notin closed =>
    Failing(s) \/ (entry # None /\ s \in members[entry])

\* Only the set in the map has members, which have joined; it is not empty.
SetsAreOfTheMap ==
  /\ \A x \in Session : x # entry => members[x] = {}
  /\ entry # None => members[entry] # {}
  /\ \A s, x \in Session : s \in members[x] => phase[s] = "joined"

\* A session that is new has no queue yet, one that leaves has no socket any more.
SessionsInOrder ==
  \A s \in Session :
    /\ phase[s] = "new" => s \notin closed /\ owed[s] = {}
    /\ phase[s] \in {"leaving", "done"} => socket[s] = "closed"

\* What a broadcast has passed and what comes next, and the one that has failed.
BroadcastsInOrder ==
  \A p \in Publisher :
    /\ IF pc[p] = "idle" THEN payload[p] = 0 /\ ahead[p] = None
                         ELSE payload[p] \in 1 .. published /\ walking[p] \in Session
    /\ pc[p] = "idle" => visited[p] = {}
    /\ IF pc[p] \in {"removing", "closing"} THEN victim[p] \in visited[p] ELSE victim[p] = None
    /\ ahead[p] # None => ahead[p] \notin visited[p] /\ phase[ahead[p]] # "new"
    /\ \A s \in visited[p] : phase[s] # "new"

\* Two broadcasts are of two payloads.
BroadcastsDiffer ==
  \A p, q \in Publisher : payload[p] = payload[q] /\ payload[p] # 0 => p = q

\* A broadcast walks the set of the sessions it owes its payload to, and its iterator is at
\* the end only when it has passed them all.
NobodyIsMissed ==
  \A p \in Publisher, s \in Session :
    payload[p] \in owed[s] /\ entry # None /\ s \in members[entry] =>
      walking[p] = entry /\ (ahead[p] # None \/ s \in visited[p])

OnItsWay(s) == (IF writing[s] = 0 THEN <<>> ELSE <<writing[s]>>) \o queue[s]
Given(s) == ToSet(delivered[s]) \cup ToSet(OnItsWay(s))

\* What a session is owed or has been given was published, and a broadcast whose payload
\* it has been given has passed it.
NothingComesTwice ==
  /\ \A s \in Session : Given(s) \cup owed[s] \subseteq 1 .. published
  /\ \A p \in Publisher, s \in Session :
       payload[p] \in Given(s) => s \in visited[p] /\ victim[p] # s

\* The inductive invariant: JoinedIsSubscribed and why it stays true (SetsAreOfTheMap), and
\* what the feed relies on: that a broadcast neither misses a session nor comes twice.
HubInv ==
  /\ TypeOK /\ JoinedIsSubscribed
  /\ SetsAreOfTheMap /\ SessionsInOrder
  /\ BroadcastsInOrder /\ BroadcastsDiffer
  /\ NobodyIsMissed /\ NothingComesTwice

\* Nothing is left behind: a queue of an ended session is in no set, and the map holds
\* no empty set.
NothingLeaks ==
  /\ \A s, x \in Session : phase[s] \in {"leaving", "done"} => s \notin members[x]
  /\ entry # None => members[entry] # {}

\* A client that was cut off because it was too slow is told: its socket gets closed
\* (so that it reconnects and reloads the history), and the session ends.
CutOffIsDisconnected == \A s \in Session : s \in closed ~> phase[s] = "done"

(***************************************************************************)
(* The hub and its sessions implement the feed of LiveFeed.  A session has *)
(* ended when its socket is closed, is failing when a trySend to its queue *)
(* has failed, and is cut when its queue is closed; on its way is what the *)
(* writer holds and what is in the queue.                                  *)
(***************************************************************************)

FeedState(s) ==
  CASE socket[s] = "closed" -> "ended"
    [] socket[s] = "open" /\ phase[s] = "new" -> "new"
    [] socket[s] = "open" /\ phase[s] # "new" /\ s \in closed -> "cut"
    [] socket[s] = "open" /\ phase[s] # "new" /\ s \notin closed /\ Failing(s) -> "failing"
    [] OTHER -> "open"

\* Payloads whose broadcast has not come to the queue of s, and those that have failed.
DueTo(s) ==
  CASE FeedState(s) = "open" ->
         {n \in owed[s] : \E p \in Publisher : payload[p] = n /\ s \notin visited[p]}
    [] FeedState(s) = "failing" -> {payload[p] : p \in {q \in Publisher : victim[q] = s}}
    [] OTHER -> {}

TopicFor(s) == IF FeedState(s) \in {"open", "failing", "cut"} THEN "metrics" ELSE None
ToCome(s) == IF socket[s] = "closed" THEN <<>> ELSE OnItsWay(s)
Received(s) == IF socket[s] = "closed" THEN <<>> ELSE delivered[s]
Running == {payload[p] : p \in Publisher} \ {0}

Feed == INSTANCE LiveFeed WITH
  Topic <- {"metrics"}, NoTopic <- None,
  TopicOf <- [n \in Payload |-> "metrics"],
  state <- [s \in Session |-> FeedState(s)],
  topic <- [s \in Session |-> TopicFor(s)],
  started <- 1 .. published,
  running <- Running,
  due <- [s \in Session |-> DueTo(s)],
  channel <- [s \in Session |-> ToCome(s)],
  delivered <- [s \in Session |-> Received(s)]

\* What subscribers may rely on, whatever the interleaving of adds, removes and walks:
\* a session that has joined gets every payload whose broadcast begins after that, and no
\* payload twice, or it is cut off before the broadcast it has missed is over; there is no
\* silent gap.
HubIsAFeed == Feed!Spec
=============================================================================
