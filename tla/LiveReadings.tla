---------------------------- MODULE LiveReadings ----------------------------
(***************************************************************************)
(* readings.js: a page that shows the readings of one register of the      *)
(* selected transformer, from the history (HTTP) and live (WebSocket).     *)
(* The server is MetricLog, the log of stored readings, and LiveFeed, the  *)
(* announcements of the hub; MetricsIngest and MetricsHub implement them.  *)
(*                                                                         *)
(* The page awaits answers in any order.  A chain is one run of the code   *)
(* that loads the lists after a selection, then the history, and ends in   *)
(* connectWs.  It awaits the transformers and the errors (its stage        *)
(* "errors"), the meters and their registers ("registers"), and a load     *)
(* ("metrics").  A load is one run of loadMetricsForSelected, named by its *)
(* generation.  What the page keeps is one bucket per transformer: on the  *)
(* charts page every sample, elsewhere the aggregate, named by its count.  *)
(* The transformers and their meters stay.                                 *)
(***************************************************************************)
EXTENDS Naturals, SequencesExt, FiniteSets

CONSTANTS
  Transformer,
  Chain,
  MaxReadings, MaxLoads, MaxConnects,  \* bounds of the model: readings of all transformers, ...
  None

ASSUME PageAssumption ==
  /\ None \notin Transformer
  /\ MaxReadings \in Nat /\ MaxLoads \in Nat /\ MaxConnects \in Nat

VARIABLES
  charts,    \* the page is readings-charts.html: samples rather than aggregates
  log,       \* of MetricLog: the stored readings
  lost,      \* stored readings whose handler was cancelled before its broadcast
  state, topic, started, running, due, channel, delivered,  \* of LiveFeed
  selected,  \* transformer
  listed,    \* its registers have been loaded
  chosen,    \* the register is ticked
  view,      \* metricsByKey: the points shown
  live,      \* those of them that came by WebSocket
  reload,    \* autoLoadTimer is set
  loadGeneration, load, answer, loaded,  \* loads: latest, transformer, points; the latest succeeded
  chain, chainOf,  \* chains: what they await, for which transformer or load
  wsGeneration, attempts, socket, ready   \* the connection

logs == <<charts, log, lost>>
feed == <<state, topic, started, running, due, channel, delivered>>
page == <<selected, listed, chosen, view, live, reload>>
loads == <<loadGeneration, load, answer, loaded>>
chains == <<chain, chainOf>>
connection == <<wsGeneration, attempts, socket, ready>>
vars == <<logs, feed, page, loads, chains, connection>>

Reading == Transformer \X (1 .. MaxReadings)
Generation == 1 .. MaxLoads

\* A connection is the generation it was asked for in.
Session == 1 .. MaxConnects

Log == INSTANCE MetricLog WITH Bucket <- Transformer, Value <- {"reading"}, MaxCount <- MaxReadings
Feed == INSTANCE LiveFeed WITH
          Topic <- Transformer, NoTopic <- None, Payload <- Reading, TopicOf <- [n \in Reading |-> n[1]]

Stored(t) == {n \in Reading : n[1] = t /\ n[2] <= Len(log[t])}

TypeOK ==
  /\ charts \in BOOLEAN
  /\ Log!TypeOK /\ Feed!TypeOK
  /\ lost \subseteq Reading
  /\ selected \in Transformer
  /\ listed \in BOOLEAN /\ chosen \in BOOLEAN /\ reload \in BOOLEAN
  /\ live \subseteq view /\ view \subseteq Reading
  /\ loadGeneration \in 0 .. MaxLoads
  /\ load \in [Generation -> Transformer \cup {None}]
  /\ answer \in [Generation -> (SUBSET Reading) \cup {None}]
  /\ loaded \in BOOLEAN
  /\ chain \in [Chain -> {"none", "errors", "registers", "metrics"}]
  /\ chainOf \in [Chain -> Transformer \cup Generation \cup {None}]
  /\ wsGeneration \in 0 .. MaxConnects
  /\ attempts \subseteq [session : Session, target : Transformer]
  /\ socket \in [session : Session, target : Transformer] \cup {None}
  /\ ready \in BOOLEAN
  /\ socket # None => state[socket.session] # "ended"

\* mergeMetricPoints: a sample is a point of its own; of an aggregate the higher count stays.
Merge(history, incoming) ==
  LET points == history \cup incoming IN
  IF charts THEN points ELSE {n \in points : \A m \in points : m[1] = n[1] => m[2] <= n[2]}

(***************************************************************************)
(* The server.                                                             *)
(***************************************************************************)

StoreReading(t) ==
  /\ Cardinality(UNION {Stored(x) : x \in Transformer}) < MaxReadings
  /\ Log!Record(t, "reading")
  /\ UNCHANGED <<charts, lost, feed, page, loads, chains, connection>>

Unannounced == (UNION {Stored(t) : t \in Transformer}) \ (started \cup lost)

\* The handler's broadcast, after its commit and in no order with that of another one.
Announce(n) ==
  /\ n \in Unannounced
  /\ Feed!Announce(n)
  /\ UNCHANGED <<logs, page, loads, chains, connection>>

\* A device disconnects, its handler is cancelled: the reading is stored, not announced.
LoseAnnouncement(n) ==
  /\ n \in Unannounced
  /\ lost' = lost \cup {n}
  /\ UNCHANGED <<charts, log, feed, page, loads, chains, connection>>

HubStep ==
  /\ \/ \E n \in Reading, s \in Session : Feed!Offer(n, s) \/ Feed!FallBehind(n, s)
     \/ \E n \in Reading : Feed!EndAnnouncement(n)
     \/ \E s \in Session : Feed!Cut(s)
  /\ UNCHANGED <<logs, page, loads, chains, connection>>

(***************************************************************************)
(* Loads.                                                                  *)
(***************************************************************************)

\* loadMetricsForSelected up to its await; without a ticked register it only complains.
StartLoad ==
  IF chosen'
  THEN /\ loadGeneration < MaxLoads
       /\ loadGeneration' = loadGeneration + 1
       /\ load' = [load EXCEPT ![loadGeneration'] = selected]
       /\ loaded' = FALSE
       /\ UNCHANGED answer
  ELSE UNCHANGED loads

\* Mutant: any load of the selected transformer counts.
IsOfSelection(g) == load[g] = selected

IsCurrent(g) == g = loadGeneration /\ load[g] = selected

\* The server answers with what is stored now.
QueryHistory(g) ==
  /\ load[g] # None /\ answer[g] = None
  /\ answer' = [answer EXCEPT ![g] = Merge(Stored(load[g]), {})]
  /\ UNCHANGED <<logs, feed, page, loadGeneration, load, loaded, chains, connection>>

(***************************************************************************)
(* The connection.                                                         *)
(***************************************************************************)

Disconnect ==
  /\ wsGeneration < MaxConnects
  /\ wsGeneration' = wsGeneration + 1
  /\ socket' = None /\ ready' = FALSE
  /\ IF socket = None THEN UNCHANGED feed ELSE Feed!End(socket.session)

ClearWs == Disconnect /\ UNCHANGED attempts

\* connectWs up to its await of the token.
ConnectWs ==
  /\ Disconnect
  /\ attempts' = attempts \cup {[session |-> wsGeneration', target |-> selected]}

\* Mutant: the generation is not compared after the await.
IsLatestAlways(a) == TRUE

IsLatest(a) == a.session = wsGeneration

TokenArrives(a) ==
  /\ a \in attempts
  /\ attempts' = attempts \ {a}
  /\ socket' = IF IsLatest(a) THEN a ELSE socket
  /\ UNCHANGED <<logs, feed, page, loads, chains, wsGeneration, ready>>

\* The refresh fails, or the session has expired.
TokenMissing(a) ==
  /\ a \in attempts /\ IsLatest(a)
  /\ attempts' = attempts \ {a}
  /\ UNCHANGED <<logs, feed, page, loads, chains, wsGeneration, socket, ready>>

\* The server gets the first frame and subscribes the socket.
Subscribe ==
  /\ socket # None
  /\ Feed!Join(socket.session, socket.target)
  /\ UNCHANGED <<logs, page, loads, chains, connection>>

\* Mutant: the history is not loaded again.
ReadyWithoutLoad ==
  /\ socket # None /\ ~ready
  /\ state[socket.session] \in {"open", "failing", "cut"}
  /\ ready' = TRUE
  /\ UNCHANGED <<logs, feed, page, chains, wsGeneration, attempts, socket, loads>>

\* The message "ready", sent after the subscription, amid the points.
ReadyArrives ==
  /\ socket # None /\ ~ready
  /\ state[socket.session] \in {"open", "failing", "cut"}
  /\ ready' = TRUE
  /\ UNCHANGED <<logs, feed, page, chains, wsGeneration, attempts, socket>>
  /\ StartLoad

PointArrives ==
  /\ socket # None
  /\ Feed!Deliver(socket.session)
  /\ LET n == Head(channel[socket.session]) IN
       IF n[1] = selected /\ chosen
       THEN /\ view' = Merge(view, {n})
            /\ live' = (live \cup {n}) \cap view'
       ELSE UNCHANGED <<view, live>>
  /\ UNCHANGED <<logs, selected, listed, chosen, reload, loads, chains, connection>>

\* The network, a full queue, a refusal, the end of access.
SocketCloses ==
  /\ socket # None
  /\ Feed!End(socket.session)
  /\ socket' = None /\ ready' = FALSE
  /\ UNCHANGED <<logs, page, loads, chains, wsGeneration, attempts>>

\* The timer that retry has set, or the event "online".
Reconnect ==
  /\ socket = None
  /\ ConnectWs
  /\ UNCHANGED <<logs, page, loads, chains>>

(***************************************************************************)
(* The page.                                                               *)
(***************************************************************************)

NewChain(c) ==
  /\ chain[c] = "none"
  /\ chain' = [chain EXCEPT ![c] = "errors"]
  /\ UNCHANGED chainOf

\* Mutant: the points of the transformer before stay.
SelectKeepView(t, c) ==
  /\ t # selected
  /\ selected' = t
  /\ listed' = FALSE /\ chosen' = FALSE
  /\ ClearWs
  /\ NewChain(c)
  /\ UNCHANGED <<logs, view, live, reload, loads>>

Select(t, c) ==
  /\ t # selected
  /\ selected' = t
  /\ listed' = FALSE /\ chosen' = FALSE
  /\ view' = {} /\ live' = {}
  /\ ClearWs
  /\ NewChain(c)
  /\ UNCHANGED <<logs, reload, loads>>

\* The button for refreshing.
Refresh(c) ==
  /\ ClearWs
  /\ NewChain(c)
  /\ UNCHANGED <<logs, page, loads>>

\* The list of transformers is there and the errors are, or have failed; loadMeters
\* looks at the selection of now.
ErrorsArrive(c) ==
  /\ chain[c] = "errors"
  /\ chain' = [chain EXCEPT ![c] = "registers"]
  /\ chainOf' = [chainOf EXCEPT ![c] = selected]
  /\ UNCHANGED <<logs, feed, page, loads, connection>>

EndChain(c) ==
  /\ chain' = [chain EXCEPT ![c] = "none"]
  /\ chainOf' = [chainOf EXCEPT ![c] = None]
  /\ ConnectWs

\* The request for a list has failed, or its answer is of an earlier selection.
ListDropped(c) ==
  /\ chain[c] \in {"errors", "registers"}
  /\ EndChain(c)
  /\ UNCHANGED <<logs, page, loads>>

\* The first register is ticked, and the history is loaded.
RegistersArrive(c) ==
  /\ chain[c] = "registers" /\ chainOf[c] = selected
  /\ listed' = TRUE /\ chosen' = TRUE
  /\ view' = {} /\ live' = {}
  /\ chain' = [chain EXCEPT ![c] = "metrics"]
  /\ chainOf' = [chainOf EXCEPT ![c] = loadGeneration + 1]
  /\ UNCHANGED <<logs, feed, selected, reload, connection>>
  /\ StartLoad

\* There are no registers, or no meters.
NoRegisters(c) ==
  /\ chain[c] = "registers" /\ chainOf[c] = selected
  /\ listed' = FALSE /\ chosen' = FALSE
  /\ view' = {} /\ live' = {}
  /\ EndChain(c)
  /\ UNCHANGED <<logs, selected, reload, loads>>

\* The chain that awaits load g goes on to connectWs.
LoadEnds(g) ==
  /\ load' = [load EXCEPT ![g] = None]
  /\ answer' = [answer EXCEPT ![g] = None]
  /\ IF \E c \in Chain : chain[c] = "metrics" /\ chainOf[c] = g
     THEN \E c \in Chain : chain[c] = "metrics" /\ chainOf[c] = g /\ EndChain(c)
     ELSE UNCHANGED <<feed, chains, connection>>

\* The points that came live meanwhile are merged into the history.
HistoryArrives(g) ==
  /\ answer[g] # None
  /\ IF IsCurrent(g) /\ chosen
     THEN view' = Merge(answer[g], live) /\ live' = live \cap view'
     ELSE UNCHANGED <<view, live>>
  /\ loaded' = (loaded \/ IsCurrent(g))
  /\ LoadEnds(g)
  /\ UNCHANGED <<logs, selected, listed, chosen, reload, loadGeneration>>

HistoryFails(g) ==
  /\ load[g] # None
  /\ UNCHANGED loaded
  /\ LoadEnds(g)
  /\ UNCHANGED <<logs, page, loadGeneration>>

\* The checkbox of the register; what is not ticked is pruned.
Tick ==
  /\ listed
  /\ chosen' = ~chosen
  /\ IF chosen THEN view' = {} /\ live' = {} ELSE UNCHANGED <<view, live>>
  /\ reload' = TRUE
  /\ UNCHANGED <<logs, feed, selected, listed, loads, chains, connection>>

\* The buttons for all registers and for none.
TickAll ==
  /\ listed
  /\ chosen' = TRUE
  /\ UNCHANGED <<logs, feed, selected, listed, view, live, reload, chains, connection>>
  /\ StartLoad

TickNone ==
  /\ chosen' = FALSE
  /\ view' = {} /\ live' = {}
  /\ UNCHANGED <<logs, feed, selected, listed, reload, loads, chains, connection>>

\* autoLoadTimer; the button for loading does the same without it.
Reload ==
  /\ reload' = FALSE
  /\ UNCHANGED <<logs, feed, selected, listed, chosen, view, live, chains, connection>>
  /\ StartLoad

Init ==
  /\ charts \in BOOLEAN
  /\ selected \in Transformer
  /\ Log!Init /\ Feed!Init
  /\ lost = {}
  /\ listed = FALSE /\ chosen = FALSE /\ reload = FALSE
  /\ view = {} /\ live = {}
  /\ loadGeneration = 0 /\ loaded = FALSE
  /\ load = [g \in Generation |-> None]
  /\ answer = [g \in Generation |-> None]
  /\ \E c \in Chain : chain = [x \in Chain |-> IF x = c THEN "errors" ELSE "none"]
  /\ chainOf = [c \in Chain |-> None]
  /\ wsGeneration = 0 /\ attempts = {} /\ socket = None
  /\ ready = FALSE

Server ==
  \/ \E t \in Transformer : StoreReading(t)
  \/ \E n \in Reading : Announce(n) \/ LoseAnnouncement(n)
  \/ HubStep

Connection ==
  \/ \E a \in attempts : TokenArrives(a) \/ TokenMissing(a)
  \/ Subscribe \/ ReadyArrives \/ PointArrives \/ SocketCloses \/ Reconnect

Page ==
  \/ \E c \in Chain : \/ \E t \in Transformer : Select(t, c)
                      \/ Refresh(c) \/ ErrorsArrive(c)
                      \/ ListDropped(c) \/ RegistersArrive(c) \/ NoRegisters(c)
  \/ \E g \in Generation : QueryHistory(g) \/ HistoryArrives(g) \/ HistoryFails(g)
  \/ Tick \/ TickAll \/ TickNone \/ Reload

Next == Server \/ Connection \/ Page

Spec == Init /\ [][Next]_vars

(***************************************************************************)
(* Properties.                                                             *)
(***************************************************************************)

\* Whatever answers come late, the page shows points of the selected transformer only.
ViewOfSelection == \A n \in view : n[1] = selected

\* The connection: sessions begin in order, one at a time; the latest one has not begun
\* while its token is awaited, and belongs to the selection ("control of the generation of
\* the connection"); it is subscribed before the message "ready".
ConnectsInOrder ==
  /\ \A s \in Session : s > wsGeneration => state[s] = "new"
  /\ \A s \in Session : state[s] = "new" => due[s] = {} /\ channel[s] = <<>>
  /\ \A a \in attempts :
       /\ a.session <= wsGeneration
       /\ a.session = wsGeneration => a.target = selected /\ socket = None /\ state[a.session] = "new"
  /\ socket # None =>
       /\ socket.session = wsGeneration /\ socket.target = selected
       /\ state[socket.session] # "new" => topic[socket.session] = socket.target
  /\ ready => socket # None /\ state[socket.session] # "new"

\* Only what is stored is announced, and only what is announced is sent.
StoredThenSent ==
  /\ started \cup lost \subseteq UNION {Stored(t) : t \in Transformer}
  /\ \A s \in Session : due[s] \cup ToSet(channel[s]) \subseteq started

\* The points shown are stored ones of the selection, of aggregates the latest; a load
\* is answered with stored points of its transformer.
ShownIsStored ==
  /\ view \subseteq Stored(selected)
  /\ Merge(view, {}) = view
  /\ \A g \in Generation :
       /\ load[g] # None => g <= loadGeneration
       /\ answer[g] # None => load[g] # None /\ answer[g] \subseteq Stored(load[g])

\* The points themselves or, of aggregates, later ones.
Show(points, n) ==
  \E m \in points : m = n \/ (~charts /\ m[1] = n[1] /\ n[2] <= m[2])

\* What is shown is still shown when the answer to the latest load is merged with what came live.
AnswerKeepsView ==
  \A g \in Generation :
    g = loadGeneration /\ load[g] = selected /\ answer[g] # None =>
      \A n \in view : Show(answer[g] \cup live, n)

\* Announced points that are not shown may be lost, or have yet to come.
LostOrOnItsWay == lost \cup due[socket.session] \cup ToSet(channel[socket.session])

\* Announced points of the selection are in the given ones or on their way, unless lost.
Complete(points) ==
  \A n \in Stored(selected) \cap started : n \in LostOrOnItsWay \/ Show(points, n)

\* Connected, and the latest load began after "ready" and the last tick.
Settled ==
  /\ socket # None /\ ready /\ state[socket.session] = "open"
  /\ chosen /\ ~reload

\* Nothing is missed then: neither by the view, once the load has succeeded, nor by the
\* answer that will become the view.
NothingIsMissed ==
  Settled =>
    /\ loaded => Complete(view)
    /\ \A g \in Generation :
         g = loadGeneration /\ load[g] = selected /\ answer[g] # None =>
           Complete(answer[g] \cup live)

\* The inductive invariant: the socket belongs to the selection, and what keeps a view
\* complete while announcements, loads and points overtake each other.
ReadingsInv ==
  /\ TypeOK /\ ConnectsInOrder /\ StoredThenSent /\ ShownIsStored
  /\ AnswerKeepsView /\ NothingIsMissed

\* Connected, the last load has succeeded, and nothing is on its way.
Quiet ==
  /\ socket # None /\ ready
  /\ state[socket.session] = "open"
  /\ channel[socket.session] = <<>> /\ due[socket.session] = {}
  /\ Unannounced = {}
  /\ chosen /\ ~reload /\ loaded

\* A quiet page shows what is stored: a reading is in the history that was loaded
\* after "ready", or it has come live.  Only readings whose announcement was lost may
\* be missing until the next load.
QuietViewIsComplete ==
  Quiet => /\ view \subseteq Stored(selected)
           /\ Merge(view, lost \cap Stored(selected)) = Merge(Stored(selected), {})

\* A history that arrives takes nothing away that is shown: it may be older than a
\* live point, and another load may have been faster.
HistoryTakesNothingAway ==
  [][\A g \in Generation : HistoryArrives(g) => Merge(view', view) = view']_vars
=============================================================================
