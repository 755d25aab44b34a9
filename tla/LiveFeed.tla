------------------------------ MODULE LiveFeed ------------------------------
(***************************************************************************)
(* What live updates promise to a subscriber.  A payload announced after   *)
(* the subscription has begun reaches it, at most once, or the             *)
(* subscription fails: it is cut before the announcement it has missed is  *)
(* over.  A cut subscription delivers what is on its way and nothing       *)
(* later.  Payloads announced at the same time may come in any order.  A   *)
(* session may end at any time.                                            *)
(***************************************************************************)
EXTENDS Sequences, SequencesExt

CONSTANTS
  Session,
  Topic,
  Payload,
  TopicOf,  \* [Payload -> Topic]
  NoTopic

VARIABLES
  state,      \* of a session: new, open, failing, cut, ended
  topic,      \* what it subscribes to, NoTopic before and after
  started,    \* payloads whose announcement has begun
  running,    \* those whose announcement has not ended
  due,        \* running payloads an open session must still be given, a failing one has missed
  channel,    \* payloads on their way to the client
  delivered   \* payloads the client has got, as long as the session lasts

feed == <<state, topic, started, running, due, channel, delivered>>

TypeOK ==
  /\ state \in [Session -> {"new", "open", "failing", "cut", "ended"}]
  /\ topic \in [Session -> Topic \cup {NoTopic}]
  /\ started \subseteq Payload
  /\ running \subseteq started
  /\ due \in [Session -> SUBSET Payload]
  /\ channel \in [Session -> Seq(Payload)]
  /\ delivered \in [Session -> Seq(Payload)]

Init ==
  /\ state = [s \in Session |-> "new"]
  /\ topic = [s \in Session |-> NoTopic]
  /\ started = {} /\ running = {}
  /\ due = [s \in Session |-> {}]
  /\ channel = [s \in Session |-> <<>>]
  /\ delivered = [s \in Session |-> <<>>]

Join(s, t) ==
  /\ state[s] = "new"
  /\ state' = [state EXCEPT ![s] = "open"]
  /\ topic' = [topic EXCEPT ![s] = t]
  /\ UNCHANGED <<started, running, due, channel, delivered>>

Audience(n) == {s \in Session : state[s] = "open" /\ topic[s] = TopicOf[n]}

Announce(n) ==
  /\ n \notin started
  /\ started' = started \cup {n}
  /\ running' = running \cup {n}
  /\ due' = [s \in Session |-> IF s \in Audience(n) THEN due[s] \cup {n} ELSE due[s]]
  /\ UNCHANGED <<state, topic, channel, delivered>>

\* Nobody subscribes: the announcement is over at once.
AnnounceToNobody(n) ==
  /\ n \notin started /\ Audience(n) = {}
  /\ started' = started \cup {n}
  /\ UNCHANGED <<state, topic, running, due, channel, delivered>>

\* May get n: it has not yet got it, and has not missed it.
Receptive(n, s) ==
  /\ state[s] = "open" \/ (state[s] = "failing" /\ n \notin due[s])
  /\ topic[s] = TopicOf[n]
  /\ n \notin ToSet(delivered[s]) \cup ToSet(channel[s])

\* Also to a session that joined while the announcement ran, or that is failing.
Offer(n, s) ==
  /\ n \in running /\ Receptive(n, s)
  /\ channel' = [channel EXCEPT ![s] = Append(@, n)]
  /\ due' = [due EXCEPT ![s] = @ \ {n}]
  /\ UNCHANGED <<state, topic, started, running, delivered>>

\* A payload does not fit.
FallBehind(n, s) ==
  /\ n \in running /\ Receptive(n, s)
  /\ state' = [state EXCEPT ![s] = "failing"]
  /\ due' = [due EXCEPT ![s] = IF state[s] = "open" THEN {n} ELSE @ \cup {n}]
  /\ UNCHANGED <<topic, started, running, channel, delivered>>

EndAnnouncement(n) ==
  /\ n \in running
  /\ \A s \in Session : n \notin due[s]
  /\ running' = running \ {n}
  /\ UNCHANGED <<state, topic, started, due, channel, delivered>>

Cut(s) ==
  /\ state[s] = "failing"
  /\ state' = [state EXCEPT ![s] = "cut"]
  /\ due' = [due EXCEPT ![s] = {}]
  /\ UNCHANGED <<topic, started, running, channel, delivered>>

Deliver(s) ==
  /\ state[s] \in {"open", "failing", "cut"} /\ channel[s] # <<>>
  /\ delivered' = [delivered EXCEPT ![s] = Append(@, Head(channel[s]))]
  /\ channel' = [channel EXCEPT ![s] = Tail(@)]
  /\ UNCHANGED <<state, topic, started, running, due>>

End(s) ==
  /\ state[s] # "ended"
  /\ state' = [state EXCEPT ![s] = "ended"]
  /\ due' = [due EXCEPT ![s] = {}]
  /\ topic' = [topic EXCEPT ![s] = NoTopic]
  /\ channel' = [channel EXCEPT ![s] = <<>>]
  /\ delivered' = [delivered EXCEPT ![s] = <<>>]
  /\ UNCHANGED <<started, running>>

Next ==
  \/ \E n \in Payload : \/ Announce(n) \/ AnnounceToNobody(n) \/ EndAnnouncement(n)
                        \/ \E s \in Session : Offer(n, s) \/ FallBehind(n, s)
  \/ \E s \in Session : \/ Cut(s) \/ Deliver(s) \/ End(s)
                        \/ \E t \in Topic : Join(s, t)

Spec == Init /\ [][Next]_feed
=============================================================================
