--------------------------- MODULE ConnectionManager ---------------------------
(***************************************************************************)
(* The WebSocket connections of the API (moatless/api/websocket.py): which *)
(* socket has subscribed to which project or trajectory, kept in two maps  *)
(* that must agree, and the broadcast of an event to the subscribers.  The *)
(* endpoint of a socket and the broadcasts are coroutines of one loop:     *)
(* they change places whenever a message is sent or awaited.               *)
(***************************************************************************)
EXTENDS Integers, FiniteSets

CONSTANTS
  Sockets,      \* connections, each used once
  Projects,     \* the projects one can subscribe to
  Trajectories, \* the trajectories one can subscribe to
  Broadcasters, \* calls of broadcast_event that run at once
  MaxEvents,    \* bound on the events broadcast
  MaxMessages   \* bound on the messages a client sends

\* What marks a socket without a record is no topic.
ASSUME SocketAssumption ==
  /\ "no entry" \notin Projects \cup Trajectories
  /\ MaxEvents \in Nat /\ MaxMessages \in Nat

VARIABLES
  endpoint,     \* the endpoint of each socket: "new", "receiving", "replying", "done"
  alive,        \* the sockets whose client is still there
  inbox,        \* the message a client has sent and the endpoint not received
  sent,         \* how many messages each client has sent
  topicSockets, \* project_subscriptions and trajectory_subscriptions
  socketTopics, \* socket_subscriptions: a set, or NoEntry
  broadcast,    \* what each broadcaster is doing
  events,       \* how many events have been broadcast
  got,          \* history: how often each socket got each event
  late          \* history: sockets that a broadcast dropped with a message to come

socketVars == <<endpoint, alive, inbox, sent, topicSockets, socketTopics, broadcast,
                events, got, late>>

Topics == Projects \cup Trajectories

NoEntry == {"no entry"}

NoMessage == [type |-> "none", topic |-> CHOOSE t \in Topics : TRUE]

Message == [type : {"subscribe", "unsubscribe"}, topic : Topics]

SocketTypeOK ==
  /\ endpoint \in [Sockets -> {"new", "receiving", "replying", "done"}]
  /\ alive \subseteq Sockets /\ late \subseteq Sockets
  /\ inbox \in [Sockets -> Message \cup {NoMessage}]
  /\ sent \in [Sockets -> 0..MaxMessages]
  /\ topicSockets \in [Topics -> SUBSET Sockets]
  /\ socketTopics \in [Sockets -> (SUBSET Topics) \cup {NoEntry}]
  /\ broadcast \in [Broadcasters -> [event : 0..MaxEvents, topics : SUBSET Topics,
                                     todo : SUBSET Sockets, notified : SUBSET Sockets]]
  /\ events \in 0..MaxEvents
  /\ got \in [Sockets -> [1..MaxEvents -> Nat]]
  /\ \A b \in Broadcasters : broadcast[b].event = 0 => broadcast[b].todo = {}

Resting == [event |-> 0, topics |-> {}, todo |-> {}, notified |-> {}]

SocketInit ==
  /\ endpoint = [s \in Sockets |-> "new"]
  /\ alive = Sockets /\ late = {} /\ events = 0
  /\ inbox = [s \in Sockets |-> NoMessage] /\ sent = [s \in Sockets |-> 0]
  /\ topicSockets = [t \in Topics |-> {}]
  /\ socketTopics = [s \in Sockets |-> NoEntry]
  /\ broadcast = [b \in Broadcasters |-> Resting]
  /\ got = [s \in Sockets |-> [e \in 1..MaxEvents |-> 0]]

Registered(s) == socketTopics[s] # NoEntry

\* (Mutant: the topics keep the socket.)
Disconnect_Kept(s) ==
  /\ socketTopics' = [socketTopics EXCEPT ![s] = NoEntry]
  /\ UNCHANGED topicSockets

\* The maps after disconnect, which goes by the topics the socket has itself on
\* record; it awaits nothing, for its test of client_state never holds.
Disconnect(s) ==
  /\ topicSockets' = [t \in Topics |-> IF Registered(s) /\ t \in socketTopics[s]
                                       THEN topicSockets[t] \ {s} ELSE topicSockets[t]]
  /\ socketTopics' = [socketTopics EXCEPT ![s] = NoEntry]

--------------------------------------------------------------------------------
(* A client and the endpoint of its socket                                     *)

Connect(s) ==
  /\ endpoint[s] = "new" /\ s \in alive
  /\ endpoint' = [endpoint EXCEPT ![s] = "receiving"]
  /\ socketTopics' = [socketTopics EXCEPT ![s] = {}]
  /\ UNCHANGED <<alive, inbox, sent, topicSockets, broadcast, events, got, late>>

ClientSends(s) ==
  /\ s \in alive /\ endpoint[s] \in {"receiving", "replying"}
  /\ inbox[s] = NoMessage /\ sent[s] < MaxMessages
  /\ \E m \in Message : inbox' = [inbox EXCEPT ![s] = m]
  /\ sent' = [sent EXCEPT ![s] = @ + 1]
  /\ UNCHANGED <<endpoint, alive, topicSockets, socketTopics, broadcast, events, got, late>>

ClientLeaves(s) ==
  /\ s \in alive
  /\ alive' = alive \ {s}
  /\ UNCHANGED <<endpoint, inbox, sent, topicSockets, socketTopics, broadcast, events, got, late>>

\* subscribe_to_project and subscribe_to_trajectory: the topic has the socket before
\* the socket's own record is looked up, which raises when there is none.
Subscribe(s, t) ==
  /\ topicSockets' = [topicSockets EXCEPT ![t] = @ \cup {s}]
  /\ socketTopics' = [socketTopics EXCEPT ![s] = IF Registered(s) THEN @ \cup {t} ELSE @]

\* handle_message: "subscribe" and "unsubscribe" enter the same branch, and the
\* branch for "unsubscribe" that follows is never reached.
Receive(s) ==
  /\ endpoint[s] = "receiving" /\ inbox[s] # NoMessage
  /\ inbox[s].type \in {"subscribe", "unsubscribe"}
  /\ Subscribe(s, inbox[s].topic)
  /\ late' = IF Registered(s) THEN late ELSE late \cup {s}
  /\ endpoint' = [endpoint EXCEPT ![s] = "replying"]
  /\ inbox' = [inbox EXCEPT ![s] = NoMessage]
  /\ UNCHANGED <<alive, sent, broadcast, events, got>>

\* The answer has been sent, or has failed, which handle_message logs.
Reply(s) ==
  /\ endpoint[s] = "replying"
  /\ endpoint' = [endpoint EXCEPT ![s] = "receiving"]
  /\ UNCHANGED <<alive, inbox, sent, topicSockets, socketTopics, broadcast, events, got, late>>

\* receive_text raises once the client has gone and what it sent is read.
EndpointEnds(s) ==
  /\ endpoint[s] = "receiving" /\ s \notin alive /\ inbox[s] = NoMessage
  /\ Disconnect(s)
  /\ endpoint' = [endpoint EXCEPT ![s] = "done"]
  /\ UNCHANGED <<alive, inbox, sent, broadcast, events, got, late>>

--------------------------------------------------------------------------------
(* broadcast_event                                                             *)

\* The event of a flow or an evaluation goes to the subscribers of its project and
\* then of its trajectory, any other to those of its trajectory.
EventTopics == {{t} : t \in Topics} \cup {{p, t} : p \in Projects, t \in Trajectories}

BeginBroadcast(b) ==
  /\ broadcast[b] = Resting /\ events < MaxEvents
  /\ events' = events + 1
  /\ \E topics \in EventTopics :
       broadcast' = [broadcast EXCEPT ![b] =
                       [event |-> events + 1, topics |-> topics, todo |-> {}, notified |-> {}]]
  /\ UNCHANGED <<endpoint, alive, inbox, sent, topicSockets, socketTopics, got, late>>

\* (Mutant: who got the event for its project gets it for its trajectory too.)
Skipped_Nobody(b, s) == FALSE

Skipped(b, s) == s \in broadcast[b].notified

\* One socket's turn: a client that has gone is disconnected.
SendEvent(b) ==
  /\ \E s \in broadcast[b].todo :
       /\ broadcast' = [broadcast EXCEPT ![b].todo = @ \ {s},
                          ![b].notified = IF s \in alive THEN @ \cup {s} ELSE @]
       /\ got' = IF s \in alive /\ ~Skipped(b, s)
                 THEN [got EXCEPT ![s][broadcast[b].event] = @ + 1] ELSE got
       /\ IF s \in alive \/ Skipped(b, s) THEN UNCHANGED <<topicSockets, socketTopics>>
                                       ELSE Disconnect(s)
  /\ UNCHANGED <<endpoint, alive, inbox, sent, events, late>>

\* The sockets of a topic are copied when its turn comes.
NextTopic(b) ==
  /\ broadcast[b].event # 0 /\ broadcast[b].todo = {}
  /\ LET topics == broadcast[b].topics IN
     \/ \E t \in IF topics \subseteq Trajectories THEN topics ELSE topics \cap Projects :
          broadcast' = [broadcast EXCEPT ![b].topics = @ \ {t}, ![b].todo = topicSockets[t]]
     \/ topics = {} /\ broadcast' = [broadcast EXCEPT ![b] = Resting]
  /\ UNCHANGED <<endpoint, alive, inbox, sent, topicSockets, socketTopics, events, got, late>>

SocketNext ==
  \/ \E s \in Sockets : \/ Connect(s) \/ ClientSends(s) \/ ClientLeaves(s)
                        \/ Receive(s) \/ Reply(s) \/ EndpointEnds(s)
  \/ \E b \in Broadcasters : BeginBroadcast(b) \/ SendEvent(b) \/ NextTopic(b)

SocketSpec == SocketInit /\ [][SocketNext]_socketVars

--------------------------------------------------------------------------------
(* Properties                                                                  *)

\* A client gets an event once, though it may have subscribed to the project and to
\* the trajectory, and to either while the event is being broadcast.
GotOnce == \A s \in Sockets, e \in 1..MaxEvents : got[s][e] <= 1

\* The two maps agree and forget a socket together.  The exception: a message read
\* after a broadcast has dropped the socket subscribes it for good.
MapsAgree ==
  \A s \in Sockets \ late, t \in Topics :
    s \in topicSockets[t] <=> Registered(s) /\ t \in socketTopics[s]

\* Subscriptions hold together while sockets come and go during a broadcast, and
\* however they overlap they make an event arrive once.
SubscriptionsHold == GotOnce /\ MapsAgree
================================================================================
