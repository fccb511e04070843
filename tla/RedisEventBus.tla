----------------------------- MODULE RedisEventBus -----------------------------
(***************************************************************************)
(* The event bus on Redis (moatless/eventbus/redis_bus.py, base.py): one   *)
(* bus in each process.  Whoever publishes an event first gets the bus,    *)
(* which initializes it (get_event_bus of settings.py), then the event is  *)
(* appended to the storage, pushed to a list in Redis and sent to a        *)
(* channel.  A listener task hands what comes over the channels of its     *)
(* process to the subscribers.  Redis may not answer for a while.          *)
(***************************************************************************)
EXTENDS Integers, Sequences, SequencesExt

CONSTANTS
  Processes,   \* processes with a bus
  Publishers,  \* coroutines that publish
  MaxPublished,\* bound on the events
  MaxOutages   \* bound on the times Redis does not answer

ASSUME BusAssumption ==
  Processes # {} /\ MaxPublished \in Nat /\ MaxOutages \in Nat

VARIABLES
  up,         \* Redis answers
  outages,    \* how often it did not
  bus,        \* the bus of each process
  heard,      \* per process: the channels that the pubsub object its listener
              \* listens to, or will, has subscribed to
  mail,       \* per process: the events that object has received
  publisher,  \* what each publisher is doing
  published,  \* how many events have been made
  scope,      \* the scope of each event
  stored,     \* the lines of events.jsonl in the storage
  cached,     \* the list of events in Redis
  handled,    \* history: how often the subscribers of a process got each event
  skipped,    \* history: events that Redis did not take into the list
  raced       \* history: the processes in which two initializations overlapped

busVars == <<up, outages, bus, heard, mail, publisher, published, scope, stored, cached,
             handled, skipped, raced>>

busData == <<published, scope, stored, cached, skipped>>

Events == 1..MaxPublished

Channels == {"own", "global"}

BusTypeOK ==
  /\ up \in BOOLEAN /\ outages \in 0..MaxOutages
  /\ bus \in [Processes -> [initialized : BOOLEAN, closing : BOOLEAN, available : BOOLEAN,
                            listener : {"none", "own", "global", "listening", "ended"}]]
  /\ heard \in [Processes -> SUBSET Channels] /\ mail \in [Processes -> Seq(Events)]
  /\ publisher \in [Publishers -> [at : {"idle", "setup", "check", "save", "push", "send"},
                                   process : Processes, event : 0..MaxPublished]]
  /\ published \in 0..MaxPublished
  /\ scope \in [Events -> {"none", "flow", "system"}]
  /\ stored \in Seq(Events) /\ cached \in Seq(Events)
  /\ handled \in [Processes -> [Events -> Nat]]
  /\ skipped \subseteq Events /\ raced \subseteq Processes

NewBus == [initialized |-> FALSE, closing |-> FALSE, available |-> FALSE, listener |-> "none"]

\* A publisher with nothing to publish; the process only fills the field.
PublisherIdle == [at |-> "idle", process |-> CHOOSE p \in Processes : TRUE, event |-> 0]

BusInit ==
  /\ up = TRUE /\ outages = 0
  /\ bus = [p \in Processes |-> NewBus]
  /\ heard = [p \in Processes |-> {}] /\ mail = [p \in Processes |-> <<>>]
  /\ publisher = [x \in Publishers |-> PublisherIdle]
  /\ published = 0 /\ scope = [e \in Events |-> "none"]
  /\ stored = <<>> /\ cached = <<>>
  /\ handled = [p \in Processes |-> [e \in Events |-> 0]]
  /\ skipped = {} /\ raced = {}

Home(x) == publisher[x].process

At(x, at) == publisher[x].at = at

PublisherGoto(x, to) ==
  publisher' = [publisher EXCEPT ![x] = IF to = "idle" THEN PublisherIdle
                                        ELSE [@ EXCEPT !.at = to]]

--------------------------------------------------------------------------------
(* get_event_bus and initialize                                                *)

\* An event is made and the bus asked for; a bus that is initialized or closing is
\* given as it is.
Publish(x, p) ==
  /\ At(x, "idle") /\ published < MaxPublished
  /\ published' = published + 1
  /\ \E s \in {"flow", "system"} : scope' = [scope EXCEPT ![published + 1] = s]
  /\ publisher' = [publisher EXCEPT ![x] =
       [at |-> IF bus[p].initialized \/ bus[p].closing THEN "save" ELSE "setup",
        process |-> p, event |-> published + 1]]
  /\ raced' = IF /\ ~bus[p].initialized
                 /\ \E y \in Publishers : Home(y) = p /\ publisher[y].at \in {"setup", "check"}
              THEN raced \cup {p} ELSE raced
  /\ UNCHANGED <<up, outages, bus, heard, mail, stored, cached, handled, skipped>>

\* _setup_redis: a new client, a new pubsub object and a ping.  A listener that
\* listens goes on with the object it has; one that does not yet will listen to the
\* new one, which has subscribed to nothing.
SetUp(p) ==
  /\ heard' = [heard EXCEPT ![p] = IF bus[p].listener = "listening" THEN @ ELSE {}]
  /\ mail' = [mail EXCEPT ![p] = IF bus[p].listener = "listening" THEN @ ELSE <<>>]

SetupRedis(x) ==
  /\ At(x, "setup")
  /\ SetUp(Home(x))
  /\ bus' = [bus EXCEPT ![Home(x)].available = up]
  /\ PublisherGoto(x, "check")
  /\ UNCHANGED <<up, outages, busData, handled, raced>>

\* _start_redis_listener starts one only.
StartsListener(p) == up /\ bus[p].listener = "none" /\ ~bus[p].closing

\* _check_redis_available sets it all up once more when there is no answer; then the
\* listener is started.
CheckRedis(x) ==
  /\ At(x, "check")
  /\ LET p == Home(x) IN
     /\ bus' = [bus EXCEPT ![p].available = up, ![p].initialized = TRUE,
                           ![p].listener = IF StartsListener(p) THEN "own" ELSE @]
     /\ IF up THEN UNCHANGED <<heard, mail>> ELSE SetUp(p)
  /\ PublisherGoto(x, "save")
  /\ UNCHANGED <<up, outages, busData, handled, raced>>

--------------------------------------------------------------------------------
(* The listener (_handle_redis_messages)                                       *)

\* It subscribes to its own channel, then to the global one, and listens.
ListenerSubscribes(p) ==
  /\ bus[p].listener \in Channels /\ up
  /\ heard' = [heard EXCEPT ![p] = @ \cup {bus[p].listener}]
  /\ bus' = [bus EXCEPT ![p].listener = IF @ = "own" THEN "global" ELSE "listening"]
  /\ UNCHANGED <<up, outages, mail, publisher, busData, handled, raced>>

\* An error ends the task, and _listener_task keeps another one from being started.
ListenerFails(p) ==
  /\ bus[p].listener \in Channels /\ ~up
  /\ bus' = [bus EXCEPT ![p].listener = "ended"]
  /\ UNCHANGED <<up, outages, heard, mail, publisher, busData, handled, raced>>

HandleMessage(p) ==
  /\ bus[p].listener = "listening" /\ mail[p] # <<>>
  /\ handled' = [handled EXCEPT ![p][Head(mail[p])] = @ + 1]
  /\ mail' = [mail EXCEPT ![p] = Tail(@)]
  /\ UNCHANGED <<up, outages, bus, heard, publisher, busData, raced>>

--------------------------------------------------------------------------------
(* publish                                                                     *)

\* _save_event appends a line under the bus's lock.
SaveEvent(x) ==
  /\ At(x, "save")
  /\ stored' = Append(stored, publisher[x].event)
  /\ PublisherGoto(x, "push")
  /\ UNCHANGED <<up, outages, bus, heard, mail, published, scope, cached, handled, skipped,
                 raced>>

SaveEventToRedis(x) ==
  /\ At(x, "push")
  /\ LET e == publisher[x].event IN
     IF up /\ bus[Home(x)].available
     THEN cached' = Append(cached, e) /\ UNCHANGED skipped
     ELSE skipped' = skipped \cup {e} /\ UNCHANGED cached
  /\ PublisherGoto(x, "send")
  /\ UNCHANGED <<up, outages, bus, heard, mail, published, scope, stored, handled, raced>>

\* (Mutant: every event goes to all processes.)
ChannelOf_Global(e) == "global"

\* System events go to all processes, the others to the channel of this one.
ChannelOf(e) == IF scope[e] = "system" THEN "global" ELSE "own"

Hears(p, x) ==
  /\ ChannelOf(publisher[x].event) \in heard[p]
  /\ ChannelOf(publisher[x].event) = "own" => p = Home(x)

\* Whoever is subscribed gets it; nobody else ever does.
SendToChannel(x) ==
  /\ At(x, "send")
  /\ mail' = [p \in Processes |-> IF up /\ Hears(p, x) THEN Append(mail[p], publisher[x].event)
                                  ELSE mail[p]]
  /\ PublisherGoto(x, "idle")
  /\ UNCHANGED <<up, outages, bus, heard, busData, handled, raced>>

\* (Mutant: storage only when Redis cannot be used.)
ReadEvents_Cached(p) == IF bus[p].available /\ up THEN cached ELSE stored

\* read_events: Redis first, the storage when Redis has nothing to give.
ReadEvents(p) == IF bus[p].available /\ up /\ cached # <<>> THEN cached ELSE stored

--------------------------------------------------------------------------------

\* Redis does not answer: the connections of the listeners are broken.
Outage ==
  /\ up /\ outages < MaxOutages
  /\ up' = FALSE /\ outages' = outages + 1
  /\ bus' = [p \in Processes |-> IF bus[p].listener \in {"global", "listening"}
                                 THEN [bus[p] EXCEPT !.listener = "ended"] ELSE bus[p]]
  /\ heard' = [p \in Processes |-> {}] /\ mail' = [p \in Processes |-> <<>>]
  /\ UNCHANGED <<publisher, busData, handled, raced>>

BackUp ==
  /\ ~up
  /\ up' = TRUE
  /\ UNCHANGED <<outages, bus, heard, mail, publisher, busData, handled, raced>>

\* close: the listener is canceled and the connections are closed.
Close(p) ==
  /\ bus[p].initialized /\ ~bus[p].closing
  /\ bus' = [bus EXCEPT ![p] = [NewBus EXCEPT !.closing = TRUE]]
  /\ heard' = [heard EXCEPT ![p] = {}] /\ mail' = [mail EXCEPT ![p] = <<>>]
  /\ UNCHANGED <<up, outages, publisher, busData, handled, raced>>

BusNext ==
  \/ \E x \in Publishers :
       \/ \E p \in Processes : Publish(x, p)
       \/ SetupRedis(x) \/ CheckRedis(x) \/ SaveEvent(x) \/ SaveEventToRedis(x) \/ SendToChannel(x)
  \/ \E p \in Processes : ListenerSubscribes(p) \/ ListenerFails(p) \/ HandleMessage(p) \/ Close(p)
  \/ Outage \/ BackUp

BusSpec == BusInit /\ [][BusNext]_busVars

--------------------------------------------------------------------------------
(* Properties                                                                  *)

\* An event that is not the system's is handled in the process that published it,
\* and no event is handled twice in one process, however often its bus is set up.
HandledOnce ==
  \A e \in Events, p, q \in Processes :
    /\ handled[p][e] <= 1
    /\ p # q /\ scope[e] = "flow" => handled[p][e] = 0 \/ handled[q][e] = 0

\* A listener that listens hears both its channels, unless two publishers have
\* initialized the bus at once: the second one's pubsub object takes the place of
\* the one that the listener has subscribed with.
ListensToBoth ==
  \A p \in Processes \ raced : bus[p].listener = "listening" => heard[p] = Channels

\* What is published reaches its subscribers once: the listener hears both its
\* channels, and "only one worker processes each event" (redis_bus.py:235).
ReachesSubscribersOnce == HandledOnce /\ ListensToBoth

\* An event in the storage is in what any process reads.  The exception is the list
\* in Redis that has some events and hides that others, which Redis did not take or
\* has yet to take, are only in the storage.
SavedIsRead ==
  \A p \in Processes, e \in Events :
    bus[p].initialized /\ e \in Range(stored) /\ e \notin Range(ReadEvents(p)) =>
      /\ cached # <<>>
      /\ e \in skipped \/ \E x \in Publishers : At(x, "push") /\ publisher[x].event = e
================================================================================
