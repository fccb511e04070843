-------------------------- MODULE SharedBackendsProofs --------------------------
(***************************************************************************)
(* Proofs about what the processes of a deployment share. The coroutines   *)
(* of an API process: the managers that Dependencies makes for its         *)
(* requests, the subscriptions of its sockets, and its bus, which events   *)
(* reach over Redis. The runners on Docker and on Kubernetes: neither ends *)
(* a job that runs because of what it made of an answer, whatever else     *)
(* happens between two commands.                                           *)
(***************************************************************************)
EXTENDS SharedBackends, SequenceTheorems, TLAPS

Kinds == Backends \cup Managers

\* A request in the middle of something still depends on something.
ResolvingOK(p) ==
  /\ p \in [needs : Seq(Kinds), at : {"idle", "look", "wait", "initialize"}]
  /\ p.at # "idle" => p.needs # << >>

\* The lock is held by whoever initializes.
LockHeld ==
  /\ holder \in Requests \cup {Unlocked}
  /\ \A r \in Requests : holder = r <=> resolving[r].at = "initialize"

\* Nothing has been made of what is not there: a backend or a manager is assigned with its
\* first instance; the settings keep a bus that is not initialized yet.
MadeOnce ==
  /\ timesMade \in [Kinds -> {0, 1}]
  /\ \A k \in Kinds \ {"bus"} : instance[k] = "none" => timesMade[k] = 0
  /\ ~busMade => timesMade["bus"] = 0

\* The subscription to the events of evaluations comes with the end of the only
\* initialization of the manager.
SubscribedOnce ==
  /\ subscribed \in {0, 1}
  /\ instance["evaluations"] # "ready" => subscribed = 0
  /\ \A r \in Requests : resolving[r].at = "initialize" /\ Need(r) = "evaluations" =>
       instance["evaluations"] = "made"

DependenciesInv ==
  /\ instance \in [Kinds -> {"none", "made", "ready"}]
  /\ busMade \in BOOLEAN
  /\ initErrors \in 0..MaxInitErrors
  /\ \A r \in Requests : ResolvingOK(resolving[r])
  /\ DOMAIN resolving = Requests /\ resolving = [r \in Requests |-> resolving[r]]
  /\ LockHeld
  /\ MadeOnce
  /\ SubscribedOnce

\* What an endpoint depends on is a list of known kinds, with at least one.
LEMMA EndpointType ==
  ASSUME NEW e \in Endpoints
  PROVE  e \in Seq(Kinds) /\ e # << >>
<1>1. Flows \in Seq(Kinds) /\ Append(Flows, "evaluations") \in Seq(Kinds) /\ Flows # << >>
  BY DEF Flows, Kinds, Backends, Managers
<1>2. Append(Flows, "evaluations") # << >>
  BY <1>1
<1>3. /\ <<"storage">> \in Seq(Kinds) /\ <<"runner">> \in Seq(Kinds)
      /\ <<"storage", "models">> \in Seq(Kinds) /\ <<"storage", "agents">> \in Seq(Kinds)
  BY DEF Kinds, Backends, Managers
<1>4. <<"storage", "models", "bus", "runner", "agents", "flows", "evaluations">> \in Seq(Kinds)
  BY DEF Kinds, Backends, Managers
<1>5. /\ <<"storage">> # << >> /\ <<"runner">> # << >>
      /\ <<"storage", "models">> # << >> /\ <<"storage", "agents">> # << >>
  OBVIOUS
<1>6. QED
  <2>1. CASE e = Flows \/ e = Append(Flows, "evaluations")
    BY <1>1, <1>2, <2>1
  <2>2. CASE e \in {<<"storage">>, <<"runner">>, <<"storage", "models">>, <<"storage", "agents">>}
    <3>1. CASE e = <<"storage">> \/ e = <<"runner">>
      BY <1>3, <1>5, <3>1
    <3>2. CASE e = <<"storage", "models">> \/ e = <<"storage", "agents">>
      BY <1>3, <1>5, <3>2
    <3>3. QED
      BY <2>2, <3>1, <3>2
  <2>3. CASE e = <<"storage", "models", "bus", "runner", "agents", "flows", "evaluations">>
    BY <1>4, <2>3
  <2>4. QED
    BY <2>1, <2>2, <2>3 DEF Endpoints

\* What comes after a dependency is well formed, and what is needed now is a kind.
LEMMA AdvanceType ==
  ASSUME NEW p, ResolvingOK(p), p.needs # << >>
  PROVE  /\ Head(p.needs) \in Kinds /\ Tail(p.needs) \in Seq(Kinds)
         /\ ResolvingOK(IF Tail(p.needs) = << >> THEN Idle
                        ELSE [needs |-> Tail(p.needs), at |-> "look"])
<1>1. p.needs \in Seq(Kinds)
  BY DEF ResolvingOK
<1> HIDE DEF Kinds
<1>2. Head(p.needs) \in Kinds /\ Tail(p.needs) \in Seq(Kinds)
  BY <1>1, HeadTailProperties
<1>3. << >> \in Seq(Kinds)
  BY EmptySeq
<1>4. QED
  BY <1>2, <1>3 DEF ResolvingOK, Idle

\* A request that goes on without the lock keeps the invariant when nothing else changes.
LEMMA GoesOn ==
  ASSUME DependenciesInv, NEW r \in Requests, NEW p, ResolvingOK(p),
         p.at # "initialize", resolving[r].at # "initialize",
         resolving' = [resolving EXCEPT ![r] = p],
         initErrors' \in 0..MaxInitErrors,
         UNCHANGED <<instance, busMade, holder, timesMade, subscribed>>
  PROVE  DependenciesInv'
<1>1. \A q \in Requests : resolving'[q] = IF q = r THEN p ELSE resolving[q]
  BY DEF DependenciesInv
<1>2. DOMAIN resolving' = Requests /\ resolving' = [q \in Requests |-> resolving'[q]]
  BY DEF DependenciesInv
<1>3. LockHeld'
  BY <1>1 DEF DependenciesInv, LockHeld
<1>4. SubscribedOnce'
  BY <1>1 DEF DependenciesInv, SubscribedOnce, Need
<1>5. MadeOnce'
  BY DEF DependenciesInv, MadeOnce
<1>6. QED
  BY <1>1, <1>2, <1>3, <1>4, <1>5 DEF DependenciesInv

LEMMA DependenciesNextKeeps ==
  ASSUME DependenciesInv, [DependenciesNext]_dependencyVars
  PROVE  DependenciesInv'
<1>1. CASE UNCHANGED dependencyVars
  BY <1>1 DEF dependencyVars, DependenciesInv, LockHeld, MadeOnce, SubscribedOnce, Need
<1>2. ASSUME NEW r \in Requests, NEW e \in Endpoints, Ask(r, e) PROVE DependenciesInv'
  <2> DEFINE p == [needs |-> e, at |-> "look"]
  <2>1. ResolvingOK(p) /\ p.at = "look"
    BY EndpointType DEF ResolvingOK
  <2> HIDE DEF p
  <2>2. resolving' = [resolving EXCEPT ![r] = p] /\ resolving[r].at # "initialize"
    BY <1>2 DEF Ask, p
  <2>3. QED
    BY <1>2, <2>1, <2>2, GoesOn DEF Ask, DependenciesInv
<1>3. ASSUME NEW r \in Requests, resolving[r].at # "idle"
      PROVE  /\ ResolvingOK(resolving[r]) /\ resolving[r].needs # << >>
             /\ Need(r) \in Kinds
  BY <1>3, AdvanceType DEF DependenciesInv, ResolvingOK, Need
<1>4. ASSUME NEW r \in Requests, resolving[r].at # "idle", Advance(r)
      PROVE  \E p : ResolvingOK(p) /\ p.at \in {"idle", "look"}
                    /\ resolving' = [resolving EXCEPT ![r] = p]
  <2> DEFINE p == IF Tail(resolving[r].needs) = << >> THEN Idle
                  ELSE [needs |-> Tail(resolving[r].needs), at |-> "look"]
  <2>1. ResolvingOK(p)
    BY <1>3, <1>4, AdvanceType
  <2>2. p.at \in {"idle", "look"}
    BY DEF Idle
  <2>3. resolving' = [resolving EXCEPT ![r] = p]
    BY <1>4 DEF Advance
  <2>4. QED
    BY <2>1, <2>2, <2>3
<1>5. ASSUME NEW r \in Requests, resolving[r].at # "idle",
             NEW place \in {"wait", "initialize"}, Stand(r, place)
      PROVE  \E p : /\ ResolvingOK(p) /\ p.at = place /\ p.needs = resolving[r].needs
                    /\ resolving' = [resolving EXCEPT ![r] = p]
  <2> DEFINE p == [resolving[r] EXCEPT !.at = place]
  <2>1. ResolvingOK(p) /\ p.at = place /\ p.needs = resolving[r].needs
    BY <1>3, <1>5 DEF ResolvingOK
  <2>2. resolving' = [resolving EXCEPT ![r] = p]
    BY <1>5 DEF Stand
  <2>3. QED
    BY <2>1, <2>2
<1>6. ASSUME NEW r \in Requests, Look(r) PROVE DependenciesInv'
  <2>1. resolving[r].at = "look" /\ initErrors' \in 0..MaxInitErrors
    BY <1>6 DEF Look, DependenciesInv
  <2>2. PICK p : /\ ResolvingOK(p) /\ p.at \in {"idle", "look", "wait"}
                 /\ resolving' = [resolving EXCEPT ![r] = p]
    BY <1>4, <1>5, <1>6, <2>1 DEF Look
  <2>3. QED
    BY <1>6, <2>1, <2>2, GoesOn DEF Look
<1>7. ASSUME NEW r \in Requests, Lock(r) PROVE DependenciesInv'
  <2> DEFINE k == Need(r)
  <2>1. /\ resolving[r].at = "wait" /\ holder = Unlocked /\ k \in Kinds
        /\ initErrors' = initErrors /\ subscribed' = subscribed
    BY <1>3, <1>7 DEF Lock
  <2>2. \A q \in Requests : resolving[q].at # "initialize"
    BY <2>1, DependenciesAssumption DEF DependenciesInv, LockHeld
  <2>3. CASE instance[k] # "none"
    <3>1. Advance(r) /\ UNCHANGED <<instance, busMade, holder, timesMade>>
      BY <1>7, <2>3 DEF Lock, StillMissing
    <3>2. PICK p : /\ ResolvingOK(p) /\ p.at \in {"idle", "look"}
                   /\ resolving' = [resolving EXCEPT ![r] = p]
      BY <1>4, <2>1, <3>1
    <3>3. QED
      BY <2>1, <3>1, <3>2, GoesOn DEF DependenciesInv
  <2>4. CASE instance[k] = "none"
    <3>1. Make(r, k)
      BY <1>7, <2>4 DEF Lock, StillMissing
    <3>2. MadeOnce'
      <4>1. CASE k = "bus"
        <5>1. /\ timesMade' = IF busMade THEN timesMade ELSE [timesMade EXCEPT ![k] = @ + 1]
              /\ busMade' = TRUE /\ instance' = instance
          BY <3>1, <4>1 DEF Make
        <5>2. ~busMade => timesMade[k] = 0
          BY <4>1 DEF DependenciesInv, MadeOnce
        <5>3. timesMade' \in [Kinds -> {0, 1}]
          BY <2>1, <5>1, <5>2 DEF DependenciesInv, MadeOnce
        <5>4. \A q \in Kinds \ {"bus"} : timesMade'[q] = timesMade[q]
          BY <4>1, <5>1 DEF DependenciesInv, MadeOnce
        <5>5. QED
          BY <5>1, <5>3, <5>4 DEF DependenciesInv, MadeOnce
      <4>2. CASE k # "bus"
        <5>1. timesMade' = [timesMade EXCEPT ![k] = @ + 1] /\ busMade' = busMade
          BY <3>1, <4>2 DEF Make, DependenciesInv
        <5>2. timesMade[k] = 0
          BY <2>1, <2>4, <4>2 DEF DependenciesInv, MadeOnce
        <5>3. instance'[k] # "none" /\ \A q \in Kinds \ {k} : instance'[q] = instance[q]
          BY <2>1, <3>1, <4>2 DEF Make, DependenciesInv
        <5>4. QED
          BY <2>1, <4>2, <5>1, <5>2, <5>3 DEF DependenciesInv, MadeOnce, Kinds, Backends
      <4>3. QED
        BY <4>1, <4>2
    <3>3. CASE k \in {"storage", "runner"}
      <4>1. PICK p : /\ ResolvingOK(p) /\ p.at \in {"idle", "look"}
                     /\ resolving' = [resolving EXCEPT ![r] = p]
        BY <1>4, <2>1, <3>1, <3>3 DEF Make
      <4>2. /\ instance' = [instance EXCEPT ![k] = "ready"] /\ holder' = holder
            /\ busMade' \in BOOLEAN
        BY <3>1, <3>3 DEF Make, DependenciesInv
      <4>3. \A q \in Requests : resolving'[q] = IF q = r THEN p ELSE resolving[q]
        BY <4>1 DEF DependenciesInv
      <4>4. DOMAIN resolving' = Requests /\ resolving' = [q \in Requests |-> resolving'[q]]
        BY <4>1 DEF DependenciesInv
      <4>5. LockHeld'
        BY <2>1, <2>2, <4>1, <4>2, <4>3 DEF DependenciesInv, LockHeld
      <4>6. SubscribedOnce'
        BY <2>1, <2>2, <3>3, <4>1, <4>2, <4>3 DEF DependenciesInv, SubscribedOnce
      <4>7. QED
        BY <2>1, <3>2, <4>1, <4>2, <4>3, <4>4, <4>5, <4>6 DEF DependenciesInv
    <3>4. CASE k \notin {"storage", "runner"}
      <4>1. PICK p : /\ ResolvingOK(p) /\ p.at = "initialize" /\ p.needs = resolving[r].needs
                     /\ resolving' = [resolving EXCEPT ![r] = p]
        BY <1>5, <2>1, <3>1, <3>4 DEF Make
      <4>2. /\ instance' = IF k = "bus" THEN instance ELSE [instance EXCEPT ![k] = "made"]
            /\ holder' = r /\ busMade' \in BOOLEAN
        BY <3>1, <3>4 DEF Make, DependenciesInv
      <4>3. \A q \in Requests : resolving'[q] = IF q = r THEN p ELSE resolving[q]
        BY <4>1 DEF DependenciesInv
      <4>4. DOMAIN resolving' = Requests /\ resolving' = [q \in Requests |-> resolving'[q]]
        BY <4>1 DEF DependenciesInv
      <4>5. LockHeld'
        BY <2>1, <2>2, <4>1, <4>2, <4>3, DependenciesAssumption DEF DependenciesInv, LockHeld
      <4>6. instance' \in [Kinds -> {"none", "made", "ready"}]
        BY <4>2 DEF DependenciesInv
      <4>7. k = "evaluations" => instance'["evaluations"] = "made"
        BY <2>1, <4>2 DEF DependenciesInv
      <4>8. k # "evaluations" => instance'["evaluations"] = instance["evaluations"]
        BY <4>2 DEF DependenciesInv
      <4>9. SubscribedOnce'
        BY <2>1, <2>2, <2>4, <4>1, <4>2, <4>3, <4>7, <4>8
           DEF DependenciesInv, SubscribedOnce, Need
      <4>10. QED
        BY <2>1, <3>2, <4>1, <4>2, <4>3, <4>4, <4>5, <4>6, <4>9 DEF DependenciesInv
    <3>5. QED
      BY <3>3, <3>4
  <2>5. QED
    BY <2>3, <2>4
<1>8. ASSUME NEW r \in Requests, NEW p, ResolvingOK(p), p.at \in {"idle", "look"},
             resolving[r].at = "initialize",
             resolving' = [resolving EXCEPT ![r] = p], holder' = Unlocked,
             initErrors' \in 0..MaxInitErrors, UNCHANGED <<busMade, timesMade>>,
             \/ Need(r) # "evaluations" /\ UNCHANGED <<instance, subscribed>>
             \/ /\ instance' = [instance EXCEPT ![Need(r)] = "ready"]
                /\ subscribed' = IF Need(r) = "evaluations" THEN subscribed + 1 ELSE subscribed
      PROVE  DependenciesInv'
  <2>1. holder = r /\ \A q \in Requests \ {r} : resolving[q].at # "initialize"
    BY <1>8 DEF DependenciesInv, LockHeld
  <2>2. \A q \in Requests : resolving'[q] = IF q = r THEN p ELSE resolving[q]
    BY <1>8 DEF DependenciesInv
  <2>3. DOMAIN resolving' = Requests /\ resolving' = [q \in Requests |-> resolving'[q]]
    BY <1>8 DEF DependenciesInv
  <2>4. LockHeld'
    BY <1>8, <2>1, <2>2, DependenciesAssumption DEF LockHeld
  <2>5. Need(r) \in Kinds
    BY <1>3, <1>8
  <2>6. instance' \in [Kinds -> {"none", "made", "ready"}]
    BY <1>8 DEF DependenciesInv
  <2>7. \A k \in Kinds : instance'[k] = "none" => instance[k] = "none"
    BY <1>8, <2>5 DEF DependenciesInv
  <2>8. MadeOnce'
    BY <1>8, <2>7 DEF DependenciesInv, MadeOnce
  <2>9. \A q \in Requests : resolving'[q].at # "initialize"
    BY <1>8, <2>1, <2>2
  <2>10. "evaluations" \in Kinds
    BY DEF Kinds, Managers
  <2>11. CASE Need(r) = "evaluations"
    <3>1. instance["evaluations"] = "made" /\ subscribed = 0
      BY <1>8, <2>11 DEF DependenciesInv, SubscribedOnce
    <3>2. instance'["evaluations"] = "ready" /\ subscribed' = 1
      BY <1>8, <2>10, <2>11, <3>1 DEF DependenciesInv
    <3>3. SubscribedOnce'
      BY <2>9, <3>2 DEF SubscribedOnce
    <3>4. QED
      BY <1>8, <2>2, <2>3, <2>4, <2>6, <2>8, <3>3 DEF DependenciesInv
  <2>12. CASE Need(r) # "evaluations"
    <3>1. instance'["evaluations"] = instance["evaluations"] /\ subscribed' = subscribed
      BY <1>8, <2>10, <2>12 DEF DependenciesInv
    <3>2. SubscribedOnce'
      BY <2>9, <3>1 DEF DependenciesInv, SubscribedOnce
    <3>3. QED
      BY <1>8, <2>2, <2>3, <2>4, <2>6, <2>8, <3>2 DEF DependenciesInv
  <2>13. QED
    BY <2>11, <2>12
<1>9. ASSUME NEW r \in Requests, Initialize(r) PROVE DependenciesInv'
  <2>1. PICK p : /\ ResolvingOK(p) /\ p.at \in {"idle", "look"}
                 /\ resolving' = [resolving EXCEPT ![r] = p]
    BY <1>4, <1>9 DEF Initialize
  <2>2. QED
    BY <1>8, <1>9, <2>1 DEF Initialize, DependenciesInv
<1>10. ASSUME NEW r \in Requests, InitializeFails(r) PROVE DependenciesInv'
  <2>1. ResolvingOK(Idle) /\ Idle.at \in {"idle", "look"}
    BY DEF ResolvingOK, Idle
  <2>2. initErrors' \in 0..MaxInitErrors
    BY <1>10, DependenciesAssumption DEF InitializeFails, DependenciesInv
  <2>3. QED
    BY <1>8, <1>10, <2>1, <2>2 DEF InitializeFails
<1>11. QED
  BY <1>1, <1>2, <1>6, <1>7, <1>9, <1>10 DEF DependenciesNext

\* However many requests meet an API that has just started, a process makes one instance
\* of each backend and manager, and subscribes once to the events of evaluations.
THEOREM OneInstanceForAll == DependenciesSpec => []OneInstanceEach
<1>1. DependenciesInit => DependenciesInv
  <2> SUFFICES ASSUME DependenciesInit PROVE DependenciesInv
    OBVIOUS
  <2>1. ResolvingOK(Idle) /\ Idle.at = "idle"
    BY DEF ResolvingOK, Idle
  <2>2. \A r \in Requests : resolving[r] = Idle
    BY DEF DependenciesInit
  <2>3. "evaluations" \in Kinds
    BY DEF Kinds, Managers
  <2>4. LockHeld /\ MadeOnce /\ SubscribedOnce
    BY <2>1, <2>2, <2>3, DependenciesAssumption
       DEF DependenciesInit, LockHeld, MadeOnce, SubscribedOnce, Kinds, Backends, Managers
  <2>5. instance \in [Kinds -> {"none", "made", "ready"}]
    BY DEF DependenciesInit, Kinds
  <2>6. DOMAIN resolving = Requests /\ resolving = [r \in Requests |-> resolving[r]]
    BY DEF DependenciesInit
  <2>7. initErrors \in 0..MaxInitErrors /\ busMade \in BOOLEAN
    <3>1. MaxInitErrors \in Nat /\ initErrors = 0
      BY DependenciesAssumption DEF DependenciesInit
    <3>2. initErrors \in 0..MaxInitErrors
      BY <3>1
    <3>3. QED
      BY <3>2 DEF DependenciesInit
  <2>8. QED
    BY <2>1, <2>2, <2>4, <2>5, <2>6, <2>7 DEF DependenciesInv
<1>2. DependenciesInv /\ [DependenciesNext]_dependencyVars => DependenciesInv'
  BY DependenciesNextKeeps
<1>3. DependenciesInv => OneInstanceEach
  BY DEF DependenciesInv, MadeOnce, SubscribedOnce, OneInstanceEach
<1>4. QED
  BY <1>1, <1>2, <1>3, PTL DEF DependenciesSpec

--------------------------------------------------------------------------------
(* The sockets                                                                 *)

BroadcastRecord ==
  [event : 0..MaxEvents, topics : SUBSET Topics, todo : SUBSET Sockets, notified : SUBSET Sockets]

\* A broadcast has an event of its own, which only the sockets it has notified have got.
BroadcastsApart ==
  /\ broadcast \in [Broadcasters -> BroadcastRecord]
  /\ events \in 0..MaxEvents
  /\ \A b \in Broadcasters : broadcast[b].event <= events
  /\ \A b \in Broadcasters : broadcast[b].event = 0 => broadcast[b].todo = {}
  /\ \A b, c \in Broadcasters :
       b # c /\ broadcast[b].event = broadcast[c].event => broadcast[b].event = 0

GotByNotified ==
  /\ got \in [Sockets -> [1..MaxEvents -> {0, 1}]]
  /\ \A s \in Sockets, e \in 1..MaxEvents : e > events => got[s][e] = 0
  /\ \A s \in Sockets, b \in Broadcasters :
       broadcast[b].event # 0 /\ s \notin broadcast[b].notified =>
         got[s][broadcast[b].event] = 0

\* A socket that has not connected has no record, so that it may start an empty one.
NewIsUnknown ==
  /\ DOMAIN endpoint = Sockets
  /\ \A s \in Sockets : endpoint[s] = "new" => ~Registered(s)

SocketInv ==
  /\ BroadcastsApart /\ GotByNotified
  /\ topicSockets \in [Topics -> SUBSET Sockets]
  /\ socketTopics \in [Sockets -> (SUBSET Topics) \cup {NoEntry}]
  /\ inbox \in [Sockets -> Message \cup {NoMessage}]
  /\ NewIsUnknown /\ MapsAgree

\* What the invariant says of broadcasts.
BroadcastVars == <<broadcast, events, got>>

\* The fields of a broadcast, and its event if there is one.
LEMMA BroadcastFields ==
  ASSUME NEW r \in BroadcastRecord
  PROVE  /\ r.event \in Nat /\ (r.event # 0 => r.event \in 1..MaxEvents)
         /\ r.topics \in SUBSET Topics /\ r.todo \in SUBSET Sockets
         /\ r.notified \in SUBSET Sockets
<1>1. MaxEvents \in Nat
  BY SocketAssumption
<1>2. r.event \in 0..MaxEvents /\ r.topics \in SUBSET Topics /\ r.todo \in SUBSET Sockets
      /\ r.notified \in SUBSET Sockets
  BY DEF BroadcastRecord
<1>3. QED
  BY <1>1, <1>2

\* A step without a broadcast keeps what is said of them.
LEMMA BroadcastsKept ==
  ASSUME SocketInv, UNCHANGED BroadcastVars
  PROVE  BroadcastsApart' /\ GotByNotified'
BY DEF SocketInv, BroadcastVars, BroadcastsApart, GotByNotified

\* A step without a change to the maps and the endpoints keeps what is said of those.
LEMMA MapsKept ==
  ASSUME SocketInv, UNCHANGED <<endpoint, inbox, topicSockets, socketTopics, late>>
  PROVE  /\ topicSockets' \in [Topics -> SUBSET Sockets]
         /\ socketTopics' \in [Sockets -> (SUBSET Topics) \cup {NoEntry}]
         /\ inbox' \in [Sockets -> Message \cup {NoMessage}]
         /\ NewIsUnknown' /\ MapsAgree'
BY DEF SocketInv, NewIsUnknown, MapsAgree, Registered

\* A disconnection forgets the socket in both maps, and no other.
LEMMA DisconnectKeeps ==
  ASSUME SocketInv, NEW s \in Sockets, Disconnect(s), late' = late,
         DOMAIN endpoint' = Sockets,
         \A q \in Sockets : endpoint'[q] = "new" => endpoint[q] = "new"
  PROVE  /\ topicSockets' \in [Topics -> SUBSET Sockets]
         /\ socketTopics' \in [Sockets -> (SUBSET Topics) \cup {NoEntry}]
         /\ NewIsUnknown' /\ MapsAgree'
<1>1. /\ topicSockets' \in [Topics -> SUBSET Sockets]
      /\ socketTopics' \in [Sockets -> (SUBSET Topics) \cup {NoEntry}]
  <2>1. \A t \in Topics : topicSockets[t] \in SUBSET Sockets
    BY DEF SocketInv
  <2>2. topicSockets' \in [Topics -> SUBSET Sockets]
    BY <2>1 DEF Disconnect
  <2>3. socketTopics' = [socketTopics EXCEPT ![s] = NoEntry]
    BY DEF Disconnect
  <2>4. socketTopics' \in [Sockets -> (SUBSET Topics) \cup {NoEntry}]
    BY <2>3 DEF SocketInv
  <2>5. QED
    BY <2>2, <2>4
<1>2. ~Registered(s)' /\ \A q \in Sockets \ {s} : socketTopics'[q] = socketTopics[q]
  BY DEF SocketInv, Disconnect, Registered
<1>3. NewIsUnknown'
  BY <1>2 DEF SocketInv, NewIsUnknown, Registered
<1>4. \A q \in Sockets, t \in Topics :
        q \in topicSockets'[t] <=> q \in topicSockets[t] /\ ~(q = s /\ Registered(s) /\ t \in socketTopics[s])
  BY DEF SocketInv, Disconnect
<1>5. MapsAgree'
  BY <1>2, <1>4 DEF SocketInv, MapsAgree, Registered
<1>6. QED
  BY <1>1, <1>3, <1>5

\* Every step of a client, of the endpoint of its socket and of a broadcast keeps the
\* invariant.
LEMMA SocketNextKeeps ==
  ASSUME SocketInv, [SocketNext]_socketVars
  PROVE  SocketInv'
<1>1. CASE UNCHANGED socketVars
  BY <1>1, BroadcastsKept, MapsKept DEF socketVars, BroadcastVars, SocketInv
<1>2. ASSUME NEW s \in Sockets, Connect(s) PROVE SocketInv'
  <2>1. ~Registered(s) /\ endpoint' = [endpoint EXCEPT ![s] = "receiving"]
    BY <1>2 DEF Connect, SocketInv, NewIsUnknown
  <2>2. /\ socketTopics' \in [Sockets -> (SUBSET Topics) \cup {NoEntry}]
        /\ socketTopics'[s] = {} /\ \A q \in Sockets \ {s} : socketTopics'[q] = socketTopics[q]
    BY <1>2 DEF Connect, SocketInv
  <2>3. NewIsUnknown'
    BY <2>1, <2>2 DEF SocketInv, NewIsUnknown, Registered
  <2>4. MapsAgree'
    BY <1>2, <2>1, <2>2 DEF Connect, SocketInv, MapsAgree, Registered
  <2>5. BroadcastsApart' /\ GotByNotified'
    BY <1>2, BroadcastsKept DEF Connect, BroadcastVars
  <2>6. QED
    BY <1>2, <2>2, <2>3, <2>4, <2>5 DEF Connect, SocketInv
<1>3. ASSUME NEW s \in Sockets, ClientSends(s) PROVE SocketInv'
  <2>1. inbox' \in [Sockets -> Message \cup {NoMessage}]
    BY <1>3 DEF ClientSends, SocketInv
  <2>2. NewIsUnknown' /\ MapsAgree'
    BY <1>3 DEF ClientSends, SocketInv, NewIsUnknown, MapsAgree, Registered
  <2>3. BroadcastsApart' /\ GotByNotified'
    BY <1>3, BroadcastsKept DEF ClientSends, BroadcastVars
  <2>4. QED
    BY <1>3, <2>1, <2>2, <2>3 DEF ClientSends, SocketInv
<1>4. ASSUME NEW s \in Sockets, ClientLeaves(s) PROVE SocketInv'
  BY <1>4, BroadcastsKept, MapsKept DEF ClientLeaves, BroadcastVars, SocketInv
<1>5. ASSUME NEW s \in Sockets, Receive(s) PROVE SocketInv'
  <2> DEFINE t == inbox[s].topic
  <2>1. inbox[s] \in Message /\ t \in Topics
    BY <1>5 DEF Receive, SocketInv, Message, NoMessage
  <2>2. inbox' \in [Sockets -> Message \cup {NoMessage}]
    BY <1>5 DEF Receive, SocketInv
  <2> HIDE DEF t
  <2>3. /\ topicSockets' = [topicSockets EXCEPT ![t] = @ \cup {s}]
        /\ socketTopics' = [socketTopics EXCEPT ![s] = IF Registered(s) THEN @ \cup {t} ELSE @]
        /\ endpoint' = [endpoint EXCEPT ![s] = "replying"]
        /\ endpoint[s] # "new"
        /\ late' = IF Registered(s) THEN late ELSE late \cup {s}
    BY <1>5 DEF Receive, Subscribe, t
  <2>4. topicSockets' \in [Topics -> SUBSET Sockets]
    BY <2>1, <2>3 DEF SocketInv
  <2>5. Registered(s) => /\ socketTopics[s] \in SUBSET Topics
                         /\ socketTopics'[s] = socketTopics[s] \cup {t}
                         /\ socketTopics'[s] \in SUBSET Topics
    <3>1. socketTopics \in [Sockets -> (SUBSET Topics) \cup {NoEntry}]
      BY DEF SocketInv
    <3>2. Registered(s) => socketTopics[s] \in SUBSET Topics
      BY <3>1 DEF Registered
    <3>3. Registered(s) => socketTopics'[s] = socketTopics[s] \cup {t}
      BY <2>3, <3>1
    <3>4. Registered(s) => socketTopics[s] \cup {t} \in SUBSET Topics
      BY <2>1, <3>2
    <3>5. QED
      BY <3>2, <3>3, <3>4
  <2>6. /\ ~Registered(s) => socketTopics'[s] = socketTopics[s]
        /\ \A q \in Sockets \ {s} : socketTopics'[q] = socketTopics[q]
        /\ DOMAIN socketTopics' = Sockets /\ socketTopics' = [q \in Sockets |-> socketTopics'[q]]
    BY <2>3 DEF SocketInv
  <2>7. socketTopics' \in [Sockets -> (SUBSET Topics) \cup {NoEntry}]
    BY <2>5, <2>6 DEF SocketInv, Registered
  <2>8. NewIsUnknown'
    BY <2>3, <2>6 DEF SocketInv, NewIsUnknown, Registered
  <2>9. \A q \in Sockets, u \in Topics :
          q \in topicSockets'[u] <=> q \in topicSockets[u] \/ (q = s /\ u = t)
    BY <2>1, <2>3 DEF SocketInv
  <2>10. Registered(s) => Registered(s)'
    BY <2>5, SocketAssumption DEF Registered, NoEntry, Topics
  <2>11. ASSUME NEW q \in Sockets \ late', NEW u \in Topics
         PROVE  q \in topicSockets'[u] <=> Registered(q)' /\ u \in socketTopics'[q]
    <3>1. q \in Sockets \ late
      BY <2>3, <2>11
    <3>2. q \in topicSockets[u] <=> Registered(q) /\ u \in socketTopics[q]
      BY <3>1 DEF SocketInv, MapsAgree
    <3>3. CASE q = s
      <4>1. Registered(s)
        BY <2>3, <2>11, <3>3
      <4>2. QED
        BY <2>5, <2>9, <2>10, <3>2, <3>3, <4>1
    <3>4. CASE q # s
      BY <2>6, <2>9, <3>2, <3>4 DEF Registered
    <3>5. QED
      BY <3>3, <3>4
  <2>12. MapsAgree'
    BY <2>11 DEF MapsAgree
  <2>13. BroadcastsApart' /\ GotByNotified'
    BY <1>5, BroadcastsKept DEF Receive, BroadcastVars
  <2>14. QED
    BY <2>2, <2>4, <2>7, <2>8, <2>12, <2>13 DEF SocketInv
<1>6. ASSUME NEW s \in Sockets, Reply(s) PROVE SocketInv'
  <2>1. NewIsUnknown' /\ MapsAgree'
    BY <1>6 DEF Reply, SocketInv, NewIsUnknown, MapsAgree, Registered
  <2>2. BroadcastsApart' /\ GotByNotified'
    BY <1>6, BroadcastsKept DEF Reply, BroadcastVars
  <2>3. QED
    BY <1>6, <2>1, <2>2 DEF Reply, SocketInv
<1>7. ASSUME NEW s \in Sockets, EndpointEnds(s) PROVE SocketInv'
  <2>1. /\ DOMAIN endpoint' = Sockets
        /\ \A q \in Sockets : endpoint'[q] = "new" => endpoint[q] = "new"
    BY <1>7 DEF EndpointEnds, SocketInv, NewIsUnknown
  <2>2. BroadcastsApart' /\ GotByNotified'
    BY <1>7, BroadcastsKept DEF EndpointEnds, BroadcastVars
  <2>3. QED
    BY <1>7, <2>1, <2>2, DisconnectKeeps DEF EndpointEnds, SocketInv
<1>8. ASSUME NEW b \in Broadcasters, BeginBroadcast(b) PROVE SocketInv'
  <2>1. PICK topics \in SUBSET Topics :
          broadcast' = [broadcast EXCEPT ![b] =
                          [event |-> events + 1, topics |-> topics, todo |-> {}, notified |-> {}]]
    <3>1. PICK topics \in EventTopics :
            broadcast' = [broadcast EXCEPT ![b] =
                            [event |-> events + 1, topics |-> topics, todo |-> {}, notified |-> {}]]
      BY <1>8 DEF BeginBroadcast
    <3>2. topics \in SUBSET Topics
      <4>1. CASE topics \in {{t} : t \in Topics}
        BY <4>1
      <4>2. CASE topics \in {{p, t} : p \in Projects, t \in Trajectories}
        <5>1. PICK p \in Projects, t \in Trajectories : topics = {p, t}
          BY <4>2
        <5>2. QED
          BY <5>1 DEF Topics
      <4>3. QED
        BY <4>1, <4>2 DEF EventTopics
    <3>3. QED
      BY <3>1, <3>2
  <2> DEFINE r == [event |-> events + 1, topics |-> topics, todo |-> {}, notified |-> {}]
  <2>2. broadcast' = [broadcast EXCEPT ![b] = r]
    BY <2>1
  <2>3. /\ events \in Nat /\ events < MaxEvents /\ events' = events + 1
        /\ events + 1 \in 1..MaxEvents /\ got' = got
    <3>1. MaxEvents \in Nat /\ events \in 0..MaxEvents
      BY SocketAssumption DEF SocketInv, BroadcastsApart
    <3>2. events < MaxEvents /\ events' = events + 1 /\ got' = got
      BY <1>8 DEF BeginBroadcast
    <3>3. QED
      BY <3>1, <3>2
  <2>4. r \in BroadcastRecord
    <3>1. events + 1 \in 0..MaxEvents
      BY <2>3
    <3>2. QED
      BY <3>1 DEF BroadcastRecord
  <2>5. r.event = events + 1 /\ r.todo = {} /\ r.notified = {}
    OBVIOUS
  <2> HIDE DEF r
  <2>6. /\ broadcast' \in [Broadcasters -> BroadcastRecord]
        /\ broadcast'[b] = r /\ \A c \in Broadcasters \ {b} : broadcast'[c] = broadcast[c]
    BY <2>2, <2>4 DEF SocketInv, BroadcastsApart
  <2>7. \A c \in Broadcasters : broadcast[c].event \in Nat /\ broadcast[c].event <= events
    BY BroadcastFields DEF SocketInv, BroadcastsApart
  <2>8. BroadcastsApart'
    <3>1. events' \in 0..MaxEvents
      BY <2>3
    <3>2. ASSUME NEW c \in Broadcasters PROVE broadcast'[c].event <= events'
      <4>1. CASE c = b
        BY <2>3, <2>5, <2>6, <4>1
      <4>2. CASE c # b
        <5>1. broadcast'[c].event = broadcast[c].event
          BY <2>6, <4>2
        <5>2. broadcast[c].event \in Nat /\ broadcast[c].event <= events
          BY <2>7
        <5>3. QED
          BY <2>3, <5>1, <5>2
      <4>3. QED
        BY <4>1, <4>2
    <3>3. \A c \in Broadcasters : broadcast'[c].event = 0 => broadcast'[c].todo = {}
      BY <2>5, <2>6 DEF SocketInv, BroadcastsApart
    <3>4. ASSUME NEW c \in Broadcasters \ {b} PROVE broadcast'[c].event # events + 1
      <4>1. broadcast'[c].event = broadcast[c].event
        BY <2>6
      <4>2. broadcast[c].event \in Nat /\ broadcast[c].event <= events
        BY <2>7
      <4>3. QED
        BY <2>3, <4>1, <4>2
    <3>5. ASSUME NEW c \in Broadcasters, NEW d \in Broadcasters, c # d,
                 broadcast'[c].event = broadcast'[d].event
          PROVE  broadcast'[c].event = 0
      <4>1. c # b /\ d # b
        BY <2>5, <2>6, <3>4, <3>5
      <4>2. QED
        BY <2>6, <3>5, <4>1 DEF SocketInv, BroadcastsApart
    <3>6. QED
      BY <2>6, <3>1, <3>2, <3>3, <3>5 DEF BroadcastsApart
  <2>9. GotByNotified'
    <3>1. ASSUME NEW s \in Sockets, NEW e \in 1..MaxEvents, e > events'
          PROVE  got'[s][e] = 0
      BY <2>3, <3>1 DEF SocketInv, GotByNotified
    <3>2. ASSUME NEW s \in Sockets, NEW c \in Broadcasters,
                 broadcast'[c].event # 0, s \notin broadcast'[c].notified
          PROVE  got'[s][broadcast'[c].event] = 0
      <4>1. CASE c = b
        <5>1. broadcast'[c].event = events + 1 /\ events + 1 > events
          BY <2>3, <2>5, <2>6, <4>1
        <5>2. QED
          BY <2>3, <5>1 DEF SocketInv, GotByNotified
      <4>2. CASE c # b
        BY <2>3, <2>6, <3>2, <4>2 DEF SocketInv, GotByNotified
      <4>3. QED
        BY <4>1, <4>2
    <3>3. QED
      BY <2>3, <3>1, <3>2 DEF SocketInv, GotByNotified
  <2>10. QED
    BY <1>8, <2>8, <2>9, MapsKept DEF BeginBroadcast, SocketInv
<1>9. ASSUME NEW b \in Broadcasters, SendEvent(b) PROVE SocketInv'
  <2>1. PICK s \in broadcast[b].todo :
          /\ broadcast' = [broadcast EXCEPT ![b].todo = @ \ {s},
                             ![b].notified = IF s \in alive THEN @ \cup {s} ELSE @]
          /\ got' = IF s \in alive /\ ~Skipped(b, s)
                    THEN [got EXCEPT ![s][broadcast[b].event] = @ + 1] ELSE got
          /\ IF s \in alive \/ Skipped(b, s) THEN UNCHANGED <<topicSockets, socketTopics>>
                                             ELSE Disconnect(s)
    BY <1>9 DEF SendEvent
  <2>2. /\ s \in Sockets /\ broadcast[b].event # 0
        /\ broadcast[b].event \in 1..MaxEvents
    <3>1. broadcast[b] \in BroadcastRecord /\ broadcast[b].event # 0
      BY <2>1 DEF SocketInv, BroadcastsApart
    <3>2. QED
      BY <2>1, <3>1, BroadcastFields
  <2>3. UNCHANGED <<endpoint, alive, inbox, sent, events, late>>
    BY <1>9 DEF SendEvent
  <2>4. /\ topicSockets' \in [Topics -> SUBSET Sockets]
        /\ socketTopics' \in [Sockets -> (SUBSET Topics) \cup {NoEntry}]
        /\ NewIsUnknown' /\ MapsAgree'
    <3>1. CASE UNCHANGED <<topicSockets, socketTopics>>
      BY <2>3, <3>1, MapsKept
    <3>2. CASE Disconnect(s)
      BY <2>2, <2>3, <3>2, DisconnectKeeps DEF SocketInv, NewIsUnknown
    <3>3. QED
      BY <2>1, <3>1, <3>2
  <2>5. /\ broadcast' \in [Broadcasters -> BroadcastRecord]
        /\ \A c \in Broadcasters : /\ broadcast'[c].event = broadcast[c].event
                                   /\ broadcast'[c].todo \subseteq broadcast[c].todo
        /\ \A c \in Broadcasters \ {b} : broadcast'[c] = broadcast[c]
        /\ broadcast'[b].notified = IF s \in alive THEN broadcast[b].notified \cup {s}
                                    ELSE broadcast[b].notified
    <3> DEFINE r == [broadcast[b] EXCEPT !.todo = @ \ {s},
                       !.notified = IF s \in alive THEN @ \cup {s} ELSE @]
    <3>1. broadcast[b] \in BroadcastRecord /\ broadcast \in [Broadcasters -> BroadcastRecord]
      BY DEF SocketInv, BroadcastsApart
    <3>2. /\ r.event = broadcast[b].event /\ r.todo \subseteq broadcast[b].todo
          /\ r.notified = IF s \in alive THEN broadcast[b].notified \cup {s}
                          ELSE broadcast[b].notified
      BY <3>1 DEF BroadcastRecord
    <3>3. r \in BroadcastRecord
      BY <2>2, <3>1 DEF BroadcastRecord
    <3>4. broadcast' = [broadcast EXCEPT ![b] = r]
      BY <2>1, <3>1
    <3> HIDE DEF r
    <3>5. QED
      BY <3>1, <3>2, <3>3, <3>4
  <2>6. BroadcastsApart'
    BY <2>3, <2>5 DEF SocketInv, BroadcastsApart
  <2>7. GotByNotified'
    <3>1. CASE ~(s \in alive /\ ~Skipped(b, s))
      <4>1. got' = got /\ broadcast[b].notified \subseteq broadcast'[b].notified
        BY <2>1, <2>5, <3>1
      <4>2. QED
        BY <2>3, <2>5, <4>1 DEF SocketInv, GotByNotified
    <3>2. CASE s \in alive /\ ~Skipped(b, s)
      <4> DEFINE e == broadcast[b].event
      <4>1. got[s][e] = 0 /\ got' = [got EXCEPT ![s][e] = @ + 1]
        BY <2>1, <2>2, <3>2 DEF SocketInv, GotByNotified, Skipped
      <4>2. /\ got' \in [Sockets -> [1..MaxEvents -> {0, 1}]]
            /\ \A q \in Sockets, d \in 1..MaxEvents :
                 q # s \/ d # e => got'[q][d] = got[q][d]
        BY <2>2, <4>1 DEF SocketInv, GotByNotified
      <4>3. e <= events /\ e \in Nat /\ events \in Nat
        BY <2>2 DEF SocketInv, BroadcastsApart
      <4>4. \A c \in Broadcasters \ {b} : broadcast[c].event # e
        BY <2>2 DEF SocketInv, BroadcastsApart
      <4>5. s \in broadcast'[b].notified /\ broadcast[b].notified \subseteq broadcast'[b].notified
        BY <2>5, <3>2
      <4>6. \A c \in Broadcasters : broadcast[c].event # 0 => broadcast[c].event \in 1..MaxEvents
        BY BroadcastFields DEF SocketInv, BroadcastsApart
      <4> HIDE DEF e
      <4>7. ASSUME NEW q \in Sockets, NEW d \in 1..MaxEvents, d > events'
            PROVE  got'[q][d] = 0
        BY <2>3, <4>2, <4>3, <4>7 DEF SocketInv, GotByNotified
      <4>8. ASSUME NEW q \in Sockets, NEW c \in Broadcasters,
                   broadcast'[c].event # 0, q \notin broadcast'[c].notified
            PROVE  got'[q][broadcast'[c].event] = 0
        <5>1. CASE c = b
          <6>1. q # s /\ q \notin broadcast[b].notified
            BY <4>5, <4>8, <5>1
          <6>2. got'[q][broadcast[c].event] = got[q][broadcast[c].event]
            BY <2>5, <4>2, <4>6, <4>8, <6>1
          <6>3. QED
            BY <2>5, <4>8, <5>1, <6>1, <6>2 DEF SocketInv, GotByNotified
        <5>2. CASE c # b
          BY <2>5, <4>2, <4>4, <4>6, <4>8, <5>2 DEF SocketInv, GotByNotified
        <5>3. QED
          BY <5>1, <5>2
      <4>9. QED
        BY <4>2, <4>7, <4>8 DEF GotByNotified
    <3>3. QED
      BY <3>1, <3>2
  <2>8. QED
    BY <2>3, <2>4, <2>6, <2>7 DEF SocketInv
<1>10. ASSUME NEW b \in Broadcasters, NextTopic(b) PROVE SocketInv'
  <2>1. /\ UNCHANGED <<endpoint, inbox, topicSockets, socketTopics, late, events, got>>
        /\ broadcast[b].event # 0
    BY <1>10 DEF NextTopic
  <2>2. \A t \in Topics : topicSockets[t] \in SUBSET Sockets
    BY DEF SocketInv
  <2>3. \E r \in BroadcastRecord :
          /\ broadcast' = [broadcast EXCEPT ![b] = r]
          /\ \/ r.event = 0 /\ r.todo = {}
             \/ r.event = broadcast[b].event /\ r.notified = broadcast[b].notified
    <3>1. broadcast[b] \in BroadcastRecord
      BY DEF SocketInv, BroadcastsApart
    <3>2. CASE broadcast' = [broadcast EXCEPT ![b] = Resting]
      <4>1. Resting \in BroadcastRecord
        <5>1. 0 \in 0..MaxEvents
          <6>1. MaxEvents \in Nat
            BY SocketAssumption
          <6>2. QED
            BY <6>1
        <5>2. QED
          BY <5>1 DEF Resting, BroadcastRecord
      <4>2. QED
        BY <3>2, <4>1 DEF Resting
    <3>3. CASE \E t \in Topics :
                 broadcast' = [broadcast EXCEPT ![b].topics = @ \ {t}, ![b].todo = topicSockets[t]]
      <4>1. PICK t \in Topics :
              broadcast' = [broadcast EXCEPT ![b].topics = @ \ {t}, ![b].todo = topicSockets[t]]
        BY <3>3
      <4> DEFINE r == [broadcast[b] EXCEPT !.topics = @ \ {t}, !.todo = topicSockets[t]]
      <4>2. /\ r \in BroadcastRecord
            /\ r.event = broadcast[b].event /\ r.notified = broadcast[b].notified
        BY <2>2, <3>1 DEF BroadcastRecord
      <4>3. broadcast' = [broadcast EXCEPT ![b] = r]
        BY <4>1 DEF SocketInv, BroadcastsApart
      <4> HIDE DEF r
      <4>4. QED
        BY <4>2, <4>3
    <3>4. QED
      <4> DEFINE topics == broadcast[b].topics
      <4>1. \/ \E t \in IF topics \subseteq Trajectories THEN topics ELSE topics \cap Projects :
                 broadcast' = [broadcast EXCEPT ![b].topics = @ \ {t}, ![b].todo = topicSockets[t]]
            \/ topics = {} /\ broadcast' = [broadcast EXCEPT ![b] = Resting]
        BY <1>10 DEF NextTopic
      <4>2. (IF topics \subseteq Trajectories THEN topics ELSE topics \cap Projects)
              \subseteq Topics
        BY <3>1 DEF BroadcastRecord
      <4>3. QED
        BY <3>2, <3>3, <4>1, <4>2
  <2>4. PICK r \in BroadcastRecord :
          /\ broadcast' = [broadcast EXCEPT ![b] = r]
          /\ \/ r.event = 0 /\ r.todo = {}
             \/ r.event = broadcast[b].event /\ r.notified = broadcast[b].notified
    BY <2>3
  <2>5. /\ broadcast' \in [Broadcasters -> BroadcastRecord]
        /\ broadcast'[b] = r /\ \A c \in Broadcasters \ {b} : broadcast'[c] = broadcast[c]
    BY <2>4 DEF SocketInv, BroadcastsApart
  <2>6. BroadcastsApart'
    BY <2>1, <2>4, <2>5 DEF SocketInv, BroadcastsApart
  <2>7. GotByNotified'
    BY <2>1, <2>4, <2>5 DEF SocketInv, GotByNotified
  <2>8. QED
    BY <2>1, <2>6, <2>7, MapsKept DEF SocketInv
<1>11. QED
  BY <1>1, <1>2, <1>3, <1>4, <1>5, <1>6, <1>7, <1>8, <1>9, <1>10 DEF SocketNext

\* However sockets come, subscribe and go while events are broadcast, a client gets an
\* event once, and the maps of topics and of sockets agree and forget a socket together.
THEOREM SubscriptionsAlwaysHold == SocketSpec => []SubscriptionsHold
<1>1. SocketInit => SocketInv
  <2> SUFFICES ASSUME SocketInit PROVE SocketInv
    OBVIOUS
  <2>1. BroadcastsApart
    <3>1. 0 \in 0..MaxEvents /\ 0 <= 0
      <4>1. MaxEvents \in Nat
        BY SocketAssumption
      <4>2. QED
        BY <4>1
    <3>2. Resting \in BroadcastRecord /\ Resting.event = 0 /\ Resting.todo = {}
      BY <3>1 DEF Resting, BroadcastRecord
    <3>3. QED
      BY <3>1, <3>2 DEF SocketInit, BroadcastsApart
  <2>2. GotByNotified
    BY DEF SocketInit, Resting, GotByNotified
  <2>3. \A s \in Sockets : ~Registered(s)
    BY DEF SocketInit, Registered
  <2>4. NewIsUnknown /\ MapsAgree
    BY <2>3 DEF SocketInit, NewIsUnknown, MapsAgree
  <2>5. QED
    <3>1. /\ topicSockets \in [Topics -> SUBSET Sockets]
          /\ socketTopics \in [Sockets -> (SUBSET Topics) \cup {NoEntry}]
          /\ inbox \in [Sockets -> Message \cup {NoMessage}]
      BY DEF SocketInit
    <3>2. QED
      BY <2>1, <2>2, <2>4, <3>1 DEF SocketInv
<1>2. SocketInv /\ [SocketNext]_socketVars => SocketInv'
  BY SocketNextKeeps
<1>3. SocketInv => SubscriptionsHold
  <2> SUFFICES ASSUME SocketInv PROVE GotOnce
    BY DEF SocketInv, SubscriptionsHold
  <2>1. \A s \in Sockets, e \in 1..MaxEvents : got[s][e] \in {0, 1}
    BY DEF SocketInv, GotByNotified
  <2>2. QED
    BY <2>1 DEF GotOnce
<1>4. QED
  BY <1>1, <1>2, <1>3, PTL DEF SocketSpec

--------------------------------------------------------------------------------
(* The event bus: what arrives                                                 *)

PublisherRecord == [at : {"idle", "setup", "check", "save", "push", "send"},
                    process : Processes, event : 0..MaxPublished]

Publishing(x) == publisher[x].at # "idle"

\* Every event that is being published has one publisher.
PublishersApart ==
  /\ publisher \in [Publishers -> PublisherRecord]
  /\ published \in 0..MaxPublished
  /\ \A x \in Publishers : Publishing(x) => publisher[x].event \in 1..published
  /\ \A x, y \in Publishers :
       x # y /\ Publishing(x) /\ Publishing(y) => publisher[x].event # publisher[y].event

\* A process's mail m has no event twice, and none that its subscribers have handled
\* (h) already.
MailFits(m, h) ==
  /\ m \in Seq(Events) /\ h \in [Events -> {0, 1}]
  /\ \A i, j \in 1..Len(m) : m[i] = m[j] => i = j
  /\ \A i \in 1..Len(m) : h[m[i]] = 0

SeenIn(m, h, e) == h[e] = 1 \/ \E i \in 1..Len(m) : m[i] = e

Seen(p, e) == SeenIn(mail[p], handled[p], e)

\* What a process has seen has been sent, and if it is a flow's no other has seen it.
MailOnce ==
  /\ DOMAIN mail = Processes /\ DOMAIN handled = Processes
  /\ scope \in [Events -> {"none", "flow", "system"}]
  /\ \A p \in Processes : MailFits(mail[p], handled[p])
  /\ \A p \in Processes, e \in Events : Seen(p, e) =>
       e <= published /\ \A x \in Publishers : Publishing(x) => publisher[x].event # e
  /\ \A p, q \in Processes, e \in Events :
       p # q /\ scope[e] = "flow" => ~(Seen(p, e) /\ Seen(q, e))

\* Mail that is lost leaves nothing twice.
LEMMA MailLost ==
  ASSUME NEW m, NEW h, MailFits(m, h)
  PROVE  MailFits(<< >>, h) /\ \A e \in Events : SeenIn(<< >>, h, e) => SeenIn(m, h, e)
<1>1. << >> \in Seq(Events) /\ Len(<< >>) = 0
  BY EmptySeq
<1>2. \A i \in 1..Len(<< >>) : FALSE
  BY <1>1
<1>3. QED
  BY <1>1, <1>2 DEF MailFits, SeenIn

\* An event that has not been seen may be added to the mail.
LEMMA MailArrives ==
  ASSUME NEW m, NEW h, NEW e \in Events, MailFits(m, h), ~SeenIn(m, h, e)
  PROVE  /\ MailFits(Append(m, e), h)
         /\ \A d \in Events : SeenIn(Append(m, e), h, d) => d = e \/ SeenIn(m, h, d)
<1> DEFINE n == Append(m, e)
<1>1. m \in Seq(Events) /\ h \in [Events -> {0, 1}] /\ Len(m) \in Nat
  BY DEF MailFits
<1>2. /\ n \in Seq(Events) /\ Len(n) = Len(m) + 1
      /\ \A i \in 1..Len(m) : n[i] = m[i]
  BY <1>1, AppendProperties
<1>3. n[Len(m) + 1] = e
  BY <1>1, AppendProperties
<1> HIDE DEF n
<1>4. h[e] = 0 /\ \A i \in 1..Len(m) : m[i] # e
  BY <1>1 DEF SeenIn
<1>5. \A i \in 1..Len(n) : (i \in 1..Len(m) /\ n[i] = m[i]) \/ (i = Len(m) + 1 /\ n[i] = e)
  BY <1>1, <1>2, <1>3
<1>6. MailFits(n, h)
  BY <1>1, <1>2, <1>4, <1>5 DEF MailFits
<1>7. \A d \in Events : SeenIn(n, h, d) => d = e \/ SeenIn(m, h, d)
  BY <1>5 DEF SeenIn
<1>8. QED
  BY <1>6, <1>7 DEF n

\* Handling the first event of the mail counts it and takes it out of the mail.
LEMMA MailHandled ==
  ASSUME NEW m, NEW h, MailFits(m, h), m # << >>
  PROVE  LET g == [h EXCEPT ![Head(m)] = @ + 1]
         IN  /\ Head(m) \in Events /\ MailFits(Tail(m), g)
             /\ \A e \in Events : SeenIn(Tail(m), g, e) => SeenIn(m, h, e)
<1> DEFINE n == Tail(m)
           e == Head(m)
           g == [h EXCEPT ![e] = @ + 1]
<1>1. m \in Seq(Events) /\ h \in [Events -> {0, 1}]
  BY DEF MailFits
<1>2. e \in Events /\ n \in Seq(Events) /\ Len(n) = Len(m) - 1 /\ Len(m) \in Nat \ {0}
      /\ m[1] = e /\ \A i \in 1..Len(n) : n[i] = m[i + 1]
  <2> HIDE DEF Events
  <2>1. e \in Events /\ n \in Seq(Events) /\ Len(n) = Len(m) - 1 /\ Len(m) \in Nat \ {0}
    BY <1>1, HeadTailProperties, EmptySeq
  <2>2. QED
    BY <1>1, <2>1
<1> HIDE DEF n, e
<1>3. 1 \in 1..Len(m) /\ \A i \in 1..Len(n) : i + 1 \in 1..Len(m) /\ i + 1 # 1 /\ n[i] = m[i + 1]
  BY <1>2
<1>4. h[e] = 0 /\ \A i \in 1..Len(n) : n[i] # e /\ h[n[i]] = 0 /\ n[i] \in Events
  <2>1. \A i \in 1..Len(m) : m[i] \in Events
    BY <1>1
  <2>2. QED
    BY <1>2, <1>3, <2>1 DEF MailFits
<1>5. g \in [Events -> {0, 1}] /\ g[e] = 1 /\ \A d \in Events \ {e} : g[d] = h[d]
  BY <1>1, <1>2, <1>4
<1> HIDE DEF g
<1>6. \A i, j \in 1..Len(n) : n[i] = n[j] => i = j
  BY <1>3 DEF MailFits
<1>7. MailFits(n, g)
  BY <1>2, <1>4, <1>5, <1>6 DEF MailFits
<1>8. \A d \in Events : SeenIn(n, g, d) => SeenIn(m, h, d)
  <2>1. SeenIn(m, h, e)
    BY <1>2, <1>3 DEF SeenIn
  <2>2. \A d \in Events \ {e} : SeenIn(n, g, d) => SeenIn(m, h, d)
    BY <1>3, <1>5 DEF SeenIn
  <2>3. QED
    BY <2>1, <2>2
<1>9. QED
  BY <1>2, <1>7, <1>8 DEF n, e, g

\* Events are counted from 1.
LEMMA EventNumbers ==
  MaxPublished \in Nat /\ Events \subseteq Nat \ {0} /\ \A e : e \in Events <=> e \in 1..MaxPublished
BY BusAssumption DEF Events

\* A step that adds nothing to what the processes have seen keeps it.
LEMMA MailKept ==
  ASSUME PublishersApart, MailOnce, PublishersApart', published' >= published,
         DOMAIN mail' = Processes, DOMAIN handled' = Processes,
         \A p \in Processes : MailFits(mail'[p], handled'[p]),
         \A p \in Processes, e \in Events : Seen(p, e)' => Seen(p, e),
         scope' \in [Events -> {"none", "flow", "system"}],
         \A e \in Events : e <= published => scope'[e] = scope[e],
         \A x \in Publishers : Publishing(x)' =>
           \/ Publishing(x) /\ publisher'[x].event = publisher[x].event
           \/ publisher'[x].event = published + 1
  PROVE  MailOnce'
<1>1. published \in Nat /\ published' \in Nat /\ Events \subseteq Nat
  BY EventNumbers DEF PublishersApart
<1>2. ASSUME NEW p \in Processes, NEW e \in Events, Seen(p, e)'
      PROVE  e <= published' /\ \A x \in Publishers : Publishing(x)' => publisher'[x].event # e
  <2>1. Seen(p, e)
    BY <1>2
  <2>2. e <= published /\ \A x \in Publishers : Publishing(x) => publisher[x].event # e
    BY <2>1 DEF MailOnce
  <2>3. QED
    BY <1>1, <2>2
<1>3. ASSUME NEW p \in Processes, NEW q \in Processes, NEW e \in Events,
             p # q, scope'[e] = "flow", Seen(p, e)', Seen(q, e)'
      PROVE  FALSE
  <2>1. Seen(p, e) /\ Seen(q, e)
    BY <1>3
  <2>2. scope[e] = "flow"
    BY <1>3, <2>1 DEF MailOnce
  <2>3. QED
    BY <1>3, <2>1, <2>2 DEF MailOnce
<1>4. QED
  BY <1>2, <1>3 DEF MailOnce

BusRecord == [initialized : BOOLEAN, closing : BOOLEAN, available : BOOLEAN,
              listener : {"none", "own", "global", "listening", "ended"}]

Initializes(x) == publisher[x].at \in {"setup", "check"}

\* A listener is started at the end of an initialization. Unless two of these have
\* overlapped, a bus that is being initialized has none yet, and a listener subscribes to
\* its channels in order.
SetUpOnce ==
  /\ up \in BOOLEAN
  /\ bus \in [Processes -> BusRecord] /\ heard \in [Processes -> SUBSET Channels]
  /\ \A p \in Processes : ~bus[p].initialized => bus[p].listener = "none"
  /\ \A p \in Processes \ raced :
       /\ bus[p].listener = "global" => "own" \in heard[p]
       /\ bus[p].listener = "listening" => heard[p] = Channels
       /\ \A x \in Publishers : Initializes(x) /\ Home(x) = p =>
            /\ bus[p].listener = "none" /\ ~bus[p].initialized /\ ~bus[p].closing
            /\ \A y \in Publishers \ {x} : ~(Initializes(y) /\ Home(y) = p)

\* What is in the storage is in the list, was refused by it, or is about to be pushed.
SavedOrSkipped ==
  /\ stored \in Seq(Events) /\ cached \in Seq(Events)
  /\ \A e \in Range(stored) :
       \/ e \in Range(cached) \/ e \in skipped
       \/ \E x \in Publishers : At(x, "push") /\ publisher[x].event = e

BusInv == PublishersApart /\ MailOnce /\ SetUpOnce /\ SavedOrSkipped

\* A publisher goes on, or is done with its event.
LEMMA PublisherGoes ==
  ASSUME PublishersApart, NEW x \in Publishers, Publishing(x), published' = published,
         NEW to \in {"idle", "check", "save", "push", "send"}, PublisherGoto(x, to)
  PROVE  /\ PublishersApart'
         /\ \A y \in Publishers : Publishing(y)' =>
              Publishing(y) /\ publisher'[y].event = publisher[y].event
         /\ \A y \in Publishers \ {x} : publisher'[y] = publisher[y]
         /\ to # "idle" => /\ publisher'[x].at = to
                           /\ publisher'[x].process = publisher[x].process
                           /\ publisher'[x].event = publisher[x].event
         /\ to = "idle" => publisher'[x].at = "idle"
<1>1. PublisherIdle \in PublisherRecord /\ PublisherIdle.at = "idle"
  <2>1. 0 \in 0..MaxPublished
    <3>1. MaxPublished \in Nat
      BY EventNumbers
    <3>2. QED
      BY <3>1
  <2>2. (CHOOSE p \in Processes : TRUE) \in Processes
    BY BusAssumption
  <2>3. QED
    BY <2>1, <2>2 DEF PublisherIdle, PublisherRecord
<1> DEFINE r == IF to = "idle" THEN PublisherIdle ELSE [publisher[x] EXCEPT !.at = to]
<1>2. publisher \in [Publishers -> PublisherRecord] /\ publisher[x] \in PublisherRecord
  BY DEF PublishersApart
<1>3. publisher' = [publisher EXCEPT ![x] = r]
  BY <1>2 DEF PublisherGoto
<1>4. /\ r \in PublisherRecord
      /\ to # "idle" => r.at = to /\ r.process = publisher[x].process /\ r.event = publisher[x].event
      /\ to = "idle" => r.at = "idle"
  BY <1>1, <1>2 DEF PublisherRecord
<1> HIDE DEF r
<1>5. publisher' \in [Publishers -> PublisherRecord] /\ publisher'[x] = r
      /\ \A y \in Publishers \ {x} : publisher'[y] = publisher[y]
  BY <1>2, <1>3, <1>4
<1>6. \A y \in Publishers : Publishing(y)' =>
        Publishing(y) /\ publisher'[y].event = publisher[y].event
  BY <1>4, <1>5 DEF Publishing
<1>7. PublishersApart'
  BY <1>5, <1>6 DEF PublishersApart
<1>8. QED
  BY <1>4, <1>5, <1>6, <1>7

\* The mail of a process may be lost, and that of another kept.
LEMMA MailKeptOrLost ==
  ASSUME PublishersApart, MailOnce, PublishersApart', published' >= published,
         DOMAIN mail' = Processes,
         \A p \in Processes : mail'[p] \in {mail[p], << >>}, handled' = handled,
         scope' \in [Events -> {"none", "flow", "system"}],
         \A e \in Events : e <= published => scope'[e] = scope[e],
         \A x \in Publishers : Publishing(x)' =>
           \/ Publishing(x) /\ publisher'[x].event = publisher[x].event
           \/ publisher'[x].event = published + 1
  PROVE  MailOnce'
<1>1. \A p \in Processes : /\ MailFits(mail'[p], handled'[p])
                           /\ \A e \in Events : Seen(p, e)' => Seen(p, e)
  BY MailLost DEF MailOnce, Seen
<1>2. DOMAIN handled' = Processes
  BY DEF MailOnce
<1>3. QED
  BY <1>1, <1>2, MailKept

\* What is said of the lines and the list depends on the publishers that push.
LEMMA SavedKept ==
  ASSUME SavedOrSkipped, UNCHANGED <<stored, cached, skipped>>,
         \A x \in Publishers : At(x, "push") => publisher'[x] = publisher[x]
  PROVE  SavedOrSkipped'
BY DEF SavedOrSkipped, At

\* A step that leaves the buses alone and starts no initialization.
LEMMA SetUpKept ==
  ASSUME SetUpOnce, UNCHANGED <<up, bus, heard>>, raced \subseteq raced',
         \A x \in Publishers : Initializes(x)' => publisher'[x] = publisher[x]
  PROVE  SetUpOnce'
BY DEF SetUpOnce, Initializes, Home

\* Appending an element adds it to what a sequence has.
LEMMA RangeAppend ==
  ASSUME NEW S, NEW s \in Seq(S), NEW e \in S
  PROVE  Range(Append(s, e)) = Range(s) \cup {e}
<1> DEFINE n == Append(s, e)
<1>1. /\ n \in Seq(S) /\ Len(n) = Len(s) + 1 /\ Len(s) \in Nat
      /\ \A i \in 1..Len(s) : n[i] = s[i]
  BY AppendProperties
<1>2. n[Len(s) + 1] = e
  BY AppendProperties
<1> HIDE DEF n
<1>3. DOMAIN n = 1..Len(n) /\ DOMAIN s = 1..Len(s)
  BY <1>1
<1>4. 1..Len(n) = 1..Len(s) \cup {Len(s) + 1}
  BY <1>1
<1>5. Range(n) = Range(s) \cup {e}
  BY <1>1, <1>2, <1>3, <1>4 DEF Range
<1>6. QED
  BY <1>5 DEF n

\* An event is made, and its bus asked for.
LEMMA PublishKeeps ==
  ASSUME BusInv, NEW x \in Publishers, NEW p \in Processes, Publish(x, p)
  PROVE  BusInv'
<1> DEFINE to == IF bus[p].initialized \/ bus[p].closing THEN "save" ELSE "setup"
           r == [at |-> to, process |-> p, event |-> published + 1]
<1>1. /\ At(x, "idle") /\ published' = published + 1 /\ published < MaxPublished
      /\ publisher' = [publisher EXCEPT ![x] = r]
      /\ UNCHANGED <<up, bus, heard, mail, stored, cached, handled, skipped>>
  BY DEF Publish
<1>2. published \in Nat /\ published + 1 \in 1..MaxPublished /\ published + 1 \in Events
      /\ published + 1 \in 0..MaxPublished
  <2>1. MaxPublished \in Nat /\ published \in 0..MaxPublished
    BY EventNumbers DEF BusInv, PublishersApart
  <2>2. published \in Nat /\ published + 1 \in 1..MaxPublished /\ published + 1 \in 0..MaxPublished
    BY <1>1, <2>1
  <2>3. QED
    BY <2>2, EventNumbers
<1>3. r \in PublisherRecord /\ r.at = to /\ r.process = p /\ r.event = published + 1
      /\ to \in {"save", "setup"}
  BY <1>2 DEF PublisherRecord
<1> HIDE DEF r
<1>4. /\ publisher' \in [Publishers -> PublisherRecord] /\ publisher'[x] = r
      /\ \A y \in Publishers \ {x} : publisher'[y] = publisher[y]
  BY <1>1, <1>3 DEF BusInv, PublishersApart
<1>5. PublishersApart'
  <2>1. published' \in 0..MaxPublished
    BY <1>1, <1>2
  <2>2. ASSUME NEW y \in Publishers, Publishing(y)' PROVE publisher'[y].event \in 1..published'
    <3>1. CASE y = x
      BY <1>1, <1>2, <1>3, <1>4, <3>1
    <3>2. CASE y # x
      <4>1. publisher[y].event \in 1..published /\ publisher'[y].event = publisher[y].event
        BY <1>4, <2>2, <3>2 DEF BusInv, PublishersApart, Publishing
      <4>2. QED
        BY <1>1, <1>2, <4>1
    <3>3. QED
      BY <3>1, <3>2
  <2>3. \A y \in Publishers \ {x} : Publishing(y)' =>
          /\ Publishing(y) /\ publisher'[y].event = publisher[y].event
          /\ publisher[y].event \in 1..published
    BY <1>4 DEF BusInv, PublishersApart, Publishing
  <2>4. \A y \in Publishers \ {x} : Publishing(y)' => publisher'[y].event # publisher'[x].event
    BY <1>2, <1>3, <1>4, <2>3
  <2>5. \A y, z \in Publishers :
          y # z /\ Publishing(y)' /\ Publishing(z)' => publisher'[y].event # publisher'[z].event
    BY <2>3, <2>4 DEF BusInv, PublishersApart
  <2>6. QED
    BY <1>4, <2>1, <2>2, <2>5 DEF PublishersApart
<1>6. MailOnce'
  <2>1. PICK s \in {"flow", "system"} : scope' = [scope EXCEPT ![published + 1] = s]
    BY DEF Publish
  <2>2. /\ scope' \in [Events -> {"none", "flow", "system"}]
        /\ \A e \in Events : e # published + 1 => scope'[e] = scope[e]
    BY <1>2, <2>1 DEF BusInv, MailOnce
  <2>3. \A e \in Events : e <= published => scope'[e] = scope[e]
    BY <1>2, <2>2, EventNumbers
  <2>4. \A y \in Publishers : Publishing(y)' =>
           \/ Publishing(y) /\ publisher'[y].event = publisher[y].event
           \/ publisher'[y].event = published + 1
    BY <1>3, <1>4 DEF Publishing
  <2>5. published' >= published
    BY <1>1, <1>2
  <2>6. QED
    BY <1>1, <1>5, <2>2, <2>3, <2>4, <2>5, MailKeptOrLost DEF BusInv, MailOnce
<1>7. SetUpOnce'
  <2>1. /\ raced' = IF /\ ~bus[p].initialized
                       /\ \E y \in Publishers : Home(y) = p /\ publisher[y].at \in {"setup", "check"}
                    THEN raced \cup {p} ELSE raced
    BY DEF Publish
  <2>2. ~Initializes(x) /\ \A y \in Publishers \ {x} : /\ Initializes(y)' <=> Initializes(y)
                                                       /\ Home(y)' = Home(y)
    BY <1>1, <1>4 DEF Initializes, At, Home
  <2>3. Home(x)' = p /\ (Initializes(x)' => ~bus[p].initialized /\ ~bus[p].closing)
    BY <1>3, <1>4 DEF Initializes, Home
  <2>4. ASSUME NEW q \in Processes \ raced'
        PROVE  /\ q \in Processes \ raced
               /\ bus[q].listener = "global" => "own" \in heard[q]
               /\ bus[q].listener = "listening" => heard[q] = Channels
               /\ \A y \in Publishers : Initializes(y)' /\ Home(y)' = q =>
                   /\ bus[q].listener = "none" /\ ~bus[q].initialized /\ ~bus[q].closing
                   /\ \A z \in Publishers \ {y} : ~(Initializes(z)' /\ Home(z)' = q)
    <3>1. q \in Processes \ raced
      BY <2>1, <2>4
    <3>2. CASE ~(Initializes(x)' /\ q = p)
      BY <2>2, <2>3, <3>1, <3>2 DEF BusInv, SetUpOnce
    <3>3. CASE Initializes(x)' /\ q = p
      <4>1. ~bus[p].initialized /\ ~bus[p].closing
        BY <2>3, <3>3
      <4>2. \A y \in Publishers : ~(Home(y) = p /\ Initializes(y))
        BY <2>1, <2>4, <3>3, <4>1 DEF Initializes
      <4>3. bus[p].listener = "none"
        BY <3>3, <4>1 DEF BusInv, SetUpOnce
      <4>4. QED
        BY <2>2, <2>3, <3>1, <3>3, <4>1, <4>2, <4>3 DEF BusInv, SetUpOnce
    <3>4. QED
      BY <3>2, <3>3
  <2>5. QED
    BY <1>1, <2>4 DEF BusInv, SetUpOnce
<1>8. SavedOrSkipped'
  BY <1>1, <1>4, SavedKept DEF BusInv, At
<1>9. QED
  BY <1>5, <1>6, <1>7, <1>8 DEF BusInv

\* The steps of a publisher that leave the buses alone.
LEMMA SendingKeeps ==
  ASSUME BusInv, NEW x \in Publishers, SaveEvent(x) \/ SaveEventToRedis(x) \/ SendToChannel(x)
  PROVE  BusInv'
<1>1. /\ Publishing(x) /\ published' = published /\ scope' = scope /\ handled' = handled
      /\ UNCHANGED <<up, bus, heard, raced>>
  BY DEF SaveEvent, SaveEventToRedis, SendToChannel, busData, At, Publishing
<1>2. PICK to \in {"idle", "push", "send"} : /\ PublisherGoto(x, to)
                                             /\ to = "push" => SaveEvent(x)
                                             /\ to = "send" => SaveEventToRedis(x)
                                             /\ to = "idle" => SendToChannel(x)
  BY DEF SaveEvent, SaveEventToRedis, SendToChannel
<1> DEFINE e == publisher[x].event
<1>3. /\ PublishersApart'
      /\ \A y \in Publishers : Publishing(y)' =>
           Publishing(y) /\ publisher'[y].event = publisher[y].event
      /\ \A y \in Publishers \ {x} : publisher'[y] = publisher[y]
      /\ publisher'[x].at = to
      /\ to # "idle" => publisher'[x].event = e
  BY <1>1, <1>2, PublisherGoes DEF BusInv
<1>4. published \in Nat /\ e \in 1..published /\ e \in Events
  <2>1. MaxPublished \in Nat /\ published \in 0..MaxPublished /\ e \in 1..published
    BY <1>1, EventNumbers DEF BusInv, PublishersApart
  <2>2. e \in 1..MaxPublished /\ published \in Nat
    BY <2>1
  <2>3. QED
    BY <2>1, <2>2, EventNumbers
<1>5. SetUpOnce'
  <2>1. \A y \in Publishers : Initializes(y)' => publisher'[y] = publisher[y]
    BY <1>2, <1>3 DEF Initializes
  <2>2. QED
    BY <1>1, <2>1, SetUpKept DEF BusInv
<1>6. \A p \in Processes : ~Seen(p, e)
  BY <1>1, <1>4 DEF BusInv, MailOnce
<1> HIDE DEF e
<1>7. published' >= published /\ scope' \in [Events -> {"none", "flow", "system"}]
      /\ \A d \in Events : d <= published => scope'[d] = scope[d]
  BY <1>1, <1>4 DEF BusInv, MailOnce
<1>8. CASE to = "push"
  <2>1. stored' = Append(stored, e) /\ UNCHANGED <<mail, cached, skipped>>
    BY <1>2, <1>8 DEF SaveEvent, e
  <2>2. MailOnce'
    BY <1>1, <1>3, <1>7, <2>1, MailKeptOrLost DEF BusInv, MailOnce
  <2>3. stored' \in Seq(Events) /\ Range(stored') = Range(stored) \cup {e}
    <3>1. stored \in Seq(Events)
      BY DEF BusInv, SavedOrSkipped
    <3>2. stored' \in Seq(Events)
      BY <1>4, <2>1, <3>1
    <3>3. QED
      BY <1>4, <2>1, <3>1, <3>2, RangeAppend
  <2>4. At(x, "push")' /\ publisher'[x].event = e /\ ~At(x, "push")
    BY <1>2, <1>3, <1>8 DEF At, SaveEvent
  <2>5. ASSUME NEW d \in Range(stored')
        PROVE  \/ d \in Range(cached') \/ d \in skipped'
               \/ \E y \in Publishers : At(y, "push")' /\ publisher'[y].event = d
    <3>1. CASE d = e
      BY <2>4, <3>1
    <3>2. CASE d \in Range(stored)
      BY <1>3, <2>1, <2>4, <3>2 DEF BusInv, SavedOrSkipped, At
    <3>3. QED
      BY <2>3, <2>5, <3>1, <3>2
  <2>6. SavedOrSkipped'
    BY <2>1, <2>3, <2>5 DEF BusInv, SavedOrSkipped
  <2>7. QED
    BY <1>3, <1>5, <2>2, <2>6 DEF BusInv
<1>9. CASE to = "send"
  <2>1. /\ UNCHANGED <<mail, stored>>
        /\ \/ cached' = Append(cached, e) /\ skipped' = skipped
           \/ skipped' = skipped \cup {e} /\ cached' = cached
    BY <1>2, <1>9 DEF SaveEventToRedis, e
  <2>2. MailOnce'
    BY <1>1, <1>3, <1>7, <2>1, MailKeptOrLost DEF BusInv, MailOnce
  <2>3. /\ cached' \in Seq(Events)
        /\ Range(cached) \cup skipped \cup {e} \subseteq Range(cached') \cup skipped'
    <3>1. cached \in Seq(Events)
      BY DEF BusInv, SavedOrSkipped
    <3>2. CASE cached' = Append(cached, e) /\ skipped' = skipped
      <4>1. cached' \in Seq(Events)
        BY <1>4, <3>1, <3>2
      <4>2. Range(cached') = Range(cached) \cup {e}
        BY <1>4, <3>1, <3>2, RangeAppend
      <4>3. QED
        BY <3>2, <4>1, <4>2
    <3>3. CASE skipped' = skipped \cup {e} /\ cached' = cached
      BY <3>1, <3>3
    <3>4. QED
      BY <2>1, <3>2, <3>3
  <2>4. \A y \in Publishers : At(y, "push") =>
          \/ publisher[y].event = e
          \/ At(y, "push")' /\ publisher'[y].event = publisher[y].event
    BY <1>3 DEF At, e
  <2>5. SavedOrSkipped'
    BY <2>1, <2>3, <2>4 DEF BusInv, SavedOrSkipped
  <2>6. QED
    BY <1>3, <1>5, <2>2, <2>5 DEF BusInv
<1>10. CASE to = "idle"
  <2>1. /\ mail' = [p \in Processes |-> IF up /\ Hears(p, x) THEN Append(mail[p], e) ELSE mail[p]]
        /\ UNCHANGED <<stored, cached, skipped>> /\ ~At(x, "push")
    BY <1>2, <1>10 DEF SendToChannel, busData, e, At
  <2>2. SavedOrSkipped'
    BY <1>3, <2>1, SavedKept DEF BusInv, At
  <2>3. ASSUME NEW p \in Processes
        PROVE  /\ MailFits(mail'[p], handled'[p])
               /\ \A d \in Events : Seen(p, d)' => Seen(p, d) \/ (d = e /\ Hears(p, x))
    <3>1. MailFits(mail[p], handled[p]) /\ ~SeenIn(mail[p], handled[p], e)
      BY <1>6 DEF BusInv, MailOnce, Seen
    <3>2. CASE up /\ Hears(p, x)
      <4>1. mail'[p] = Append(mail[p], e) /\ handled'[p] = handled[p]
        BY <1>1, <2>1, <3>2
      <4>2. QED
        BY <1>4, <3>1, <3>2, <4>1, MailArrives DEF Seen
    <3>3. CASE ~(up /\ Hears(p, x))
      <4>1. mail'[p] = mail[p] /\ handled'[p] = handled[p]
        BY <1>1, <2>1, <3>3
      <4>2. QED
        BY <3>1, <4>1 DEF Seen
    <3>4. QED
      BY <3>2, <3>3
  <2>4. ASSUME NEW p \in Processes, NEW d \in Events, Seen(p, d)'
        PROVE  d <= published' /\ \A y \in Publishers : Publishing(y)' => publisher'[y].event # d
    <3>1. CASE Seen(p, d)
      BY <1>1, <1>3, <3>1 DEF BusInv, MailOnce
    <3>2. CASE d = e
      <4>1. \A y \in Publishers \ {x} : Publishing(y) => publisher[y].event # e
        BY <1>1 DEF BusInv, PublishersApart, e
      <4>2. ~Publishing(x)'
        BY <1>3, <1>10 DEF Publishing
      <4>3. QED
        BY <1>1, <1>3, <1>4, <3>2, <4>1, <4>2
    <3>3. QED
      BY <2>3, <2>4, <3>1, <3>2
  <2>5. ASSUME NEW p \in Processes, NEW q \in Processes, NEW d \in Events,
               p # q, scope'[d] = "flow", Seen(p, d)', Seen(q, d)'
        PROVE  FALSE
    <3>1. CASE d # e
      BY <1>1, <2>3, <2>5, <3>1 DEF BusInv, MailOnce
    <3>2. CASE d = e
      <4>1. Hears(p, x) /\ Hears(q, x)
        BY <1>6, <2>3, <2>5, <3>2
      <4>2. ChannelOf(publisher[x].event) = "own"
        BY <1>1, <2>5, <3>2 DEF ChannelOf, e
      <4>3. QED
        BY <2>5, <4>1, <4>2 DEF Hears
    <3>3. QED
      BY <3>1, <3>2
  <2>6. MailOnce'
    BY <1>1, <1>7, <2>1, <2>3, <2>4, <2>5 DEF BusInv, MailOnce
  <2>7. QED
    BY <1>3, <1>5, <2>2, <2>6 DEF BusInv
<1>11. QED
  BY <1>8, <1>9, <1>10

\* The two calls of an initialization.
LEMMA InitializingKeeps ==
  ASSUME BusInv, NEW x \in Publishers, SetupRedis(x) \/ CheckRedis(x)
  PROVE  BusInv'
<1> DEFINE p == Home(x)
<1>1. PICK to \in {"check", "save"} : /\ PublisherGoto(x, to)
                                      /\ to = "check" => SetupRedis(x)
                                      /\ to = "save" => CheckRedis(x)
  BY DEF SetupRedis, CheckRedis
<1>2. /\ Publishing(x) /\ Initializes(x) /\ published' = published /\ scope' = scope
      /\ handled' = handled /\ raced' = raced /\ up' = up
      /\ UNCHANGED <<stored, cached, skipped>>
      /\ ~At(x, "push")
  BY DEF SetupRedis, CheckRedis, busData, At, Publishing, Initializes
<1>3. /\ PublishersApart'
      /\ \A y \in Publishers : Publishing(y)' =>
           Publishing(y) /\ publisher'[y].event = publisher[y].event
      /\ \A y \in Publishers \ {x} : publisher'[y] = publisher[y]
      /\ publisher'[x].at = to /\ publisher'[x].process = p
  BY <1>1, <1>2, PublisherGoes DEF BusInv, Home
<1>4. p \in Processes
  BY DEF BusInv, PublishersApart, PublisherRecord, Home
<1>5. /\ DOMAIN mail' = Processes
      /\ \A q \in Processes : mail'[q] \in {mail[q], << >>}
  <2>1. CASE mail' = mail
    BY <2>1 DEF BusInv, MailOnce
  <2>2. CASE SetUp(p)
    BY <2>2 DEF BusInv, MailOnce, SetUp
  <2>3. QED
    BY <2>1, <2>2 DEF SetupRedis, CheckRedis
<1>6. MailOnce'
  <2>1. published' >= published
    BY <1>2 DEF BusInv, PublishersApart
  <2>2. QED
    BY <1>2, <1>3, <1>5, <2>1, MailKeptOrLost DEF BusInv, MailOnce
<1>7. SavedOrSkipped'
  BY <1>2, <1>3, SavedKept DEF BusInv, At
<1>8. /\ heard' \in [Processes -> SUBSET Channels]
      /\ \A q \in Processes \ {p} : heard'[q] = heard[q]
      /\ bus[p].listener = "listening" => heard'[p] = heard[p]
  <2>1. CASE heard' = heard
    BY <2>1 DEF BusInv, SetUpOnce
  <2>2. CASE SetUp(p)
    BY <2>2 DEF BusInv, SetUpOnce, SetUp
  <2>3. QED
    BY <2>1, <2>2 DEF SetupRedis, CheckRedis
<1>9. /\ bus' \in [Processes -> BusRecord]
      /\ \A q \in Processes \ {p} : bus'[q] = bus[q]
      /\ bus'[p].closing = bus[p].closing
      /\ to = "check" => /\ bus'[p].listener = bus[p].listener
                         /\ bus'[p].initialized = bus[p].initialized
      /\ to = "save" => /\ bus'[p].initialized = TRUE
                        /\ bus'[p].listener = IF StartsListener(p) THEN "own" ELSE bus[p].listener
  <2>1. bus[p] \in BusRecord /\ bus \in [Processes -> BusRecord]
    BY <1>4 DEF BusInv, SetUpOnce
  <2>2. CASE to = "check"
    <3> DEFINE r == [bus[p] EXCEPT !.available = up]
    <3>1. bus' = [bus EXCEPT ![p] = r]
      BY <1>1, <2>1, <2>2 DEF SetupRedis
    <3>2. r.closing = bus[p].closing /\ r.listener = bus[p].listener
          /\ r.initialized = bus[p].initialized
      BY <2>1 DEF BusRecord
    <3>3. bus' \in [Processes -> BusRecord]
      <4>1. up \in BOOLEAN
        BY DEF BusInv, SetUpOnce
      <4>2. QED
        BY <2>1, <3>1, <4>1 DEF BusRecord
    <3>4. QED
      BY <1>4, <2>1, <2>2, <3>1, <3>2, <3>3
  <2>3. CASE to = "save"
    <3> DEFINE r == [bus[p] EXCEPT !.available = up, !.initialized = TRUE,
                       !.listener = IF StartsListener(p) THEN "own" ELSE @]
    <3>1. bus' = [bus EXCEPT ![p] = r]
      BY <1>1, <2>1, <2>3 DEF CheckRedis
    <3>2. r.closing = bus[p].closing /\ r.initialized = TRUE
          /\ r.listener = IF StartsListener(p) THEN "own" ELSE bus[p].listener
      BY <2>1 DEF BusRecord
    <3>3. bus' \in [Processes -> BusRecord]
      <4>1. up \in BOOLEAN
        BY DEF BusInv, SetUpOnce
      <4>2. r \in BusRecord
        BY <2>1, <4>1 DEF BusRecord
      <4>3. QED
        BY <2>1, <3>1, <4>2
    <3>4. QED
      BY <1>4, <2>1, <2>3, <3>1, <3>2, <3>3
  <2>4. QED
    BY <2>2, <2>3
<1>10. SetUpOnce'
  <2>1. \A q \in Processes : ~bus'[q].initialized => bus'[q].listener = "none"
    BY <1>9 DEF BusInv, SetUpOnce
  <2>2. \A y \in Publishers, q \in Processes :
          Initializes(y)' /\ Home(y)' = q =>
            /\ Initializes(y) /\ Home(y) = q
            /\ y = x => q = p /\ to = "check"
    BY <1>2, <1>3 DEF Initializes, Home
  <2>3. ASSUME NEW q \in Processes \ raced
        PROVE  /\ bus'[q].listener = "global" => "own" \in heard'[q]
               /\ bus'[q].listener = "listening" => heard'[q] = Channels
               /\ \A y \in Publishers : Initializes(y)' /\ Home(y)' = q =>
                   /\ bus'[q].listener = "none" /\ ~bus'[q].initialized /\ ~bus'[q].closing
                   /\ \A z \in Publishers \ {y} : ~(Initializes(z)' /\ Home(z)' = q)
    <3>1. CASE q # p
      <4>1. bus'[q] = bus[q] /\ heard'[q] = heard[q]
        BY <1>8, <1>9, <3>1
      <4>2. QED
        BY <2>2, <4>1 DEF BusInv, SetUpOnce
    <3>2. CASE q = p
      <4>1. /\ bus[p].listener = "none" /\ ~bus[p].initialized /\ ~bus[p].closing
            /\ \A z \in Publishers \ {x} : ~(Initializes(z) /\ Home(z) = p)
        BY <1>2, <1>4, <3>2 DEF BusInv, SetUpOnce
      <4>2. bus'[p].listener \in {"none", "own"}
        BY <1>9, <4>1
      <4>3. to = "check" => /\ bus'[p].listener = "none" /\ ~bus'[p].initialized
                            /\ ~bus'[p].closing
        BY <1>9, <4>1
      <4>4. QED
        BY <2>2, <3>2, <4>1, <4>2, <4>3
    <3>3. QED
      BY <3>1, <3>2
  <2>4. QED
    BY <1>2, <1>8, <1>9, <2>1, <2>3 DEF BusInv, SetUpOnce
<1>11. QED
  BY <1>3, <1>6, <1>7, <1>10 DEF BusInv

\* A step of the environment or of a listener: publishers go on undisturbed, and mail that
\* is not kept is lost.
LEMMA BusDownKeeps ==
  ASSUME BusInv, UNCHANGED <<publisher, busData, raced, handled>>, up' \in BOOLEAN,
         DOMAIN mail' = Processes,
         \A p \in Processes : mail'[p] \in {mail[p], << >>},
         heard' \in [Processes -> SUBSET Channels], bus' \in [Processes -> BusRecord],
         \A p \in Processes :
           \/ bus'[p].listener \in {"none", "own", "ended"}
           \/ bus'[p].listener = bus[p].listener /\ heard[p] \subseteq heard'[p]
           \/ /\ bus[p].listener = "own" /\ bus'[p].listener = "global" /\ "own" \in heard'[p]
           \/ /\ bus[p].listener = "global" /\ bus'[p].listener = "listening"
              /\ heard'[p] = heard[p] \cup {"global"},
         \A p \in Processes :
           \/ bus'[p].initialized = bus[p].initialized /\ bus'[p].closing = bus[p].closing
              /\ (bus[p].listener = "none" => bus'[p].listener = "none")
           \/ bus[p].initialized /\ bus'[p].listener = "none"
  PROVE  BusInv'
<1>1. UNCHANGED <<publisher, published, scope, stored, cached, skipped, handled, raced>>
  BY DEF busData
<1>2. PublishersApart' /\ SavedOrSkipped'
  BY <1>1 DEF BusInv, PublishersApart, Publishing, SavedOrSkipped, At
<1>3. published \in Nat
  BY EventNumbers DEF BusInv, PublishersApart
<1>4. MailOnce'
  <2>1. published' >= published
    BY <1>1, <1>3
  <2>2. \A x \in Publishers : Publishing(x)' =>
          Publishing(x) /\ publisher'[x].event = publisher[x].event
    BY <1>1 DEF Publishing
  <2>3. QED
    BY <1>1, <1>2, <2>1, <2>2, MailKeptOrLost DEF BusInv, MailOnce
<1>5. \A p \in Processes : ~bus'[p].initialized => bus'[p].listener = "none"
  BY DEF BusInv, SetUpOnce
<1>6. ASSUME NEW p \in Processes \ raced'
      PROVE  /\ bus'[p].listener = "global" => "own" \in heard'[p]
             /\ bus'[p].listener = "listening" => heard'[p] = Channels
  <2>1. /\ bus[p].listener = "global" => "own" \in heard[p]
        /\ bus[p].listener = "listening" => heard[p] = Channels
        /\ heard'[p] \subseteq Channels
    BY <1>1 DEF BusInv, SetUpOnce
  <2>2. QED
    BY <2>1 DEF Channels
<1>7. ASSUME NEW p \in Processes \ raced', NEW x \in Publishers, Initializes(x)', Home(x)' = p
      PROVE  /\ bus'[p].listener = "none" /\ ~bus'[p].initialized /\ ~bus'[p].closing
             /\ \A y \in Publishers \ {x} : ~(Initializes(y)' /\ Home(y)' = p)
  <2>1. /\ bus[p].listener = "none" /\ ~bus[p].initialized /\ ~bus[p].closing
        /\ \A y \in Publishers \ {x} : ~(Initializes(y) /\ Home(y) = p)
    BY <1>1, <1>7 DEF BusInv, SetUpOnce, Initializes, Home
  <2>2. QED
    BY <1>1, <2>1 DEF Initializes, Home
<1>8. SetUpOnce'
  BY <1>5, <1>6, <1>7 DEF SetUpOnce
<1>9. QED
  BY <1>2, <1>4, <1>8 DEF BusInv

\* What the listener does, what Redis does, and the end of a bus.
LEMMA ListeningKeeps ==
  ASSUME BusInv, NEW p \in Processes,
         ListenerSubscribes(p) \/ ListenerFails(p) \/ HandleMessage(p) \/ Close(p)
  PROVE  BusInv'
<1>1. /\ bus \in [Processes -> BusRecord] /\ heard \in [Processes -> SUBSET Channels]
      /\ bus[p] \in BusRecord /\ up \in BOOLEAN
      /\ DOMAIN mail = Processes
  BY DEF BusInv, SetUpOnce, MailOnce
<1>2. UNCHANGED <<publisher, busData, raced, up>>
  BY DEF ListenerSubscribes, ListenerFails, HandleMessage, Close
<1>3. CASE ListenerSubscribes(p)
  <2> DEFINE to == IF bus[p].listener = "own" THEN "global" ELSE "listening"
             r == [bus[p] EXCEPT !.listener = to]
  <2>1. /\ heard' = [heard EXCEPT ![p] = heard[p] \cup {bus[p].listener}]
        /\ bus' = [bus EXCEPT ![p] = r] /\ bus[p].listener \in {"own", "global"}
        /\ UNCHANGED <<mail, handled>>
    BY <1>1, <1>3 DEF ListenerSubscribes, Channels
  <2>2. r \in BusRecord /\ r.listener = to /\ r.initialized = bus[p].initialized
        /\ r.closing = bus[p].closing
    BY <1>1 DEF BusRecord
  <2> HIDE DEF r
  <2>3. heard[p] \cup {bus[p].listener} \in SUBSET Channels
    BY <1>1, <2>1 DEF Channels
  <2>4. bus' \in [Processes -> BusRecord] /\ heard' \in [Processes -> SUBSET Channels]
    BY <1>1, <2>1, <2>2, <2>3
  <2>5. /\ bus'[p] = r /\ \A q \in Processes \ {p} : bus'[q] = bus[q] /\ heard'[q] = heard[q]
        /\ heard'[p] = heard[p] \cup {bus[p].listener}
    BY <1>1, <2>1
  <2>6. QED
    BY <1>1, <1>2, <2>1, <2>2, <2>4, <2>5, BusDownKeeps
<1>4. CASE ListenerFails(p)
  <2> DEFINE r == [bus[p] EXCEPT !.listener = "ended"]
  <2>1. /\ bus' = [bus EXCEPT ![p] = r] /\ bus[p].listener \in {"own", "global"}
        /\ UNCHANGED <<mail, handled, heard>>
    BY <1>1, <1>4 DEF ListenerFails, Channels
  <2>2. r \in BusRecord /\ r.listener = "ended" /\ r.initialized = bus[p].initialized
        /\ r.closing = bus[p].closing
    BY <1>1 DEF BusRecord
  <2> HIDE DEF r
  <2>3. bus' \in [Processes -> BusRecord]
        /\ bus'[p] = r /\ \A q \in Processes \ {p} : bus'[q] = bus[q]
    BY <1>1, <2>1, <2>2
  <2>4. QED
    BY <1>1, <1>2, <2>1, <2>2, <2>3, BusDownKeeps
<1>5. CASE HandleMessage(p)
  <2> DEFINE g == [handled[p] EXCEPT ![Head(mail[p])] = @ + 1]
  <2>1. /\ DOMAIN handled = Processes /\ MailFits(mail[p], handled[p])
        /\ mail[p] # << >>
        /\ UNCHANGED <<published, scope, stored, cached, skipped, bus, heard>>
    BY <1>5 DEF HandleMessage, busData, BusInv, MailOnce
  <2>2. handled' = [handled EXCEPT ![p] = g] /\ mail' = [mail EXCEPT ![p] = Tail(mail[p])]
    BY <1>5 DEF HandleMessage
  <2>3. /\ MailFits(Tail(mail[p]), g)
        /\ \A e \in Events : SeenIn(Tail(mail[p]), g, e) => SeenIn(mail[p], handled[p], e)
    BY <2>1, MailHandled
  <2>4. PublishersApart' /\ SavedOrSkipped' /\ published' >= published
    BY <1>2, <2>1, EventNumbers DEF BusInv, PublishersApart, Publishing, SavedOrSkipped, At
  <2>5. SetUpOnce'
    BY <1>2, <2>1 DEF BusInv, SetUpOnce, Initializes, Home
  <2> HIDE DEF g
  <2>6. /\ DOMAIN mail' = Processes /\ DOMAIN handled' = Processes
        /\ mail'[p] = Tail(mail[p]) /\ handled'[p] = g
        /\ \A q \in Processes \ {p} : mail'[q] = mail[q] /\ handled'[q] = handled[q]
    BY <1>1, <2>1, <2>2
  <2>7. \A q \in Processes : /\ MailFits(mail'[q], handled'[q])
                             /\ \A e \in Events : Seen(q, e)' => Seen(q, e)
    BY <2>3, <2>6 DEF BusInv, MailOnce, Seen
  <2>8. MailOnce'
    <3>1. \A x \in Publishers : Publishing(x)' =>
            Publishing(x) /\ publisher'[x].event = publisher[x].event
      BY <1>2 DEF Publishing
    <3>2. QED
      BY <2>1, <2>4, <2>6, <2>7, <3>1, MailKept DEF BusInv, MailOnce
  <2>9. QED
    BY <2>4, <2>5, <2>8 DEF BusInv
<1>6. CASE Close(p)
  <2> DEFINE r == [NewBus EXCEPT !.closing = TRUE]
  <2>1. /\ bus' = [bus EXCEPT ![p] = r] /\ bus[p].initialized
        /\ heard' = [heard EXCEPT ![p] = {}] /\ mail' = [mail EXCEPT ![p] = << >>]
        /\ UNCHANGED handled
    BY <1>6 DEF Close
  <2>2. r \in BusRecord /\ r.listener = "none"
    BY DEF NewBus, BusRecord
  <2> HIDE DEF r
  <2>3. /\ bus' \in [Processes -> BusRecord] /\ heard' \in [Processes -> SUBSET Channels]
        /\ bus'[p] = r /\ \A q \in Processes \ {p} : bus'[q] = bus[q] /\ heard'[q] = heard[q]
        /\ DOMAIN mail' = Processes /\ \A q \in Processes : mail'[q] \in {mail[q], << >>}
    BY <1>1, <2>1, <2>2
  <2>4. QED
    BY <1>1, <1>2, <2>1, <2>2, <2>3, BusDownKeeps
<1>7. QED
  BY <1>3, <1>4, <1>5, <1>6

\* Redis goes and comes.
LEMMA RedisKeeps ==
  ASSUME BusInv, Outage \/ BackUp
  PROVE  BusInv'
<1>1. /\ bus \in [Processes -> BusRecord] /\ heard \in [Processes -> SUBSET Channels]
      /\ DOMAIN mail = Processes
  BY DEF BusInv, SetUpOnce, MailOnce
<1>2. UNCHANGED <<publisher, busData, raced, handled>> /\ up' \in BOOLEAN
  BY DEF Outage, BackUp
<1>3. CASE Outage
  <2>1. /\ DOMAIN mail' = Processes
        /\ \A p \in Processes : mail'[p] = << >> /\ heard'[p] = {}
        /\ heard' \in [Processes -> SUBSET Channels]
    BY <1>3 DEF Outage
  <2>2. ASSUME NEW p \in Processes
        PROVE  /\ bus'[p] \in BusRecord /\ bus'[p].initialized = bus[p].initialized
               /\ bus'[p].closing = bus[p].closing
               /\ bus'[p].listener = IF bus[p].listener \in {"global", "listening"} THEN "ended"
                                     ELSE bus[p].listener
    <3>1. bus[p] \in BusRecord
      BY <1>1
    <3>2. bus'[p] = IF bus[p].listener \in {"global", "listening"}
                    THEN [bus[p] EXCEPT !.listener = "ended"] ELSE bus[p]
      BY <1>3 DEF Outage
    <3>3. QED
      BY <3>1, <3>2 DEF BusRecord
  <2>3. bus' \in [Processes -> BusRecord]
    BY <1>3, <2>2 DEF Outage
  <2>4. \A p \in Processes : bus'[p].listener \in {"none", "own", "ended"}
    BY <1>1, <2>2 DEF BusRecord
  <2>5. QED
    BY <1>2, <2>1, <2>2, <2>3, <2>4, BusDownKeeps
<1>4. CASE BackUp
  BY <1>1, <1>2, <1>4, BusDownKeeps DEF BackUp
<1>5. QED
  BY <1>3, <1>4

\* Events arrive: however buses come up and go, in whatever order publishers, listeners and outages move:
\* the subscribers of a process get an event once, a flow's in one process only, and a
\* listener hears both its channels unless two initializations have overlapped; and what is
\* in the storage is read, but for what the list in Redis hides.
THEOREM EventsReachSubscribers == BusSpec => [](ReachesSubscribersOnce /\ SavedIsRead)
<1>1. BusInit => BusInv
  <2> SUFFICES ASSUME BusInit PROVE BusInv
    OBVIOUS
  <2>1. << >> \in Seq(Events) /\ Len(<< >>) = 0 /\ \A e : e \notin Range(<< >>)
    <3>1. << >> \in Seq(Events) /\ Len(<< >>) = 0
      BY EmptySeq
    <3>2. DOMAIN << >> = {}
      BY <3>1
    <3>3. QED
      BY <3>1, <3>2 DEF Range
  <2>2. \A i \in 1..Len(<< >>) : FALSE
    BY <2>1
  <2>3. PublisherIdle \in PublisherRecord /\ PublisherIdle.at = "idle"
    <3>1. MaxPublished \in Nat
      BY EventNumbers
    <3>2. 0 \in 0..MaxPublished
      BY <3>1
    <3>3. (CHOOSE p \in Processes : TRUE) \in Processes
      BY BusAssumption
    <3>4. QED
      BY <3>2, <3>3 DEF PublisherIdle, PublisherRecord
  <2>4. PublishersApart
    <3>1. published \in 0..MaxPublished
      <4>1. MaxPublished \in Nat /\ published = 0
        BY EventNumbers DEF BusInit
      <4>2. QED
        BY <4>1
    <3>2. QED
      BY <2>3, <3>1 DEF BusInit, PublishersApart, Publishing
  <2>5. \A p \in Processes : /\ MailFits(mail[p], handled[p])
                             /\ \A e \in Events : ~Seen(p, e)
    <3>1. \A p \in Processes : mail[p] = << >> /\ handled[p] = [e \in Events |-> 0]
      BY DEF BusInit
    <3>2. \A p \in Processes : /\ handled[p] \in [Events -> {0, 1}]
                               /\ \A e \in Events : handled[p][e] = 0
      BY <3>1
    <3>3. \A p \in Processes : \A i \in 1..Len(mail[p]) : FALSE
      BY <2>2, <3>1
    <3>4. ASSUME NEW p \in Processes
          PROVE  /\ MailFits(mail[p], handled[p])
                 /\ \A e \in Events : ~Seen(p, e)
      <4>1. mail[p] \in Seq(Events)
        BY <2>1, <3>1
      <4>2. MailFits(mail[p], handled[p])
        BY <3>2, <3>3, <4>1 DEF MailFits
      <4>3. \A e \in Events : handled[p][e] # 1
        BY <3>2
      <4>4. QED
        BY <3>3, <4>2, <4>3 DEF Seen, SeenIn
    <3>5. QED
      BY <3>4
  <2>6. MailOnce
    BY <2>5 DEF BusInit, MailOnce
  <2>7. NewBus \in BusRecord /\ NewBus.listener = "none"
    BY DEF NewBus, BusRecord
  <2>8. \A x \in Publishers : ~Initializes(x)
    BY <2>3 DEF BusInit, Initializes
  <2>9. SetUpOnce
    BY <2>7, <2>8 DEF BusInit, SetUpOnce
  <2>10. SavedOrSkipped
    BY <2>1 DEF BusInit, SavedOrSkipped
  <2>11. QED
    BY <2>4, <2>6, <2>9, <2>10 DEF BusInv
<1>2. BusInv /\ [BusNext]_busVars => BusInv'
  <2> SUFFICES ASSUME BusInv, [BusNext]_busVars PROVE BusInv'
    OBVIOUS
  <2>1. CASE UNCHANGED busVars
    BY <2>1 DEF busVars, BusInv, PublishersApart, Publishing, MailOnce, Seen, SetUpOnce,
       Initializes, Home, SavedOrSkipped, At
  <2>2. QED
    BY <2>1, PublishKeeps, SendingKeeps, InitializingKeeps, ListeningKeeps, RedisKeeps DEF BusNext
<1>3. BusInv => ReachesSubscribersOnce /\ SavedIsRead
  <2> SUFFICES ASSUME BusInv PROVE HandledOnce /\ ListensToBoth /\ SavedIsRead
    BY DEF ReachesSubscribersOnce
  <2>1. HandledOnce
    <3>1. \A p \in Processes, e \in Events : handled[p][e] \in {0, 1}
      BY DEF BusInv, MailOnce, MailFits
    <3>2. \A p \in Processes, e \in Events : handled[p][e] = 1 => Seen(p, e)
      BY DEF Seen, SeenIn
    <3>3. QED
      BY <3>1, <3>2 DEF BusInv, MailOnce, HandledOnce
  <2>2. ListensToBoth
    BY DEF BusInv, SetUpOnce, ListensToBoth
  <2>3. SavedIsRead
    BY DEF BusInv, SavedOrSkipped, SavedIsRead, ReadEvents
  <2>4. QED
    BY <2>1, <2>2, <2>3
<1>4. QED
  BY <1>1, <1>2, <1>3, PTL DEF BusSpec

\* Events arrive, at the subscribers of a process and at the sockets: the bus and the
\* sockets share no state, so that each keeps its part of the promise.
THEOREM EventsAlwaysArrive == BusSpec /\ SocketSpec => []EventsArrive
<1>1. ReachesSubscribersOnce /\ SavedIsRead /\ SubscriptionsHold => EventsArrive
  BY DEF EventsArrive
<1>2. QED
  BY <1>1, EventsReachSubscribers, SubscriptionsAlwaysHold, PTL

--------------------------------------------------------------------------------
(* Docker                                                                      *)

Containers == [no : 0..MaxContainers, state : States]

Operations == [op : {"start", "cancel", "cancel_project"}, at : Commands, job : DockerJobs,
               no : 0..MaxContainers, ids : SUBSET Numbers, met : BOOLEAN]

\* Two operations on a job at once know that they have met.
MeetingsKnown ==
  \A c, d \in DockerCallers :
    /\ c # d /\ docker[c].at # "idle" /\ docker[d].at # "idle"
    /\ docker[c].job = docker[d].job
    => docker[c].met

\* A start that has met nobody removes a container that does not run.
RemovesStopped ==
  \A c \in DockerCallers :
    /\ docker[c].op = "start" /\ ~docker[c].met
    /\ docker[c].at \in {"clean.exists", "clean.stop"}
    => container[docker[c].job].state # "running"

DockerInv == DockerTypeOK /\ MeetingsKnown /\ RemovesStopped /\ cutOff = {}

\* The actions that take an operation from one command to the next.
LEMMA DockerGotoType ==
  ASSUME DockerTypeOK, NEW c \in DockerCallers, NEW to \in Commands, DockerGoto(c, to)
  PROVE  /\ docker' \in [DockerCallers -> Operations]
         /\ \A d \in DockerCallers \ {c} : docker'[d] = docker[d]
         /\ docker'[c].at = to
         /\ to # "idle" => /\ docker'[c].op = docker[c].op /\ docker'[c].job = docker[c].job
                           /\ docker'[c].met = docker[c].met
<1> DEFINE r == IF to = "idle" THEN DockerIdle ELSE [docker[c] EXCEPT !.at = to]
<1>1. docker[c] \in Operations /\ docker \in [DockerCallers -> Operations]
  BY DEF DockerTypeOK, Operations
<1>2. DockerIdle \in Operations
  <2>1. 0 \in 0..MaxContainers
    BY DockerAssumption
  <2>2. QED
    BY <2>1, DockerAssumption DEF DockerIdle, Operations, Commands
<1>3. r \in Operations /\ r.at = to
  BY <1>1, <1>2 DEF Operations, DockerIdle
<1>4. to # "idle" => r.op = docker[c].op /\ r.job = docker[c].job /\ r.met = docker[c].met
  BY <1>1 DEF Operations
<1>5. docker' = [docker EXCEPT ![c] = r]
  BY DEF DockerGoto
<1> HIDE DEF r
<1>6. QED
  BY <1>1, <1>3, <1>4, <1>5

\* An operation that goes on keeps the invariant when no container starts to run and it
\* does not come to remove one that runs.
LEMMA DockerGoesOn ==
  ASSUME DockerInv, NEW c \in DockerCallers, docker[c].at # "idle",
         docker' \in [DockerCallers -> Operations],
         \A d \in DockerCallers \ {c} : docker'[d] = docker[d],
         docker'[c].at # "idle" =>
           /\ docker'[c].op = docker[c].op /\ docker'[c].job = docker[c].job
           /\ docker'[c].met = docker[c].met,
         /\ docker'[c].at \in {"clean.exists", "clean.stop"} /\ docker[c].op = "start"
         /\ docker[c].at \notin {"clean.exists", "clean.stop"}
         => container'[docker[c].job].state # "running",
         container' \in [DockerJobs -> Containers],
         \A j \in DockerJobs : container'[j].no = 0 <=> container'[j].state = "none",
         \A j \in DockerJobs : container'[j].state = "running" => container[j].state = "running",
         made' \in 0..MaxContainers, failures' \in 0..MaxFailures, cutOff' = cutOff
  PROVE  DockerInv'
<1>1. DockerTypeOK'
  BY DEF DockerInv, DockerTypeOK, Containers, Operations
<1>2. MeetingsKnown'
  BY DEF DockerInv, MeetingsKnown
<1>3. RemovesStopped'
  <2> SUFFICES ASSUME NEW d \in DockerCallers, docker'[d].op = "start", ~docker'[d].met,
                      docker'[d].at \in {"clean.exists", "clean.stop"}
               PROVE  container'[docker'[d].job].state # "running"
    BY DEF RemovesStopped
  <2>1. docker'[d].job \in DockerJobs
    BY DEF Operations
  <2>2. CASE d # c
    BY <2>1, <2>2 DEF DockerInv, RemovesStopped
  <2>3. CASE d = c
    BY <2>1, <2>3 DEF DockerInv, RemovesStopped
  <2>4. QED
    BY <2>2, <2>3
<1>4. QED
  BY <1>1, <1>2, <1>3 DEF DockerInv

\* A command that changes no container.
LEMMA DockerReads ==
  ASSUME DockerInv, NEW c \in DockerCallers, docker[c].at # "idle", NEW to \in Commands,
         DockerGoto(c, to),
         /\ to \in {"clean.exists", "clean.stop"} /\ docker[c].op = "start"
         /\ docker[c].at \notin {"clean.exists", "clean.stop"}
         => container[docker[c].job].state # "running",
         UNCHANGED failures \/ DockerFails, UNCHANGED <<container, made, cutOff>>
  PROVE  DockerInv'
<1>1. failures' \in 0..MaxFailures
  BY DockerAssumption DEF DockerInv, DockerTypeOK, DockerFails
<1>2. DockerTypeOK
  BY DEF DockerInv
<1>3. /\ docker' \in [DockerCallers -> Operations]
      /\ \A d \in DockerCallers \ {c} : docker'[d] = docker[d]
      /\ docker'[c].at = to
      /\ to # "idle" => /\ docker'[c].op = docker[c].op /\ docker'[c].job = docker[c].job
                        /\ docker'[c].met = docker[c].met
  BY <1>2, DockerGotoType
<1>4. /\ container' \in [DockerJobs -> Containers] /\ made' \in 0..MaxContainers
      /\ \A j \in DockerJobs : container'[j].no = 0 <=> container'[j].state = "none"
  BY <1>2 DEF DockerTypeOK, Containers
<1>5. QED
  BY <1>1, <1>3, <1>4, DockerGoesOn

\* What docker stop leaves of a container.
LEMMA StoppedType ==
  ASSUME NEW k \in Containers, k.no = 0 <=> k.state = "none"
  PROVE  /\ Stopped(k) \in Containers /\ Stopped(k).state # "running"
         /\ Stopped(k).no = 0 <=> Stopped(k).state = "none"
<1>1. CASE k.state = "running"
  BY <1>1 DEF Stopped, Containers, States
<1>2. CASE k.state # "running"
  BY <1>2 DEF Stopped, Containers, States
<1>3. QED
  BY <1>1, <1>2

\* No container that is free has a number, and no number is made of it.
LEMMA NothingType == Nothing \in Containers /\ Nothing.no = 0 /\ Nothing.state = "none"
<1>1. 0 \in 0..MaxContainers
  BY DockerAssumption
<1>2. QED
  BY <1>1 DEF Nothing, Containers, States

\* Beginning an operation: the operations on the same job learn that they meet.
LEMMA DockerBeginKeeps ==
  ASSUME DockerInv, NEW c \in DockerCallers, NEW j \in DockerJobs,
         NEW op \in {"start", "cancel", "cancel_project"},
         NEW at \in {"exists", "clean.exists", "list"}, op = "start" => at = "exists",
         DockerBegin(c, op, at, j)
  PROVE  DockerInv'
<1> DEFINE meets(d) == /\ d # c /\ docker[d].at # "idle"
                       /\ docker[d].job = j \/ "cancel_project" \in {op, docker[d].op}
           others == {d \in DockerCallers : meets(d)}
           mine == [op |-> op, at |-> at, job |-> j, no |-> 0, ids |-> {}, met |-> others # {}]
           theirs(d) == [docker[d] EXCEPT !.met = @ \/ d \in others]
<1>1. /\ docker[c].at = "idle" /\ UNCHANGED <<container, made, failures, cutOff>>
      /\ docker' = [d \in DockerCallers |-> IF d = c THEN mine ELSE theirs(d)]
  BY DEF DockerBegin
<1>2. mine \in Operations
  <2>1. 0 \in 0..MaxContainers /\ (others # {}) \in BOOLEAN
    BY DockerAssumption
  <2>2. QED
    BY <2>1 DEF Operations, Commands
<1>3. \A d \in DockerCallers : docker[d] \in Operations
  BY DEF DockerInv, DockerTypeOK, Operations
<1>4. \A d \in DockerCallers \ {c} :
        /\ theirs(d) \in Operations /\ theirs(d).met = (docker[d].met \/ d \in others)
        /\ theirs(d).op = docker[d].op /\ theirs(d).at = docker[d].at
        /\ theirs(d).job = docker[d].job
  BY <1>3 DEF Operations
<1>5. /\ mine.op = op /\ mine.at = at /\ mine.job = j
      /\ mine.met <=> \E d \in DockerCallers : meets(d)
  OBVIOUS
<1>6. \A d \in DockerCallers : d \in others <=> meets(d)
  OBVIOUS
<1> HIDE DEF mine, theirs, others
<1>7. DockerTypeOK'
  BY <1>1, <1>2, <1>4 DEF DockerInv, DockerTypeOK, Operations
<1>8. MeetingsKnown'
  <2> SUFFICES ASSUME NEW d \in DockerCallers, NEW e \in DockerCallers, d # e,
                      docker'[d].at # "idle", docker'[e].at # "idle",
                      docker'[d].job = docker'[e].job
               PROVE  docker'[d].met
    BY DEF MeetingsKnown
  <2>1. CASE d = c
    BY <1>1, <1>4, <1>5, <2>1
  <2>2. CASE e = c
    BY <1>1, <1>4, <1>5, <1>6, <2>2
  <2>3. CASE d # c /\ e # c
    BY <1>1, <1>4, <2>3 DEF DockerInv, MeetingsKnown
  <2>4. QED
    BY <2>1, <2>2, <2>3
<1>9. RemovesStopped'
  <2> SUFFICES ASSUME NEW d \in DockerCallers, docker'[d].op = "start", ~docker'[d].met,
                      docker'[d].at \in {"clean.exists", "clean.stop"}
               PROVE  container'[docker'[d].job].state # "running"
    BY DEF RemovesStopped
  <2>1. d # c
    BY <1>1, <1>5
  <2>2. QED
    BY <1>1, <1>4, <2>1 DEF DockerInv, RemovesStopped
<1>10. QED
  BY <1>1, <1>7, <1>8, <1>9 DEF DockerInv

\* The operations before a container is looked at, and those that remove one.
LEMMA DockerStepKeeps ==
  ASSUME DockerInv, NEW c \in DockerCallers,
         Exists(c) \/ Inspect(c) \/ CleanExists(c) \/ CleanStop(c) \/ CleanRm(c)
  PROVE  DockerInv'
<1> DEFINE j == docker[c].job
<1>1. /\ j \in DockerJobs /\ container[j] \in Containers /\ docker[c] \in Operations
      /\ container \in [DockerJobs -> Containers]
      /\ \A k \in DockerJobs : container[k].no = 0 <=> container[k].state = "none"
  BY DEF DockerInv, DockerTypeOK, Containers, Operations
<1>2. DockerTypeOK /\ AfterCleanup(c) \in {"run", "idle"} /\ AfterCleanup(c) \in Commands
  BY DEF DockerInv, AfterCleanup, Commands
<1>3. ASSUME UNCHANGED failures \/ DockerFails PROVE failures' \in 0..MaxFailures
  BY <1>2, <1>3, DockerAssumption DEF DockerTypeOK, DockerFails
<1>4. CASE Exists(c)
  <2>1. PICK to \in {"run", "inspect"} : DockerGoto(c, to)
    BY <1>4 DEF Exists
  <2>2. docker[c].at # "idle" /\ UNCHANGED <<container, made, cutOff>>
        /\ (UNCHANGED failures \/ DockerFails) /\ to \in Commands
    BY <1>4 DEF Exists, Commands
  <2>3. QED
    BY <2>1, <2>2, DockerReads
<1>5. CASE Inspect(c)
  <2>1. /\ docker[c].at # "idle" /\ UNCHANGED <<container, made, cutOff>>
        /\ UNCHANGED failures \/ DockerFails
    BY <1>5 DEF Inspect
  <2>2. PICK to \in {"clean.exists", "idle"} :
          DockerGoto(c, to) /\ (to = "clean.exists" => StatusOf(State(j)) # RUNNING)
    <3>1. CASE DockerGoto(c, IF StatusOf(State(j)) \in {COMPLETED, FAILED, PENDING}
                             THEN "clean.exists" ELSE "idle")
      BY <3>1 DEF COMPLETED, FAILED, PENDING, RUNNING
    <3>2. CASE DockerGoto(c, "idle")
      BY <3>2
    <3>3. QED
      BY <1>5, <3>1, <3>2 DEF Inspect
  <2>3. to = "clean.exists" => container[j].state # "running"
    BY <2>2 DEF StatusOf, State
  <2>4. to \in Commands
    BY DEF Commands
  <2>5. QED
    BY <2>1, <2>2, <2>3, <2>4, DockerReads
<1>6. CASE CleanExists(c)
  <2>1. PICK to \in {"run", "idle", "clean.stop"} : DockerGoto(c, to)
    BY <1>2, <1>6 DEF CleanExists
  <2>2. /\ docker[c].at = "clean.exists" /\ UNCHANGED <<container, made, cutOff>>
        /\ (UNCHANGED failures \/ DockerFails) /\ to \in Commands
    BY <1>6 DEF CleanExists, Commands
  <2>3. QED
    BY <2>1, <2>2, DockerReads
<1>7. CASE CleanStop(c)
  <2>1. docker[c].at = "clean.stop" /\ made' = made
    BY <1>7 DEF CleanStop
  <2>2. CASE /\ State(j) # "none"
             /\ container' = [container EXCEPT ![j] = Stopped(@)]
             /\ cutOff' = cutOff \cup (IF /\ docker[c].op = "start" /\ ~docker[c].met
                                          /\ State(j) = "running" THEN {j} ELSE {})
             /\ DockerGoto(c, "clean.rm")
             /\ UNCHANGED failures
    <3>1. docker[c].op = "start" /\ ~docker[c].met => State(j) # "running"
      BY <2>1 DEF DockerInv, RemovesStopped, State
    <3>2. cutOff' = cutOff
      BY <2>2, <3>1
    <3> DEFINE k == Stopped(container[j])
    <3>3. /\ k \in Containers /\ k.state # "running"
          /\ k.no = 0 <=> k.state = "none"
      BY <1>1, StoppedType
    <3>4. container' = [container EXCEPT ![j] = k]
      BY <2>2
    <3> HIDE DEF k
    <3>5. /\ container' \in [DockerJobs -> Containers]
          /\ \A i \in DockerJobs : container'[i].no = 0 <=> container'[i].state = "none"
          /\ \A i \in DockerJobs :
               container'[i].state = "running" => container[i].state = "running"
      BY <1>1, <3>3, <3>4
    <3>6. /\ docker' \in [DockerCallers -> Operations]
          /\ \A d \in DockerCallers \ {c} : docker'[d] = docker[d]
          /\ docker'[c].at = "clean.rm" /\ docker'[c].op = docker[c].op
          /\ docker'[c].job = docker[c].job /\ docker'[c].met = docker[c].met
      <4>1. "clean.rm" \in Commands /\ "clean.rm" # "idle"
        BY DEF Commands
      <4>2. QED
        BY <1>2, <2>2, <4>1, DockerGotoType
    <3>7. made' \in 0..MaxContainers /\ failures' \in 0..MaxFailures
      BY <1>2, <2>1, <2>2 DEF DockerTypeOK
    <3>8. QED
      BY <2>1, <3>2, <3>5, <3>6, <3>7, DockerGoesOn
  <2>3. CASE DockerGoto(c, AfterCleanup(c)) /\ UNCHANGED <<container, cutOff>>
             /\ (UNCHANGED failures \/ DockerFails)
    BY <1>2, <2>1, <2>3, DockerReads
  <2>4. QED
    BY <1>7, <2>2, <2>3 DEF CleanStop
<1>8. CASE CleanRm(c)
  <2>1. /\ docker[c].at = "clean.rm" /\ made' = made /\ cutOff' = cutOff
        /\ DockerGoto(c, AfterCleanup(c)) /\ (UNCHANGED failures \/ DockerFails)
        /\ container' = container \/ container' = [container EXCEPT ![j] = Nothing]
    BY <1>1, <1>8 DEF CleanRm
  <2>2. /\ container' \in [DockerJobs -> Containers]
        /\ \A i \in DockerJobs : container'[i].no = 0 <=> container'[i].state = "none"
        /\ \A i \in DockerJobs : container'[i].state = "running" => container[i].state = "running"
    BY <1>1, <2>1, NothingType
  <2>3. failures' \in 0..MaxFailures /\ made' \in 0..MaxContainers
    BY <1>2, <1>3, <2>1 DEF DockerTypeOK
  <2> DEFINE to == AfterCleanup(c)
  <2>4. /\ docker' \in [DockerCallers -> Operations]
        /\ \A d \in DockerCallers \ {c} : docker'[d] = docker[d]
        /\ docker'[c].at = to
        /\ to # "idle" => /\ docker'[c].op = docker[c].op /\ docker'[c].job = docker[c].job
                          /\ docker'[c].met = docker[c].met
    BY <1>2, <2>1, DockerGotoType
  <2>5. QED
    BY <1>2, <2>1, <2>2, <2>3, <2>4, DockerGoesOn
<1>9. QED
  BY <1>4, <1>5, <1>6, <1>7, <1>8

\* docker run: the container it makes does not run yet, and only the operation that made
\* it starts it, which any other operation on the job knows it has met.
LEMMA DockerRunKeeps ==
  ASSUME DockerInv, NEW c \in DockerCallers, Run(c) \/ Started(c)
  PROVE  DockerInv'
<1> DEFINE j == docker[c].job
<1>1. /\ j \in DockerJobs /\ container[j] \in Containers /\ docker[c] \in Operations
      /\ container \in [DockerJobs -> Containers] /\ docker \in [DockerCallers -> Operations]
      /\ \A k \in DockerJobs : container[k].no = 0 <=> container[k].state = "none"
      /\ DockerTypeOK
  BY DEF DockerInv, DockerTypeOK, Containers, Operations
<1>2. "idle" \in Commands
  BY DEF Commands
<1>3. CASE Run(c) /\ made < MaxContainers /\ docker'[c].at # "idle"
  <2>1. CASE DockerGoto(c, "idle")
    BY <1>1, <1>2, <1>3, <2>1, DockerGotoType
  <2>2. CASE ~DockerGoto(c, "idle")
    <3> DEFINE k == [no |-> made + 1, state |-> "created"]
               r == [docker[c] EXCEPT !.at = "wait", !.no = made + 1]
    <3>1. /\ docker[c].at = "run" /\ container' = [container EXCEPT ![j] = k]
          /\ made' = made + 1 /\ docker' = [docker EXCEPT ![c] = r]
          /\ failures' = failures /\ cutOff' = cutOff
      BY <1>1, <1>3, <2>2 DEF Run
    <3>2. made + 1 \in 0..MaxContainers /\ made + 1 # 0
      BY <1>1, <1>3, DockerAssumption DEF DockerTypeOK
    <3>3. k \in Containers /\ k.state = "created" /\ k.no # 0
      BY <3>2 DEF Containers, States
    <3>4. /\ r \in Operations /\ r.at = "wait" /\ r.op = docker[c].op
          /\ r.job = j /\ r.met = docker[c].met
      BY <1>1, <3>2 DEF Operations, Commands
    <3> HIDE DEF k, r, j
    <3>5. /\ container' \in [DockerJobs -> Containers]
          /\ \A i \in DockerJobs : container'[i].no = 0 <=> container'[i].state = "none"
          /\ \A i \in DockerJobs :
               container'[i].state = "running" => container[i].state = "running"
      BY <1>1, <3>1, <3>3
    <3>6. /\ docker' \in [DockerCallers -> Operations]
          /\ \A d \in DockerCallers \ {c} : docker'[d] = docker[d]
          /\ docker'[c] = r
      BY <1>1, <3>1, <3>4
    <3>7. made' \in 0..MaxContainers /\ failures' \in 0..MaxFailures
      BY <1>1, <3>1, <3>2 DEF DockerTypeOK
    <3>8. QED
      BY <3>1, <3>4, <3>5, <3>6, <3>7, DockerGoesOn DEF j
  <2>3. QED
    BY <2>1, <2>2
<1>4. CASE Run(c) /\ DockerGoto(c, "idle") /\ UNCHANGED <<container, made>>
  <2>1. docker[c].at # "idle" /\ UNCHANGED <<container, made, failures, cutOff>>
    BY <1>4 DEF Run
  <2>2. QED
    BY <1>2, <1>4, <2>1, DockerReads
<1>5. CASE Started(c)
  <2>1. /\ docker[c].at = "wait" /\ DockerGoto(c, "idle") /\ UNCHANGED <<made, cutOff>>
        /\ UNCHANGED failures \/ DockerFails
    BY <1>5 DEF Started
  <2>2. CASE container' = container
    BY <1>2, <2>1, <2>2, DockerReads
  <2>3. CASE /\ container[j] = [no |-> docker[c].no, state |-> "created"]
             /\ container' = [container EXCEPT ![j].state = "running"]
             /\ failures' = failures
    <3> DEFINE k == [container[j] EXCEPT !.state = "running"]
    <3>1. k \in Containers /\ k.no = container[j].no /\ k.state # "none" /\ container[j].no # 0
      BY <1>1, <2>3 DEF Containers, States
    <3>2. container' = [container EXCEPT ![j] = k]
      BY <2>3
    <3> HIDE DEF k
    <3>3. /\ docker' \in [DockerCallers -> Operations]
          /\ \A d \in DockerCallers \ {c} : docker'[d] = docker[d]
          /\ docker'[c].at = "idle"
      BY <1>1, <1>2, <2>1, DockerGotoType
    <3>4. DockerTypeOK'
      <4>1. /\ container' \in [DockerJobs -> Containers]
            /\ \A i \in DockerJobs : container'[i].no = 0 <=> container'[i].state = "none"
        BY <1>1, <3>1, <3>2
      <4>2. QED
        BY <1>1, <2>1, <2>3, <3>3, <4>1 DEF DockerTypeOK, Containers, Operations
    <3>5. MeetingsKnown'
      BY <3>3 DEF DockerInv, MeetingsKnown
    <3>6. RemovesStopped'
      <4> SUFFICES ASSUME NEW d \in DockerCallers, docker'[d].op = "start", ~docker'[d].met,
                          docker'[d].at \in {"clean.exists", "clean.stop"}
                   PROVE  container'[docker'[d].job].state # "running"
        BY DEF RemovesStopped
      <4>1. d # c /\ docker'[d] = docker[d]
        BY <3>3
      <4>2. docker[d].job # j
        BY <2>1, <4>1 DEF DockerInv, MeetingsKnown
      <4>3. container'[docker[d].job] = container[docker[d].job]
        BY <1>1, <3>2, <4>2
      <4>4. QED
        BY <4>1, <4>3 DEF DockerInv, RemovesStopped
    <3>7. QED
      BY <2>1, <3>4, <3>5, <3>6 DEF DockerInv
  <2>4. QED
    BY <1>5, <2>2, <2>3 DEF Started
<1>6. QED
  <2>1. CASE Run(c)
    <3>1. CASE made < MaxContainers /\ docker'[c].at # "idle"
      BY <1>3, <2>1, <3>1
    <3>2. CASE DockerGoto(c, "idle") /\ UNCHANGED <<container, made>>
      BY <1>4, <2>1, <3>2
    <3>3. CASE docker' = [docker EXCEPT ![c].at = "wait", ![c].no = made + 1]
               /\ made < MaxContainers
      <4>1. docker'[c].at = "wait"
        BY <1>1, <3>3 DEF Operations
      <4>2. QED
        BY <3>1, <3>3, <4>1
    <3>4. QED
      BY <2>1, <3>2, <3>3 DEF Run
  <2>2. QED
    BY <1>5, <2>1

\* The steps of an operation on all containers of a project.
LEMMA DockerProjectKeeps ==
  ASSUME DockerInv, NEW c \in DockerCallers, ProjectList(c) \/ ProjectStop(c) \/ ProjectRm(c)
  PROVE  DockerInv'
<1>1. /\ docker[c] \in Operations /\ container \in [DockerJobs -> Containers]
      /\ \A k \in DockerJobs : container[k].no = 0 <=> container[k].state = "none"
      /\ DockerTypeOK /\ docker \in [DockerCallers -> Operations]
  BY DEF DockerInv, DockerTypeOK, Containers, Operations
<1>2. "idle" \in Commands /\ "rm" \in Commands /\ "stop" \in Commands
  BY DEF Commands
<1>3. ASSUME UNCHANGED failures \/ DockerFails PROVE failures' \in 0..MaxFailures
  BY <1>1, <1>3, DockerAssumption DEF DockerTypeOK, DockerFails
<1>4. CASE ProjectList(c)
  <2>1. docker[c].at = "list" /\ UNCHANGED <<container, made, cutOff>>
        /\ (UNCHANGED failures \/ DockerFails)
    BY <1>4 DEF ProjectList
  <2>2. CASE DockerGoto(c, "idle")
    BY <1>2, <2>1, <2>2, DockerReads
  <2>3. CASE ~DockerGoto(c, "idle")
    <3> DEFINE ids == {container[j].no : j \in {k \in DockerJobs : State(k) = "running"}}
               r == [docker[c] EXCEPT !.at = "stop", !.ids = ids]
    <3>1. docker' = [docker EXCEPT ![c] = r] /\ failures' = failures
      BY <1>4, <2>3 DEF ProjectList
    <3>2. ids \subseteq Numbers
      <4> SUFFICES ASSUME NEW k \in DockerJobs, State(k) = "running"
                   PROVE  container[k].no \in 1..MaxContainers
        BY DEF Numbers
      <4>1. container[k].no \in 0..MaxContainers /\ container[k].no # 0
        BY <1>1 DEF Containers, State
      <4>2. QED
        BY <4>1, DockerAssumption
    <3>3. /\ r \in Operations /\ r.at = "stop" /\ r.op = docker[c].op
          /\ r.job = docker[c].job /\ r.met = docker[c].met
      BY <1>1, <1>2, <3>2 DEF Operations
    <3> HIDE DEF r
    <3>4. /\ docker' \in [DockerCallers -> Operations]
          /\ \A d \in DockerCallers \ {c} : docker'[d] = docker[d]
          /\ docker'[c] = r
      BY <1>1, <3>1, <3>3
    <3>5. made' \in 0..MaxContainers /\ failures' \in 0..MaxFailures
      BY <1>1, <2>1, <3>1 DEF DockerTypeOK
    <3>6. QED
      BY <1>1, <2>1, <3>3, <3>4, <3>5, DockerGoesOn
  <2>4. QED
    BY <2>2, <2>3
<1>5. CASE ProjectStop(c) \/ ProjectRm(c)
  <2>1. PICK to \in {"rm", "idle"} : DockerGoto(c, to)
    BY <1>5 DEF ProjectStop, ProjectRm
  <2>2. /\ docker[c].at # "idle" /\ UNCHANGED <<made, cutOff>>
        /\ UNCHANGED failures \/ DockerFails
    BY <1>5 DEF ProjectStop, ProjectRm
  <2>3. \A k \in DockerJobs :
          /\ Stopped(container[k]) \in Containers /\ Stopped(container[k]).state # "running"
          /\ Stopped(container[k]).no = 0 <=> Stopped(container[k]).state = "none"
    BY <1>1, StoppedType
  <2>4. \/ container' = container
        \/ container' = [k \in DockerJobs |->
             IF container[k].no \in docker[c].ids THEN Stopped(container[k]) ELSE container[k]]
        \/ container' = [k \in DockerJobs |->
             IF container[k].no \in docker[c].ids /\ State(k) # "running"
             THEN Nothing ELSE container[k]]
    BY <1>5 DEF ProjectStop, ProjectRm
  <2>5. /\ container' \in [DockerJobs -> Containers]
        /\ \A i \in DockerJobs : container'[i].no = 0 <=> container'[i].state = "none"
        /\ \A i \in DockerJobs : container'[i].state = "running" => container[i].state = "running"
    <3>1. CASE container' = container
      BY <1>1, <3>1
    <3>2. CASE container' = [k \in DockerJobs |->
                 IF container[k].no \in docker[c].ids THEN Stopped(container[k])
                 ELSE container[k]]
      BY <1>1, <2>3, <3>2
    <3>3. CASE container' = [k \in DockerJobs |->
                 IF container[k].no \in docker[c].ids /\ State(k) # "running"
                 THEN Nothing ELSE container[k]]
      BY <1>1, <3>3, NothingType
    <3>4. QED
      BY <2>4, <3>1, <3>2, <3>3
  <2>6. /\ docker' \in [DockerCallers -> Operations]
        /\ \A d \in DockerCallers \ {c} : docker'[d] = docker[d]
        /\ docker'[c].at = to
        /\ to # "idle" => /\ docker'[c].op = docker[c].op /\ docker'[c].job = docker[c].job
                          /\ docker'[c].met = docker[c].met
    BY <1>1, <1>2, <2>1, DockerGotoType
  <2>7. made' \in 0..MaxContainers /\ failures' \in 0..MaxFailures
    BY <1>1, <1>3, <2>2 DEF DockerTypeOK
  <2>8. QED
    BY <2>2, <2>5, <2>6, <2>7, DockerGoesOn
<1>6. QED
  BY <1>4, <1>5

\* Every step on Docker keeps the invariant.
LEMMA DockerNextKeeps ==
  ASSUME DockerInv, [DockerNext]_dockerVars
  PROVE  DockerInv'
<1>1. CASE UNCHANGED dockerVars
  BY <1>1 DEF dockerVars, DockerInv, DockerTypeOK, MeetingsKnown, RemovesStopped
<1>2. ASSUME NEW c \in DockerCallers, DockerCommand(c) PROVE DockerInv'
  BY <1>2, DockerStepKeeps, DockerRunKeeps, DockerProjectKeeps DEF DockerCommand
<1>3. ASSUME NEW c \in DockerCallers, NEW j \in DockerJobs, start_job(c, j) \/ cancel_job(c, j)
      PROVE  DockerInv'
  BY <1>3, DockerBeginKeeps DEF start_job, cancel_job
<1>4. ASSUME NEW c \in DockerCallers, cancel_project(c, docker[c].job) PROVE DockerInv'
  <2>1. docker[c].job \in DockerJobs
    BY DEF DockerInv, DockerTypeOK
  <2>2. QED
    BY <1>4, <2>1, DockerBeginKeeps DEF cancel_project
<1>5. ASSUME NEW j \in DockerJobs, ContainerEnds(j) PROVE DockerInv'
  <2>1. PICK state \in {"exited", "crashed"} : container' = [container EXCEPT ![j].state = state]
    BY <1>5 DEF ContainerEnds
  <2> DEFINE k == [container[j] EXCEPT !.state = state]
  <2>2. /\ container[j].state = "running" /\ container[j] \in Containers
        /\ container \in [DockerJobs -> Containers]
        /\ \A i \in DockerJobs : container[i].no = 0 <=> container[i].state = "none"
    BY <1>5 DEF ContainerEnds, State, DockerInv, DockerTypeOK, Containers
  <2>3. /\ k \in Containers /\ k.no = container[j].no /\ k.no # 0
        /\ k.state # "none" /\ k.state # "running"
    BY <2>2 DEF Containers, States
  <2>4. container' = [container EXCEPT ![j] = k]
    BY <2>1
  <2> HIDE DEF k
  <2>5. /\ container' \in [DockerJobs -> Containers]
        /\ \A i \in DockerJobs : container'[i].no = 0 <=> container'[i].state = "none"
        /\ \A i \in DockerJobs : container'[i].state = "running" => container[i].state = "running"
    BY <2>2, <2>3, <2>4
  <2>6. UNCHANGED <<docker, made, failures, cutOff>>
    BY <1>5 DEF ContainerEnds
  <2>7. DockerTypeOK'
    BY <2>5, <2>6 DEF DockerInv, DockerTypeOK, Containers
  <2>8. MeetingsKnown' /\ RemovesStopped'
    BY <2>5, <2>6 DEF DockerInv, DockerTypeOK, MeetingsKnown, RemovesStopped
  <2>9. QED
    BY <2>6, <2>7, <2>8 DEF DockerInv
<1>6. QED
  BY <1>1, <1>2, <1>3, <1>4, <1>5 DEF DockerNext

\* It holds before there is a container.
LEMMA DockerInitKeeps ==
  ASSUME DockerInit
  PROVE  DockerInv
<1>1. 0 \in 0..MaxContainers /\ 0 \in 0..MaxFailures
  BY DockerAssumption
<1>2. DockerIdle \in Operations
  BY <1>1, DockerAssumption DEF DockerIdle, Operations, Commands
<1>3. DockerTypeOK
  BY <1>1, <1>2, NothingType DEF DockerInit, DockerTypeOK, Operations, Containers
<1>4. MeetingsKnown /\ RemovesStopped
  BY DEF DockerInit, DockerIdle, MeetingsKnown, RemovesStopped
<1>5. QED
  BY <1>3, <1>4 DEF DockerInit, DockerInv

\* The runner on Docker (docker_runner.py): start_job looks at the container under the
\* name of the job, then stops and removes it, in separate commands that may fail, while
\* other operations and the engine go on.  It stops no running container but one that
\* another operation on the same job has started in between.
THEOREM DockerKeepsRunning == DockerSpec => [](DockerTypeOK /\ RunningKept)
<1>1. DockerInv => DockerTypeOK /\ RunningKept
  BY DEF DockerInv, RunningKept
<1>2. DockerInv /\ [DockerNext]_dockerVars => DockerInv'
  BY DockerNextKeeps
<1>3. QED
  BY <1>1, <1>2, DockerInitKeeps, PTL DEF DockerSpec

--------------------------------------------------------------------------------
(* Kubernetes                                                                  *)

Objects ==
  [no : 0..MaxObjects, succeeded : BOOLEAN, failed : 0..(BackoffLimit + 1), active : BOOLEAN]

Pods == [of : KubeJobs, no : 1..MaxObjects, try : 0..BackoffLimit, phase : Phases]

Callers == [op : {"start", "cancel"}, at : Calls, job : KubeJobs, left : SUBSET KubeJobs,
            excused : BOOLEAN]

\* A number is given to one object, once.
NumbersUsed ==
  /\ \A j \in KubeJobs : object[j].no <= objects
  /\ \A p \in pods : p.no <= objects
  /\ \A i, j \in KubeJobs : object[i].no = object[j].no /\ object[i].no # 0 => i = j
  /\ \A j \in KubeJobs, p \in pods : p.no = object[j].no => p.of = j

\* The pods of an object are its tries, the last of which may not be counted yet; only that
\* one may still run, and only while the object is active.
TriesCounted ==
  \A j \in KubeJobs, p \in pods :
    p.no = object[j].no =>
      /\ p.try <= object[j].failed
      /\ p.try = object[j].failed => object[j].active \/ object[j].succeeded
      /\ p.phase \in {"pending", "stuck", "running"} =>
           object[j].active /\ p.try = object[j].failed

\* An active job is not over.
ActiveGoOn ==
  \A j \in KubeJobs :
    object[j].active => ~object[j].succeeded /\ object[j].failed <= BackoffLimit

\* Operations on a job at once are excused.
OverlapsExcused ==
  \A c, d \in KubeCallers :
    /\ c # d /\ kube[c].at # "idle" /\ kube[d].at # "idle" /\ kube[c].job = kube[d].job
    => kube[c].excused

\* No object, or one that is over for good.
IsOver(o) == o.no = 0 \/ o.succeeded \/ o.failed > BackoffLimit

\* A start with no excuse deletes a job that is over.
DeletesOver ==
  \A c \in KubeCallers :
    /\ kube[c].op = "start" /\ kube[c].at = "delete" /\ ~kube[c].excused
    => IsOver(object[kube[c].job])

KubeTypes ==
  /\ object \in [KubeJobs -> Objects]
  /\ pods \subseteq Pods
  /\ kube \in [KubeCallers -> Callers]
  /\ objects \in 0..MaxObjects /\ errors \in 0..MaxErrors
  /\ \A p, q \in pods : p.no = q.no /\ p.try = q.try => p = q

ObjectsInv == NumbersUsed /\ TriesCounted /\ ActiveGoOn

KubeInv == KubeTypes /\ ObjectsInv /\ OverlapsExcused /\ DeletesOver /\ ended = {}

\* A call of an operation keeps the invariant if the objects that starts of others may be
\* about to delete stay over, and so is the one that it comes to delete itself.
LEMMA KubeCallerMoves ==
  ASSUME KubeInv, KubeTypes', ObjectsInv', NEW c \in KubeCallers, kube[c].at # "idle",
         \A d \in KubeCallers \ {c} : kube'[d] = kube[d],
         kube'[c].at # "idle" =>
           /\ kube'[c].job = kube[c].job /\ kube'[c].op = kube[c].op
           /\ kube[c].excused => kube'[c].excused,
         \A d \in KubeCallers \ {c} :
           kube[d].at # "idle" /\ ~kube[d].excused /\ IsOver(object[kube[d].job]) =>
             IsOver(object'[kube[d].job]),
         /\ kube'[c].op = "start" /\ kube'[c].at = "delete" /\ ~kube'[c].excused
         => IsOver(object'[kube'[c].job]),
         ended' = ended
  PROVE  KubeInv'
<1>1. OverlapsExcused'
  BY DEF KubeInv, OverlapsExcused
<1>2. DeletesOver'
  <2> SUFFICES ASSUME NEW d \in KubeCallers, kube'[d].op = "start", kube'[d].at = "delete",
                      ~kube'[d].excused
               PROVE  IsOver(object'[kube'[d].job])
    BY DEF DeletesOver
  <2>1. CASE d = c
    BY <2>1
  <2>2. CASE d # c
    BY <2>2 DEF KubeInv, DeletesOver
  <2>3. QED
    BY <2>1, <2>2
<1>3. QED
  BY <1>1, <1>2 DEF KubeInv

\* What an operation turns to next.
LEMMA KubeGotoType ==
  ASSUME KubeTypes, NEW c \in KubeCallers, NEW to \in Calls, NEW excuse \in BOOLEAN,
         KubeGotoKnowing(c, to, excuse)
  PROVE  /\ kube' \in [KubeCallers -> Callers]
         /\ \A d \in KubeCallers \ {c} : kube'[d] = kube[d]
         /\ kube'[c].at = to
         /\ to # "idle" => /\ kube'[c].op = kube[c].op /\ kube'[c].job = kube[c].job
                           /\ kube'[c].excused = (kube[c].excused \/ excuse)
<1> DEFINE r == IF to = "idle" THEN KubeIdle
                ELSE [kube[c] EXCEPT !.at = to, !.excused = kube[c].excused \/ excuse]
<1>1. kube[c] \in Callers /\ kube \in [KubeCallers -> Callers]
  BY DEF KubeTypes
<1>2. KubeIdle \in Callers
  BY KubeAssumption DEF KubeIdle, Callers, Calls
<1>3. r \in Callers /\ r.at = to
  BY <1>1, <1>2 DEF Callers, KubeIdle
<1>4. to # "idle" => /\ r.op = kube[c].op /\ r.job = kube[c].job
                     /\ r.excused = (kube[c].excused \/ excuse)
  BY <1>1 DEF Callers
<1>5. kube' = [kube EXCEPT ![c] = r]
  BY DEF KubeGotoKnowing
<1> HIDE DEF r
<1>6. QED
  BY <1>1, <1>3, <1>4, <1>5

\* A call that reads, and comes to delete only what is over or what it has an excuse for.
LEMMA KubeReads ==
  ASSUME KubeInv, NEW c \in KubeCallers, kube[c].at # "idle", NEW to \in Calls,
         NEW excuse \in BOOLEAN, KubeGotoKnowing(c, to, excuse),
         to = "delete" => excuse \/ IsOver(object[kube[c].job]),
         UNCHANGED <<object, pods, objects, ended>>, UNCHANGED errors \/ KubeError
  PROVE  KubeInv'
<1>1. KubeTypes
  BY DEF KubeInv
<1>2. /\ kube' \in [KubeCallers -> Callers]
      /\ \A d \in KubeCallers \ {c} : kube'[d] = kube[d]
      /\ kube'[c].at = to
      /\ to # "idle" => /\ kube'[c].op = kube[c].op /\ kube'[c].job = kube[c].job
                        /\ kube'[c].excused = (kube[c].excused \/ excuse)
  BY <1>1, KubeGotoType
<1>3. errors' \in 0..MaxErrors
  BY <1>1, KubeAssumption DEF KubeTypes, KubeError
<1>4. KubeTypes'
  BY <1>1, <1>2, <1>3 DEF KubeTypes
<1>5. ObjectsInv'
  BY DEF KubeInv, ObjectsInv, NumbersUsed, TriesCounted, ActiveGoOn
<1>6. QED
  BY <1>2, <1>4, <1>5, KubeCallerMoves

\* Deleting an object, with some pods perhaps.
LEMMA ObjectGone ==
  ASSUME KubeTypes, ObjectsInv, NEW j \in KubeJobs,
         object' = [object EXCEPT ![j] = NoObject], pods' \subseteq pods,
         UNCHANGED objects
  PROVE  /\ object' \in [KubeJobs -> Objects] /\ pods' \subseteq Pods
         /\ \A p, q \in pods' : p.no = q.no /\ p.try = q.try => p = q
         /\ \A i \in KubeJobs : IsOver(object[i]) => IsOver(object'[i])
         /\ IsOver(object'[j])
         /\ ObjectsInv'
<1>1. 0 \in 0..MaxObjects /\ 0 \in 0..(BackoffLimit + 1)
  BY KubeAssumption
<1>2. /\ NoObject \in Objects /\ NoObject.no = 0 /\ ~NoObject.active
      /\ IsOver(NoObject)
  BY <1>1 DEF NoObject, Objects, IsOver
<1>3. object \in [KubeJobs -> Objects] /\ pods \subseteq Pods /\ objects \in 0..MaxObjects
      /\ \A p, q \in pods : p.no = q.no /\ p.try = q.try => p = q
  BY DEF KubeTypes
<1>4. \A i \in KubeJobs : object'[i] = IF i = j THEN NoObject ELSE object[i]
  BY <1>3
<1>5. \A p \in pods : p.no # 0
  BY <1>3 DEF Pods
<1>6. object' \in [KubeJobs -> Objects]
  BY <1>2, <1>3
<1>7. NumbersUsed'
  BY <1>2, <1>3, <1>4, <1>5, KubeAssumption DEF ObjectsInv, NumbersUsed
<1>8. TriesCounted'
  BY <1>2, <1>4, <1>5 DEF ObjectsInv, TriesCounted
<1>9. ActiveGoOn'
  BY <1>2, <1>4 DEF ObjectsInv, ActiveGoOn
<1>10. QED
  BY <1>2, <1>3, <1>4, <1>6, <1>7, <1>8, <1>9 DEF ObjectsInv

\* The calls of start_job that read.
LEMMA KubeReadsKeep ==
  ASSUME KubeInv, NEW c \in KubeCallers,
         ReadJob(c) \/ FindPods(c) \/ ReadStatus(c) \/ ReadPods(c)
  PROVE  KubeInv'
<1>1. /\ kube[c].at # "idle" /\ UNCHANGED <<object, pods, objects, ended>>
      /\ UNCHANGED errors \/ KubeError
  BY DEF ReadJob, FindPods, ReadStatus, ReadPods
<1>2. {"idle", "status", "pods", "create", "delete", "status.pods"} \subseteq Calls
  BY DEF Calls
<1>3. ASSUME NEW to \in {"idle", "status", "pods", "create", "status.pods"},
             NEW excuse \in BOOLEAN, KubeGotoKnowing(c, to, excuse)
      PROVE  KubeInv'
  BY <1>1, <1>2, <1>3, KubeReads
<1>4. ASSUME KubeGotoKnowing(c, "delete", TRUE) PROVE KubeInv'
  BY <1>1, <1>2, <1>4, KubeReads
<1>5. ASSUME NEW excuse \in BOOLEAN, KubeGotoKnowing(c, "delete", excuse),
             IsOver(object[kube[c].job])
      PROVE  KubeInv'
  BY <1>1, <1>2, <1>5, KubeReads
<1>6. CASE ReadJob(c)
  <2>1. PICK to \in {"status", "pods", "create"}, excuse \in BOOLEAN :
          KubeGotoKnowing(c, to, excuse)
    BY <1>6 DEF ReadJob, KubeGoto, KubeGotoBlind
  <2>2. QED
    BY <1>3, <2>1
<1>7. CASE FindPods(c)
  <2>1. PICK to \in {"status", "create"}, excuse \in BOOLEAN :
          KubeGotoKnowing(c, to, excuse)
    BY <1>7 DEF FindPods, KubeGoto, KubeGotoBlind
  <2>2. QED
    BY <1>3, <2>1
<1>8. CASE ReadStatus(c)
  <2> DEFINE o == object[kube[c].job]
             status == CASE o.succeeded -> COMPLETED
                         [] ~o.succeeded /\ o.failed > 0 -> FAILED
                         [] OTHER -> PENDING
  <2>1. o \in Objects
    BY DEF KubeInv, KubeTypes, Callers
  <2>2. CASE o.no = 0 /\ KubeGoto(c, After(ABSENT))
    <3>1. After(ABSENT) = "delete" /\ IsOver(o)
      BY <2>2 DEF After, ABSENT, RUNNING, IsOver
    <3>2. QED
      BY <1>5, <2>2, <3>1 DEF KubeGoto
  <2>3. CASE KubeGotoKnowing(c, After(status), ~o.succeeded /\ o.failed <= BackoffLimit)
    <3>1. status \in {COMPLETED, FAILED, PENDING}
      BY <2>1 DEF Objects
    <3>2. After(status) = "delete"
      BY <3>1 DEF After, COMPLETED, FAILED, PENDING, RUNNING
    <3>3. CASE ~o.succeeded /\ o.failed <= BackoffLimit
      <4>1. (~o.succeeded /\ o.failed <= BackoffLimit) = TRUE
        BY <3>3
      <4>2. QED
        BY <1>4, <2>3, <3>2, <4>1
    <3>4. CASE ~(~o.succeeded /\ o.failed <= BackoffLimit)
      <4>1. o.failed \in Int /\ o.succeeded \in BOOLEAN
        BY <2>1 DEF Objects
      <4>2. IsOver(o)
        BY <3>4, <4>1, KubeAssumption DEF IsOver
      <4>3. (~o.succeeded /\ o.failed <= BackoffLimit) = FALSE
        BY <3>4
      <4>4. KubeGotoKnowing(c, "delete", FALSE)
        BY <2>3, <3>2, <4>3
      <4>5. QED
        BY <1>5, <4>2, <4>4
    <3>5. QED
      BY <3>3, <3>4
  <2>4. CASE KubeGoto(c, "status.pods")
    BY <1>3, <2>4 DEF KubeGoto
  <2>5. CASE KubeGotoBlind(c, After(ABSENT))
    <3>1. After(ABSENT) = "delete"
      BY DEF After, ABSENT, RUNNING
    <3>2. QED
      BY <1>4, <2>5, <3>1 DEF KubeGotoBlind
  <2>6. QED
    BY <1>8, <2>2, <2>3, <2>4, <2>5 DEF ReadStatus
<1>9. CASE ReadPods(c)
  <2>1. After(RUNNING) = "idle" /\ After(FAILED) = "delete" /\ FAILED # RUNNING
    BY DEF After, FAILED, RUNNING
  <2>2. \/ \E s \in {FAILED, RUNNING} : KubeGotoKnowing(c, After(s), s = FAILED)
        \/ KubeGoto(c, After(RUNNING))
    BY <1>9 DEF ReadPods
  <2>3. CASE KubeGoto(c, After(RUNNING))
    BY <1>3, <2>1, <2>3 DEF KubeGoto
  <2>4. ASSUME NEW s \in {FAILED, RUNNING}, KubeGotoKnowing(c, After(s), s = FAILED)
        PROVE  KubeInv'
    <3>1. CASE s = FAILED
      <4>1. KubeGotoKnowing(c, "delete", TRUE)
        BY <2>1, <2>4, <3>1 DEF KubeGotoKnowing
      <4>2. QED
        BY <1>4, <4>1
    <3>2. CASE s = RUNNING
      <4>1. KubeGotoKnowing(c, "idle", FALSE)
        BY <2>1, <2>4, <3>2 DEF KubeGotoKnowing
      <4>2. QED
        BY <1>3, <4>1
    <3>3. QED
      BY <3>1, <3>2
  <2>5. QED
    BY <2>2, <2>3, <2>4
<1>10. QED
  BY <1>6, <1>7, <1>8, <1>9

\* The calls that delete an object: what starts of others would delete is over now.
LEMMA KubeDeletesKeep ==
  ASSUME KubeInv, NEW c \in KubeCallers, DeleteJob(c) \/ DeleteEach(c)
  PROVE  KubeInv'
<1>1. /\ KubeTypes /\ ObjectsInv /\ DeletesOver /\ ended = {} /\ pods' \subseteq pods
      /\ kube[c] \in Callers /\ kube \in [KubeCallers -> Callers]
      /\ object \in [KubeJobs -> Objects] /\ pods \subseteq Pods
      /\ objects' = objects /\ pods' = pods
  BY DEF KubeInv, KubeTypes, DeleteJob, DeleteEach
<1>2. errors' \in 0..MaxErrors /\ kube[c].at # "idle"
  BY <1>1, KubeAssumption DEF KubeTypes, KubeError, DeleteJob, DeleteEach
<1>3. "idle" \in Calls /\ "create" \in Calls /\ "each" # "delete" /\ "each" # "idle"
  BY DEF Calls
<1>4. ASSUME KubeTypes, NEW to \in Calls, KubeGoto(c, to)
      PROVE  /\ kube' \in [KubeCallers -> Callers]
             /\ \A d \in KubeCallers \ {c} : kube'[d] = kube[d]
             /\ kube'[c].at = to
             /\ to # "idle" => /\ kube'[c].op = kube[c].op /\ kube'[c].job = kube[c].job
                               /\ kube'[c].excused = (kube[c].excused \/ FALSE)
  BY <1>1, <1>4, KubeGotoType DEF KubeGoto
<1>5. ASSUME NEW j \in KubeJobs, object' = [object EXCEPT ![j] = NoObject] \/ object' = object
      PROVE  /\ object' \in [KubeJobs -> Objects] /\ pods' \subseteq Pods
             /\ \A p, q \in pods' : p.no = q.no /\ p.try = q.try => p = q
             /\ \A i \in KubeJobs : IsOver(object[i]) => IsOver(object'[i])
             /\ ObjectsInv'
  <2>1. CASE object' = object
    BY <1>1, <2>1 DEF ObjectsInv, NumbersUsed, TriesCounted, ActiveGoOn, KubeTypes
  <2>2. CASE object' = [object EXCEPT ![j] = NoObject]
    BY <1>1, <2>2, ObjectGone
  <2>3. QED
    BY <1>5, <2>1, <2>2
<1>6. ASSUME NEW j \in KubeJobs, object' = [object EXCEPT ![j] = NoObject] \/ object' = object,
             kube' \in [KubeCallers -> Callers],
             \A d \in KubeCallers \ {c} : kube'[d] = kube[d],
             kube'[c].at # "delete",
             kube'[c].at # "idle" =>
               /\ kube'[c].job = kube[c].job /\ kube'[c].op = kube[c].op
               /\ kube[c].excused => kube'[c].excused,
             ended' = ended
      PROVE  KubeInv'
  <2>1. /\ object' \in [KubeJobs -> Objects] /\ pods' \subseteq Pods
        /\ \A p, q \in pods' : p.no = q.no /\ p.try = q.try => p = q
        /\ \A i \in KubeJobs : IsOver(object[i]) => IsOver(object'[i])
        /\ ObjectsInv'
    BY <1>5, <1>6
  <2>2. KubeTypes'
    BY <1>1, <1>2, <1>6, <2>1 DEF KubeTypes
  <2>3. \A d \in KubeCallers : kube[d].job \in KubeJobs
    BY <1>1 DEF Callers
  <2>4. QED
    BY <1>2, <1>6, <2>1, <2>2, <2>3, KubeCallerMoves
<1>7. CASE DeleteJob(c)
  <2> DEFINE j == kube[c].job
             to == IF kube[c].op = "start" THEN "create" ELSE "idle"
  <2>1. kube[c].at = "delete" /\ j \in KubeJobs /\ KubeGoto(c, to) /\ to \in Calls
        /\ to # "delete"
    BY <1>1, <1>3, <1>7 DEF DeleteJob, Callers
  <2>2. object' = [object EXCEPT ![j] = NoObject] \/ object' = object
    BY <1>7 DEF DeleteJob
  <2>3. kube[c].op = "start" /\ ~kube[c].excused => ~\E p \in OwnPods(j) : p.phase = "running"
    <3> SUFFICES ASSUME kube[c].op = "start", ~kube[c].excused,
                        NEW p \in OwnPods(j), p.phase = "running"
                 PROVE  FALSE
      OBVIOUS
    <3>1. IsOver(object[j])
      BY <1>1, <2>1 DEF DeletesOver
    <3>2. p \in pods /\ p.no = object[j].no /\ p.no # 0
      BY <1>1 DEF OwnPods, PodsOf, Pods
    <3>3. object[j].active
      BY <1>1, <2>1, <3>2 DEF ObjectsInv, TriesCounted
    <3>4. ~object[j].succeeded /\ object[j].failed <= BackoffLimit
      BY <1>1, <2>1, <3>3 DEF ObjectsInv, ActiveGoOn
    <3>5. object[j].failed \in Int
      BY <1>1, <2>1 DEF Objects
    <3>6. QED
      BY <3>1, <3>2, <3>4, <3>5, KubeAssumption DEF IsOver
  <2>4. ended' = ended
    BY <1>7, <2>3 DEF DeleteJob
  <2> HIDE DEF to, j
  <2>5. QED
    BY <1>1, <1>4, <1>6, <2>1, <2>2, <2>4
<1>8. CASE DeleteEach(c)
  <2>1. kube[c].at = "each" /\ ended' = ended
    BY <1>8 DEF DeleteEach
  <2>2. CASE \E j \in kube[c].left : /\ object' = [object EXCEPT ![j] = NoObject]
                                     /\ kube' = [kube EXCEPT ![c].left = @ \ {j}]
    <3>1. PICK j \in kube[c].left : /\ object' = [object EXCEPT ![j] = NoObject]
                                    /\ kube' = [kube EXCEPT ![c].left = @ \ {j}]
      BY <2>2
    <3> DEFINE r == [kube[c] EXCEPT !.left = @ \ {j}]
    <3>2. /\ r \in Callers /\ r.at = kube[c].at /\ r.op = kube[c].op /\ r.job = kube[c].job
          /\ r.excused = kube[c].excused /\ j \in KubeJobs
      BY <1>1 DEF Callers
    <3>3. kube' = [kube EXCEPT ![c] = r]
      BY <3>1
    <3> HIDE DEF r
    <3>4. /\ kube' \in [KubeCallers -> Callers] /\ kube'[c] = r
          /\ \A d \in KubeCallers \ {c} : kube'[d] = kube[d]
      BY <1>1, <3>2, <3>3
    <3>5. QED
      BY <1>3, <1>6, <2>1, <3>1, <3>2, <3>4
  <2>3. CASE KubeGoto(c, "idle") /\ object' = object
    <3>1. kube[c].job \in KubeJobs
      BY <1>1 DEF Callers
    <3>2. QED
      BY <1>1, <1>3, <1>4, <1>6, <2>1, <2>3, <3>1
  <2>4. QED
    BY <1>8, <2>2, <2>3 DEF DeleteEach
<1>9. QED
  BY <1>7, <1>8

\* Creating an object under a name that is free: no start that has no excuse is about to
\* delete one of that name.
LEMMA KubeCreateKeeps ==
  ASSUME KubeInv, NEW c \in KubeCallers, CreateJob(c)
  PROVE  KubeInv'
<1> DEFINE j == kube[c].job
           o == [NoObject EXCEPT !.no = objects + 1]
<1>1. /\ KubeTypes /\ ObjectsInv /\ kube[c] \in Callers
      /\ object \in [KubeJobs -> Objects] /\ pods \subseteq Pods /\ objects \in 0..MaxObjects
      /\ j \in KubeJobs
  BY DEF KubeInv, KubeTypes, Callers
<1>2. kube[c].at = "create" /\ KubeGoto(c, "idle") /\ pods' = pods /\ ended' = ended
      /\ (UNCHANGED errors \/ KubeError)
  BY DEF CreateJob
<1>3. /\ kube' \in [KubeCallers -> Callers]
      /\ \A d \in KubeCallers \ {c} : kube'[d] = kube[d]
      /\ kube'[c].at = "idle"
  <2>1. "idle" \in Calls /\ KubeGotoKnowing(c, "idle", FALSE)
    BY <1>2 DEF Calls, KubeGoto
  <2>2. QED
    BY <1>1, <2>1, KubeGotoType
<1>4. errors' \in 0..MaxErrors
  BY <1>1, <1>2, KubeAssumption DEF KubeTypes, KubeError
<1>5. CASE UNCHANGED <<object, objects>>
  <2>1. "idle" \in Calls /\ KubeGotoKnowing(c, "idle", FALSE) /\ kube[c].at # "idle"
    BY <1>2 DEF Calls, KubeGoto
  <2>2. QED
    BY <1>2, <1>5, <2>1, KubeReads
<1>6. CASE /\ ~Present(j) /\ objects < MaxObjects
           /\ objects' = objects + 1 /\ object' = [object EXCEPT ![j] = o]
  <2>1. objects + 1 \in 0..MaxObjects /\ 0 \in 0..(BackoffLimit + 1) /\ objects \in Nat
    BY <1>1, <1>6, KubeAssumption
  <2>2. o \in Objects /\ o.no = objects + 1 /\ ~o.active /\ o.failed = 0
    BY <2>1 DEF NoObject, Objects
  <2> HIDE DEF o
  <2>3. object' \in [KubeJobs -> Objects]
        /\ \A i \in KubeJobs : object'[i] = IF i = j THEN o ELSE object[i]
    BY <1>1, <1>6, <2>2
  <2>4. KubeTypes'
    BY <1>1, <1>2, <1>3, <1>4, <1>6, <2>1, <2>3 DEF KubeTypes
  <2>5. \A i \in KubeJobs : object[i].no \in Nat /\ object[i].no <= objects
    BY <1>1 DEF Objects, ObjectsInv, NumbersUsed
  <2>6. \A p \in pods : p.no \in Nat /\ p.no <= objects
    BY <1>1 DEF Pods, ObjectsInv, NumbersUsed
  <2>7. NumbersUsed'
    <3>1. \A i \in KubeJobs : object'[i].no <= objects'
      BY <1>6, <2>1, <2>2, <2>3, <2>5
    <3>2. \A p \in pods' : p.no <= objects'
      BY <1>2, <1>6, <2>1, <2>6
    <3>3. \A i, k \in KubeJobs : object'[i].no = object'[k].no /\ object'[i].no # 0 => i = k
      BY <1>1, <2>1, <2>2, <2>3, <2>5 DEF ObjectsInv, NumbersUsed
    <3>4. \A i \in KubeJobs, p \in pods' : p.no = object'[i].no => p.of = i
      BY <1>1, <1>2, <2>1, <2>2, <2>3, <2>6 DEF ObjectsInv, NumbersUsed
    <3>5. QED
      BY <3>1, <3>2, <3>3, <3>4 DEF NumbersUsed
  <2>8. TriesCounted'
    <3> SUFFICES ASSUME NEW i \in KubeJobs, NEW p \in pods', p.no = object'[i].no
                 PROVE  object'[i] = object[i] /\ p \in pods
      BY <1>1 DEF ObjectsInv, TriesCounted
    <3>1. p \in pods
      BY <1>2
    <3>2. i # j
      BY <2>1, <2>2, <2>3, <2>6, <3>1
    <3>3. QED
      BY <2>3, <3>1, <3>2
  <2>9. ActiveGoOn'
    BY <1>1, <2>2, <2>3 DEF ObjectsInv, ActiveGoOn
  <2>10. ASSUME NEW d \in KubeCallers \ {c}, kube[d].at # "idle", ~kube[d].excused,
                IsOver(object[kube[d].job])
         PROVE  IsOver(object'[kube[d].job])
    <3>1. kube[d].job \in KubeJobs
      BY <1>1 DEF KubeTypes, Callers
    <3>2. kube[d].job # j
      BY <1>2, <2>10 DEF KubeInv, OverlapsExcused
    <3>3. QED
      BY <2>3, <2>10, <3>1, <3>2
  <2>11. QED
    BY <1>2, <1>3, <2>4, <2>7, <2>8, <2>9, <2>10, KubeCallerMoves DEF ObjectsInv
<1>7. QED
  BY <1>5, <1>6 DEF CreateJob

\* Listing the jobs of a project.
LEMMA KubeListKeeps ==
  ASSUME KubeInv, NEW c \in KubeCallers, ListJobs(c)
  PROVE  KubeInv'
<1>1. /\ kube[c].at = "list" /\ UNCHANGED <<object, pods, objects, ended>>
      /\ UNCHANGED errors \/ KubeError
  BY DEF ListJobs
<1>2. CASE KubeGoto(c, "idle")
  <2>1. "idle" \in Calls /\ KubeGotoKnowing(c, "idle", FALSE) /\ kube[c].at # "idle"
    BY <1>1, <1>2 DEF Calls, KubeGoto
  <2>2. QED
    BY <1>1, <2>1, KubeReads
<1>3. CASE kube' = [kube EXCEPT ![c].at = "each", ![c].left = {j \in KubeJobs : Present(j)}]
           /\ UNCHANGED errors
  <2> DEFINE r == [kube[c] EXCEPT !.at = "each", !.left = {j \in KubeJobs : Present(j)}]
  <2>1. kube[c] \in Callers /\ kube \in [KubeCallers -> Callers] /\ KubeTypes
    BY DEF KubeInv, KubeTypes
  <2>2. /\ r \in Callers /\ r.at = "each" /\ r.op = kube[c].op /\ r.job = kube[c].job
        /\ r.excused = kube[c].excused
    BY <2>1 DEF Callers, Calls
  <2>3. kube' = [kube EXCEPT ![c] = r]
    BY <1>3
  <2> HIDE DEF r
  <2>4. /\ kube' \in [KubeCallers -> Callers] /\ kube'[c] = r
        /\ \A d \in KubeCallers \ {c} : kube'[d] = kube[d]
    BY <2>1, <2>2, <2>3
  <2>5. KubeTypes'
    BY <1>1, <1>3, <2>1, <2>4 DEF KubeTypes
  <2>6. ObjectsInv'
    BY <1>1 DEF KubeInv, ObjectsInv, NumbersUsed, TriesCounted, ActiveGoOn
  <2>7. QED
    BY <1>1, <2>2, <2>4, <2>5, <2>6, KubeCallerMoves
<1>4. QED
  BY <1>2, <1>3 DEF ListJobs

\* Beginning an operation: those at work on the same job are excused, as it is by them.
LEMMA KubeBeginKeeps ==
  ASSUME KubeInv, NEW c \in KubeCallers, NEW j \in KubeJobs, NEW op \in {"start", "cancel"},
         NEW at \in {"read", "delete", "list"}, op = "start" => at = "read",
         KubeBegin(c, op, at, j)
  PROVE  KubeInv'
<1> DEFINE meets(d) == d # c /\ kube[d].at # "idle"
                       /\ (kube[d].job = j \/ {at, kube[d].at} \cap {"list", "each"} # {})
           busy == {d \in KubeCallers : meets(d)}
           mine == [op |-> op, at |-> at, job |-> j, left |-> {}, excused |-> busy # {}]
           theirs(d) == [kube[d] EXCEPT !.excused = @ \/ d \in busy]
<1>1. /\ kube[c].at = "idle" /\ UNCHANGED <<object, pods, objects, errors, ended>>
      /\ kube' = [d \in KubeCallers |-> IF d = c THEN mine ELSE theirs(d)]
  BY DEF KubeBegin
<1>2. mine \in Callers
  <2>1. (busy # {}) \in BOOLEAN
    OBVIOUS
  <2>2. QED
    BY <2>1 DEF Callers, Calls
<1>3. \A d \in KubeCallers : kube[d] \in Callers
  BY DEF KubeInv, KubeTypes
<1>4. \A d \in KubeCallers \ {c} :
        /\ theirs(d) \in Callers /\ theirs(d).excused = (kube[d].excused \/ d \in busy)
        /\ theirs(d).op = kube[d].op /\ theirs(d).at = kube[d].at
        /\ theirs(d).job = kube[d].job
  BY <1>3 DEF Callers
<1>5. /\ mine.op = op /\ mine.at = at /\ mine.job = j
      /\ mine.excused <=> \E d \in KubeCallers : meets(d)
  OBVIOUS
<1>6. \A d \in KubeCallers : d # c /\ kube[d].at # "idle" /\ kube[d].job = j => meets(d)
  OBVIOUS
<1>7. \A d \in KubeCallers : d \in busy <=> meets(d)
  OBVIOUS
<1> HIDE DEF mine, theirs, busy, meets
<1>8. KubeTypes'
  BY <1>1, <1>2, <1>4 DEF KubeInv, KubeTypes
<1>9. OverlapsExcused'
  <2> SUFFICES ASSUME NEW d \in KubeCallers, NEW e \in KubeCallers, d # e,
                      kube'[d].at # "idle", kube'[e].at # "idle", kube'[d].job = kube'[e].job
               PROVE  kube'[d].excused
    BY DEF OverlapsExcused
  <2>1. CASE d = c
    BY <1>1, <1>4, <1>5, <1>6, <2>1
  <2>2. CASE e = c
    BY <1>1, <1>4, <1>5, <1>6, <1>7, <2>2
  <2>3. CASE d # c /\ e # c
    BY <1>1, <1>4, <2>3 DEF KubeInv, OverlapsExcused
  <2>4. QED
    BY <2>1, <2>2, <2>3
<1>10. DeletesOver'
  BY <1>1, <1>4, <1>5 DEF KubeInv, DeletesOver
<1>11. ObjectsInv'
  BY <1>1 DEF KubeInv, ObjectsInv, NumbersUsed, TriesCounted, ActiveGoOn
<1>12. QED
  BY <1>1, <1>8, <1>9, <1>10, <1>11 DEF KubeInv

\* A step of the cluster keeps the invariant if what is over stays over.
LEMMA KubeClusterMoves ==
  ASSUME KubeInv, object' \in [KubeJobs -> Objects], pods' \subseteq Pods,
         \A p, q \in pods' : p.no = q.no /\ p.try = q.try => p = q,
         ObjectsInv', \A i \in KubeJobs : IsOver(object[i]) => IsOver(object'[i]),
         UNCHANGED <<kube, objects, errors, ended>>
  PROVE  KubeInv'
<1>1. KubeTypes'
  BY DEF KubeInv, KubeTypes
<1>2. OverlapsExcused'
  BY DEF KubeInv, OverlapsExcused
<1>3. DeletesOver'
  <2>1. \A c \in KubeCallers : kube[c].job \in KubeJobs
    BY DEF KubeInv, KubeTypes, Callers
  <2>2. QED
    BY <2>1 DEF KubeInv, DeletesOver
<1>4. QED
  BY <1>1, <1>2, <1>3 DEF KubeInv

\* The controller gives a job its next pod.
LEMMA CreatePodKeeps ==
  ASSUME KubeInv, NEW j \in KubeJobs, CreatePod(j)
  PROVE  KubeInv'
<1> DEFINE p == [of |-> j, no |-> object[j].no, try |-> object[j].failed, phase |-> "pending"]
           o == [object[j] EXCEPT !.active = TRUE]
<1>1. /\ object \in [KubeJobs -> Objects] /\ pods \subseteq Pods /\ ObjectsInv
      /\ \A q, r \in pods : q.no = r.no /\ q.try = r.try => q = r
      /\ object[j] \in Objects
  BY DEF KubeInv, KubeTypes
<1>2. /\ object[j].no # 0 /\ ~object[j].succeeded /\ ~object[j].active
      /\ object[j].failed <= BackoffLimit /\ pods' = pods \cup {p}
      /\ object' = [object EXCEPT ![j] = o] /\ UNCHANGED <<kube, objects, errors, ended>>
  BY DEF CreatePod, Present
<1>3. /\ o \in Objects /\ o.no = object[j].no /\ o.active /\ ~o.succeeded
      /\ o.failed = object[j].failed
  BY <1>1, <1>2 DEF Objects
<1>4. /\ p \in Pods /\ p.of = j /\ p.no = object[j].no /\ p.try = object[j].failed
      /\ p.phase = "pending"
  <2>1. object[j].no \in 1..MaxObjects
    BY <1>1, <1>2, KubeAssumption DEF Objects
  <2>2. object[j].failed \in 0..BackoffLimit
    BY <1>1, <1>2, KubeAssumption DEF Objects
  <2>3. QED
    BY <2>1, <2>2 DEF Pods, Phases
<1> HIDE DEF o, p
<1>5. object' \in [KubeJobs -> Objects]
      /\ \A i \in KubeJobs : object'[i] = IF i = j THEN o ELSE object[i]
  BY <1>1, <1>2, <1>3
<1>6. pods' \subseteq Pods
  BY <1>1, <1>2, <1>4
<1>7. \A q \in pods : q.no = p.no => q.try # p.try
  BY <1>1, <1>2, <1>4 DEF ObjectsInv, TriesCounted
<1>8. \A q, r \in pods' : q.no = r.no /\ q.try = r.try => q = r
  BY <1>1, <1>2, <1>7
<1>9. NumbersUsed'
  <2>1. \A i \in KubeJobs : object'[i].no = object[i].no
    BY <1>3, <1>5
  <2>2. /\ \A i \in KubeJobs : object'[i].no <= objects'
        /\ \A i, k \in KubeJobs : object'[i].no = object'[k].no /\ object'[i].no # 0 => i = k
    BY <1>1, <1>2, <2>1 DEF ObjectsInv, NumbersUsed
  <2>3. \A q \in pods' : q.no <= objects'
    BY <1>1, <1>2, <1>4 DEF ObjectsInv, NumbersUsed
  <2>4. \A i \in KubeJobs, q \in pods' : q.no = object'[i].no => q.of = i
    BY <1>1, <1>2, <1>4, <2>1 DEF ObjectsInv, NumbersUsed
  <2>5. QED
    BY <2>2, <2>3, <2>4 DEF NumbersUsed
<1>10. TriesCounted'
  <2> SUFFICES ASSUME NEW i \in KubeJobs, NEW q \in pods', q.no = object'[i].no
               PROVE  /\ q.try <= object'[i].failed
                      /\ q.try = object'[i].failed => object'[i].active \/ object'[i].succeeded
                      /\ q.phase \in {"pending", "stuck", "running"} =>
                           object'[i].active /\ q.try = object'[i].failed
    BY DEF TriesCounted
  <2>1. object'[i].no = object[i].no /\ object'[i].failed = object[i].failed
        /\ object[i].failed \in Nat
    BY <1>1, <1>3, <1>5 DEF Objects
  <2>2. CASE q = p
    <3>1. i = j
      BY <1>1, <1>2, <1>4, <2>1, <2>2 DEF ObjectsInv, NumbersUsed
    <3>2. QED
      BY <1>3, <1>4, <1>5, <2>1, <2>2, <3>1
  <2>3. CASE q # p
    <3>1. q \in pods
      BY <1>2, <2>3
    <3>2. /\ q.try <= object[i].failed
          /\ q.try = object[i].failed => object[i].active \/ object[i].succeeded
          /\ q.phase \in {"pending", "stuck", "running"} =>
               object[i].active /\ q.try = object[i].failed
      BY <1>1, <2>1, <3>1 DEF ObjectsInv, TriesCounted
    <3>3. QED
      BY <1>3, <1>5, <2>1, <3>2
  <2>4. QED
    BY <2>2, <2>3
<1>11. ActiveGoOn'
  BY <1>1, <1>2, <1>3, <1>5 DEF ObjectsInv, ActiveGoOn
<1>12. \A i \in KubeJobs : IsOver(object[i]) => IsOver(object'[i])
  BY <1>2, <1>3, <1>5 DEF IsOver
<1>13. QED
  BY <1>2, <1>5, <1>6, <1>8, <1>9, <1>10, <1>11, <1>12, KubeClusterMoves DEF ObjectsInv

\* A pod goes on, or the collector removes it.
LEMMA PodStepKeeps ==
  ASSUME KubeInv, NEW p \in pods, PodMoves(p) \/ Collect(p)
  PROVE  KubeInv'
<1>1. /\ object \in [KubeJobs -> Objects] /\ pods \subseteq Pods /\ ObjectsInv
      /\ \A q, r \in pods : q.no = r.no /\ q.try = r.try => q = r
      /\ p \in Pods
  BY DEF KubeInv, KubeTypes
<1>2. UNCHANGED <<object, kube, objects, errors, ended>>
  BY DEF PodMoves, Collect
<1>3. \A i \in KubeJobs : IsOver(object[i]) => IsOver(object'[i])
  BY <1>2
<1>4. CASE PodMoves(p)
  <2>1. PICK phase \in Phases : pods' = (pods \ {p}) \cup {[p EXCEPT !.phase = phase]}
    BY <1>4 DEF PodMoves, Phases
  <2> DEFINE q == [p EXCEPT !.phase = phase]
  <2>2. /\ q \in Pods /\ q.no = p.no /\ q.try = p.try /\ q.of = p.of
    BY <1>1 DEF Pods
  <2>3. p.phase \in {"pending", "stuck", "running"} /\ pods' = (pods \ {p}) \cup {q}
    BY <1>4, <2>1 DEF PodMoves
  <2> HIDE DEF q
  <2>4. pods' \subseteq Pods /\ \A r, s \in pods' : r.no = s.no /\ r.try = s.try => r = s
    BY <1>1, <2>2, <2>3
  <2>5. NumbersUsed'
    BY <1>1, <1>2, <2>2, <2>3 DEF ObjectsInv, NumbersUsed
  <2>6. TriesCounted'
    <3> SUFFICES ASSUME NEW i \in KubeJobs, NEW r \in pods', r.no = object[i].no
                 PROVE  /\ r.try <= object[i].failed
                        /\ r.try = object[i].failed => object[i].active \/ object[i].succeeded
                        /\ r.phase \in {"pending", "stuck", "running"} =>
                             object[i].active /\ r.try = object[i].failed
      BY <1>2 DEF TriesCounted
    <3>1. CASE r \in pods
      BY <1>1, <3>1 DEF ObjectsInv, TriesCounted
    <3>2. CASE r = q
      BY <1>1, <2>2, <2>3, <3>2 DEF ObjectsInv, TriesCounted
    <3>3. QED
      BY <2>3, <3>1, <3>2
  <2>7. ActiveGoOn'
    BY <1>1, <1>2 DEF ObjectsInv, ActiveGoOn
  <2>8. QED
    BY <1>1, <1>2, <1>3, <2>4, <2>5, <2>6, <2>7, KubeClusterMoves DEF ObjectsInv
<1>5. CASE Collect(p)
  <2>1. pods' = pods \ {p}
    BY <1>5 DEF Collect
  <2>2. ObjectsInv'
    BY <1>1, <1>2, <2>1 DEF ObjectsInv, NumbersUsed, TriesCounted, ActiveGoOn
  <2>3. QED
    BY <1>1, <1>2, <1>3, <2>1, <2>2, KubeClusterMoves
<1>6. QED
  BY <1>4, <1>5

\* The controller counts a pod that is over.
LEMMA CountPodKeeps ==
  ASSUME KubeInv, NEW p \in pods, CountPod(p)
  PROVE  KubeInv'
<1> DEFINE j == p.of
           o == [object[j] EXCEPT !.active = FALSE, !.succeeded = p.phase = "succeeded",
                                  !.failed = IF p.phase = "failed" THEN @ + 1 ELSE @]
<1>1. /\ object \in [KubeJobs -> Objects] /\ pods \subseteq Pods /\ ObjectsInv
      /\ \A q, r \in pods : q.no = r.no /\ q.try = r.try => q = r
      /\ p \in Pods /\ j \in KubeJobs /\ object[j] \in Objects
  BY DEF KubeInv, KubeTypes, Pods
<1>2. /\ object[j].no = p.no /\ object[j].active /\ p.phase \in {"failed", "succeeded"}
      /\ p.try = object[j].failed /\ object' = [object EXCEPT ![j] = o]
      /\ UNCHANGED <<pods, kube, objects, errors, ended>>
  BY <1>1 DEF CountPod, Objects
<1>3. ~object[j].succeeded /\ object[j].failed <= BackoffLimit /\ object[j].failed \in Nat
  BY <1>1, <1>2 DEF ObjectsInv, ActiveGoOn, Objects
<1>4. /\ o \in Objects /\ o.no = object[j].no /\ ~o.active
      /\ \/ p.phase = "failed" /\ o.failed = object[j].failed + 1 /\ ~o.succeeded
         \/ p.phase = "succeeded" /\ o.failed = object[j].failed /\ o.succeeded
  <2>1. object[j].failed + 1 \in 0..(BackoffLimit + 1)
    BY <1>3, KubeAssumption
  <2>2. CASE p.phase = "failed"
    BY <1>1, <2>1, <2>2 DEF Objects
  <2>3. CASE p.phase = "succeeded"
    BY <1>1, <2>3 DEF Objects
  <2>4. QED
    BY <1>2, <2>2, <2>3
<1> HIDE DEF o, j
<1>5. object' \in [KubeJobs -> Objects]
      /\ \A i \in KubeJobs : object'[i] = IF i = j THEN o ELSE object[i]
  BY <1>1, <1>2, <1>4
<1>6. NumbersUsed'
  <2>1. \A i \in KubeJobs : object'[i].no = object[i].no
    BY <1>4, <1>5
  <2>2. QED
    BY <1>1, <1>2, <2>1 DEF ObjectsInv, NumbersUsed
<1>7. TriesCounted'
  <2> SUFFICES ASSUME NEW i \in KubeJobs, NEW q \in pods, q.no = object'[i].no
               PROVE  /\ q.try <= object'[i].failed
                      /\ q.try = object'[i].failed => object'[i].active \/ object'[i].succeeded
                      /\ q.phase \in {"pending", "stuck", "running"} =>
                           object'[i].active /\ q.try = object'[i].failed
    BY <1>2 DEF TriesCounted
  <2>1. CASE i # j
    BY <1>1, <1>5, <2>1 DEF ObjectsInv, TriesCounted
  <2>2. CASE i = j
    <3>1. /\ q.try <= object[j].failed /\ q.try \in Nat
          /\ q.phase \in {"pending", "stuck", "running"} => q.try = object[j].failed
      BY <1>1, <1>4, <1>5, <2>2 DEF ObjectsInv, TriesCounted, Pods
    <3>2. q.phase \notin {"pending", "stuck", "running"}
      <4>1. CASE q.try = object[j].failed
        <5>1. q = p
          BY <1>1, <1>2, <1>4, <1>5, <2>2, <4>1
        <5>2. QED
          BY <1>2, <5>1
      <4>2. QED
        BY <3>1, <4>1
    <3>3. QED
      BY <1>3, <1>4, <1>5, <2>2, <3>1, <3>2
  <2>3. QED
    BY <2>1, <2>2
<1>8. ActiveGoOn'
  BY <1>1, <1>4, <1>5 DEF ObjectsInv, ActiveGoOn
<1>9. \A i \in KubeJobs : IsOver(object[i]) => IsOver(object'[i])
  <2>1. ~(object[j].failed > BackoffLimit)
    BY <1>3, KubeAssumption
  <2>2. IsOver(object[j]) => IsOver(o)
    BY <1>3, <1>4, <2>1 DEF IsOver
  <2>3. QED
    BY <1>5, <2>2
<1>10. QED
  BY <1>1, <1>2, <1>5, <1>6, <1>7, <1>8, <1>9, KubeClusterMoves DEF ObjectsInv

\* A job runs out of time: its pods that are not over go, and it has failed for good.
LEMMA DeadlineKeeps ==
  ASSUME KubeInv, NEW j \in KubeJobs, Deadline(j)
  PROVE  KubeInv'
<1> DEFINE o == [object[j] EXCEPT !.active = FALSE, !.failed = BackoffLimit + 1]
<1>1. /\ object \in [KubeJobs -> Objects] /\ pods \subseteq Pods /\ ObjectsInv
      /\ \A q, r \in pods : q.no = r.no /\ q.try = r.try => q = r
      /\ object[j] \in Objects
  BY DEF KubeInv, KubeTypes
<1>2. /\ object' = [object EXCEPT ![j] = o]
      /\ pods' = {p \in pods : p.no = object[j].no => p.phase \in {"failed", "succeeded"}}
      /\ UNCHANGED <<kube, objects, errors, ended>>
  BY <1>1 DEF Deadline, Objects
<1>3. /\ o \in Objects /\ o.no = object[j].no /\ ~o.active /\ o.failed = BackoffLimit + 1
      /\ o.failed > BackoffLimit
  <2>1. BackoffLimit + 1 \in 0..(BackoffLimit + 1)
    BY KubeAssumption
  <2>2. o \in Objects /\ o.no = object[j].no /\ ~o.active /\ o.failed = BackoffLimit + 1
    BY <1>1, <2>1 DEF Objects
  <2>3. BackoffLimit + 1 > BackoffLimit
    BY KubeAssumption
  <2>4. QED
    BY <2>2, <2>3
<1> HIDE DEF o
<1>4. object' \in [KubeJobs -> Objects]
      /\ \A i \in KubeJobs : object'[i] = IF i = j THEN o ELSE object[i]
  BY <1>1, <1>2, <1>3
<1>5. pods' \subseteq pods
  BY <1>2
<1>6. NumbersUsed'
  <2>1. \A i \in KubeJobs : object'[i].no = object[i].no
    BY <1>3, <1>4
  <2>2. QED
    BY <1>1, <1>2, <1>5, <2>1 DEF ObjectsInv, NumbersUsed
<1>7. TriesCounted'
  <2> SUFFICES ASSUME NEW i \in KubeJobs, NEW q \in pods', q.no = object'[i].no
               PROVE  /\ q.try <= object'[i].failed
                      /\ q.try = object'[i].failed => object'[i].active \/ object'[i].succeeded
                      /\ q.phase \in {"pending", "stuck", "running"} =>
                           object'[i].active /\ q.try = object'[i].failed
    BY DEF TriesCounted
  <2>1. CASE i # j
    BY <1>1, <1>4, <1>5, <2>1 DEF ObjectsInv, TriesCounted
  <2>2. CASE i = j
    <3>1. q \in Pods /\ q.phase \in {"failed", "succeeded"}
      BY <1>1, <1>2, <1>3, <1>4, <2>2
    <3>2. q.try <= BackoffLimit /\ q.try \in Nat
      BY <3>1, KubeAssumption DEF Pods
    <3>3. q.try < BackoffLimit + 1
      BY <3>2, KubeAssumption
    <3>4. QED
      BY <1>3, <1>4, <2>2, <3>1, <3>2, <3>3, KubeAssumption
  <2>3. QED
    BY <2>1, <2>2
<1>8. ActiveGoOn'
  BY <1>1, <1>3, <1>4 DEF ObjectsInv, ActiveGoOn
<1>9. \A i \in KubeJobs : IsOver(object[i]) => IsOver(object'[i])
  BY <1>3, <1>4 DEF IsOver
<1>10. QED
  BY <1>1, <1>2, <1>4, <1>5, <1>6, <1>7, <1>8, <1>9, KubeClusterMoves DEF ObjectsInv

\* Every step of the callers and of the cluster keeps the invariant.
LEMMA KubeNextKeeps ==
  ASSUME KubeInv, [KubeNext]_kubeVars
  PROVE  KubeInv'
<1>1. CASE UNCHANGED kubeVars
  BY <1>1 DEF kubeVars, KubeInv, KubeTypes, ObjectsInv, NumbersUsed, TriesCounted,
              ActiveGoOn, OverlapsExcused, DeletesOver
<1>2. ASSUME NEW c \in KubeCallers, KubeCall(c) PROVE KubeInv'
  BY <1>2, KubeReadsKeep, KubeDeletesKeep, KubeCreateKeeps, KubeListKeeps DEF KubeCall
<1>3. ASSUME NEW c \in KubeCallers, NEW j \in KubeJobs, KubeStart(c, j) \/ KubeCancel(c, j)
      PROVE  KubeInv'
  BY <1>3, KubeBeginKeeps DEF KubeStart, KubeCancel
<1>4. ASSUME NEW c \in KubeCallers, KubeCancelProject(c) PROVE KubeInv'
  <2>1. kube[c].job \in KubeJobs
    BY DEF KubeInv, KubeTypes, Callers
  <2>2. QED
    BY <1>4, <2>1, KubeBeginKeeps DEF KubeCancelProject
<1>5. ASSUME NEW j \in KubeJobs, Expire(j) PROVE KubeInv'
  <2>1. /\ object' = [object EXCEPT ![j] = NoObject] /\ pods' \subseteq pods
        /\ UNCHANGED <<kube, objects, errors, ended>>
    BY <1>5 DEF Expire
  <2>2. KubeTypes /\ ObjectsInv
    BY DEF KubeInv
  <2>3. QED
    BY <2>1, <2>2, ObjectGone, KubeClusterMoves
<1>6. ASSUME NEW p \in pods, PodMoves(p) \/ CountPod(p) \/ Collect(p) PROVE KubeInv'
  BY <1>6, PodStepKeeps, CountPodKeeps
<1>7. QED
  BY <1>1, <1>2, <1>3, <1>4, <1>5, <1>6, CreatePodKeeps, DeadlineKeeps DEF KubeNext

\* It holds before there is an object.
LEMMA KubeInitKeeps ==
  ASSUME KubeInit
  PROVE  KubeInv
<1>1. /\ 0 \in 0..MaxObjects /\ 0 \in 0..(BackoffLimit + 1) /\ 0 \in 0..MaxErrors
      /\ NoObject.no = 0 /\ ~NoObject.active
  BY KubeAssumption DEF NoObject
<1>2. NoObject \in Objects /\ KubeIdle \in Callers
  BY <1>1, KubeAssumption DEF NoObject, Objects, KubeIdle, Callers, Calls
<1>3. KubeTypes
  BY <1>1, <1>2 DEF KubeInit, KubeTypes
<1>4. ObjectsInv
  BY <1>1 DEF KubeInit, ObjectsInv, NumbersUsed, TriesCounted, ActiveGoOn
<1>5. OverlapsExcused /\ DeletesOver
  BY DEF KubeInit, KubeIdle, OverlapsExcused, DeletesOver
<1>6. QED
  BY <1>3, <1>4, <1>5 DEF KubeInit, KubeInv

\* The runner on Kubernetes (kubernetes_runner.py): start_job decides from the counts of a
\* job and from its pods, read by calls that may fail, that the job may be deleted. With
\* none of the excuses that SparesRunning lists, no pod of the job runs when it goes.
THEOREM KubernetesSparesRunning == KubeSpec => [](KubeTypeOK /\ SparesRunning)
<1>1. KubeInv => KubeTypeOK /\ SparesRunning
  BY DEF KubeInv, KubeTypes, KubeTypeOK, SparesRunning, Objects, Pods, Callers
<1>2. KubeInv /\ [KubeNext]_kubeVars => KubeInv'
  BY KubeNextKeeps
<1>3. QED
  BY <1>1, <1>2, KubeInitKeeps, PTL DEF KubeSpec

\* On either runner, a job that runs is not torn down by what start_job made of an answer.
THEOREM RunningJobsSpared == DockerSpec /\ KubeSpec => []RunningSpared
<1>1. RunningKept /\ SparesRunning => RunningSpared
  BY DEF RunningSpared
<1>2. QED
  BY <1>1, DockerKeepsRunning, KubernetesSparesRunning, PTL
================================================================================
