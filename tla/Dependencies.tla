------------------------------ MODULE Dependencies -----------------------------
(***************************************************************************)
(* The managers of an API process (api/dependencies.py): the coroutine of  *)
(* a request resolves what its endpoint depends on, one after the other.   *)
(* What is not there is made under a lock, the same one for all, after a   *)
(* second look.  The managers are assigned before they are initialized,    *)
(* which suspends the coroutine: another request meanwhile finds them.     *)
(***************************************************************************)
EXTENDS Integers, Sequences

CONSTANTS
  Requests,     \* requests to the API
  Unlocked,     \* nobody holds the lock
  MaxInitErrors \* bound on initializations that raise

ASSUME DependenciesAssumption == Unlocked \notin Requests /\ MaxInitErrors \in Nat

VARIABLES
  instance,   \* each singleton: there is "none", it is "made", or "ready"
  busMade,    \* whether the settings hold a bus, initialized or not
  holder,     \* who holds the lock
  resolving,  \* what each request still depends on, and where it stands
  initErrors, \* initializations that have raised
  timesMade, subscribed \* history: instances made, subscriptions to the events

dependencyVars ==
  <<instance, busMade, holder, resolving, initErrors, timesMade, subscribed>>

Backends == {"storage", "bus", "runner"}
Managers == {"models", "agents", "flows", "evaluations"}

\* What endpoints depend on, in the order in which it is resolved.
Flows == <<"storage", "bus", "runner", "agents", "models", "flows">>

Endpoints ==
  {<<"storage">>, <<"runner">>, <<"storage", "models">>, <<"storage", "agents">>, Flows,
   Append(Flows, "evaluations"),
   <<"storage", "models", "bus", "runner", "agents", "flows", "evaluations">>}

Idle == [needs |-> <<>>, at |-> "idle"]

DependenciesInit ==
  /\ instance = [k \in Backends \cup Managers |-> "none"] /\ busMade = FALSE
  /\ holder = Unlocked
  /\ resolving = [r \in Requests |-> Idle]
  /\ initErrors = 0
  /\ timesMade = [k \in Backends \cup Managers |-> 0] /\ subscribed = 0

Need(r) == Head(resolving[r].needs)

Stand(r, place) == resolving' = [resolving EXCEPT ![r].at = place]

\* The next dependency, or the endpoint itself.
Advance(r) ==
  LET needs == Tail(resolving[r].needs)
  IN  resolving' = [resolving EXCEPT ![r] = IF needs = <<>> THEN Idle
                                            ELSE [needs |-> needs, at |-> "look"]]

Ask(r, endpoint) ==
  /\ resolving[r].at = "idle"
  /\ resolving' = [resolving EXCEPT ![r] = [needs |-> endpoint, at |-> "look"]]
  /\ UNCHANGED <<instance, busMade, holder, initErrors, timesMade, subscribed>>

\* The fast path: the instance is there, ready or not.
Look(r) ==
  /\ resolving[r].at = "look"
  /\ IF instance[Need(r)] # "none" THEN Advance(r) ELSE Stand(r, "wait")
  /\ UNCHANGED <<instance, busMade, holder, initErrors, timesMade, subscribed>>

\* (Mutant: there is no second look.)
StillMissing_Assumed(k) == TRUE

\* The second look, under the lock.
StillMissing(k) == instance[k] = "none"

\* Storage and runner are made on the spot; the bus is assigned once it is initialized,
\* and made anew only where the settings hold none.
Make(r, k) ==
  /\ timesMade' = IF k = "bus" /\ busMade THEN timesMade ELSE [timesMade EXCEPT ![k] = @ + 1]
  /\ busMade' = (busMade \/ k = "bus")
  /\ IF k \in {"storage", "runner"}
     THEN instance' = [instance EXCEPT ![k] = "ready"] /\ Advance(r) /\ UNCHANGED holder
     ELSE /\ instance' = IF k = "bus" THEN instance ELSE [instance EXCEPT ![k] = "made"]
          /\ holder' = r /\ Stand(r, "initialize")

Lock(r) ==
  /\ resolving[r].at = "wait" /\ holder = Unlocked
  /\ IF StillMissing(Need(r)) THEN Make(r, Need(r))
     ELSE Advance(r) /\ UNCHANGED <<instance, busMade, holder, timesMade>>
  /\ UNCHANGED <<initErrors, subscribed>>

Initialize(r) ==
  /\ resolving[r].at = "initialize"
  /\ instance' = [instance EXCEPT ![Need(r)] = "ready"]
  /\ subscribed' = IF Need(r) = "evaluations" THEN subscribed + 1 ELSE subscribed
  /\ holder' = Unlocked /\ Advance(r)
  /\ UNCHANGED <<busMade, initErrors, timesMade>>

\* The request fails; a manager that was assigned stays as it is.
InitializeFails(r) ==
  /\ resolving[r].at = "initialize" /\ Need(r) # "evaluations"
  /\ initErrors < MaxInitErrors /\ initErrors' = initErrors + 1
  /\ resolving' = [resolving EXCEPT ![r] = Idle]
  /\ holder' = Unlocked
  /\ UNCHANGED <<instance, busMade, timesMade, subscribed>>

DependenciesNext == \E r \in Requests :
  \/ \E endpoint \in Endpoints : Ask(r, endpoint)
  \/ Look(r) \/ Lock(r) \/ Initialize(r) \/ InitializeFails(r)

DependenciesSpec == DependenciesInit /\ [][DependenciesNext]_dependencyVars

--------------------------------------------------------------------------------
(* Properties                                                                  *)

DependenciesTypeOK ==
  /\ instance \in [Backends \cup Managers -> {"none", "made", "ready"}]
  /\ holder \in Requests \cup {Unlocked}
  /\ \A r \in Requests : resolving[r].at \in {"idle", "look", "wait", "initialize"}
  /\ \A r \in Requests : holder = r <=> resolving[r].at = "initialize"
  /\ initErrors \in 0..MaxInitErrors

\* However many requests meet an API that has just started, and whatever fails, a process
\* has one instance of each kind, which all of its requests share: the jobs of the runner,
\* the subscribers of the bus, and one subscription for all evaluations.
OneInstanceEach ==
  subscribed <= 1 /\ \A k \in DOMAIN timesMade : timesMade[k] <= 1
================================================================================
