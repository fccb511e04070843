------------------------ MODULE EvaluationManagerProofs ------------------------
(***************************************************************************)
(* Proofs about the evaluation manager: what the record of an evaluation   *)
(* says has happened, although every coroutine works on a copy of its own  *)
(* and the last one to write wins; and what has happened gets into it,     *)
(* because each of them holds, or is about to read, every evaluation that  *)
(* nobody else will bring.                                                 *)
(***************************************************************************)
EXTENDS EvaluationManager, WellFoundedInduction, TLAPS

Actions == [op : Operations \cup {"event"}, at : Place, target : Instances, i : Instances,
            doc : Evaluation, running : BOOLEAN, complete : BOOLEAN, updates : BOOLEAN]

Executions == [stage : Stage, flow : Flow, unsaved : BOOLEAN]

\* A copy of the record says of nothing that it has been evaluated before it has.
Truthful(doc) ==
  /\ doc \in Evaluation
  /\ \A i \in Instances : doc.of[i].evaluated => i \in reported
  /\ doc.status = "completed" => reported = Instances

\* A loop that has found everything complete so far has passed evaluated instances only.
Passed(r) ==
  /\ r.at = "ask" /\ r.complete => \A k \in Instances : k < r.i => k \in reported
  /\ r.at \in {"process", "clean"} /\ r.complete =>
       \A k \in Instances : k <= r.i => k \in reported

\* A coroutine knows nothing that is not so.
Honest(r) == r \in Actions /\ Truthful(r.doc) /\ Passed(r)

\* A trajectory has the result of an evaluation that took place.
FlowsTruthful ==
  \A i \in Instances : flow[i].evaluated \/ exe[i].flow.evaluated => i \in reported

EvaluationInv ==
  /\ TypeOK /\ FlowsTruthful /\ Truthful(saved)
  /\ \A a \in Actors : Honest(actor[a])

\* The instances are numbered from 1.
Numbered == size \in Nat \ {0} /\ reported \subseteq Instances

--------------------------------------------------------------------------------
(* The records and the control of a coroutine                                  *)

\* The initial values are well typed.
LEMMA NewTypes ==
  ASSUME Numbered
  PROVE  /\ NewRecord \in Record /\ ~NewRecord.evaluated
         /\ NewEvaluation \in Evaluation /\ NewEvaluation.status = "pending"
         /\ \A i \in Instances : ~NewEvaluation.of[i].evaluated
         /\ NewFlow \in Flow /\ ~NewFlow.evaluated
         /\ 1 \in Instances
<1>1. NewRecord \in Record /\ ~NewRecord.evaluated
  BY DEF NewRecord, Record, ExecutionStatus
<1>2. 1 \in Instances
  BY DEF Numbered, Instances
<1>3. NewEvaluation \in Evaluation
  BY <1>1 DEF NewEvaluation, Evaluation, EvaluationStatus
<1>4. NewEvaluation.status = "pending" /\ \A i \in Instances : ~NewEvaluation.of[i].evaluated
  BY <1>1 DEF NewEvaluation
<1>5. NewFlow \in Flow /\ ~NewFlow.evaluated
  BY DEF NewFlow, Flow
<1>6. QED
  BY <1>1, <1>2, <1>3, <1>4, <1>5

\* A coroutine that has nothing to do has nothing to hide.
LEMMA RestHonest ==
  ASSUME Numbered
  PROVE  Honest(Rest) /\ Rest.at = "idle"
<1>1. /\ NewEvaluation \in Evaluation /\ NewEvaluation.status = "pending"
      /\ \A i \in Instances : ~NewEvaluation.of[i].evaluated
      /\ 1 \in Instances
  BY NewTypes
<1> HIDE DEF NewEvaluation, Evaluation, Instances
<1>2. Rest \in Actions /\ Rest.doc = NewEvaluation /\ Rest.at = "idle"
  BY <1>1 DEF Rest, Actions, Place
<1>3. Truthful(NewEvaluation)
  BY <1>1 DEF Truthful
<1>4. QED
  BY <1>2, <1>3 DEF Honest, Passed

\* One instance of a copy is brought up to date.
LEMMA DocUpdated ==
  ASSUME NEW d, Truthful(d), NEW i \in Instances, NEW rec \in Record,
         rec.evaluated => i \in reported
  PROVE  /\ Truthful([d EXCEPT !.of[i] = rec])
         /\ [d EXCEPT !.of[i] = rec].status = d.status
         /\ [d EXCEPT !.of[i] = rec].of[i] = rec
<1> HIDE DEF Record, Instances
<1>1. d.of \in [Instances -> Record] /\ d \in Evaluation
  BY DEF Truthful, Evaluation
<1> DEFINE of == [d.of EXCEPT ![i] = rec]
           e == [d EXCEPT !.of = of]
<1>2. of \in [Instances -> Record] /\ \A k \in Instances : of[k] = IF k = i THEN rec ELSE d.of[k]
  BY <1>1
<1> HIDE DEF of
<1>3. e \in Evaluation /\ e.of = of /\ e.status = d.status
  BY <1>1, <1>2 DEF Evaluation
<1>4. [d EXCEPT !.of[i] = rec] = e
  BY <1>1 DEF of, Evaluation
<1> HIDE DEF e
<1>5. Truthful(e)
  BY <1>2, <1>3 DEF Truthful
<1>6. QED
  BY <1>2, <1>3, <1>4, <1>5

\* The status of a copy is set.
LEMMA StatusUpdated ==
  ASSUME NEW d, Truthful(d), NEW s \in EvaluationStatus, s = "completed" => reported = Instances
  PROVE  /\ Truthful([d EXCEPT !.status = s])
         /\ [d EXCEPT !.status = s].status = s /\ [d EXCEPT !.status = s].of = d.of
<1> HIDE DEF Record, Instances, EvaluationStatus
<1> DEFINE e == [d EXCEPT !.status = s]
<1>1. e \in Evaluation /\ e.of = d.of /\ e.status = s
  BY DEF Truthful, Evaluation
<1> HIDE DEF e
<1>2. Truthful(e)
  BY <1>1 DEF Truthful
<1>3. QED
  BY <1>1, <1>2 DEF e

\* A status of a job, or of a trajectory, gives a well-formed record, and only the
\* trajectory says that the instance has been evaluated.
LEMMA RecordTypes ==
  ASSUME NEW rec \in Record, NEW s \in JobStatus \cup {ABSENT}, NEW f \in Flow
  PROVE  /\ Observed(rec, s) \in Record /\ Observed(rec, s).evaluated = rec.evaluated
         /\ [rec EXCEPT !.job = s] \in Record
         /\ [rec EXCEPT !.job = s].evaluated = rec.evaluated
         /\ Synced(rec, s) \in Record /\ Synced(rec, s).evaluated = rec.evaluated
         /\ Processed(rec, f) \in Record
         /\ Processed(rec, f).evaluated = (rec.evaluated \/ f.evaluated)
<1>1. /\ [rec EXCEPT !.job = s] \in Record
      /\ [rec EXCEPT !.job = s].evaluated = rec.evaluated
  BY DEF Record
<1>2. \A e \in ExecutionStatus : /\ [rec EXCEPT !.exec = e] \in Record
                                 /\ [rec EXCEPT !.exec = e].evaluated = rec.evaluated
  BY DEF Record
<1>3. {"queued", "running", "completed", "error", "created"} \subseteq ExecutionStatus
  BY DEF ExecutionStatus
<1>4. Observed(rec, s) \in Record /\ Observed(rec, s).evaluated = rec.evaluated
  BY <1>2, <1>3 DEF Observed
<1>5. Synced(rec, s) \in Record /\ Synced(rec, s).evaluated = rec.evaluated
  BY <1>2, <1>3 DEF Synced
<1>6. /\ Processed(rec, f) \in Record
      /\ Processed(rec, f).evaluated = (rec.evaluated \/ f.evaluated)
  BY <1>3 DEF Processed, Record, Flow
<1>7. QED
  BY <1>1, <1>4, <1>5, <1>6

\* Among some instances there is a first one.
LEMMA FirstExists ==
  ASSUME NEW S, S \subseteq Nat, S # {}
  PROVE  \E k \in S : \A l \in S : k <= l
<1> DEFINE Less == OpToRel(<, Nat)
<1>1. IsWellFoundedOn(Less, Nat)
  BY NatLessThanWellFounded
<1>2. \A k, l \in Nat : <<l, k>> \in Less <=> l < k
  BY DEF OpToRel
<1> HIDE DEF Less
<1>3. PICK k \in S : \A l \in S : ~(<<l, k>> \in Less)
  BY <1>1, WFMin
<1>4. \A l \in S : l \in Nat /\ k \in Nat /\ ~(l < k)
  BY <1>2, <1>3
<1>5. \A l \in S : k <= l
  BY <1>4
<1>6. QED
  BY <1>5

\* The record of a coroutine that goes on to a place where it has passed nothing.
LEMMA GoesOnHonest ==
  ASSUME NEW r \in Actions, NEW d, Truthful(d), NEW at \in Place,
         at \notin {"ask", "process", "clean"}
  PROVE  /\ Honest([r EXCEPT !.at = at, !.doc = d])
         /\ [r EXCEPT !.at = at, !.doc = d].at = at
<1>1. d \in Evaluation
  BY DEF Truthful
<1> HIDE DEF Evaluation, Instances
<1> DEFINE q == [r EXCEPT !.at = at, !.doc = d]
<1>2. q \in Actions /\ q.at = at /\ q.doc = d
  BY <1>1 DEF Actions
<1> HIDE DEF q
<1>3. Honest(q)
  BY <1>2 DEF Honest, Passed
<1>4. QED
  BY <1>2, <1>3 DEF q

\* The same for one whose copy stays as it is.
LEMMA StandHonest ==
  ASSUME NEW r \in Actions, Truthful(r.doc), NEW at \in Place,
         at \notin {"ask", "process", "clean"}
  PROVE  Honest([r EXCEPT !.at = at])
<1> HIDE DEF Evaluation, Instances
<1> DEFINE q == [r EXCEPT !.at = at]
<1>1. q \in Actions /\ q.at = at /\ q.doc = r.doc
  BY DEF Actions
<1> HIDE DEF q
<1>2. Honest(q)
  BY <1>1 DEF Honest, Passed
<1>3. QED
  BY <1>2 DEF q

\* A coroutine that ends by writing what it knows.
LEMMA SaveNextHonest ==
  ASSUME Numbered, NEW d, Truthful(d)
  PROVE  Honest(SaveNext(d)) /\ SaveNext(d).at = "save"
<1>1. Rest \in Actions /\ "save" \in Place
  BY RestHonest DEF Honest, Place
<1>2. Honest([Rest EXCEPT !.at = "save", !.doc = d])
      /\ [Rest EXCEPT !.at = "save", !.doc = d].at = "save"
  BY <1>1, GoesOnHonest
<1>3. QED
  BY <1>2 DEF SaveNext

\* The status that a request sets keeps a copy truthful.
LEMMA ResumedTruthful ==
  ASSUME NEW d, Truthful(d)
  PROVE  Truthful([d EXCEPT !.status = Resumed(@)])
<1>1. /\ Resumed(d.status) \in EvaluationStatus
      /\ Resumed(d.status) = "completed" => reported = Instances
  BY DEF Truthful, Evaluation, Resumed, EvaluationStatus
<1>2. QED
  BY <1>1, StatusUpdated

\* start_evaluation goes on honestly.
LEMMA StartFromHonest ==
  ASSUME Numbered, NEW r \in Actions, Truthful(r.doc), NEW i \in Nat \ {0}
  PROVE  Honest(StartFrom(r, i))
<1> DEFINE left == {k \in i..size : ~r.doc.of[k].evaluated}
<1>1. CASE left # {}
  <2> DEFINE k == CHOOSE k \in left : \A l \in left : k <= l
  <2>1. left \subseteq Nat
    BY DEF Numbered
  <2>2. \E m \in left : \A l \in left : m <= l
    BY <1>1, <2>1, FirstExists
  <2>3. k \in left
    BY <2>2
  <2>4. StartFrom(r, i) = [r EXCEPT !.at = "start", !.i = k]
    BY <1>1 DEF StartFrom
  <2>5. k \in Instances
    BY <2>3 DEF Instances, Numbered
  <2> HIDE DEF k
  <2>6. /\ [r EXCEPT !.at = "start", !.i = k] \in Actions
        /\ [r EXCEPT !.at = "start", !.i = k].at = "start"
        /\ [r EXCEPT !.at = "start", !.i = k].doc = r.doc
    BY <2>5 DEF Actions, Place
  <2>7. QED
    BY <2>4, <2>6 DEF Honest, Passed
<1>2. CASE left = {} /\ r.updates
  <2>1. StartFrom(r, i) = SaveNext([r.doc EXCEPT !.status = Resumed(@)])
    BY <1>2 DEF StartFrom
  <2>2. QED
    BY <2>1, ResumedTruthful, SaveNextHonest
<1>3. CASE left = {} /\ ~r.updates
  <2>1. StartFrom(r, i) = Rest
    BY <1>3 DEF StartFrom
  <2>2. QED
    BY <2>1, RestHonest
<1>4. QED
  BY <1>1, <1>2, <1>3

\* What an operation does with an evaluation that is up to date.
LEMMA AfterSyncHonest ==
  ASSUME Numbered, NEW r \in Actions, Truthful(r.doc)
  PROVE  Honest(AfterSync(r))
<1> DEFINE q == [Rest EXCEPT !.op = r.op, !.i = r.target, !.doc = r.doc]
<1>1. Rest \in Actions /\ Honest(Rest)
  BY RestHonest DEF Honest
<1>2. q \in Actions /\ q.doc = r.doc /\ q.at = Rest.at /\ Truthful(q.doc)
  <2> HIDE DEF Evaluation, Instances
  <2>1. r.doc \in Evaluation
    BY DEF Truthful
  <2>2. QED
    BY <1>1, <2>1 DEF Actions
<1>3. {"reset", "cancel_job", "process_one"} \subseteq Place
  BY DEF Place
<1> HIDE DEF q
<1>4. CASE r.op = "start"
  <2>1. AfterSync(r) = StartFrom(q, 1)
    BY <1>4 DEF AfterSync, q
  <2>2. QED
    BY <1>2, <2>1, StartFromHonest
<1>5. ASSUME NEW at \in {"reset", "cancel_job", "process_one"}, NEW d, Truthful(d)
      PROVE  Honest([q EXCEPT !.at = at, !.doc = d])
  BY <1>2, <1>3, <1>5, GoesOnHonest
<1>6. \A at \in {"reset", "process_one"} : Honest([q EXCEPT !.at = at])
  BY <1>2, <1>3, StandHonest
<1>7. CASE r.op = "start_instance"
  <2>1. AfterSync(r) = [q EXCEPT !.at = "reset"]
    BY <1>7 DEF AfterSync, q
  <2>2. QED
    BY <1>6, <2>1
<1>8. CASE r.op = "process_instance"
  <2>1. AfterSync(r) = [q EXCEPT !.at = "process_one"]
    BY <1>8 DEF AfterSync, q
  <2>2. QED
    BY <1>6, <2>1
<1>9. CASE r.op = "retry"
  <2> DEFINE d == [q.doc EXCEPT !.of[r.target] = NewRecord]
  <2>1. AfterSync(r) = [q EXCEPT !.at = "cancel_job", !.doc = d]
    <3>1. AfterSync(r) = [q EXCEPT !.at = "cancel_job", !.doc.of[r.target] = NewRecord]
      BY <1>9 DEF AfterSync, q
    <3>2. QED
      BY <1>2, <3>1 DEF Actions, Evaluation
  <2>2. r.target \in Instances /\ NewRecord \in Record /\ ~NewRecord.evaluated
    BY NewTypes DEF Actions
  <2>3. Truthful(d)
    BY <1>2, <2>2, DocUpdated
  <2> HIDE DEF d
  <2>4. QED
    BY <1>5, <2>1, <2>3
<1>10. CASE r.op \notin {"start", "start_instance", "process_instance", "retry"}
  <2>1. AfterSync(r) = Rest
    BY <1>10 DEF AfterSync
  <2>2. QED
    BY <1>1, <2>1
<1>11. QED
  BY <1>4, <1>7, <1>8, <1>9, <1>10

\* The end of a synchronisation: it completes what has been passed whole.
LEMMA ConcludeHonest ==
  ASSUME Numbered, NEW r \in Actions, Truthful(r.doc), r.complete => reported = Instances
  PROVE  Honest(Conclude(r))
<1> DEFINE status == Concluded(r.doc.status, r.running, r.complete)
           d == [r.doc EXCEPT !.status = status]
           q == [r EXCEPT !.doc.status = status]
<1>1. status \in EvaluationStatus /\ (status = "completed" => reported = Instances)
  BY DEF Concluded, EvaluationStatus
<1>2. Truthful(d) /\ d \in Evaluation
  BY <1>1, StatusUpdated DEF Truthful
<1>3. q = [r EXCEPT !.doc = d]
  BY DEF Actions
<1> HIDE DEF d
<1>4. q \in Actions /\ q.doc = d
  <2> HIDE DEF Evaluation, Instances
  <2>1. QED
    BY <1>2, <1>3 DEF Actions
<1>5. CASE r.updates \/ status # r.doc.status
  <2> DEFINE s == [Rest EXCEPT !.op = r.op, !.target = r.target]
  <2>1. s \in Actions
    <3> HIDE DEF Evaluation, Instances
    <3>1. Rest \in Actions
      BY RestHonest DEF Honest
    <3>2. QED
      BY <3>1 DEF Actions
  <2>2. Conclude(r) = [Rest EXCEPT !.op = r.op, !.at = "sync_save", !.target = r.target,
                                   !.doc = q.doc]
    BY <1>5 DEF Conclude
  <2>3. Conclude(r) = [s EXCEPT !.at = "sync_save", !.doc = d]
    <3>1. Rest \in Actions
      BY RestHonest DEF Honest
    <3>2. QED
      BY <1>4, <2>2, <3>1 DEF Actions
  <2> HIDE DEF s
  <2>4. "sync_save" \in Place
    BY DEF Place
  <2>5. Honest([s EXCEPT !.at = "sync_save", !.doc = d])
    BY <1>2, <2>1, <2>4, GoesOnHonest
  <2>6. QED
    BY <2>3, <2>5
<1>6. CASE ~(r.updates \/ status # r.doc.status)
  <2>1. Conclude(r) = AfterSync(q)
    BY <1>6 DEF Conclude
  <2>2. QED
    BY <1>2, <1>4, <2>1, AfterSyncHonest
<1>7. QED
  BY <1>5, <1>6

\* The loop goes on to the next instance, or has passed all of them.
LEMMA NextInstanceHonest ==
  ASSUME Numbered, NEW r \in Actions, Truthful(r.doc),
         r.complete => \A k \in Instances : k <= r.i => k \in reported
  PROVE  Honest(NextInstance(r))
<1>1. r.i \in Instances
  BY DEF Actions
<1>2. CASE r.i < size
  <2> DEFINE q == [r EXCEPT !.i = @ + 1, !.at = "ask"]
  <2>1. NextInstance(r) = q
    BY <1>2 DEF NextInstance
  <2>2. r.i + 1 \in Instances
    BY <1>1, <1>2 DEF Instances, Numbered
  <2>3. /\ q \in Actions /\ q.at = "ask" /\ q.i = r.i + 1 /\ q.doc = r.doc
        /\ q.complete = r.complete
    BY <2>2 DEF Actions, Place
  <2> HIDE DEF q
  <2>4. q.complete => \A k \in Instances : k < q.i => k \in reported
    BY <1>1, <2>3 DEF Instances, Numbered
  <2>5. QED
    BY <2>1, <2>3, <2>4 DEF Honest, Passed
<1>3. CASE ~(r.i < size)
  <2>1. \A k \in Instances : k <= r.i
    BY <1>1, <1>3 DEF Instances, Numbered
  <2>2. r.complete => reported = Instances
    BY <2>1 DEF Numbered
  <2>3. NextInstance(r) = Conclude(r)
    BY <1>3 DEF NextInstance
  <2>4. QED
    BY <2>2, <2>3, ConcludeHonest
<1>4. QED
  BY <1>2, <1>3

\* An instance is up to date.
LEMMA AfterUpdateHonest ==
  ASSUME Numbered, NEW r \in Actions, Truthful(r.doc),
         r.complete => \A k \in Instances : k <= r.i => k \in reported
  PROVE  Honest(AfterUpdate(r))
<1>1. CASE r.doc.of[r.i].evaluated /\ r.doc.of[r.i].job = COMPLETED
  <2> DEFINE q == [r EXCEPT !.at = "clean"]
  <2>1. AfterUpdate(r) = q
    BY <1>1 DEF AfterUpdate
  <2>2. /\ q \in Actions /\ q.at = "clean" /\ q.doc = r.doc /\ q.complete = r.complete
        /\ q.i = r.i
    BY DEF Actions, Place
  <2>3. QED
    BY <2>1, <2>2 DEF Honest, Passed
<1>2. CASE ~(r.doc.of[r.i].evaluated /\ r.doc.of[r.i].job = COMPLETED)
  <2>1. AfterUpdate(r) = NextInstance(r)
    BY <1>2 DEF AfterUpdate
  <2>2. QED
    BY <2>1, NextInstanceHonest
<1>3. QED
  BY <1>1, <1>2

\* An operation that has loaded the record.
LEMMA LoadedHonest ==
  ASSUME Numbered, NEW r \in Actions, Truthful(r.doc), r.i = 1
  PROVE  Honest(Loaded(r))
<1>1. {"process_all", "cancel_all"} \subseteq Place
  BY DEF Place
<1>3. CASE r.op = "process" \/ r.op = "cancel"
  <2>1. PICK at \in {"process_all", "cancel_all"} : Loaded(r) = [r EXCEPT !.at = at]
    BY <1>3 DEF Loaded
  <2>2. QED
    BY <1>1, <2>1, StandHonest
<1>4. CASE r.op \notin {"process", "cancel"} /\ r.doc.status = "completed"
  <2>1. Loaded(r) = AfterSync(r)
    BY <1>4 DEF Loaded
  <2>2. QED
    BY <2>1, AfterSyncHonest
<1>5. CASE r.op \notin {"process", "cancel"} /\ r.doc.status # "completed"
  <2> DEFINE q == [r EXCEPT !.at = "ask"]
  <2>1. Loaded(r) = q
    BY <1>5 DEF Loaded
  <2>2. q \in Actions /\ q.at = "ask" /\ q.doc = r.doc /\ q.i = 1
    BY DEF Actions, Place
  <2>3. \A k \in Instances : ~(k < 1)
    BY DEF Instances
  <2>4. QED
    BY <2>1, <2>2, <2>3 DEF Honest, Passed
<1>6. QED
  BY <1>3, <1>4, <1>5

--------------------------------------------------------------------------------
(* The steps                                                                   *)

\* A step that changes nothing but what the runner knows, the trajectories, the bus and
\* what has been evaluated, keeps what is known truthful.
LEMMA KnowledgeKept ==
  ASSUME Numbered, UNCHANGED size, reported \subseteq reported', reported' \subseteq Instances
  PROVE  /\ \A d : Truthful(d) => Truthful(d)'
         /\ \A r : Honest(r) => Honest(r)'
<1>1. /\ Instances' = Instances /\ Evaluation' = Evaluation /\ Actions' = Actions
  BY DEF Instances, Evaluation, Actions
<1>2. reported = Instances => reported' = Instances
  OBVIOUS
<1>3. ASSUME NEW d, Truthful(d) PROVE Truthful(d)'
  BY <1>1, <1>2, <1>3 DEF Truthful
<1>4. ASSUME NEW r, Honest(r) PROVE Honest(r)'
  <2>1. Truthful(r.doc)'
    BY <1>3, <1>4 DEF Honest
  <2>2. Passed(r)'
    BY <1>1, <1>4 DEF Honest, Passed
  <2>3. QED
    BY <1>1, <1>4, <2>1, <2>2 DEF Honest
<1>5. QED
  BY <1>3, <1>4

\* The actors and what they know, as types.
LEMMA KnowledgeTypes ==
  ASSUME EvaluationInv
  PROVE  /\ Numbered /\ actor \in [Actors -> Actions] /\ saved \in Evaluation
         /\ flow \in [Instances -> Flow] /\ job \in [Instances -> JobStatus \cup {ABSENT}]
         /\ exe \in [Instances -> Executions] /\ bus \in Seq(Event)
         /\ requests \in 0..MaxRequests[calm][size] /\ calm \in BOOLEAN
         /\ size \in 1..MaxInstances[calm] /\ MaxRequests[calm][size] \in Nat
<1>1. size \in 1..MaxInstances[calm] /\ calm \in BOOLEAN /\ reported \subseteq Instances
  BY DEF EvaluationInv, TypeOK
<1>2. MaxInstances[calm] \in Nat /\ MaxRequests[calm][size] \in Nat
  BY <1>1, ConstantsAssumption
<1>3. Numbered
  BY <1>1, <1>2 DEF Numbered
<1>4. QED
  BY <1>1, <1>2, <1>3 DEF EvaluationInv, TypeOK, Actions, Executions

\* A step of a coroutine that knows no more than is so.
LEMMA ActorMoves ==
  ASSUME EvaluationInv, NEW a \in Actors, NEW r, Honest(r), Become(a, r),
         saved' = saved \/ saved' = actor[a].doc,
         flow' \in [Instances -> Flow],
         \A i \in Instances : flow'[i].evaluated => i \in reported,
         job' \in [Instances -> JobStatus \cup {ABSENT}],
         exe' \in [Instances -> Executions],
         \A i \in Instances : exe'[i].flow.evaluated => i \in reported,
         bus' \in Seq(Event), requests' \in 0..MaxRequests[calm][size],
         UNCHANGED <<reported, size, calm>>
  PROVE  EvaluationInv'
<1>1. /\ Numbered /\ actor \in [Actors -> Actions] /\ saved \in Evaluation /\ calm \in BOOLEAN
      /\ Truthful(saved) /\ Honest(actor[a]) /\ \A b \in Actors : Honest(actor[b])
      /\ size \in 1..MaxInstances[calm]
  BY KnowledgeTypes DEF EvaluationInv
<1>2. /\ \A d : Truthful(d) => Truthful(d)'
      /\ \A q : Honest(q) => Honest(q)'
  BY <1>1, KnowledgeKept DEF Numbered
<1>3. actor' = [actor EXCEPT ![a] = r] /\ r \in Actions
  BY DEF Become, Honest
<1>4. actor' \in [Actors -> Actions] /\ \A b \in Actors : Honest(actor'[b])
  BY <1>1, <1>3
<1>5. Truthful(saved') /\ saved' \in Evaluation
  BY <1>1 DEF Honest, Truthful
<1>6. /\ Instances' = Instances /\ Evaluation' = Evaluation /\ Actions' = Actions
      /\ Flow' = Flow /\ Executions' = Executions /\ Event' = Event
  BY DEF Instances, Evaluation, Actions, Flow, Executions, Event
<1>7. TypeOK'
  <2>1. /\ saved' \in Evaluation' /\ flow' \in [Instances' -> Flow]
        /\ job' \in [Instances' -> JobStatus \cup {ABSENT}] /\ exe' \in [Instances' -> Executions]
        /\ bus' \in Seq(Event') /\ actor' \in [Actors -> Actions'] /\ reported' \subseteq Instances'
    BY <1>1, <1>4, <1>5, <1>6 DEF Numbered
  <2>2. /\ requests' \in 0..MaxRequests[calm'][size'] /\ size' \in 1..MaxInstances[calm']
        /\ calm' \in BOOLEAN
    BY <1>1
  <2>3. QED
    BY <2>1, <2>2 DEF TypeOK, Actions, Executions
<1>8. FlowsTruthful'
  BY <1>6 DEF FlowsTruthful
<1>9. Truthful(saved)'
  BY <1>5, <1>6 DEF Truthful
<1>10. \A b \in Actors : Honest(actor[b])'
  <2> SUFFICES ASSUME NEW b \in Actors PROVE Honest(actor[b])'
    OBVIOUS
  <2>1. Honest(actor'[b])
    BY <1>4
  <2>2. Truthful(actor[b].doc)'
    BY <1>6, <2>1 DEF Honest, Truthful
  <2>3. Passed(actor[b])'
    BY <1>6, <2>1 DEF Honest, Passed
  <2>4. QED
    BY <1>6, <2>1, <2>2, <2>3 DEF Honest
<1>11. QED
  BY <1>7, <1>8, <1>9, <1>10 DEF EvaluationInv

\* The same where storage and runner stay as they are, or only the record is written.
LEMMA ActorThinks ==
  ASSUME EvaluationInv, NEW a \in Actors, NEW r, Honest(r), Become(a, r),
         saved' = saved \/ saved' = actor[a].doc,
         bus' \in Seq(Event), requests' \in 0..MaxRequests[calm][size],
         UNCHANGED <<flow, job, exe, reported, size, calm>>
  PROVE  EvaluationInv'
<1>1. /\ flow' \in [Instances -> Flow] /\ job' \in [Instances -> JobStatus \cup {ABSENT}]
      /\ exe' \in [Instances -> Executions]
  BY KnowledgeTypes
<1>2. \A i \in Instances : /\ flow'[i].evaluated => i \in reported
                           /\ exe'[i].flow.evaluated => i \in reported
  BY DEF EvaluationInv, FlowsTruthful
<1>3. QED
  BY <1>1, <1>2, ActorMoves

\* The actions that start and cancel jobs.
LEMMA RunnerKeeps ==
  ASSUME EvaluationInv, \/ RunnerUnchanged
                        \/ \E i \in Instances : StartJob(i)
                        \/ \E these \in SUBSET Instances : CancelJobs(these)
  PROVE  /\ job' \in [Instances -> JobStatus \cup {ABSENT}]
         /\ exe' \in [Instances -> Executions]
         /\ \A i \in Instances : exe'[i].flow.evaluated => i \in reported
<1>1. /\ job \in [Instances -> JobStatus \cup {ABSENT}] /\ exe \in [Instances -> Executions]
      /\ \A i \in Instances : exe[i].flow.evaluated => i \in reported
      /\ Numbered
  BY KnowledgeTypes DEF EvaluationInv, FlowsTruthful
<1>2. CASE RunnerUnchanged
  BY <1>1, <1>2 DEF RunnerUnchanged
<1>3. CASE \E i \in Instances : StartJob(i)
  <2>1. PENDING \in JobStatus
    BY DEF JobStatus
  <2>2. QED
    BY <1>1, <1>3, <2>1 DEF StartJob
<1>4. CASE \E these \in SUBSET Instances : CancelJobs(these)
  <2>1. PICK these \in SUBSET Instances : CancelJobs(these)
    BY <1>4
  <2>2. CANCELED \in JobStatus
    BY DEF JobStatus
  <2>3. NotExecuting \in Executions /\ ~NotExecuting.flow.evaluated
    BY <1>1, NewTypes DEF NotExecuting, Executions, Stage
  <2>4. job' \in [Instances -> JobStatus \cup {ABSENT}]
    BY <1>1, <2>1, <2>2 DEF CancelJobs
  <2>5. exe' = [i \in Instances |-> IF i \in these THEN NotExecuting ELSE exe[i]]
    BY <2>1 DEF CancelJobs
  <2>6. QED
    BY <1>1, <2>3, <2>4, <2>5
<1>5. QED
  BY <1>2, <1>3, <1>4

\* The same where the trajectories stay as they are.
LEMMA ActorRuns ==
  ASSUME EvaluationInv, NEW a \in Actors, NEW r, Honest(r), Become(a, r),
         \/ RunnerUnchanged
         \/ \E i \in Instances : StartJob(i)
         \/ \E these \in SUBSET Instances : CancelJobs(these),
         UNCHANGED <<saved, flow, bus, reported, requests, fixed>>
  PROVE  EvaluationInv'
<1>1. /\ job' \in [Instances -> JobStatus \cup {ABSENT}]
      /\ exe' \in [Instances -> Executions]
      /\ \A i \in Instances : exe'[i].flow.evaluated => i \in reported
  BY RunnerKeeps
<1>2. /\ flow' \in [Instances -> Flow] /\ bus' \in Seq(Event)
      /\ requests' \in 0..MaxRequests[calm][size]
      /\ \A i \in Instances : flow'[i].evaluated => i \in reported
  BY KnowledgeTypes DEF EvaluationInv, FlowsTruthful
<1>3. UNCHANGED <<reported, size, calm>>
  BY DEF fixed
<1>4. QED
  BY <1>1, <1>2, <1>3, ActorMoves

\* A request loads the evaluation.
LEMMA RequestKeeps ==
  ASSUME EvaluationInv, NEW a \in Clients, NEW op \in Operations, NEW i \in Instances,
         Request(a, op, i)
  PROVE  EvaluationInv'
<1> DEFINE q == [Rest EXCEPT !.op = op, !.doc = saved, !.target = i]
<1>1. Numbered /\ Truthful(saved) /\ saved \in Evaluation /\ a \in Actors /\ bus \in Seq(Event)
      /\ requests \in 0..MaxRequests[calm][size] /\ calm \in BOOLEAN
  BY KnowledgeTypes DEF EvaluationInv, Actors
<1>2. q \in Actions /\ q.doc = saved /\ q.i = 1
  <2>1. Rest \in Actions /\ Rest.i = 1
    BY <1>1, RestHonest DEF Honest, Rest
  <2> HIDE DEF Evaluation, Instances
  <2>2. QED
    BY <1>1, <2>1 DEF Actions
<1>3. /\ Become(a, Loaded(q)) /\ UNCHANGED <<saved, flow, bus, reported, size, calm, job, exe>>
  BY DEF Request, fixed, RunnerUnchanged
<1>4. requests' \in 0..MaxRequests[calm][size]
  <2>1. MaxRequests[calm][size] \in Nat
    BY KnowledgeTypes
  <2>2. (op = "get" \/ requests < MaxRequests[calm][size])
        /\ requests' = IF op = "get" THEN requests ELSE requests + 1
    BY DEF Request
  <2>3. QED
    BY <1>1, <2>1, <2>2
<1> HIDE DEF q
<1>5. Honest(Loaded(q))
  BY <1>1, <1>2, LoadedHonest
<1>6. QED
  BY <1>1, <1>3, <1>4, <1>5, ActorThinks

\* An event loads the record of its instance.
LEMMA HandleEventKeeps ==
  ASSUME EvaluationInv, HandleEvent
  PROVE  EvaluationInv'
<1> DEFINE e == Head(bus)
           rec == [saved.of[e.i] EXCEPT !.exec = Told(@, e.kind)]
           doc == [saved EXCEPT !.of[e.i] = rec]
           q == [Rest EXCEPT !.at = "process_one", !.doc = doc, !.i = e.i]
<1>1. Numbered /\ Truthful(saved) /\ saved \in Evaluation /\ Handler \in Actors
      /\ bus \in Seq(Event) /\ bus # << >> /\ requests \in 0..MaxRequests[calm][size]
  BY KnowledgeTypes DEF EvaluationInv, Actors, HandleEvent
<1>2. e \in Event /\ Tail(bus) \in Seq(Event)
  BY <1>1
<1>3. e.i \in Instances
  BY <1>2 DEF Event
<1>4. saved.of[e.i] \in Record
  BY <1>1, <1>3 DEF Evaluation
<1>5. rec \in Record /\ rec.evaluated = saved.of[e.i].evaluated
  <2>1. Told(saved.of[e.i].exec, e.kind) \in ExecutionStatus
    BY <1>4 DEF Told, Record, ExecutionStatus
  <2>2. QED
    BY <1>4, <2>1 DEF Record
<1>6. [saved EXCEPT !.of[e.i].exec = Told(@, e.kind)] = doc
  BY <1>1, <1>3, <1>4 DEF Evaluation, Record
<1> HIDE DEF rec
<1>7. Truthful(doc)
  <2>1. rec.evaluated => e.i \in reported
    BY <1>1, <1>3, <1>5 DEF Truthful
  <2>2. QED
    BY <1>1, <1>3, <1>5, <2>1, DocUpdated
<1>8. Become(Handler, IF ReadAfter(e.kind) THEN q ELSE SaveNext(doc))
  BY <1>6 DEF HandleEvent
<1>9. bus' = Tail(bus) /\ UNCHANGED <<saved, flow, reported, requests, size, calm, job, exe>>
  BY DEF HandleEvent, fixed, RunnerUnchanged
<1> HIDE DEF doc
<1>10. Honest(q)
  <2>1. doc \in Evaluation /\ Rest \in Actions
    BY <1>1, <1>7, RestHonest DEF Truthful, Honest
  <2> HIDE DEF Evaluation, Instances, e
  <2>2. q \in Actions /\ q.at = "process_one" /\ q.doc = doc
    BY <1>3, <2>1 DEF Actions, Place
  <2>3. QED
    BY <1>7, <2>2 DEF Honest, Passed
<1> HIDE DEF q
<1>11. Honest(IF ReadAfter(e.kind) THEN q ELSE SaveNext(doc))
  BY <1>1, <1>7, <1>10, SaveNextHonest
<1>12. QED
  BY <1>1, <1>2, <1>8, <1>9, <1>11, ActorThinks

\* What a coroutine is, where it stands before an access.
LEMMA ActorTypes ==
  ASSUME EvaluationInv, NEW a \in Actors
  PROVE  /\ Numbered /\ actor[a] \in Actions /\ Truthful(actor[a].doc) /\ Passed(actor[a])
         /\ actor[a].i \in Instances /\ actor[a].target \in Instances
         /\ actor[a].doc \in Evaluation
         /\ actor[a].doc.of \in [Instances -> Record]
         /\ actor[a].doc.of[actor[a].i] \in Record
         /\ actor[a].doc.status \in EvaluationStatus
         /\ job[actor[a].i] \in JobStatus \cup {ABSENT}
         /\ flow[actor[a].i] \in Flow
         /\ requests \in 0..MaxRequests[calm][size] /\ bus \in Seq(Event)
<1>1. Numbered /\ actor[a] \in Actions /\ Truthful(actor[a].doc) /\ Passed(actor[a])
  BY KnowledgeTypes DEF EvaluationInv, Honest
<1>2. actor[a].i \in Instances /\ actor[a].target \in Instances /\ actor[a].doc \in Evaluation
  BY <1>1 DEF Actions
<1>3. /\ actor[a].doc.of \in [Instances -> Record]
      /\ actor[a].doc.status \in EvaluationStatus
  BY <1>2 DEF Evaluation
<1>4. QED
  BY <1>1, <1>2, <1>3, KnowledgeTypes

\* The loop looks at the job of an instance.
LEMMA AskKeeps ==
  ASSUME EvaluationInv, NEW a \in Actors, Ask(a)
  PROVE  EvaluationInv'
<1> DEFINE r == actor[a]
           s == job[r.i]
           rec == r.doc.of[r.i]
           seen == Observed(rec, s)
           changed == rec.job # s
           new == IF changed THEN Synced([seen EXCEPT !.job = s], s) ELSE seen
           d == [r.doc EXCEPT !.of[r.i] = new]
           next == [r EXCEPT !.doc.of[r.i] = new,
                             !.running = @ \/ s = RUNNING,
                             !.complete = @ /\ IsComplete(rec),
                             !.updates = @ \/ new # rec]
<1>1. /\ Numbered /\ r \in Actions /\ Truthful(r.doc) /\ r.i \in Instances /\ rec \in Record
      /\ s \in JobStatus \cup {ABSENT}
      /\ r.complete => \A k \in Instances : k < r.i => k \in reported
  BY ActorTypes DEF Passed, Ask, At
<1>2. Become(a, IF changed THEN [next EXCEPT !.at = "process"] ELSE AfterUpdate(next))
  BY DEF Ask
<1>3. UNCHANGED <<saved, flow, bus, reported, requests, fixed>> /\ RunnerUnchanged
  BY DEF Ask
<1>4. new \in Record /\ new.evaluated = rec.evaluated
  <2>1. NewFlow \in Flow
    BY <1>1, NewTypes
  <2>2. /\ seen \in Record /\ seen.evaluated = rec.evaluated
    BY <1>1, <2>1, RecordTypes
  <2> HIDE DEF seen
  <2>3. /\ [seen EXCEPT !.job = s] \in Record
        /\ [seen EXCEPT !.job = s].evaluated = seen.evaluated
    BY <1>1, <2>2 DEF Record
  <2> DEFINE w == [seen EXCEPT !.job = s]
  <2>4. w \in Record /\ w.evaluated = rec.evaluated
    BY <2>2, <2>3
  <2> HIDE DEF w
  <2>5. Synced(w, s) \in Record /\ Synced(w, s).evaluated = w.evaluated
    BY <1>1, <2>4, <2>1, RecordTypes
  <2>6. QED
    BY <2>2, <2>4, <2>5 DEF w
<1>5. IsComplete(rec) \in BOOLEAN /\ (s = RUNNING) \in BOOLEAN /\ (new # rec) \in BOOLEAN
  BY DEF IsComplete
<1>6. IsComplete(rec) => r.i \in reported
  BY <1>1 DEF IsComplete, Truthful
<1> HIDE DEF new, rec, s
<1>7. Truthful(d)
  <2>1. new.evaluated => r.i \in reported
    BY <1>1, <1>4 DEF Truthful, rec
  <2>2. QED
    BY <1>1, <1>4, <2>1, DocUpdated
<1>8. next = [r EXCEPT !.doc = d, !.running = @ \/ s = RUNNING,
                       !.complete = @ /\ IsComplete(rec), !.updates = @ \/ new # rec]
  BY <1>1 DEF Actions
<1> HIDE DEF d
<1>9. /\ next \in Actions /\ next.doc = d /\ next.i = r.i
      /\ next.complete = (r.complete /\ IsComplete(rec))
  <2>1. d \in Evaluation
    BY <1>7 DEF Truthful
  <2> HIDE DEF Evaluation, Instances, next
  <2>2. QED
    BY <1>1, <1>5, <1>8, <2>1 DEF Actions
<1> HIDE DEF next
<1>10. next.complete => \A k \in Instances : k <= next.i => k \in reported
  <2>1. \A k \in Instances : k <= r.i => k < r.i \/ k = r.i
    BY <1>1 DEF Instances, Numbered
  <2>2. QED
    BY <1>1, <1>6, <1>9, <2>1
<1>11. Honest([next EXCEPT !.at = "process"])
  <2> DEFINE p == [next EXCEPT !.at = "process"]
  <2>1. /\ p \in Actions /\ p.at = "process" /\ p.doc = next.doc /\ p.i = next.i
        /\ p.complete = next.complete
    BY <1>9 DEF Actions, Place
  <2> HIDE DEF p
  <2>2. Honest(p)
    BY <1>7, <1>9, <1>10, <2>1 DEF Honest, Passed
  <2>3. QED
    BY <2>2 DEF p
<1>12. Honest(AfterUpdate(next))
  BY <1>1, <1>7, <1>9, <1>10, AfterUpdateHonest
<1>13. QED
  <2> DEFINE q == IF changed THEN [next EXCEPT !.at = "process"] ELSE AfterUpdate(next)
  <2>1. Honest(q)
    BY <1>11, <1>12
  <2>2. Become(a, q)
    BY <1>2
  <2> HIDE DEF q
  <2>3. QED
    BY <1>3, <2>1, <2>2, ActorRuns

\* The results of a trajectory are read into the copy.
LEMMA ProcessKeeps ==
  ASSUME EvaluationInv, NEW a \in Actors, Process(a)
  PROVE  EvaluationInv'
<1> DEFINE me == actor[a]
           new == Processed(me.doc.of[me.i], flow[me.i])
           d == [me.doc EXCEPT !.of[me.i] = new]
           r == [actor[a] EXCEPT !.doc.of[actor[a].i] = Processed(@, flow[actor[a].i])]
<1>1. /\ Numbered /\ me \in Actions /\ Truthful(me.doc) /\ me.i \in Instances
      /\ me.doc.of[me.i] \in Record /\ flow[me.i] \in Flow /\ Passed(me)
  BY ActorTypes
<1>2. UNCHANGED <<saved, flow, bus, reported, requests, fixed>> /\ RunnerUnchanged
      /\ me.at \in {"process", "process_one", "process_all"}
  BY DEF Process
<1>3. new \in Record /\ (new.evaluated => me.i \in reported)
  <2>1. ABSENT \in JobStatus \cup {ABSENT}
    OBVIOUS
  <2>2. new \in Record /\ new.evaluated = (me.doc.of[me.i].evaluated \/ flow[me.i].evaluated)
    BY <1>1, <2>1, RecordTypes
  <2>3. QED
    BY <1>1, <2>2 DEF Truthful, EvaluationInv, FlowsTruthful
<1>4. r = [me EXCEPT !.doc = d]
  BY <1>1 DEF Actions, Evaluation
<1> HIDE DEF new
<1>5. Truthful(d)
  BY <1>1, <1>3, DocUpdated
<1> HIDE DEF d
<1>6. /\ r \in Actions /\ r.doc = d /\ r.at = me.at /\ r.i = me.i
      /\ r.complete = me.complete
  <2>1. d \in Evaluation
    BY <1>5 DEF Truthful
  <2> HIDE DEF Evaluation, Instances, r
  <2>2. QED
    BY <1>1, <1>4, <2>1 DEF Actions
<1>7. \/ r.at = "process" /\ Become(a, AfterUpdate(r))
      \/ r.at = "process_one" /\ Become(a, SaveNext(r.doc))
      \/ r.at = "process_all" /\ r.i < size /\ Become(a, [r EXCEPT !.i = @ + 1])
      \/ r.at = "process_all" /\ r.i = size
         /\ Become(a, SaveNext([r.doc EXCEPT !.status =
                                  IF \A i \in Instances : IsComplete(r.doc.of[i])
                                  THEN "completed" ELSE @]))
  BY DEF Process
<1> HIDE DEF r
<1>8. ASSUME NEW q, Honest(q), Become(a, q) PROVE EvaluationInv'
  BY <1>2, <1>8, ActorRuns
<1>9. CASE r.at = "process" /\ Become(a, AfterUpdate(r))
  <2>1. r.complete => \A k \in Instances : k <= r.i => k \in reported
    BY <1>1, <1>6, <1>9 DEF Passed
  <2>2. Honest(AfterUpdate(r))
    BY <1>1, <1>5, <1>6, <2>1, AfterUpdateHonest
  <2>3. QED
    BY <1>8, <1>9, <2>2
<1>10. CASE Become(a, SaveNext(r.doc))
  BY <1>1, <1>5, <1>6, <1>8, <1>10, SaveNextHonest
<1>11. CASE r.at = "process_all" /\ r.i < size /\ Become(a, [r EXCEPT !.i = @ + 1])
  <2> DEFINE q == [r EXCEPT !.i = @ + 1]
  <2>1. r.i + 1 \in Instances
    BY <1>1, <1>6, <1>11 DEF Instances, Numbered
  <2>2. q \in Actions /\ q.at = "process_all" /\ q.doc = d
    BY <1>6, <1>11, <2>1 DEF Actions
  <2> HIDE DEF q
  <2>3. Honest(q)
    BY <1>5, <2>2 DEF Honest, Passed
  <2>4. QED
    BY <1>8, <1>11, <2>3 DEF q
<1>12. CASE Become(a, SaveNext([r.doc EXCEPT !.status =
                                  IF \A i \in Instances : IsComplete(r.doc.of[i])
                                  THEN "completed" ELSE @]))
  <2> DEFINE s == IF \A i \in Instances : IsComplete(r.doc.of[i]) THEN "completed"
                  ELSE r.doc.status
  <2>1. s \in EvaluationStatus /\ (s = "completed" => reported = Instances)
    <3>1. CASE \A i \in Instances : IsComplete(r.doc.of[i])
      BY <1>1, <1>5, <1>6, <3>1 DEF IsComplete, Truthful, EvaluationStatus, Numbered
    <3>2. CASE ~\A i \in Instances : IsComplete(r.doc.of[i])
      BY <1>5, <1>6, <3>2 DEF Truthful, Evaluation
    <3>3. QED
      BY <3>1, <3>2
  <2>2. Become(a, SaveNext([r.doc EXCEPT !.status = s]))
    BY <1>12
  <2> HIDE DEF s
  <2>3. Truthful([r.doc EXCEPT !.status = s])
    BY <1>5, <1>6, <2>1, StatusUpdated
  <2>4. QED
    BY <1>1, <1>8, <2>2, <2>3, SaveNextHonest
<1>13. QED
  BY <1>7, <1>9, <1>10, <1>11, <1>12

\* The completed job of an evaluated instance is removed.
LEMMA CleanKeeps ==
  ASSUME EvaluationInv, NEW a \in Actors, Clean(a)
  PROVE  EvaluationInv'
<1> DEFINE r == actor[a]
           rec == [r.doc.of[r.i] EXCEPT !.job = ABSENT]
           d == [r.doc EXCEPT !.of[r.i] = rec]
           q == [r EXCEPT !.doc.of[r.i].job = ABSENT, !.updates = TRUE]
<1>1. /\ Numbered /\ r \in Actions /\ Truthful(r.doc) /\ r.i \in Instances
      /\ r.doc.of[r.i] \in Record
      /\ r.complete => \A k \in Instances : k <= r.i => k \in reported
  BY ActorTypes DEF Passed, Clean, At
<1>2. UNCHANGED <<saved, flow, bus, reported, requests, fixed>>
  BY DEF Clean
<1>3. rec \in Record /\ rec.evaluated = r.doc.of[r.i].evaluated
  BY <1>1 DEF Record
<1>4. q = [r EXCEPT !.doc = d, !.updates = TRUE]
  BY <1>1 DEF Actions, Evaluation, Record
<1> HIDE DEF rec
<1>5. Truthful(d)
  <2>1. rec.evaluated => r.i \in reported
    BY <1>1, <1>3 DEF Truthful
  <2>2. QED
    BY <1>1, <1>3, <2>1, DocUpdated
<1> HIDE DEF d
<1>6. q \in Actions /\ q.doc = d /\ q.i = r.i /\ q.complete = r.complete
  <2>1. d \in Evaluation
    BY <1>5 DEF Truthful
  <2> HIDE DEF Evaluation, Instances, q
  <2>2. QED
    BY <1>1, <1>4, <2>1 DEF Actions
<1>7. \/ CancelJobs({r.i}) /\ Become(a, NextInstance(q))
      \/ RunnerUnchanged /\ Become(a, NextInstance(r))
  BY DEF Clean
<1> HIDE DEF q
<1>8. Honest(NextInstance(q)) /\ Honest(NextInstance(r))
  BY <1>1, <1>5, <1>6, NextInstanceHonest
<1>9. {r.i} \in SUBSET Instances
  BY <1>1
<1>10. QED
  BY <1>2, <1>7, <1>8, <1>9, ActorRuns

\* A coroutine writes all that it knows of the evaluation.
LEMMA SaveKeeps ==
  ASSUME EvaluationInv, NEW a \in Actors, Save(a)
  PROVE  EvaluationInv'
<1> DEFINE r == IF At(a, "sync_save") THEN AfterSync(actor[a]) ELSE Rest
<1>1. Honest(r)
  <2>1. /\ Numbered /\ actor[a] \in Actions /\ Truthful(actor[a].doc)
    BY ActorTypes
  <2>2. QED
    BY <2>1, RestHonest, AfterSyncHonest
<1>2. /\ Become(a, r) /\ saved' = actor[a].doc
      /\ UNCHANGED <<flow, job, exe, bus, reported, requests, size, calm>>
  BY DEF Save, fixed, RunnerUnchanged
<1>3. bus' \in Seq(Event) /\ requests' \in 0..MaxRequests[calm][size]
  BY <1>2, ActorTypes
<1> HIDE DEF r
<1>4. QED
  BY <1>1, <1>2, <1>3, ActorThinks

\* The copy of a coroutine is replaced, and perhaps the place where it stands.
LEMMA CopyReplaced ==
  ASSUME Numbered, NEW r \in Actions, Truthful(r.doc), NEW rec \in Record,
         rec.evaluated => r.i \in reported, NEW at \in Place,
         at \notin {"ask", "process", "clean"}
  PROVE  /\ Truthful([r.doc EXCEPT !.of[r.i] = rec])
         /\ [r EXCEPT !.doc.of[r.i] = rec] \in Actions
         /\ [r EXCEPT !.doc.of[r.i] = rec].doc = [r.doc EXCEPT !.of[r.i] = rec]
         /\ Honest([[r EXCEPT !.doc.of[r.i] = rec] EXCEPT !.at = at])
<1> DEFINE d == [r.doc EXCEPT !.of[r.i] = rec]
           q == [r EXCEPT !.doc.of[r.i] = rec]
<1>1. r.i \in Instances
  BY DEF Actions
<1>2. Truthful(d)
  BY <1>1, DocUpdated
<1>3. q = [r EXCEPT !.doc = d]
  BY <1>1 DEF Actions, Evaluation
<1> HIDE DEF d
<1>4. q \in Actions /\ q.doc = d
  <2>1. d \in Evaluation
    BY <1>2 DEF Truthful
  <2> HIDE DEF Evaluation, Instances, q
  <2>2. QED
    BY <1>3, <2>1 DEF Actions
<1> HIDE DEF q
<1>5. Honest([q EXCEPT !.at = at])
  BY <1>2, <1>4, StandHonest
<1>6. QED
  BY <1>2, <1>4, <1>5 DEF d, q

\* start_evaluation starts the job of an instance.
LEMMA StartKeeps ==
  ASSUME EvaluationInv, NEW a \in Actors, Start(a)
  PROVE  EvaluationInv'
<1> DEFINE r == actor[a]
           rec == [r.doc.of[r.i] EXCEPT !.exec = "queued"]
           q == [r EXCEPT !.doc.of[r.i] = rec]
           r1 == [r EXCEPT !.doc.of[r.i].exec = "queued", !.updates = TRUE]
           p == IF Starts(r.i) THEN r1 ELSE r
<1>1. /\ Numbered /\ r \in Actions /\ Truthful(r.doc) /\ r.i \in Instances
      /\ r.doc.of[r.i] \in Record
  BY ActorTypes
<1>2. rec \in Record /\ rec.evaluated = r.doc.of[r.i].evaluated
  BY <1>1 DEF Record, ExecutionStatus
<1>3. r1 = [q EXCEPT !.updates = TRUE]
  BY <1>1 DEF Actions, Evaluation, Record
<1> HIDE DEF rec
<1>4. q \in Actions /\ Truthful(q.doc)
  <2>1. rec.evaluated => r.i \in reported
    BY <1>1, <1>2 DEF Truthful
  <2>2. "idle" \in Place
    BY DEF Place
  <2>3. QED
    BY <1>1, <1>2, <2>1, <2>2, CopyReplaced
<1> HIDE DEF q
<1>5. r1 \in Actions /\ Truthful(r1.doc)
  BY <1>3, <1>4 DEF Actions
<1>6. p \in Actions /\ Truthful(p.doc)
  BY <1>1, <1>5
<1>7. r.i + 1 \in Nat \ {0}
  BY <1>1 DEF Instances
<1>8. Become(a, StartFrom(p, r.i + 1)) /\ StartJob(r.i)
      /\ UNCHANGED <<saved, flow, bus, reported, requests, fixed>>
  BY DEF Start
<1> HIDE DEF p
<1>9. Honest(StartFrom(p, r.i + 1))
  BY <1>1, <1>6, <1>7, StartFromHonest
<1>10. QED
  BY <1>1, <1>8, <1>9, ActorRuns

\* start_instance forgets an error.
LEMMA ResetKeeps ==
  ASSUME EvaluationInv, NEW a \in Actors, Reset(a)
  PROVE  EvaluationInv'
<1> DEFINE r == actor[a]
           f == flow[r.i]
           rec == IF r.doc.of[r.i].exec = "error"
                  THEN [NewRecord EXCEPT !.job = r.doc.of[r.i].job] ELSE r.doc.of[r.i]
           next == [r EXCEPT !.doc.of[r.i] = rec]
<1>1. /\ Numbered /\ r \in Actions /\ Truthful(r.doc) /\ r.i \in Instances
      /\ r.doc.of[r.i] \in Record
  BY ActorTypes
<1>2. rec \in Record /\ (rec.evaluated => r.i \in reported)
  <2>1. NewRecord \in Record /\ ~NewRecord.evaluated
    BY <1>1, NewTypes
  <2>2. /\ [NewRecord EXCEPT !.job = r.doc.of[r.i].job] \in Record
        /\ ~[NewRecord EXCEPT !.job = r.doc.of[r.i].job].evaluated
    BY <1>1, <2>1 DEF Record
  <2>3. r.doc.of[r.i].evaluated => r.i \in reported
    BY <1>1 DEF Truthful
  <2>4. QED
    BY <1>1, <2>2, <2>3
<1>3. \/ Become(a, [next EXCEPT !.at = "save_flow"])
      \/ Become(a, Rest)
      \/ Become(a, [next EXCEPT !.at = "launch"])
  <2>1. Become(a, CASE f.error -> [next EXCEPT !.at = "save_flow"]
                    [] ~f.error /\ IsFinished(rec) /\ f.evaluated /\ f.finished -> Rest
                    [] OTHER -> [next EXCEPT !.at = "launch"])
    BY DEF Reset
  <2> HIDE DEF rec, next, f
  <2>2. QED
    BY <2>1
<1> HIDE DEF rec
<1>4. {"save_flow", "launch"} \subseteq Place
  BY DEF Place
<1>5. Honest([next EXCEPT !.at = "save_flow"]) /\ Honest([next EXCEPT !.at = "launch"])
  BY <1>1, <1>2, <1>4, CopyReplaced
<1>6. Honest(Rest)
  BY <1>1, RestHonest
<1> HIDE DEF next
<1>7. UNCHANGED <<saved, flow, bus, reported, requests, fixed>> /\ RunnerUnchanged
  BY DEF Reset
<1>8. QED
  BY <1>3, <1>5, <1>6, <1>7, ActorRuns

\* The other steps of start_instance, retry_instance and cancel_evaluation.
LEMMA InstanceStepsKeep ==
  ASSUME EvaluationInv, NEW a \in Actors,
         SaveFlow(a) \/ Launch(a) \/ LookAtJob(a) \/ CancelToRetry(a) \/ CancelAll(a)
  PROVE  EvaluationInv'
<1> DEFINE r == actor[a]
<1>1. /\ Numbered /\ r \in Actions /\ Truthful(r.doc) /\ r.i \in Instances
      /\ r.doc.of[r.i] \in Record /\ job[r.i] \in JobStatus \cup {ABSENT}
  BY ActorTypes
<1>2. {"launch", "status"} \subseteq Place
  BY DEF Place
<1>3. Honest([r EXCEPT !.at = "launch"]) /\ Honest([r EXCEPT !.at = "status"])
      /\ Honest(Rest)
  BY <1>1, <1>2, StandHonest, RestHonest
<1>4. CASE SaveFlow(a)
  <2>1. /\ flow' = [flow EXCEPT ![r.i] = NewFlow] /\ Become(a, [r EXCEPT !.at = "launch"])
        /\ UNCHANGED <<saved, bus, reported, requests, size, calm, job, exe>>
    BY <1>4 DEF SaveFlow, fixed, RunnerUnchanged
  <2>2. /\ flow \in [Instances -> Flow] /\ NewFlow \in Flow /\ ~NewFlow.evaluated
        /\ job \in [Instances -> JobStatus \cup {ABSENT}] /\ exe \in [Instances -> Executions]
        /\ bus \in Seq(Event) /\ requests \in 0..MaxRequests[calm][size]
    BY <1>1, KnowledgeTypes, NewTypes
  <2>3. flow' \in [Instances -> Flow] /\ \A i \in Instances : flow'[i].evaluated => i \in reported
    BY <2>1, <2>2 DEF EvaluationInv, FlowsTruthful
  <2>4. \A i \in Instances : exe'[i].flow.evaluated => i \in reported
    BY <2>1 DEF EvaluationInv, FlowsTruthful
  <2> HIDE DEF r
  <2>5. QED
    BY <1>3, <2>1, <2>2, <2>3, <2>4, ActorMoves
<1>5. CASE Launch(a)
  <2>1. /\ StartJob(r.i) /\ UNCHANGED <<saved, flow, bus, reported, requests, fixed>>
        /\ Become(a, IF r.op = "retry" THEN SaveNext(r.doc) ELSE [r EXCEPT !.at = "status"])
    BY <1>5 DEF Launch
  <2>2. Honest(SaveNext(r.doc))
    BY <1>1, SaveNextHonest
  <2>3. QED
    BY <1>1, <1>3, <2>1, <2>2, ActorRuns
<1>6. CASE LookAtJob(a)
  <2> DEFINE s == job[r.i]
             rec == Synced([r.doc.of[r.i] EXCEPT !.job = s], s)
             d == [r.doc EXCEPT !.of[r.i] = rec]
             e == [d EXCEPT !.status = Resumed(@)]
  <2>1. /\ UNCHANGED <<saved, flow, bus, reported, requests, fixed>> /\ RunnerUnchanged
        /\ Become(a, SaveNext([r.doc EXCEPT !.status = Resumed(@),
                                            !.of[r.i] = Synced([@ EXCEPT !.job = s], s)]))
    BY <1>6 DEF LookAtJob
  <2>2. [r.doc EXCEPT !.status = Resumed(@), !.of[r.i] = Synced([@ EXCEPT !.job = s], s)] = e
    BY <1>1 DEF Actions, Evaluation
  <2>3. rec \in Record /\ (rec.evaluated => r.i \in reported)
    <3> DEFINE w == [r.doc.of[r.i] EXCEPT !.job = s]
    <3>1. w \in Record /\ w.evaluated = r.doc.of[r.i].evaluated
      BY <1>1 DEF Record
    <3> HIDE DEF w
    <3>2. NewFlow \in Flow
      BY <1>1, NewTypes
    <3>3. Synced(w, s) \in Record /\ Synced(w, s).evaluated = w.evaluated
      BY <1>1, <3>1, <3>2, RecordTypes
    <3>4. QED
      BY <1>1, <3>1, <3>3 DEF Truthful, w
  <2> HIDE DEF rec
  <2>4. Truthful(d)
    BY <1>1, <2>3, DocUpdated
  <2> HIDE DEF d
  <2>5. Truthful(e)
    BY <2>4, ResumedTruthful
  <2> HIDE DEF e
  <2>6. Honest(SaveNext(e))
    BY <1>1, <2>5, SaveNextHonest
  <2>7. QED
    BY <2>1, <2>2, <2>6, ActorRuns
<1>7. CASE CancelToRetry(a)
  <2>1. /\ CancelJobs({r.i}) /\ UNCHANGED <<saved, flow, bus, reported, requests, fixed>>
        /\ Become(a, [r EXCEPT !.at = "launch"]) /\ {r.i} \in SUBSET Instances
    BY <1>1, <1>7 DEF CancelToRetry
  <2>2. QED
    BY <1>3, <2>1, ActorRuns
<1>8. CASE CancelAll(a)
  <2>1. /\ CancelJobs(Instances) /\ UNCHANGED <<saved, flow, bus, reported, requests, fixed>>
        /\ Become(a, SaveNext([r.doc EXCEPT !.status = "paused"])) \/ Become(a, Rest)
    BY <1>8 DEF CancelAll
  <2>2. Truthful([r.doc EXCEPT !.status = "paused"])
    <3>1. "paused" \in EvaluationStatus /\ "paused" # "completed"
      BY DEF EvaluationStatus
    <3>2. QED
      BY <1>1, <3>1, StatusUpdated
  <2>3. Honest(SaveNext([r.doc EXCEPT !.status = "paused"]))
    BY <1>1, <2>2, SaveNextHonest
  <2>4. Instances \in SUBSET Instances
    OBVIOUS
  <2>5. QED
    BY <1>3, <2>1, <2>3, <2>4, ActorRuns
<1>9. QED
  BY <1>4, <1>5, <1>6, <1>7, <1>8

\* A step of the jobs keeps the invariant when it claims no evaluation.
LEMMA JobMoves ==
  ASSUME EvaluationInv,
         flow' \in [Instances -> Flow], job' \in [Instances -> JobStatus \cup {ABSENT}],
         exe' \in [Instances -> Executions], bus' \in Seq(Event),
         \A i \in Instances : flow'[i].evaluated \/ exe'[i].flow.evaluated => i \in reported',
         reported \subseteq reported', reported' \subseteq Instances,
         UNCHANGED <<saved, actor, requests, fixed>>
  PROVE  EvaluationInv'
<1>1. /\ Numbered /\ actor \in [Actors -> Actions] /\ saved \in Evaluation
      /\ requests \in 0..MaxRequests[calm][size] /\ calm \in BOOLEAN
      /\ Truthful(saved) /\ \A b \in Actors : Honest(actor[b])
      /\ size' = size /\ calm' = calm /\ size \in 1..MaxInstances[calm]
  BY KnowledgeTypes DEF EvaluationInv, fixed
<1>2. /\ Instances' = Instances /\ Evaluation' = Evaluation /\ Actions' = Actions
      /\ Flow' = Flow /\ Executions' = Executions /\ Event' = Event
  BY <1>1 DEF Instances, Evaluation, Actions, Flow, Executions, Event
<1>3. TypeOK'
  <2>1. /\ saved' \in Evaluation' /\ flow' \in [Instances' -> Flow]
        /\ job' \in [Instances' -> JobStatus \cup {ABSENT}] /\ exe' \in [Instances' -> Executions]
        /\ bus' \in Seq(Event') /\ actor' \in [Actors -> Actions'] /\ reported' \subseteq Instances'
    BY <1>1, <1>2
  <2>2. /\ requests' \in 0..MaxRequests[calm'][size'] /\ size' \in 1..MaxInstances[calm']
        /\ calm' \in BOOLEAN
    BY <1>1
  <2>3. QED
    BY <2>1, <2>2 DEF TypeOK, Actions, Executions
<1>4. FlowsTruthful'
  BY <1>2 DEF FlowsTruthful
<1>5. Truthful(saved)'
  BY <1>1, <1>2 DEF Truthful
<1>6. \A b \in Actors : Honest(actor[b])'
  <2> SUFFICES ASSUME NEW b \in Actors PROVE Honest(actor[b])'
    OBVIOUS
  <2>1. Honest(actor[b]) /\ actor' = actor
    BY <1>1
  <2>2. Truthful(actor[b].doc)'
    BY <1>2, <2>1 DEF Honest, Truthful
  <2>3. Passed(actor[b])'
    BY <1>2, <2>1 DEF Honest, Passed
  <2>4. QED
    BY <1>2, <2>1, <2>2, <2>3 DEF Honest
<1>7. QED
  BY <1>3, <1>4, <1>5, <1>6 DEF EvaluationInv

\* The steps of a job: only evaluate_instance makes a trajectory that has been evaluated.
LEMMA JobStepsKeep ==
  ASSUME EvaluationInv, NEW i \in Instances, JobSteps(i) \/ JobDies(i) \/ JobForgotten(i)
  PROVE  EvaluationInv'
<1>1. /\ Numbered /\ flow \in [Instances -> Flow]
      /\ job \in [Instances -> JobStatus \cup {ABSENT}] /\ exe \in [Instances -> Executions]
      /\ bus \in Seq(Event) /\ flow[i] \in Flow /\ exe[i] \in Executions /\ exe[i].flow \in Flow
      /\ \A k \in Instances : flow[k].evaluated \/ exe[k].flow.evaluated => k \in reported
      /\ reported \subseteq Instances
  BY KnowledgeTypes DEF EvaluationInv, FlowsTruthful, Executions, Numbered
<1>2. NotExecuting \in Executions /\ ~NotExecuting.flow.evaluated
  BY <1>1, NewTypes DEF NotExecuting, Executions, Stage
<1>3. {PENDING, RUNNING, COMPLETED, FAILED, STOPPED} \subseteq JobStatus
  BY DEF JobStatus
<1>4. ASSUME NEW kind, Emit(i, kind),
             kind \in {"flow started", "flow completed", "evaluation started",
                       "evaluation completed", "error"}
      PROVE  bus' \in Seq(Event)
  <2> DEFINE e == [i |-> i, kind |-> kind]
  <2>1. e \in Event
    BY <1>4 DEF Event
  <2>2. bus' = Append(bus, e)
    BY <1>4 DEF Emit
  <2> HIDE DEF e, Event
  <2>3. QED
    BY <1>1, <2>1, <2>2
<1>5. ASSUME NEW e \in Executions, exe' = [exe EXCEPT ![i] = e] \/ exe' = exe,
             NEW f \in Flow, flow' = [flow EXCEPT ![i] = f] \/ flow' = flow,
             NEW s \in JobStatus \cup {ABSENT}, job' = [job EXCEPT ![i] = s] \/ job' = job,
             e.flow.evaluated \/ f.evaluated => i \in reported',
             reported' = reported \/ reported' = reported \cup {i},
             bus' \in Seq(Event), UNCHANGED <<saved, actor, requests, fixed>>
      PROVE  EvaluationInv'
  <2>1. /\ exe' \in [Instances -> Executions] /\ flow' \in [Instances -> Flow]
        /\ job' \in [Instances -> JobStatus \cup {ABSENT}]
    BY <1>1, <1>5
  <2>2. \A k \in Instances : flow'[k].evaluated \/ exe'[k].flow.evaluated => k \in reported'
    BY <1>1, <1>5
  <2>3. reported \subseteq reported' /\ reported' \subseteq Instances
    BY <1>1, <1>5
  <2>4. QED
    BY <1>5, <2>1, <2>2, <2>3, JobMoves
<1>6. ASSUME NEW stage \in Stage, GoTo(i, stage)
      PROVE  \E e \in Executions : exe' = [exe EXCEPT ![i] = e] /\ e.flow = exe[i].flow
  <2> DEFINE e == [exe[i] EXCEPT !.stage = stage]
  <2>1. e \in Executions /\ e.flow = exe[i].flow
    BY <1>1 DEF Executions
  <2>2. exe' = [exe EXCEPT ![i] = e]
    BY <1>6 DEF GoTo
  <2>3. QED
    BY <2>1, <2>2
<1>7. {"begun", "flow", "flow_done", "evaluating", "evaluated", "ending", "failing"} \subseteq Stage
  BY DEF Stage
<1>8. CASE JobBegins(i)
  <2>1. PICK e \in Executions : exe' = [exe EXCEPT ![i] = e] /\ e.flow = exe[i].flow
    BY <1>6, <1>7, <1>8 DEF JobBegins
  <2>2. /\ job' = [job EXCEPT ![i] = RUNNING] /\ flow' = flow /\ bus' = bus
        /\ reported' = reported /\ UNCHANGED <<saved, actor, requests, fixed>>
    BY <1>8 DEF JobBegins
  <2>3. QED
    BY <1>1, <1>3, <1>5, <2>1, <2>2
<1>9. CASE FlowStarts(i)
  <2> DEFINE e == [stage |-> "flow", flow |-> flow[i], unsaved |-> TRUE]
  <2>1. /\ exe' = [exe EXCEPT ![i] = e] /\ Emit(i, "flow started") /\ flow' = flow
        /\ job' = job /\ reported' = reported /\ UNCHANGED <<saved, actor, requests, fixed>>
    BY <1>9 DEF FlowStarts
  <2>2. e \in Executions /\ e.flow = flow[i]
    BY <1>1, <1>7 DEF Executions
  <2> HIDE DEF e
  <2>3. bus' \in Seq(Event)
    BY <1>4, <2>1
  <2>4. QED
    BY <1>1, <1>3, <1>5, <2>1, <2>2, <2>3
<1>10. CASE FlowCompletes(i)
  <2> DEFINE e == [exe[i] EXCEPT !.stage = "flow_done", !.flow.finished = TRUE,
                                 !.unsaved = TRUE]
  <2>1. /\ exe' = [exe EXCEPT ![i] = e] /\ Emit(i, "flow completed") /\ flow' = flow
        /\ job' = job /\ reported' = reported /\ UNCHANGED <<saved, actor, requests, fixed>>
    BY <1>10 DEF FlowCompletes
  <2>2. e \in Executions /\ e.flow.evaluated = exe[i].flow.evaluated
    BY <1>1, <1>7 DEF Executions, Flow
  <2> HIDE DEF e
  <2>3. bus' \in Seq(Event)
    BY <1>4, <2>1
  <2>4. QED
    BY <1>1, <1>3, <1>5, <2>1, <2>2, <2>3
<1>11. CASE FlowFails(i)
  <2> DEFINE e == [exe[i] EXCEPT !.stage = "failing", !.flow.finished = TRUE,
                                 !.flow.error = TRUE, !.unsaved = TRUE]
  <2>1. /\ exe' = [exe EXCEPT ![i] = e] /\ Emit(i, "error") /\ flow' = flow
        /\ job' = job /\ reported' = reported /\ UNCHANGED <<saved, actor, requests, fixed>>
    BY <1>11 DEF FlowFails
  <2>2. e \in Executions /\ e.flow.evaluated = exe[i].flow.evaluated
    BY <1>1, <1>7 DEF Executions, Flow
  <2> HIDE DEF e
  <2>3. bus' \in Seq(Event)
    BY <1>4, <2>1
  <2>4. QED
    BY <1>1, <1>3, <1>5, <2>1, <2>2, <2>3
<1>12. CASE FlowSaved(i)
  <2> DEFINE e == [exe[i] EXCEPT !.unsaved = FALSE]
  <2>1. /\ exe' = [exe EXCEPT ![i] = e] /\ flow' = [flow EXCEPT ![i] = exe[i].flow]
        /\ job' = job /\ bus' = bus /\ reported' = reported
        /\ UNCHANGED <<saved, actor, requests, fixed>>
    BY <1>12 DEF FlowSaved
  <2>2. e \in Executions /\ e.flow = exe[i].flow
    BY <1>1 DEF Executions
  <2> HIDE DEF e
  <2>3. QED
    BY <1>1, <1>3, <1>5, <2>1, <2>2
<1>13. CASE EvaluationStarts(i) \/ EvaluationReported(i)
  <2>1. PICK e \in Executions : exe' = [exe EXCEPT ![i] = e] /\ e.flow = exe[i].flow
    BY <1>6, <1>7, <1>13 DEF EvaluationStarts, EvaluationReported
  <2>2. /\ flow' = flow /\ job' = job /\ reported' = reported
        /\ UNCHANGED <<saved, actor, requests, fixed>>
    BY <1>13 DEF EvaluationStarts, EvaluationReported
  <2>3. bus' \in Seq(Event)
    BY <1>4, <1>13 DEF EvaluationStarts, EvaluationReported
  <2>4. QED
    BY <1>1, <1>3, <1>5, <2>1, <2>2, <2>3
<1>14. CASE Evaluates(i)
  <2>1. UNCHANGED <<saved, job, bus, actor, requests, fixed>>
    BY <1>14 DEF Evaluates
  <2>2. CASE /\ flow' = [flow EXCEPT ![i] = [exe[i].flow EXCEPT !.evaluated = TRUE]]
             /\ exe' = [exe EXCEPT ![i].stage = "evaluated", ![i].flow.evaluated = TRUE]
             /\ reported' = reported \cup {i}
    <3> DEFINE f == [exe[i].flow EXCEPT !.evaluated = TRUE]
               e == [exe[i] EXCEPT !.stage = "evaluated", !.flow.evaluated = TRUE]
    <3>1. exe' = [exe EXCEPT ![i] = e] /\ flow' = [flow EXCEPT ![i] = f]
      BY <2>2
    <3>2. e \in Executions /\ f \in Flow
      BY <1>1, <1>7 DEF Executions, Flow
    <3> HIDE DEF e, f
    <3>3. QED
      BY <1>1, <1>3, <1>5, <2>1, <2>2, <3>1, <3>2
  <2>3. CASE GoTo(i, "evaluated") /\ UNCHANGED <<flow, reported>>
    <3>1. PICK e \in Executions : exe' = [exe EXCEPT ![i] = e] /\ e.flow = exe[i].flow
      BY <1>6, <1>7, <2>3
    <3>2. QED
      BY <1>1, <1>3, <1>5, <2>1, <2>3, <3>1
  <2>4. QED
    BY <1>14, <2>2, <2>3 DEF Evaluates
<1>15. CASE JobEnds(i)
  <2>1. /\ \E s \in JobStatus : job' = [job EXCEPT ![i] = s]
        /\ exe' = [exe EXCEPT ![i] = NotExecuting]
        /\ flow' = flow \/ flow' = [flow EXCEPT ![i] = exe[i].flow]
        /\ bus' = bus /\ reported' = reported /\ UNCHANGED <<saved, actor, requests, fixed>>
    BY <1>3, <1>15 DEF JobEnds
  <2>2. QED
    BY <1>1, <1>2, <1>5, <2>1
<1>16. CASE JobDies(i) \/ JobForgotten(i)
  <2>1. /\ \E s \in JobStatus \cup {ABSENT} : job' = [job EXCEPT ![i] = s]
        /\ exe' = [exe EXCEPT ![i] = NotExecuting] \/ exe' = exe
        /\ flow' = flow /\ bus' = bus /\ reported' = reported
        /\ UNCHANGED <<saved, actor, requests, fixed>>
    BY <1>3, <1>16 DEF JobDies, JobForgotten
  <2>2. QED
    BY <1>1, <1>2, <1>5, <2>1
<1>17. QED
  BY <1>8, <1>9, <1>10, <1>11, <1>12, <1>13, <1>14, <1>15, <1>16 DEF JobSteps

\* Every step keeps the invariant.
LEMMA EvaluationNextKeeps ==
  ASSUME EvaluationInv, [Next]_vars
  PROVE  EvaluationInv'
<1>1. CASE UNCHANGED vars
  <2>1. /\ Numbered /\ flow \in [Instances -> Flow]
        /\ job \in [Instances -> JobStatus \cup {ABSENT}] /\ exe \in [Instances -> Executions]
        /\ bus \in Seq(Event)
        /\ \A i \in Instances : flow[i].evaluated \/ exe[i].flow.evaluated => i \in reported
    BY KnowledgeTypes DEF EvaluationInv, FlowsTruthful
  <2>2. UNCHANGED <<flow, job, exe, bus, reported, saved, actor, requests, fixed>>
    BY <1>1 DEF vars, fixed
  <2>3. QED
    BY <2>1, <2>2, JobMoves DEF Numbered
<1>2. ASSUME NEW a \in Actors, ActorSteps(a) PROVE EvaluationInv'
  BY <1>2, AskKeeps, ProcessKeeps, CleanKeeps, SaveKeeps, StartKeeps, ResetKeeps,
     InstanceStepsKeep DEF ActorSteps
<1>3. QED
  BY <1>1, <1>2, RequestKeeps, HandleEventKeeps, JobStepsKeep DEF Next

\* It holds when an evaluation has been created.
LEMMA EvaluationInitKeeps ==
  ASSUME Init
  PROVE  EvaluationInv
<1>1. calm \in BOOLEAN /\ size \in 1..MaxInstances[calm] /\ reported = {} /\ requests = 0
  BY DEF Init
<1>2. MaxInstances[calm] \in Nat /\ MaxRequests[calm][size] \in Nat
  BY <1>1, ConstantsAssumption
<1>3. Numbered /\ requests \in 0..MaxRequests[calm][size]
  BY <1>1, <1>2 DEF Numbered
<1>4. /\ NewEvaluation \in Evaluation /\ NewEvaluation.status = "pending"
      /\ \A i \in Instances : ~NewEvaluation.of[i].evaluated
      /\ NewFlow \in Flow /\ ~NewFlow.evaluated
  BY <1>3, NewTypes
<1>5. Honest(Rest)
  BY <1>3, RestHonest
<1>6. NotExecuting \in Executions /\ NotExecuting.flow = NewFlow
  BY <1>4 DEF NotExecuting, Executions, Stage
<1>7. Truthful(saved)
  BY <1>4 DEF Init, Truthful
<1>8. FlowsTruthful
  BY <1>4, <1>6 DEF Init, FlowsTruthful
<1>9. \A a \in Actors : Honest(actor[a])
  BY <1>5 DEF Init
<1>10. TypeOK
  <2>1. bus \in Seq(Event)
    BY DEF Init
  <2>2. actor \in [Actors -> Actions]
    BY <1>5 DEF Init, Honest
  <2>3. exe \in [Instances -> Executions]
    BY <1>6 DEF Init
  <2>4. flow \in [Instances -> Flow] /\ job \in [Instances -> JobStatus \cup {ABSENT}]
        /\ saved \in Evaluation
    BY <1>4 DEF Init
  <2>5. size \in 1..MaxInstances[calm] /\ reported \subseteq Instances
    BY <1>1, <1>3 DEF Numbered
  <2>6. QED
    BY <1>1, <1>3, <2>1, <2>2, <2>3, <2>4, <2>5 DEF TypeOK, Actions, Executions
<1>11. QED
  BY <1>7, <1>8, <1>9, <1>10 DEF EvaluationInv

\* Every reachable state of the evaluation manager, of the jobs it has started and of what
\* its coroutines have loaded is type correct.
THEOREM EvaluationTypeCorrect == Spec => []TypeOK
<1>1. EvaluationInv => TypeOK
  BY DEF EvaluationInv
<1>2. EvaluationInv /\ [Next]_vars => EvaluationInv'
  BY EvaluationNextKeeps
<1>3. QED
  BY <1>1, <1>2, EvaluationInitKeeps, PTL DEF Spec

\* The record of an instance claims an evaluation (evaluation/manager.py) only if
\* evaluate_instance made one: no request, event or late write of an old copy invents it.
THEOREM EvaluationsAreReported == Spec => []EvaluatedIsReported
<1>1. EvaluationInv => EvaluatedIsReported
  BY DEF EvaluationInv, Truthful, EvaluatedIsReported
<1>2. EvaluationInv /\ [Next]_vars => EvaluationInv'
  BY EvaluationNextKeeps
<1>3. QED
  BY <1>1, <1>2, EvaluationInitKeeps, PTL DEF Spec

\* _sync_evaluation_status and process_evaluation_results complete an evaluation only when
\* every instance has been evaluated, although the loop asks for one job after the other
\* and sets the status from what it has found on the way.
THEOREM CompletedIsEvaluated == Spec => []NoPrematureCompletion
<1>1. EvaluationInv => NoPrematureCompletion
  BY DEF EvaluationInv, Truthful, NoPrematureCompletion
<1>2. EvaluationInv /\ [Next]_vars => EvaluationInv'
  BY EvaluationNextKeeps
<1>3. QED
  BY <1>1, <1>2, EvaluationInitKeeps, PTL DEF Spec

--------------------------------------------------------------------------------
(* No evaluation is overlooked                                                 *)

\* While its job is at one of these, the events that are still to come have the
\* trajectory of an instance read once more.
Working == {"begun", "flow", "flow_done", "evaluating", "evaluated"}

Announced(i) == \E k \in 1..Len(bus) : bus[k].i = i /\ bus[k].kind = "evaluation completed"

\* The instance has been evaluated, and nothing that is still to come tells the manager so.
Owed(i) ==
  flow[i].evaluated /\ job[i] # PENDING /\ exe[i].stage \notin Working /\ ~Announced(i)

\* A copy that may be written: it has every evaluation that nobody else will bring.
Known(d) == \A i \in Instances : Owed(i) => d.of[i].evaluated

\* A job of status s, its execution e and the trajectory f go together: no job that fails
\* has an evaluation, and none that is past it is without.
Fits(s, e, f) ==
  /\ s = RUNNING <=> e.stage # "none"
  /\ f.evaluated => f.finished
  /\ e.flow.evaluated => e.flow.finished
  /\ e.stage \in {"none", "begun"} => ~e.unsaved
  /\ e.stage \in {"flow_done", "evaluating"} => e.flow.finished
  /\ e.stage \in {"flow", "flow_done", "evaluating"} /\ f.evaluated => e.flow.evaluated
  /\ e.stage = "failing" => ~f.evaluated /\ ~e.flow.evaluated
  /\ e.stage \in {"evaluated", "ending"} => f.evaluated /\ e.flow.evaluated

JobsFit == \A i \in Instances : Fits(job[i], exe[i], flow[i])

Looping == {"ask", "process", "clean", "sync_save"}

Launching == {"reset", "save_flow", "launch"}

\* A copy may lack an evaluation only of the instance whose trajectory is about to be
\* read, or to be started anew.
Spares(r, i) == r.at \in {"process_one", "save_flow", "launch"} /\ i = r.i

\* What a coroutine may be at when no other is on its way.
Orderly(r) == r.at # "idle" =>
  /\ r.op \in {"get", "start", "start_instance", "event"}
  /\ r.at \in Looping \cup Launching \cup {"start", "status", "process_one", "save"}
  /\ r.at \in Looping => r.op # "event" /\ (r.op = "start_instance" => Starts(r.target))
  /\ r.at = "start" => r.op = "start"
  /\ r.at \in Launching => Starts(r.i) /\ r.op = "start_instance"
  /\ r.at \in {"process", "clean"} /\ r.doc.of[r.i].job = COMPLETED => job[r.i] = COMPLETED
  /\ r.at = "clean" => r.doc.of[r.i].job = COMPLETED
  /\ \A i \in Instances : Owed(i) /\ ~Spares(r, i) => r.doc.of[i].evaluated

\* What is saved has them all, unless a coroutine that has is about to write.
CalmInv == calm =>
  /\ JobsFit
  /\ \A a, b \in Actors : ~At(a, "idle") /\ ~At(b, "idle") => a = b
  /\ \A a \in Actors : Orderly(actor[a])
  /\ (\A a \in Actors : actor[a].at \notin {"process_one", "save"}) => Known(saved)

\* A coroutine that rests owes nothing.
LEMMA RestOrderly ==
  Orderly(Rest) /\ Rest.at = "idle"
BY DEF Orderly, Rest

\* A step that leaves nothing new to be told leaves coroutines in order.
LEMMA OrderlyKept ==
  ASSUME UNCHANGED size, \A i \in Instances : Owed(i)' => Owed(i),
         NEW r \in Actions, Orderly(r),
         r.at \in Looping \cup Launching => \A i \in Instances : Starts(i) => Starts(i)',
         r.at \in {"process", "clean"} => (job[r.i] = COMPLETED => job'[r.i] = COMPLETED)
  PROVE  Orderly(r)'
<1>1. Instances' = Instances
  BY DEF Instances
<1>2. r.i \in Instances /\ r.target \in Instances
  BY DEF Actions
<1>3. \A i \in Instances : Spares(r, i)' <=> Spares(r, i)
  BY DEF Spares
<1> HIDE DEF Actions
<1>4. ASSUME r.at # "idle" PROVE Orderly(r)'
  <2>1. /\ r.op \in {"get", "start", "start_instance", "event"}
        /\ r.at \in Looping \cup Launching \cup {"start", "status", "process_one", "save"}
        /\ r.at \in {"process", "clean"} /\ r.doc.of[r.i].job = COMPLETED => job'[r.i] = COMPLETED
        /\ r.at = "clean" => r.doc.of[r.i].job = COMPLETED
    BY <1>4 DEF Orderly
  <2>2. /\ r.at \in Looping => r.op # "event" /\ (r.op = "start_instance" => Starts(r.target)')
        /\ r.at = "start" => r.op = "start"
        /\ r.at \in Launching => Starts(r.i)' /\ r.op = "start_instance"
    BY <1>2, <1>4 DEF Orderly
  <2>3. \A i \in Instances : Owed(i)' /\ ~Spares(r, i) => r.doc.of[i].evaluated
    BY <1>4 DEF Orderly
  <2>4. QED
    BY <1>1, <1>3, <2>1, <2>2, <2>3 DEF Orderly, Looping, Launching, Starts
<1>5. QED
  BY <1>4 DEF Orderly

\* A step of the only coroutine that is on its way, or of one that sets out.
LEMMA CalmMoves ==
  ASSUME EvaluationInv, CalmInv, calm, NEW a \in Actors,
         \A b \in Actors : b # a => At(b, "idle"),
         NEW q, Become(a, q), Orderly(q)', JobsFit', UNCHANGED <<size, calm>>,
         q.at \notin {"process_one", "save"} => Known(saved)'
  PROVE  CalmInv'
<1>1. actor' = [actor EXCEPT ![a] = q] /\ DOMAIN actor = Actors
  BY KnowledgeTypes DEF Become
<1>2. actor'[a] = q /\ \A b \in Actors : b # a => actor'[b] = actor[b] /\ actor[b].at = "idle"
  BY <1>1 DEF At
<1>3. \A b, c \in Actors : actor'[b].at # "idle" /\ actor'[c].at # "idle" => b = c
  BY <1>2
<1>4. \A b \in Actors : Orderly(actor[b])'
  <2> SUFFICES ASSUME NEW b \in Actors PROVE Orderly(actor[b])'
    OBVIOUS
  <2>1. CASE b = a
    <3>1. actor'[b] = q
      BY <1>2, <2>1
    <3>2. QED
      BY <3>1 DEF Orderly, Spares, Starts
  <2>2. CASE b # a
    <3>1. actor'[b].at = "idle"
      BY <1>2, <2>2
    <3>2. QED
      BY <3>1 DEF Orderly
  <2>3. QED
    BY <2>1, <2>2
<1>5. (\A b \in Actors : actor'[b].at \notin {"process_one", "save"}) => Known(saved)'
  BY <1>2
<1>6. QED
  BY <1>3, <1>4, <1>5 DEF CalmInv, At

\* The same where no trajectory and no job brings anything new.
LEMMA CalmThinks ==
  ASSUME EvaluationInv, CalmInv, calm, NEW a \in Actors,
         \A b \in Actors : b # a => At(b, "idle"),
         NEW q \in Actions, Become(a, q), Orderly(q), JobsFit', UNCHANGED <<size, calm>>,
         \A i \in Instances : Owed(i)' => Owed(i),
         q.at \in Looping \cup Launching => \A i \in Instances : Starts(i) => Starts(i)',
         q.at \in {"process", "clean"} => UNCHANGED job,
         q.at \notin {"process_one", "save"} => \E d : saved' = d /\ Known(d)
  PROVE  CalmInv'
<1>1. Orderly(q)'
  BY OrderlyKept
<1>2. q.at \notin {"process_one", "save"} => Known(saved)'
  <2> SUFFICES ASSUME q.at \notin {"process_one", "save"} PROVE Known(saved)'
    OBVIOUS
  <2>1. PICK d : saved' = d /\ Known(d)
    OBVIOUS
  <2>2. Instances' = Instances
    BY DEF Instances
  <2>3. \A i \in Instances : Owed(i)' => d.of[i].evaluated
    BY <2>1 DEF Known
  <2>4. QED
    BY <2>1, <2>2, <2>3 DEF Known
<1>3. QED
  BY <1>1, <1>2, CalmMoves

\* And where not even the runner is asked for anything.
LEMMA CalmStands ==
  ASSUME EvaluationInv, CalmInv, calm, NEW a \in Actors,
         \A b \in Actors : b # a => At(b, "idle"),
         NEW q \in Actions, Become(a, q), Orderly(q), UNCHANGED <<flow, job, exe, bus, size, calm>>,
         q.at \notin {"process_one", "save"} => \E d : saved' = d /\ Known(d)
  PROVE  CalmInv'
<1>1. Instances' = Instances
  BY DEF Instances
<1>2. \A i \in Instances : (Owed(i)' => Owed(i)) /\ (Starts(i) => Starts(i)')
  BY DEF Owed, Starts, Announced
<1>3. JobsFit'
  BY <1>1 DEF JobsFit, Fits, CalmInv
<1>4. QED
  BY <1>2, <1>3, CalmThinks

\* A copy that may be written is about to be.
LEMMA SaveNextOrderly ==
  ASSUME Numbered, NEW d \in Evaluation, Known(d)
  PROVE  Orderly(SaveNext(d)) /\ SaveNext(d).at = "save" /\ SaveNext(d).doc = d
<1>1. Rest \in Actions /\ Rest.op = "event"
  BY RestHonest DEF Honest, Rest
<1> DEFINE q == [Rest EXCEPT !.at = "save", !.doc = d]
<1>2. q.at = "save" /\ q.doc = d /\ q.op = "event"
  BY <1>1 DEF Actions
<1>3. SaveNext(d) = q
  BY DEF SaveNext
<1> HIDE DEF q
<1>4. Orderly(q)
  BY <1>2 DEF Orderly, Known, Looping, Launching
<1>5. QED
  BY <1>2, <1>3, <1>4

\* A coroutine that goes on to a place where it needs nothing but a copy that may be written.
LEMMA StandsOrderly ==
  ASSUME NEW q, q.op \in {"get", "start", "start_instance", "event"}, Known(q.doc),
         \/ q.at \in {"status", "process_one", "save"}
         \/ q.at = "start" /\ q.op = "start"
         \/ q.at \in {"ask", "sync_save"} /\ q.op # "event"
            /\ (q.op = "start_instance" => Starts(q.target))
         \/ q.at = "reset" /\ q.op = "start_instance" /\ Starts(q.i)
  PROVE  Orderly(q)
BY DEF Orderly, Known, Looping, Launching

\* start_evaluation goes on in order.
LEMMA StartFromOrderly ==
  ASSUME Numbered, NEW r \in Actions, Truthful(r.doc), Known(r.doc), r.op = "start",
         NEW i \in Nat \ {0}
  PROVE  Orderly(StartFrom(r, i)) /\ StartFrom(r, i).at \in {"start", "save", "idle"}
<1> DEFINE left == {k \in i..size : ~r.doc.of[k].evaluated}
<1>1. CASE left # {}
  <2> DEFINE k == CHOOSE k \in left : \A l \in left : k <= l
             q == [r EXCEPT !.at = "start", !.i = k]
  <2>1. StartFrom(r, i) = q
    BY <1>1 DEF StartFrom
  <2> HIDE DEF k
  <2>2. q.at = "start" /\ q.doc = r.doc /\ q.op = r.op
    BY DEF Actions
  <2> HIDE DEF q
  <2>3. QED
    BY <2>1, <2>2, StandsOrderly
<1>2. CASE left = {} /\ r.updates
  <2> DEFINE d == [r.doc EXCEPT !.status = Resumed(@)]
  <2>1. StartFrom(r, i) = SaveNext(d)
    BY <1>2 DEF StartFrom
  <2>2. d \in Evaluation
    BY ResumedTruthful DEF Truthful
  <2>3. d.of = r.doc.of
    BY DEF Truthful, Evaluation
  <2> HIDE DEF d
  <2>4. Known(d)
    BY <2>3 DEF Known
  <2>5. QED
    BY <2>1, <2>2, <2>4, SaveNextOrderly
<1>3. CASE left = {} /\ ~r.updates
  <2>1. StartFrom(r, i) = Rest
    BY <1>3 DEF StartFrom
  <2>2. QED
    BY <2>1, RestOrderly
<1>4. QED
  BY <1>1, <1>2, <1>3

\* What a coroutine knows and wants, in the middle of a loop.
Informed(r) ==
  /\ r \in Actions /\ Truthful(r.doc) /\ Known(r.doc)
  /\ r.op \in {"get", "start", "start_instance"}
  /\ r.op = "start_instance" => Starts(r.target)

\* What follows get_evaluation is in order.
LEMMA AfterSyncOrderly ==
  ASSUME Numbered, NEW r, Informed(r)
  PROVE  Orderly(AfterSync(r)) /\ AfterSync(r).at \notin {"process", "clean"}
<1> DEFINE q == [Rest EXCEPT !.op = r.op, !.i = r.target, !.doc = r.doc]
<1>1. Rest \in Actions /\ Rest.at = "idle" /\ r \in Actions /\ Truthful(r.doc)
  BY RestHonest DEF Honest, Informed
<1>2. q \in Actions /\ q.doc = r.doc /\ q.op = r.op /\ q.i = r.target
  <2> HIDE DEF Evaluation, Instances
  <2>1. r.doc \in Evaluation
    BY <1>1 DEF Truthful
  <2>2. QED
    BY <1>1, <2>1 DEF Actions
<1> HIDE DEF q
<1>3. CASE r.op = "start"
  <2>1. AfterSync(r) = StartFrom(q, 1)
    BY <1>3 DEF AfterSync, q
  <2>2. QED
    BY <1>1, <1>2, <1>3, <2>1, StartFromOrderly DEF Informed
<1>4. CASE r.op = "start_instance"
  <2> DEFINE p == [q EXCEPT !.at = "reset"]
  <2>1. AfterSync(r) = p
    BY <1>4 DEF AfterSync, q
  <2>2. p.at = "reset" /\ p.doc = r.doc /\ p.op = r.op /\ p.i = r.target
    BY <1>2 DEF Actions
  <2> HIDE DEF p
  <2>3. Orderly(p)
    BY <1>4, <2>2, StandsOrderly DEF Informed
  <2>4. QED
    BY <2>1, <2>2, <2>3
<1>5. CASE r.op = "get"
  <2>1. AfterSync(r) = Rest
    BY <1>5 DEF AfterSync
  <2>2. QED
    BY <2>1, RestOrderly
<1>6. QED
  BY <1>3, <1>4, <1>5 DEF Informed

\* The end of a synchronisation is in order.
LEMMA ConcludeOrderly ==
  ASSUME Numbered, NEW r, Informed(r), r.complete => reported = Instances
  PROVE  Orderly(Conclude(r)) /\ Conclude(r).at \notin {"process", "clean"}
<1> DEFINE status == Concluded(r.doc.status, r.running, r.complete)
           d == [r.doc EXCEPT !.status = status]
           q == [r EXCEPT !.doc.status = status]
<1>1. r \in Actions /\ Truthful(r.doc) /\ Known(r.doc)
  BY DEF Informed
<1>2. status \in EvaluationStatus /\ (status = "completed" => reported = Instances)
  BY DEF Concluded, EvaluationStatus
<1>3. Truthful(d) /\ d \in Evaluation /\ d.of = r.doc.of
  BY <1>1, <1>2, StatusUpdated DEF Truthful
<1>4. Known(d)
  BY <1>1, <1>3 DEF Known
<1>5. q = [r EXCEPT !.doc = d]
  BY <1>1 DEF Actions
<1> HIDE DEF d
<1>6. q \in Actions /\ q.doc = d /\ q.op = r.op /\ q.target = r.target
  <2> HIDE DEF Evaluation, Instances, q
  <2>1. QED
    BY <1>1, <1>3, <1>5 DEF Actions
<1>7. Informed(q)
  BY <1>3, <1>4, <1>6 DEF Informed
<1>8. CASE r.updates \/ status # r.doc.status
  <2> DEFINE s == [Rest EXCEPT !.op = r.op, !.at = "sync_save", !.target = r.target, !.doc = q.doc]
  <2>1. Conclude(r) = s
    BY <1>8 DEF Conclude
  <2>2. Rest \in Actions
    BY RestHonest DEF Honest
  <2>3. s.at = "sync_save" /\ s.doc = d /\ s.op = r.op /\ s.target = r.target
    BY <1>6, <2>2 DEF Actions
  <2> HIDE DEF s
  <2>4. Orderly(s)
    BY <1>4, <2>3, StandsOrderly DEF Informed
  <2>5. QED
    BY <2>1, <2>3, <2>4
<1>9. CASE ~(r.updates \/ status # r.doc.status)
  <2>1. Conclude(r) = AfterSync(q)
    BY <1>9 DEF Conclude
  <2>2. QED
    BY <1>7, <2>1, AfterSyncOrderly
<1>10. QED
  BY <1>8, <1>9

\* So is the loop that goes on.
LEMMA NextInstanceOrderly ==
  ASSUME Numbered, NEW r, Informed(r), r.complete => \A k \in Instances : k <= r.i => k \in reported
  PROVE  Orderly(NextInstance(r)) /\ NextInstance(r).at \notin {"process", "clean"}
<1>1. r \in Actions /\ r.i \in Instances
  BY DEF Informed, Actions
<1>2. CASE r.i < size
  <2> DEFINE q == [r EXCEPT !.i = @ + 1, !.at = "ask"]
  <2>1. NextInstance(r) = q
    BY <1>2 DEF NextInstance
  <2>2. q.at = "ask" /\ q.doc = r.doc /\ q.op = r.op /\ q.target = r.target
    BY <1>1 DEF Actions
  <2> HIDE DEF q
  <2>3. Orderly(q)
    BY <2>2, StandsOrderly DEF Informed
  <2>4. QED
    BY <2>1, <2>2, <2>3
<1>3. CASE ~(r.i < size)
  <2>1. \A k \in Instances : k <= r.i
    BY <1>1, <1>3 DEF Instances, Numbered
  <2>2. r.complete => reported = Instances
    BY <2>1 DEF Numbered
  <2>3. NextInstance(r) = Conclude(r)
    BY <1>3 DEF NextInstance
  <2>4. QED
    BY <2>2, <2>3, ConcludeOrderly
<1>4. QED
  BY <1>2, <1>3

\* And the removal of a job that has completed.
LEMMA AfterUpdateOrderly ==
  ASSUME Numbered, NEW r, Informed(r),
         r.complete => \A k \in Instances : k <= r.i => k \in reported,
         r.doc.of[r.i].job = COMPLETED => job[r.i] = COMPLETED
  PROVE  Orderly(AfterUpdate(r))
<1>1. r \in Actions
  BY DEF Informed
<1>2. CASE r.doc.of[r.i].evaluated /\ r.doc.of[r.i].job = COMPLETED
  <2> DEFINE q == [r EXCEPT !.at = "clean"]
  <2>1. AfterUpdate(r) = q
    BY <1>2 DEF AfterUpdate
  <2>2. q.at = "clean" /\ q.doc = r.doc /\ q.op = r.op /\ q.target = r.target /\ q.i = r.i
    BY <1>1 DEF Actions
  <2> HIDE DEF q
  <2>3. Orderly(q)
    BY <1>2, <2>2 DEF Orderly, Informed, Known, Looping, Launching
  <2>4. QED
    BY <2>1, <2>3
<1>3. CASE ~(r.doc.of[r.i].evaluated /\ r.doc.of[r.i].job = COMPLETED)
  <2>1. AfterUpdate(r) = NextInstance(r)
    BY <1>3 DEF AfterUpdate
  <2>2. QED
    BY <2>1, NextInstanceOrderly
<1>4. QED
  BY <1>2, <1>3

\* A request that has loaded the record.
LEMMA LoadedOrderly ==
  ASSUME Numbered, NEW r, Informed(r)
  PROVE  Orderly(Loaded(r)) /\ Loaded(r).at \notin {"process", "clean"}
<1>1. r \in Actions
  BY DEF Informed
<1>2. CASE r.doc.status = "completed"
  <2>1. Loaded(r) = AfterSync(r)
    BY <1>2 DEF Loaded, Informed
  <2>2. QED
    BY <2>1, AfterSyncOrderly
<1>3. CASE r.doc.status # "completed"
  <2> DEFINE q == [r EXCEPT !.at = "ask"]
  <2>1. Loaded(r) = q
    BY <1>3 DEF Loaded, Informed
  <2>2. q.at = "ask" /\ q.doc = r.doc /\ q.op = r.op /\ q.target = r.target
    BY <1>1 DEF Actions
  <2> HIDE DEF q
  <2>3. Orderly(q)
    BY <2>2, StandsOrderly DEF Informed
  <2>4. QED
    BY <2>1, <2>2, <2>3
<1>4. QED
  BY <1>2, <1>3

\* What the coroutine that is on its way knows, before it takes a step.
LEMMA CalmActor ==
  ASSUME EvaluationInv, CalmInv, calm, NEW a \in Actors, ~At(a, "idle")
  PROVE  \E me \in Actions :
           /\ me = actor[a] /\ Orderly(me) /\ Truthful(me.doc) /\ Passed(me) /\ me.at # "idle"
           /\ me.i \in Instances /\ me.doc.of[me.i] \in Record /\ me.doc \in Evaluation
           /\ \A b \in Actors : b # a => At(b, "idle")
           /\ me.at \in Looping \cup {"start"} => Informed(me)
<1>1. PICK me : me = actor[a]
  OBVIOUS
<1>2. /\ me \in Actions /\ Truthful(me.doc) /\ Passed(me) /\ me.i \in Instances
      /\ me.doc.of[me.i] \in Record /\ me.doc \in Evaluation
  BY <1>1, ActorTypes
<1>3. /\ Orderly(me) /\ me.at # "idle" /\ \A b \in Actors : b # a => At(b, "idle")
  BY <1>1 DEF CalmInv, At
<1>4. me.at \in Looping \cup {"start"} => Informed(me)
  BY <1>2, <1>3 DEF Orderly, Informed, Known, Looping, Launching, Spares
<1>5. QED
  BY <1>1, <1>2, <1>3, <1>4

\* When no coroutine is on its way, what is saved has all that nobody else will bring.
LEMMA CalmSaved ==
  ASSUME EvaluationInv, CalmInv, calm, \A a \in Actors : At(a, "idle")
  PROVE  Known(saved) /\ JobsFit
BY DEF CalmInv, At

\* A request.
LEMMA RequestCalm ==
  ASSUME EvaluationInv, CalmInv, calm, NEW a \in Clients, NEW op \in Operations,
         NEW i \in Instances, Request(a, op, i)
  PROVE  CalmInv'
<1>1. PICK doc : doc = saved
  OBVIOUS
<1> DEFINE q == [Rest EXCEPT !.op = op, !.doc = doc, !.target = i]
<1>2. /\ Numbered /\ a \in Actors /\ doc \in Evaluation /\ Truthful(doc)
  BY <1>1, KnowledgeTypes DEF EvaluationInv, Actors
<1>3. /\ \A b \in Actors : At(b, "idle")
      /\ op \in {"get", "start"} \/ (op = "start_instance" /\ Starts(i))
      /\ Become(a, Loaded(q)) /\ UNCHANGED <<saved, flow, job, exe, bus, size, calm>>
  BY <1>1 DEF Request, MayBegin, fixed, RunnerUnchanged
<1>4. Known(doc)
  BY <1>1, <1>3, CalmSaved
<1>5. q \in Actions /\ q.doc = doc /\ q.i = 1 /\ q.op = op /\ q.target = i
  <2>1. Rest \in Actions /\ Rest.i = 1
    BY <1>2, RestHonest DEF Honest, Rest
  <2> HIDE DEF Evaluation, Instances
  <2>2. QED
    BY <1>2, <2>1 DEF Actions
<1> HIDE DEF q
<1>6. Informed(q)
  BY <1>2, <1>3, <1>4, <1>5 DEF Informed
<1>7. PICK p : p = Loaded(q)
  OBVIOUS
<1>8. p \in Actions /\ Orderly(p)
  BY <1>2, <1>5, <1>6, <1>7, LoadedHonest, LoadedOrderly DEF Honest
<1>9. saved' = doc
  BY <1>1, <1>3
<1>10. QED
  BY <1>2, <1>3, <1>4, <1>7, <1>8, <1>9, CalmStands

\* The loop looks at the job of an instance.
LEMMA AskCalm ==
  ASSUME EvaluationInv, CalmInv, calm, NEW a \in Actors, Ask(a)
  PROVE  CalmInv'
<1>0. ~At(a, "idle")
  BY DEF Ask, At
<1>1. PICK r \in Actions :
           /\ r = actor[a] /\ Orderly(r) /\ Truthful(r.doc) /\ Passed(r) /\ r.at # "idle"
           /\ r.i \in Instances /\ r.doc.of[r.i] \in Record /\ r.doc \in Evaluation
           /\ \A b \in Actors : b # a => At(b, "idle")
           /\ r.at \in Looping \cup {"start"} => Informed(r)
  BY <1>0, CalmActor
<1>2. PICK s : s = job[r.i]
  OBVIOUS
<1> DEFINE rec == r.doc.of[r.i]
           seen == Observed(rec, s)
           changed == rec.job # s
           new == IF changed THEN Synced([seen EXCEPT !.job = s], s) ELSE seen
           d == [r.doc EXCEPT !.of[r.i] = new]
           next == [r EXCEPT !.doc.of[r.i] = new,
                             !.running = @ \/ s = RUNNING,
                             !.complete = @ /\ IsComplete(rec),
                             !.updates = @ \/ new # rec]
           q == IF changed THEN [next EXCEPT !.at = "process"] ELSE AfterUpdate(next)
<1>3. /\ r.at = "ask" /\ Informed(r) /\ Become(a, q)
      /\ UNCHANGED <<saved, flow, bus, size, calm, job, exe>>
  BY <1>1, <1>2 DEF Ask, At, Looping, RunnerUnchanged, fixed
<1>4. /\ Numbered /\ s \in JobStatus \cup {ABSENT} /\ rec \in Record
      /\ r.complete => \A k \in Instances : k < r.i => k \in reported
  BY <1>1, <1>2, <1>3, ActorTypes DEF Passed
<1>5. /\ new \in Record /\ new.evaluated = rec.evaluated
      /\ new.job = s
  <2>1. NewFlow \in Flow
    BY <1>4, NewTypes
  <2>2. /\ seen \in Record /\ seen.evaluated = rec.evaluated /\ seen.job = rec.job
    BY <1>4, <2>1, RecordTypes DEF Observed, Record
  <2> HIDE DEF seen
  <2> DEFINE w == [seen EXCEPT !.job = s]
  <2>3. w \in Record /\ w.evaluated = rec.evaluated /\ w.job = s
    BY <1>4, <2>2 DEF Record
  <2> HIDE DEF w
  <2>4. Synced(w, s) \in Record /\ Synced(w, s).evaluated = w.evaluated
    BY <1>4, <2>1, <2>3, RecordTypes
  <2>7. \A e : [w EXCEPT !.exec = e].job = w.job
    BY <2>3 DEF Record
  <2>8. Synced(w, s).job = s
    BY <2>3, <2>7 DEF Synced
  <2>5. new = IF changed THEN Synced(w, s) ELSE seen
    BY DEF w
  <2> HIDE DEF new
  <2>6. QED
    BY <2>2, <2>3, <2>4, <2>5, <2>8
<1>6. IsComplete(rec) \in BOOLEAN /\ (s = RUNNING) \in BOOLEAN /\ (new # rec) \in BOOLEAN
  BY DEF IsComplete
<1>7. IsComplete(rec) => r.i \in reported
  BY <1>1 DEF IsComplete, Truthful
<1>8. r.complete \in BOOLEAN /\ r.updates \in BOOLEAN
  BY DEF Actions
<1> HIDE DEF new, rec, Evaluation, Instances, Record
<1>9. Truthful(d) /\ d.of[r.i] = new /\ \A k \in Instances : k # r.i => d.of[k] = r.doc.of[k]
  <2>1. new.evaluated => r.i \in reported
    BY <1>1, <1>5 DEF Truthful, rec
  <2>2. QED
    BY <1>1, <1>5, <2>1, DocUpdated DEF Evaluation
<1>10. next = [r EXCEPT !.doc = d, !.running = @ \/ s = RUNNING,
                        !.complete = @ /\ IsComplete(rec), !.updates = @ \/ new # rec]
  BY <1>1 DEF Actions, Evaluation
<1>11. d \in Evaluation
  BY <1>9 DEF Truthful
<1> HIDE DEF d
<1>12. /\ next \in Actions /\ next.doc = d /\ next.i = r.i /\ next.op = r.op
       /\ next.target = r.target /\ next.complete = (r.complete /\ IsComplete(rec))
  <2> HIDE DEF next
  <2>1. QED
    BY <1>6, <1>8, <1>10, <1>11 DEF Actions
<1> HIDE DEF next
<1>13. Informed(next)
  <2>1. Known(d)
    BY <1>3, <1>5, <1>9 DEF Informed, Known, rec
  <2>2. QED
    BY <1>3, <1>9, <1>12, <2>1 DEF Informed
<1>14. next.doc.of[next.i].job = COMPLETED => job[next.i] = COMPLETED
  BY <1>2, <1>5, <1>9, <1>12
<1>15. next.complete => \A k \in Instances : k <= next.i => k \in reported
  <2>1. \A k \in Instances : k <= r.i => k < r.i \/ k = r.i
    BY <1>1 DEF Instances, Numbered
  <2>2. QED
    BY <1>4, <1>7, <1>12, <2>1
<1>16. PICK p : p = q
  OBVIOUS
<1>17. p \in Actions /\ Orderly(p)
  <2>1. CASE changed
    <3> DEFINE u == [next EXCEPT !.at = "process"]
    <3>1. /\ u \in Actions /\ u.at = "process" /\ u.doc = next.doc /\ u.i = next.i
          /\ u.op = next.op /\ u.target = next.target
      BY <1>12 DEF Actions, Place
    <3>2. p = u
      BY <1>16, <2>1
    <3> HIDE DEF u, q
    <3>3. Orderly(u)
      BY <1>13, <1>14, <3>1 DEF Orderly, Informed, Known, Looping, Launching
    <3>4. QED
      BY <3>1, <3>2, <3>3
  <2>2. CASE ~changed
    <3>1. p = AfterUpdate(next)
      BY <1>16, <2>2
    <3>2. Honest(AfterUpdate(next))
      BY <1>4, <1>9, <1>12, <1>15, AfterUpdateHonest
    <3>3. QED
      BY <1>4, <1>13, <1>14, <1>15, <3>1, <3>2, AfterUpdateOrderly DEF Honest
  <2>3. QED
    BY <2>1, <2>2
<1>18. Become(a, p)
  BY <1>3, <1>16
<1> HIDE DEF q
<1>19. p.at \notin {"process_one", "save"} => \E e : saved' = e /\ Known(e)
  <2>1. \A b \in Actors : actor[b].at \notin {"process_one", "save"}
    BY <1>1, <1>3 DEF At
  <2>2. Known(saved)
    BY <2>1 DEF CalmInv
  <2>3. PICK e : e = saved
    OBVIOUS
  <2>4. QED
    BY <1>3, <2>2, <2>3
<1>20. QED
  BY <1>1, <1>3, <1>17, <1>18, <1>19, CalmStands

\* The results of a trajectory are read.
LEMMA ProcessCalm ==
  ASSUME EvaluationInv, CalmInv, calm, NEW a \in Actors, Process(a)
  PROVE  CalmInv'
<1>0. ~At(a, "idle")
  BY DEF Process, At
<1>1. PICK me \in Actions :
           /\ me = actor[a] /\ Orderly(me) /\ Truthful(me.doc) /\ Passed(me) /\ me.at # "idle"
           /\ me.i \in Instances /\ me.doc.of[me.i] \in Record /\ me.doc \in Evaluation
           /\ \A b \in Actors : b # a => At(b, "idle")
           /\ me.at \in Looping \cup {"start"} => Informed(me)
  BY <1>0, CalmActor
<1>2. PICK f : f = flow[me.i]
  OBVIOUS
<1> DEFINE new == Processed(me.doc.of[me.i], f)
           d == [me.doc EXCEPT !.of[me.i] = new]
           r == [me EXCEPT !.doc.of[me.i] = Processed(@, f)]
<1>3. /\ UNCHANGED <<saved, flow, bus, size, calm, job, exe>>
      /\ me.at \in {"process", "process_one"}
      /\ \/ r.at = "process" /\ Become(a, AfterUpdate(r))
         \/ r.at = "process_one" /\ Become(a, SaveNext(r.doc))
  <2>1. me.at \in {"process", "process_one"}
    BY <1>1 DEF Process, Orderly, Looping, Launching
  <2>2. r.at = me.at
    BY DEF Actions
  <2> HIDE DEF r
  <2>3. \/ r.at = "process" /\ Become(a, AfterUpdate(r))
        \/ r.at = "process_one" /\ Become(a, SaveNext(r.doc))
        \/ r.at = "process_all"
    BY <1>1, <1>2 DEF Process, r
  <2>4. QED
    BY <2>1, <2>2, <2>3 DEF Process, RunnerUnchanged, fixed
<1>4. Numbered /\ f \in Flow
  BY <1>1, <1>2, ActorTypes
<1>5. /\ new \in Record /\ new.evaluated = (me.doc.of[me.i].evaluated \/ f.evaluated)
      /\ new.job = me.doc.of[me.i].job
  <2>1. ABSENT \in JobStatus \cup {ABSENT}
    OBVIOUS
  <2>2. new \in Record /\ new.evaluated = (me.doc.of[me.i].evaluated \/ f.evaluated)
    BY <1>1, <1>4, <2>1, RecordTypes
  <2>3. new.job = me.doc.of[me.i].job
    BY <1>1 DEF Processed, Record
  <2>4. QED
    BY <2>2, <2>3
<1>6. new.evaluated => me.i \in reported
  BY <1>1, <1>2, <1>5 DEF Truthful, EvaluationInv, FlowsTruthful
<1>7. r = [me EXCEPT !.doc = d]
  BY <1>1 DEF Actions, Evaluation
<1> HIDE DEF new, Evaluation, Instances, Record
<1>8. Truthful(d) /\ d.of[me.i] = new /\ \A k \in Instances : k # me.i => d.of[k] = me.doc.of[k]
  BY <1>1, <1>5, <1>6, DocUpdated DEF Evaluation
<1>9. d \in Evaluation
  BY <1>8 DEF Truthful
<1> HIDE DEF d, r
<1>10. /\ r \in Actions /\ r.doc = d /\ r.at = me.at /\ r.i = me.i /\ r.op = me.op
       /\ r.target = me.target /\ r.complete = me.complete
  BY <1>7, <1>9 DEF Actions
<1>11. Known(d)
  <2> SUFFICES ASSUME NEW k \in Instances, Owed(k) PROVE d.of[k].evaluated
    BY DEF Known
  <2>1. CASE k = me.i
    BY <1>2, <1>5, <1>8, <2>1 DEF Owed
  <2>2. CASE k # me.i
    <3>1. me.doc.of[k].evaluated
      BY <1>1, <2>2 DEF Orderly, Spares
    <3>2. QED
      BY <1>8, <2>2, <3>1
  <2>3. QED
    BY <2>1, <2>2
<1>12. CASE r.at = "process" /\ Become(a, AfterUpdate(r))
  <2>1. Informed(me) /\ me.at = "process"
    BY <1>1, <1>10, <1>12 DEF Looping
  <2>2. Informed(r)
    BY <1>8, <1>10, <1>11, <2>1 DEF Informed
  <2>3. r.complete => \A k \in Instances : k <= r.i => k \in reported
    BY <1>1, <1>10, <2>1 DEF Passed
  <2>4. r.doc.of[r.i].job = COMPLETED => job[r.i] = COMPLETED
    BY <1>1, <1>5, <1>8, <1>10, <2>1 DEF Orderly
  <2>5. Honest(AfterUpdate(r)) /\ Orderly(AfterUpdate(r))
    BY <1>4, <1>8, <1>10, <2>2, <2>3, <2>4, AfterUpdateHonest, AfterUpdateOrderly
  <2>6. PICK p : p = AfterUpdate(r)
    OBVIOUS
  <2>7. p \in Actions /\ Orderly(p) /\ Become(a, p)
    BY <1>12, <2>5, <2>6 DEF Honest
  <2>8. Known(saved)
    <3>1. \A b \in Actors : actor[b].at \notin {"process_one", "save"}
      BY <1>1, <2>1 DEF At
    <3>2. QED
      BY <3>1 DEF CalmInv
  <2>9. PICK e : e = saved
    OBVIOUS
  <2>10. QED
    BY <1>1, <1>3, <2>7, <2>8, <2>9, CalmStands
<1>13. CASE r.at = "process_one" /\ Become(a, SaveNext(r.doc))
  <2>1. PICK p : p = SaveNext(d)
    OBVIOUS
  <2>2. p \in Actions /\ Orderly(p) /\ Become(a, p) /\ p.at = "save"
    BY <1>4, <1>8, <1>9, <1>10, <1>11, <1>13, <2>1, SaveNextHonest, SaveNextOrderly DEF Honest
  <2>3. QED
    BY <1>1, <1>3, <2>2, CalmStands
<1>14. QED
  BY <1>3, <1>12, <1>13

\* A coroutine writes what it knows.
LEMMA SaveCalm ==
  ASSUME EvaluationInv, CalmInv, calm, NEW a \in Actors, Save(a)
  PROVE  CalmInv'
<1>0. ~At(a, "idle")
  BY DEF Save, At
<1>1. PICK me \in Actions :
           /\ me = actor[a] /\ Orderly(me) /\ Truthful(me.doc) /\ Passed(me) /\ me.at # "idle"
           /\ me.i \in Instances /\ me.doc.of[me.i] \in Record /\ me.doc \in Evaluation
           /\ \A b \in Actors : b # a => At(b, "idle")
           /\ me.at \in Looping \cup {"start"} => Informed(me)
  BY <1>0, CalmActor
<1>2. /\ me.at \in {"sync_save", "save"} /\ saved' = me.doc
      /\ Become(a, IF me.at = "sync_save" THEN AfterSync(me) ELSE Rest)
      /\ UNCHANGED <<flow, job, exe, bus, size, calm>>
  BY <1>1 DEF Save, At, RunnerUnchanged, fixed
<1>3. Known(me.doc)
  BY <1>1, <1>2 DEF Orderly, Known, Spares
<1>4. PICK p : p = IF me.at = "sync_save" THEN AfterSync(me) ELSE Rest
  OBVIOUS
<1>5. p \in Actions /\ Orderly(p)
  <2>1. Numbered
    BY ActorTypes
  <2>2. CASE me.at = "sync_save"
    <3>1. Informed(me)
      BY <1>1, <2>2 DEF Looping
    <3>2. QED
      BY <1>1, <1>4, <2>1, <2>2, <3>1, AfterSyncHonest, AfterSyncOrderly DEF Honest
  <2>3. CASE me.at # "sync_save"
    BY <1>4, <2>1, <2>3, RestHonest, RestOrderly DEF Honest
  <2>4. QED
    BY <2>2, <2>3
<1>6. PICK d : d = me.doc
  OBVIOUS
<1>7. saved' = d /\ Known(d)
  BY <1>2, <1>3, <1>6
<1>8. Become(a, p)
  BY <1>2, <1>4
<1>9. QED
  BY <1>1, <1>2, <1>5, <1>7, <1>8, CalmStands

\* start_instance forgets an error, of an instance whose job is over.
LEMMA ResetCalm ==
  ASSUME EvaluationInv, CalmInv, calm, NEW a \in Actors, Reset(a)
  PROVE  CalmInv'
<1>0. ~At(a, "idle")
  BY DEF Reset, At
<1>1. PICK me \in Actions :
           /\ me = actor[a] /\ Orderly(me) /\ Truthful(me.doc) /\ Passed(me) /\ me.at # "idle"
           /\ me.i \in Instances /\ me.doc.of[me.i] \in Record /\ me.doc \in Evaluation
           /\ \A b \in Actors : b # a => At(b, "idle")
           /\ me.at \in Looping \cup {"start"} => Informed(me)
  BY <1>0, CalmActor
<1>2. PICK f : f = flow[me.i]
  OBVIOUS
<1> DEFINE rec == IF me.doc.of[me.i].exec = "error"
                  THEN [NewRecord EXCEPT !.job = me.doc.of[me.i].job] ELSE me.doc.of[me.i]
           next == [me EXCEPT !.doc.of[me.i] = rec]
<1>3. me.at = "reset" /\ UNCHANGED <<saved, flow, job, exe, bus, size, calm>>
  BY <1>1 DEF Reset, At, RunnerUnchanged, fixed
<1>4. Numbered
  BY ActorTypes
<1>5. rec \in Record /\ (rec.evaluated => me.i \in reported)
  <2>1. NewRecord \in Record /\ ~NewRecord.evaluated
    BY <1>4, NewTypes
  <2>2. /\ [NewRecord EXCEPT !.job = me.doc.of[me.i].job] \in Record
        /\ ~[NewRecord EXCEPT !.job = me.doc.of[me.i].job].evaluated
    BY <1>1, <2>1 DEF Record
  <2>3. QED
    BY <1>1, <2>2 DEF Truthful
<1>6. \/ Become(a, [next EXCEPT !.at = "save_flow"])
      \/ Become(a, Rest)
      \/ Become(a, [next EXCEPT !.at = "launch"])
  <2>1. Become(a, CASE f.error -> [next EXCEPT !.at = "save_flow"]
                    [] ~f.error /\ IsFinished(rec) /\ f.evaluated /\ f.finished -> Rest
                    [] OTHER -> [next EXCEPT !.at = "launch"])
    BY <1>1, <1>2 DEF Reset
  <2> HIDE DEF rec, next
  <2>2. QED
    BY <2>1
<1> HIDE DEF rec
<1>7. /\ next \in Actions /\ next.op = me.op /\ next.i = me.i
      /\ \A k \in Instances : k # me.i => next.doc.of[k] = me.doc.of[k]
  <2>1. /\ next \in Actions /\ next.doc = [me.doc EXCEPT !.of[me.i] = rec]
    <3>1. "idle" \in Place
      BY DEF Place
    <3>2. QED
      BY <1>1, <1>4, <1>5, <3>1, CopyReplaced
  <2>2. next.op = me.op /\ next.i = me.i
    BY DEF Actions
  <2>3. \A k \in Instances : k # me.i => [me.doc EXCEPT !.of[me.i] = rec].of[k] = me.doc.of[k]
    BY <1>1 DEF Evaluation
  <2> HIDE DEF next
  <2>4. QED
    BY <2>1, <2>2, <2>3
<1> HIDE DEF next
<1>8. ASSUME NEW at \in {"save_flow", "launch"}, Become(a, [next EXCEPT !.at = at])
      PROVE  \E p \in Actions : Become(a, p) /\ Orderly(p)
  <2> DEFINE p == [next EXCEPT !.at = at]
  <2>1. /\ p \in Actions /\ p.at = at /\ p.i = me.i /\ p.op = me.op /\ p.doc = next.doc
    BY <1>7, <1>8 DEF Actions, Place
  <2> HIDE DEF p
  <2>2. Starts(me.i) /\ me.op = "start_instance"
    BY <1>1, <1>3 DEF Orderly, Launching
  <2>3. \A k \in Instances : Owed(k) /\ ~Spares(p, k) => p.doc.of[k].evaluated
    <3>1. \A k \in Instances : Owed(k) => me.doc.of[k].evaluated
      BY <1>1, <1>3 DEF Orderly, Spares
    <3>2. QED
      BY <1>7, <2>1, <3>1 DEF Spares
  <2>4. Orderly(p)
    BY <2>1, <2>2, <2>3 DEF Orderly, Looping, Launching
  <2>5. QED
    BY <1>8, <2>1, <2>4 DEF p
<1>9. \E p \in Actions : Become(a, p) /\ Orderly(p)
  <2>1. Rest \in Actions /\ Orderly(Rest)
    BY <1>4, RestHonest, RestOrderly DEF Honest
  <2>2. QED
    BY <1>6, <1>8, <2>1
<1>10. PICK p \in Actions : Become(a, p) /\ Orderly(p)
  BY <1>9
<1>11. Known(saved)
  <2>1. \A b \in Actors : actor[b].at \notin {"process_one", "save"}
    BY <1>1, <1>3 DEF At
  <2>2. QED
    BY <2>1 DEF CalmInv
<1>12. PICK e : e = saved
  OBVIOUS
<1>13. QED
  BY <1>1, <1>3, <1>10, <1>11, <1>12, CalmStands

\* The completed job of an evaluated instance is removed.
LEMMA CleanCalm ==
  ASSUME EvaluationInv, CalmInv, calm, NEW a \in Actors, Clean(a)
  PROVE  CalmInv'
<1>0. ~At(a, "idle")
  BY DEF Clean, At
<1>1. PICK me \in Actions :
           /\ me = actor[a] /\ Orderly(me) /\ Truthful(me.doc) /\ Passed(me) /\ me.at # "idle"
           /\ me.i \in Instances /\ me.doc.of[me.i] \in Record /\ me.doc \in Evaluation
           /\ \A b \in Actors : b # a => At(b, "idle")
           /\ me.at \in Looping \cup {"start"} => Informed(me)
  BY <1>0, CalmActor
<1> DEFINE rec == [me.doc.of[me.i] EXCEPT !.job = ABSENT]
           d == [me.doc EXCEPT !.of[me.i] = rec]
           q == [me EXCEPT !.doc.of[me.i].job = ABSENT, !.updates = TRUE]
<1>2. /\ me.at = "clean" /\ CancelJobs({me.i}) /\ Become(a, NextInstance(q))
      /\ UNCHANGED <<saved, flow, bus, size, calm>>
  BY <1>1 DEF Clean, At, fixed
<1>3. job[me.i] = COMPLETED
  BY <1>1, <1>2 DEF Orderly
<1>4. /\ Numbered /\ job \in [Instances -> JobStatus \cup {ABSENT}]
      /\ exe \in [Instances -> Executions] /\ JobsFit
  BY KnowledgeTypes DEF CalmInv
<1>5. /\ job' = [i \in Instances |-> job'[i]]
      /\ \A i \in Instances : i # me.i => job'[i] = job[i]
      /\ job'[me.i] \in {ABSENT, CANCELED, COMPLETED}
      /\ exe' = [i \in Instances |-> IF i = me.i THEN NotExecuting ELSE exe[i]]
  BY <1>1, <1>2, <1>3, <1>4 DEF CancelJobs
<1>6. Instances' = Instances
  BY <1>2 DEF Instances
<1>7. /\ \A i \in Instances : Owed(i)' => Owed(i)
      /\ \A i \in Instances : Starts(i) => Starts(i)'
  <2>1. exe[me.i].stage = "none"
    BY <1>1, <1>3, <1>4 DEF JobsFit, Fits, RUNNING, COMPLETED
  <2>2. ASSUME NEW i \in Instances PROVE (Owed(i)' => Owed(i)) /\ (Starts(i) => Starts(i)')
    BY <1>2, <1>3, <1>5, <2>1 DEF Owed, Starts, Announced, Working, NotExecuting, PENDING,
       RUNNING, COMPLETED, CANCELED, ABSENT
  <2>3. QED
    BY <2>2
<1>8. JobsFit'
  <2> SUFFICES ASSUME NEW i \in Instances PROVE Fits(job'[i], exe'[i], flow'[i])
    BY <1>6 DEF JobsFit, Fits
  <2>1. CASE i # me.i
    BY <1>2, <1>4, <1>5, <2>1 DEF JobsFit
  <2>2. CASE i = me.i
    <3>1. flow[i].evaluated => flow[i].finished
      BY <1>4 DEF JobsFit, Fits
    <3>2. exe'[i] = NotExecuting /\ job'[i] # RUNNING
      BY <1>5, <2>2 DEF RUNNING, ABSENT, CANCELED, COMPLETED
    <3>3. QED
      BY <1>2, <3>1, <3>2 DEF Fits, NotExecuting, NewFlow
  <2>3. QED
    BY <2>1, <2>2
<1>9. rec \in Record /\ rec.evaluated = me.doc.of[me.i].evaluated
  BY <1>1 DEF Record
<1>10. q = [me EXCEPT !.doc = d, !.updates = TRUE]
  BY <1>1 DEF Actions, Evaluation, Record
<1> HIDE DEF rec, Evaluation, Instances, Record
<1>11. Truthful(d) /\ d.of[me.i] = rec /\ \A k \in Instances : k # me.i => d.of[k] = me.doc.of[k]
  <2>1. rec.evaluated => me.i \in reported
    BY <1>1, <1>9 DEF Truthful
  <2>2. QED
    BY <1>1, <1>9, <2>1, DocUpdated DEF Evaluation
<1>12. d \in Evaluation
  BY <1>11 DEF Truthful
<1> HIDE DEF d, q
<1>13. /\ q \in Actions /\ q.doc = d /\ q.i = me.i /\ q.op = me.op /\ q.target = me.target
       /\ q.complete = me.complete
  BY <1>10, <1>12 DEF Actions
<1>14. Informed(q)
  <2>1. Informed(me)
    BY <1>1, <1>2 DEF Looping
  <2>2. Known(d)
    BY <1>9, <1>11, <2>1 DEF Informed, Known
  <2>3. QED
    BY <1>11, <1>13, <2>1, <2>2 DEF Informed
<1>15. q.complete => \A k \in Instances : k <= q.i => k \in reported
  BY <1>1, <1>2, <1>13 DEF Passed
<1>16. PICK p : p = NextInstance(q)
  OBVIOUS
<1>17. p \in Actions /\ Orderly(p) /\ p.at \notin {"process", "clean"} /\ Become(a, p)
  BY <1>2, <1>4, <1>11, <1>13, <1>14, <1>15, <1>16, NextInstanceHonest, NextInstanceOrderly
     DEF Honest
<1>18. Known(saved)
  <2>1. \A b \in Actors : actor[b].at \notin {"process_one", "save"}
    BY <1>1, <1>2 DEF At
  <2>2. QED
    BY <2>1 DEF CalmInv
<1>19. PICK e : e = saved
  OBVIOUS
<1>20. QED
  BY <1>1, <1>2, <1>7, <1>8, <1>17, <1>18, <1>19, CalmThinks

\* A job that is started waits for the runner, and what it brings is awaited.
LEMMA StartJobCalm ==
  ASSUME EvaluationInv, CalmInv, calm, NEW i \in Instances, StartJob(i),
         UNCHANGED <<flow, bus, size>>
  PROVE  /\ JobsFit' /\ \A k \in Instances : Owed(k)' => Owed(k)
         /\ Starts(i) => ~Owed(i)'
<1>1. /\ job \in [Instances -> JobStatus \cup {ABSENT}] /\ JobsFit /\ exe' = exe
      /\ Instances' = Instances
  BY KnowledgeTypes DEF CalmInv, StartJob, Instances
<1>2. job' = IF Starts(i) THEN [job EXCEPT ![i] = PENDING] ELSE job
  BY DEF StartJob
<1>3. \A k \in Instances : job'[k] = IF k = i /\ Starts(i) THEN PENDING ELSE job[k]
  BY <1>1, <1>2
<1>4. \A k \in Instances : Owed(k)' => Owed(k)
  BY <1>1, <1>3 DEF Owed, Announced
<1>5. Starts(i) => ~Owed(i)'
  BY <1>1, <1>3 DEF Owed
<1>6. JobsFit'
  <2> SUFFICES ASSUME NEW k \in Instances PROVE Fits(job'[k], exe'[k], flow'[k])
    BY <1>1 DEF JobsFit, Fits
  <2>1. job'[k] = RUNNING <=> job[k] = RUNNING
    BY <1>3 DEF Starts, RUNNING, PENDING
  <2>2. Fits(job[k], exe[k], flow[k])
    BY <1>1 DEF JobsFit
  <2>3. QED
    BY <1>1, <2>1, <2>2 DEF Fits
<1>7. QED
  BY <1>4, <1>5, <1>6

\* start_evaluation starts the job of an instance.
LEMMA StartCalm ==
  ASSUME EvaluationInv, CalmInv, calm, NEW a \in Actors, Start(a)
  PROVE  CalmInv'
<1>0. ~At(a, "idle")
  BY DEF Start, At
<1>1. PICK me \in Actions :
           /\ me = actor[a] /\ Orderly(me) /\ Truthful(me.doc) /\ Passed(me) /\ me.at # "idle"
           /\ me.i \in Instances /\ me.doc.of[me.i] \in Record /\ me.doc \in Evaluation
           /\ \A b \in Actors : b # a => At(b, "idle")
           /\ me.at \in Looping \cup {"start"} => Informed(me)
  BY <1>0, CalmActor
<1> DEFINE rec == [me.doc.of[me.i] EXCEPT !.exec = "queued"]
           d == [me.doc EXCEPT !.of[me.i] = rec]
           r1 == [me EXCEPT !.doc.of[me.i].exec = "queued", !.updates = TRUE]
<1>2. PICK p : p = IF Starts(me.i) THEN r1 ELSE me
  OBVIOUS
<1>3. /\ me.at = "start" /\ Become(a, StartFrom(p, me.i + 1)) /\ StartJob(me.i)
      /\ UNCHANGED <<saved, flow, bus, size, calm>>
  BY <1>1, <1>2 DEF Start, At, fixed
<1>4. Numbered /\ Informed(me) /\ me.op = "start"
  BY <1>1, <1>3, ActorTypes DEF Orderly
<1>5. rec \in Record /\ rec.evaluated = me.doc.of[me.i].evaluated
  BY <1>1 DEF Record, ExecutionStatus
<1>6. r1 = [me EXCEPT !.doc = d, !.updates = TRUE]
  BY <1>1 DEF Actions, Evaluation, Record
<1> HIDE DEF rec, Evaluation, Instances, Record
<1>7. Truthful(d) /\ d.of[me.i] = rec /\ \A k \in Instances : k # me.i => d.of[k] = me.doc.of[k]
  <2>1. rec.evaluated => me.i \in reported
    BY <1>1, <1>5 DEF Truthful
  <2>2. QED
    BY <1>1, <1>5, <2>1, DocUpdated DEF Evaluation
<1>8. d \in Evaluation
  BY <1>7 DEF Truthful
<1> HIDE DEF d, r1
<1>9. r1 \in Actions /\ r1.doc = d /\ r1.op = me.op
  BY <1>6, <1>8 DEF Actions
<1>10. Known(d)
  BY <1>4, <1>5, <1>7 DEF Informed, Known
<1>11. p \in Actions /\ Truthful(p.doc) /\ Known(p.doc) /\ p.op = "start"
  BY <1>2, <1>4, <1>7, <1>9, <1>10 DEF Informed
<1>12. me.i + 1 \in Nat \ {0}
  BY <1>1 DEF Instances
<1>13. PICK q : q = StartFrom(p, me.i + 1)
  OBVIOUS
<1>14. q \in Actions /\ Orderly(q) /\ q.at \in {"start", "save", "idle"} /\ Become(a, q)
  BY <1>3, <1>4, <1>11, <1>12, <1>13, StartFromHonest, StartFromOrderly DEF Honest
<1>15. JobsFit' /\ \A k \in Instances : Owed(k)' => Owed(k)
  BY <1>1, <1>3, StartJobCalm
<1>16. Known(saved)
  <2>1. \A b \in Actors : actor[b].at \notin {"process_one", "save"}
    BY <1>1, <1>3 DEF At
  <2>2. QED
    BY <2>1 DEF CalmInv
<1>17. PICK e : e = saved
  OBVIOUS
<1>18. q.at \notin Looping \cup Launching /\ q.at \notin {"process", "clean"}
  BY <1>14 DEF Looping, Launching
<1>19. QED
  BY <1>1, <1>3, <1>14, <1>15, <1>16, <1>17, <1>18, CalmThinks

\* start_instance writes the trajectory that it has reset, which no job has.
LEMMA SaveFlowCalm ==
  ASSUME EvaluationInv, CalmInv, calm, NEW a \in Actors, SaveFlow(a)
  PROVE  CalmInv'
<1>0. ~At(a, "idle")
  BY DEF SaveFlow, At
<1>1. PICK me \in Actions :
           /\ me = actor[a] /\ Orderly(me) /\ Truthful(me.doc) /\ Passed(me) /\ me.at # "idle"
           /\ me.i \in Instances /\ me.doc.of[me.i] \in Record /\ me.doc \in Evaluation
           /\ \A b \in Actors : b # a => At(b, "idle")
           /\ me.at \in Looping \cup {"start"} => Informed(me)
  BY <1>0, CalmActor
<1> DEFINE q == [me EXCEPT !.at = "launch"]
<1>2. /\ me.at = "save_flow" /\ flow' = [flow EXCEPT ![me.i] = NewFlow] /\ Become(a, q)
      /\ UNCHANGED <<saved, job, exe, bus, size, calm>>
  BY <1>1 DEF SaveFlow, At, RunnerUnchanged, fixed
<1>3. q \in Actions /\ q.at = "launch" /\ q.i = me.i /\ q.op = me.op /\ q.doc = me.doc
  BY DEF Actions, Place
<1> HIDE DEF q
<1>4. Starts(me.i) /\ Orderly(q)
  BY <1>1, <1>2, <1>3 DEF Orderly, Spares, Looping, Launching
<1>5. /\ flow \in [Instances -> Flow] /\ JobsFit /\ Instances' = Instances
  BY <1>2, KnowledgeTypes DEF CalmInv, Instances
<1>6. \A k \in Instances : flow'[k] = IF k = me.i THEN NewFlow ELSE flow[k]
  BY <1>2, <1>5
<1>7. ~NewFlow.evaluated
  BY DEF NewFlow
<1>8. \A k \in Instances : (Owed(k)' => Owed(k)) /\ (Starts(k) => Starts(k)')
  BY <1>2, <1>6, <1>7 DEF Owed, Announced, Starts
<1>9. JobsFit'
  <2> SUFFICES ASSUME NEW k \in Instances PROVE Fits(job'[k], exe'[k], flow'[k])
    BY <1>5 DEF JobsFit, Fits
  <2>1. Fits(job[k], exe[k], flow[k])
    BY <1>5 DEF JobsFit
  <2>2. CASE k # me.i
    BY <1>2, <1>6, <2>1, <2>2
  <2>3. CASE k = me.i
    <3>1. exe[k].stage = "none"
      BY <1>4, <2>1, <2>3 DEF Starts, Fits
    <3>2. QED
      BY <1>2, <1>6, <1>7, <2>1, <2>3, <3>1 DEF Fits
  <2>4. QED
    BY <2>2, <2>3
<1>10. Known(saved)
  <2>1. \A b \in Actors : actor[b].at \notin {"process_one", "save"}
    BY <1>1, <1>2 DEF At
  <2>2. QED
    BY <2>1 DEF CalmInv
<1>11. PICK e : e = saved
  OBVIOUS
<1>12. QED
  BY <1>1, <1>2, <1>3, <1>4, <1>8, <1>9, <1>10, <1>11, CalmThinks

\* start_instance starts the job: what its copy lacks, the job will bring.
LEMMA LaunchCalm ==
  ASSUME EvaluationInv, CalmInv, calm, NEW a \in Actors, Launch(a)
  PROVE  CalmInv'
<1>0. ~At(a, "idle")
  BY DEF Launch, At
<1>1. PICK me \in Actions :
           /\ me = actor[a] /\ Orderly(me) /\ Truthful(me.doc) /\ Passed(me) /\ me.at # "idle"
           /\ me.i \in Instances /\ me.doc.of[me.i] \in Record /\ me.doc \in Evaluation
           /\ \A b \in Actors : b # a => At(b, "idle")
           /\ me.at \in Looping \cup {"start"} => Informed(me)
  BY <1>0, CalmActor
<1>2. /\ me.at = "launch" /\ StartJob(me.i) /\ UNCHANGED <<saved, flow, bus, size, calm>>
      /\ Become(a, IF me.op = "retry" THEN SaveNext(me.doc) ELSE [me EXCEPT !.at = "status"])
  BY <1>1 DEF Launch, At, fixed
<1>3. Starts(me.i) /\ me.op = "start_instance"
  BY <1>1, <1>2 DEF Orderly, Launching
<1> DEFINE q == [me EXCEPT !.at = "status"]
<1>4. Become(a, q)
  BY <1>2, <1>3
<1>5. q.at = "status" /\ q.op = me.op /\ q.doc = me.doc
  BY DEF Actions
<1> HIDE DEF q
<1>6. /\ JobsFit' /\ \A k \in Instances : Owed(k)' => Owed(k)
      /\ ~Owed(me.i)' /\ Instances' = Instances
  BY <1>1, <1>2, <1>3, StartJobCalm DEF Instances
<1>7. \A k \in Instances : Owed(k)' => me.doc.of[k].evaluated
  <2>1. \A k \in Instances : Owed(k)' => Owed(k) /\ k # me.i
    BY <1>6
  <2>2. QED
    BY <1>1, <2>1 DEF Orderly, Spares
<1>8. PICK p : p = q
  OBVIOUS
<1>9. Orderly(p)'
  BY <1>3, <1>5, <1>6, <1>7, <1>8 DEF Orderly, Looping, Launching
<1>10. Known(saved)'
  <2>1. \A b \in Actors : actor[b].at \notin {"process_one", "save"}
    BY <1>1, <1>2 DEF At
  <2>2. Known(saved)
    BY <2>1 DEF CalmInv
  <2>3. QED
    BY <1>2, <1>6, <2>2 DEF Known
<1>11. Become(a, p) /\ UNCHANGED <<size, calm>>
  BY <1>2, <1>4, <1>8
<1>12. QED
  BY <1>1, <1>6, <1>9, <1>10, <1>11, CalmMoves

\* start_instance looks at the job it has started.
LEMMA LookAtJobCalm ==
  ASSUME EvaluationInv, CalmInv, calm, NEW a \in Actors, LookAtJob(a)
  PROVE  CalmInv'
<1>0. ~At(a, "idle")
  BY DEF LookAtJob, At
<1>1. PICK me \in Actions :
           /\ me = actor[a] /\ Orderly(me) /\ Truthful(me.doc) /\ Passed(me) /\ me.at # "idle"
           /\ me.i \in Instances /\ me.doc.of[me.i] \in Record /\ me.doc \in Evaluation
           /\ \A b \in Actors : b # a => At(b, "idle")
           /\ me.at \in Looping \cup {"start"} => Informed(me)
  BY <1>0, CalmActor
<1>2. PICK s : s = job[me.i]
  OBVIOUS
<1> DEFINE w == [me.doc.of[me.i] EXCEPT !.job = s]
           rec == Synced(w, s)
           d == [me.doc EXCEPT !.of[me.i] = rec]
           e == [d EXCEPT !.status = Resumed(@)]
<1>3. /\ me.at = "status" /\ UNCHANGED <<saved, flow, job, exe, bus, size, calm>>
      /\ Become(a, SaveNext([me.doc EXCEPT !.status = Resumed(@),
                                           !.of[me.i] = Synced([@ EXCEPT !.job = s], s)]))
  BY <1>1, <1>2 DEF LookAtJob, At, RunnerUnchanged, fixed
<1>4. [me.doc EXCEPT !.status = Resumed(@), !.of[me.i] = Synced([@ EXCEPT !.job = s], s)] = e
  BY <1>1 DEF Actions, Evaluation
<1>5. Numbered /\ s \in JobStatus \cup {ABSENT}
  BY <1>1, <1>2, ActorTypes
<1>6. rec \in Record /\ rec.evaluated = me.doc.of[me.i].evaluated
  <2>1. w \in Record /\ w.evaluated = me.doc.of[me.i].evaluated
    BY <1>1, <1>5 DEF Record
  <2> HIDE DEF w
  <2>2. NewFlow \in Flow
    BY <1>5, NewTypes
  <2>3. QED
    BY <1>5, <2>1, <2>2, RecordTypes
<1> HIDE DEF rec, Evaluation, Instances, Record
<1>7. Truthful(d) /\ d.of[me.i] = rec /\ \A k \in Instances : k # me.i => d.of[k] = me.doc.of[k]
  <2>1. rec.evaluated => me.i \in reported
    BY <1>1, <1>6 DEF Truthful
  <2>2. QED
    BY <1>1, <1>6, <2>1, DocUpdated DEF Evaluation
<1> HIDE DEF d
<1>8. Truthful(e) /\ e.of = d.of /\ e \in Evaluation
  BY <1>7, ResumedTruthful DEF Truthful, Evaluation
<1> HIDE DEF e
<1>9. Known(e)
  <2>1. \A k \in Instances : Owed(k) => me.doc.of[k].evaluated
    BY <1>1, <1>3 DEF Orderly, Spares
  <2>2. QED
    BY <1>6, <1>7, <1>8, <2>1 DEF Known
<1>10. PICK p : p = SaveNext(e)
  OBVIOUS
<1>11. p \in Actions /\ Orderly(p) /\ p.at = "save" /\ Become(a, p)
  BY <1>3, <1>4, <1>5, <1>8, <1>9, <1>10, SaveNextHonest, SaveNextOrderly DEF Honest
<1>12. QED
  BY <1>1, <1>3, <1>11, CalmStands

\* An element of a queue is its first, or is in what is left without it.
LEMMA HeadOrTail ==
  ASSUME NEW S, NEW q \in Seq(S), NEW n \in 1..Len(q)
  PROVE  \/ q[n] = Head(q)
         \/ n - 1 \in 1..Len(Tail(q)) /\ Tail(q)[n - 1] = q[n]
<1>1. CASE n = 1
  BY <1>1
<1>2. CASE n # 1
  <2>1. q # << >> /\ Len(Tail(q)) = Len(q) - 1
    OBVIOUS
  <2>2. n - 1 \in 1..Len(Tail(q))
    BY <1>2, <2>1
  <2>3. Tail(q)[n - 1] = q[n]
    BY <1>2, <2>1, <2>2
  <2>4. QED
    BY <2>2, <2>3
<1>3. QED
  BY <1>1, <1>2

\* An element of a queue stays in its place when others come behind it.
LEMMA AppendHas ==
  ASSUME NEW S, NEW q \in Seq(S), NEW x, NEW n \in 1..Len(q)
  PROVE  n \in 1..Len(Append(q, x)) /\ Append(q, x)[n] = q[n]
<1>1. Len(q) \in Nat
  OBVIOUS
<1>2. Len(Append(q, x)) = Len(q) + 1
  OBVIOUS
<1>3. QED
  BY <1>1, <1>2

\* An event: the one that tells of an evaluation has the trajectory read at once.
LEMMA HandleEventCalm ==
  ASSUME EvaluationInv, CalmInv, calm, HandleEvent
  PROVE  CalmInv'
<1>1. PICK e : e = Head(bus)
  OBVIOUS
<1>2. PICK old : old = saved
  OBVIOUS
<1> DEFINE rec == [old.of[e.i] EXCEPT !.exec = Told(@, e.kind)]
           doc == [old EXCEPT !.of[e.i] = rec]
           q == [Rest EXCEPT !.at = "process_one", !.doc = doc, !.i = e.i]
<1>3. Numbered /\ Truthful(old) /\ old \in Evaluation /\ Handler \in Actors
      /\ bus \in Seq(Event) /\ bus # << >>
  BY <1>2, KnowledgeTypes DEF EvaluationInv, Actors, HandleEvent
<1>4. e \in Event /\ e.i \in Instances
  <2>1. e \in Event
    BY <1>1, <1>3
  <2>2. QED
    BY <2>1 DEF Event
<1>5. /\ \A b \in Actors : At(b, "idle")
      /\ bus' = Tail(bus) /\ UNCHANGED <<saved, flow, job, exe, size, calm>>
  BY DEF HandleEvent, MayBegin, RunnerUnchanged, fixed
<1>6. Known(old) /\ JobsFit
  BY <1>2, <1>5, CalmSaved
<1>7. old.of[e.i] \in Record
  BY <1>3, <1>4 DEF Evaluation
<1>8. rec.evaluated = old.of[e.i].evaluated /\ rec \in Record
  <2>1. Told(old.of[e.i].exec, e.kind) \in ExecutionStatus
    BY <1>7 DEF Told, Record, ExecutionStatus
  <2>2. QED
    BY <1>7, <2>1 DEF Record
<1>9. [old EXCEPT !.of[e.i].exec = Told(@, e.kind)] = doc
  BY <1>3, <1>4, <1>7 DEF Evaluation, Record
<1>10. Become(Handler, IF ReadAfter(e.kind) THEN q ELSE SaveNext(doc))
  BY <1>1, <1>2, <1>9 DEF HandleEvent
<1> HIDE DEF rec, Evaluation, Instances, Record, Event
<1>11. Truthful(doc) /\ \A k \in Instances : doc.of[k].evaluated = old.of[k].evaluated
  <2>1. rec.evaluated => e.i \in reported
    BY <1>3, <1>4, <1>8 DEF Truthful
  <2>2. Truthful(doc) /\ doc.of[e.i] = rec
    BY <1>3, <1>4, <1>8, <2>1, DocUpdated
  <2>3. \A k \in Instances : k # e.i => doc.of[k] = old.of[k]
    BY <1>3, <1>4 DEF Evaluation
  <2> HIDE DEF doc
  <2>4. QED
    BY <1>8, <2>2, <2>3
<1>12. doc \in Evaluation
  BY <1>11 DEF Truthful
<1> HIDE DEF doc
<1>13. \A k \in Instances : Owed(k)' => Owed(k) \/ (k = e.i /\ e.kind = "evaluation completed")
  <2> SUFFICES ASSUME NEW k \in Instances, Announced(k), ~Announced(k)'
               PROVE  k = e.i /\ e.kind = "evaluation completed"
    BY <1>5 DEF Owed
  <2>1. PICK n \in 1..Len(bus) : bus[n].i = k /\ bus[n].kind = "evaluation completed"
    BY DEF Announced
  <2>2. \/ bus[n] = Head(bus)
        \/ n - 1 \in 1..Len(Tail(bus)) /\ Tail(bus)[n - 1] = bus[n]
    BY <1>3, <2>1, HeadOrTail
  <2>3. bus[n] = Head(bus)
    BY <1>5, <2>1, <2>2 DEF Announced
  <2>4. QED
    BY <1>1, <2>1, <2>3
<1>14. Instances' = Instances
  BY <1>5 DEF Instances
<1>15. JobsFit'
  BY <1>5, <1>6, <1>14 DEF JobsFit, Fits
<1>16. PICK p : p = IF ReadAfter(e.kind) THEN q ELSE SaveNext(doc)
  OBVIOUS
<1>17. p.at \in {"process_one", "save"} /\ p.op = "event" /\ p.doc = doc
       /\ (ReadAfter(e.kind) => p.at = "process_one" /\ p.i = e.i)
  <2>1. Rest \in Actions /\ Rest.op = "event"
    BY <1>3, RestHonest DEF Honest, Rest
  <2>2. q.at = "process_one" /\ q.doc = doc /\ q.i = e.i /\ q.op = "event"
    BY <2>1 DEF Actions
  <2>3. LET s == SaveNext(doc) IN s.at = "save" /\ s.doc = doc /\ s.op = "event"
    BY <2>1 DEF Actions, SaveNext
  <2> HIDE DEF q
  <2>4. QED
    BY <1>16, <2>2, <2>3
<1> HIDE DEF q
<1>18. \A k \in Instances : Owed(k)' /\ ~Spares(p, k) => p.doc.of[k].evaluated
  <2> SUFFICES ASSUME NEW k \in Instances, Owed(k)', ~Spares(p, k) PROVE p.doc.of[k].evaluated
    OBVIOUS
  <2>1. CASE Owed(k)
    BY <1>6, <1>11, <1>17, <2>1 DEF Known
  <2>2. CASE ~Owed(k)
    <3>1. k = e.i /\ ReadAfter(e.kind)
      BY <1>13, <2>2 DEF ReadAfter
    <3>2. QED
      BY <1>17, <3>1 DEF Spares
  <2>3. QED
    BY <2>1, <2>2
<1>19. Orderly(p)'
  BY <1>14, <1>17, <1>18 DEF Orderly, Spares, Looping, Launching
<1>20. Become(Handler, p)
  BY <1>10, <1>16
<1>21. QED
  BY <1>3, <1>5, <1>15, <1>17, <1>19, <1>20, CalmMoves

\* A coroutine that is on its way is at none of the places that only others go to.
LEMMA ActorStepsCalm ==
  ASSUME EvaluationInv, CalmInv, calm, NEW a \in Actors, ActorSteps(a)
  PROVE  CalmInv'
<1>1. ~(CancelToRetry(a) \/ CancelAll(a))
  <2>1. Orderly(actor[a])
    BY DEF CalmInv
  <2>2. QED
    BY <2>1 DEF Orderly, CancelToRetry, CancelAll, At, Looping, Launching
<1>2. QED
  BY <1>1, AskCalm, ProcessCalm, CleanCalm, SaveCalm, StartCalm, ResetCalm, SaveFlowCalm,
     LaunchCalm, LookAtJobCalm DEF ActorSteps

\* A step of a job that leaves nothing new to be told.
LEMMA CalmRuns ==
  ASSUME EvaluationInv, CalmInv, calm, UNCHANGED <<saved, actor, size, calm>>, JobsFit',
         \A i \in Instances : Owed(i)' => Owed(i),
         \A i \in Instances : Starts(i) => Starts(i)',
         \A i \in Instances : job[i] = COMPLETED => job'[i] = COMPLETED
  PROVE  CalmInv'
<1>1. Instances' = Instances
  BY DEF Instances
<1>2. ASSUME NEW a \in Actors PROVE Orderly(actor[a])'
  <2>1. PICK me : me = actor[a]
    OBVIOUS
  <2>2. me \in Actions /\ Orderly(me) /\ me.i \in Instances
    BY <2>1, ActorTypes DEF CalmInv
  <2>3. Orderly(me)'
    BY <2>2, OrderlyKept
  <2>4. actor'[a] = me
    BY <2>1
  <2>5. QED
    BY <2>3, <2>4 DEF Orderly, Spares, Starts
<1>3. Known(saved) => Known(saved)'
  BY <1>1 DEF Known
<1>4. QED
  BY <1>2, <1>3 DEF CalmInv, At

\* The same, by what the step makes of one job, its execution and its trajectory.
LEMMA JobCalm ==
  ASSUME EvaluationInv, CalmInv, calm, NEW i \in Instances, NEW s, NEW e, NEW f,
         job' = [job EXCEPT ![i] = s], exe' = [exe EXCEPT ![i] = e], flow' = [flow EXCEPT ![i] = f],
         \/ bus' = bus \/ \E x : bus' = Append(bus, x),
         Fits(s, e, f), job[i] = COMPLETED => s = COMPLETED,
         Starts(i) => s \notin {PENDING, RUNNING},
         \/ ~f.evaluated \/ s = PENDING \/ e.stage \in Working
         \/ Announced(i) \/ Announced(i)' \/ Owed(i),
         UNCHANGED <<saved, actor, fixed>>
  PROVE  CalmInv'
<1>1. /\ job \in [Instances -> JobStatus \cup {ABSENT}] /\ exe \in [Instances -> Executions]
      /\ flow \in [Instances -> Flow] /\ bus \in Seq(Event) /\ JobsFit
      /\ size' = size /\ calm' = calm
  BY KnowledgeTypes DEF CalmInv, fixed
<1>2. Instances' = Instances
  BY <1>1 DEF Instances
<1>3. /\ job'[i] = s /\ exe'[i] = e /\ flow'[i] = f
      /\ \A k \in Instances : k # i => job'[k] = job[k] /\ exe'[k] = exe[k] /\ flow'[k] = flow[k]
  BY <1>1
<1>4. ASSUME NEW k, Announced(k) PROVE Announced(k)'
  <2>1. PICK n \in 1..Len(bus) : bus[n].i = k /\ bus[n].kind = "evaluation completed"
    BY <1>4 DEF Announced
  <2>2. n \in 1..Len(bus') /\ bus'[n] = bus[n]
    <3>1. CASE bus' = bus
      BY <2>1, <3>1
    <3>2. CASE \E x : bus' = Append(bus, x)
      <4>1. PICK x : bus' = Append(bus, x)
        BY <3>2
      <4>2. QED
        BY <1>1, <2>1, <4>1, AppendHas
    <3>3. QED
      BY <3>1, <3>2
  <2>3. QED
    BY <2>1, <2>2 DEF Announced
<1>5. \A k \in Instances : Owed(k)' => Owed(k)
  <2> SUFFICES ASSUME NEW k \in Instances, Owed(k)' PROVE Owed(k)
    OBVIOUS
  <2>1. CASE k = i
    BY <1>3, <1>4, <2>1 DEF Owed
  <2>2. CASE k # i
    BY <1>3, <1>4, <2>2 DEF Owed
  <2>3. QED
    BY <2>1, <2>2
<1>6. \A k \in Instances : (Starts(k) => Starts(k)') /\ (job[k] = COMPLETED => job'[k] = COMPLETED)
  BY <1>3 DEF Starts
<1>7. JobsFit'
  <2> SUFFICES ASSUME NEW k \in Instances PROVE Fits(job'[k], exe'[k], flow'[k])
    BY <1>2 DEF JobsFit, Fits
  <2>1. QED
    BY <1>1, <1>3 DEF JobsFit
<1>8. QED
  BY <1>1, <1>5, <1>6, <1>7, CalmRuns

\* The steps of a job: while it works on, what it does will be told; when it has been told,
\* it is over.
LEMMA JobStepsCalm ==
  ASSUME EvaluationInv, CalmInv, calm, NEW i \in Instances, JobSteps(i)
  PROVE  CalmInv'
<1>1. PICK s, e, f : s = job[i] /\ e = exe[i] /\ f = flow[i]
  OBVIOUS
<1>2. /\ job \in [Instances -> JobStatus \cup {ABSENT}] /\ exe \in [Instances -> Executions]
      /\ flow \in [Instances -> Flow] /\ bus \in Seq(Event)
  BY KnowledgeTypes
<1>3. e \in Executions /\ e.flow \in Flow /\ f \in Flow
  BY <1>1, <1>2 DEF Executions
<1>4. Fits(s, e, f)
  BY <1>1 DEF CalmInv, JobsFit
<1>5. ~f.evaluated \/ s = PENDING \/ e.stage \in Working \/ Announced(i) \/ Owed(i)
  BY <1>1 DEF Owed
<1>6. /\ job = [job EXCEPT ![i] = s] /\ exe = [exe EXCEPT ![i] = e]
      /\ flow = [flow EXCEPT ![i] = f]
  BY <1>1, <1>2
<1>7. ASSUME NEW kind, Emit(i, kind)
      PROVE  /\ \E x : bus' = Append(bus, x)
             /\ kind = "evaluation completed" => Announced(i)'
  <2> DEFINE x == [i |-> i, kind |-> kind]
  <2>1. bus' = Append(bus, x)
    BY <1>7 DEF Emit
  <2>2. x.i = i /\ x.kind = kind
    OBVIOUS
  <2> HIDE DEF x, Event
  <2>3. Len(bus') \in 1..Len(bus') /\ bus'[Len(bus')] = x
    BY <1>2, <2>1
  <2>4. QED
    BY <2>1, <2>2, <2>3 DEF Announced
<1>8. CASE JobBegins(i)
  <2> DEFINE u == [e EXCEPT !.stage = "begun"]
  <2>1. /\ s = PENDING /\ job' = [job EXCEPT ![i] = RUNNING] /\ exe' = [exe EXCEPT ![i] = u]
        /\ flow' = [flow EXCEPT ![i] = f] /\ bus' = bus /\ UNCHANGED <<saved, actor, fixed>>
    BY <1>1, <1>6, <1>8 DEF JobBegins, GoTo
  <2>2. u.stage = "begun" /\ u.flow = e.flow /\ u.unsaved = e.unsaved
    BY <1>3 DEF Executions
  <2> HIDE DEF u
  <2>3. Fits(RUNNING, u, f) /\ u.stage \in Working /\ ~Starts(i)
    BY <1>1, <1>4, <2>1, <2>2 DEF Fits, Working, Starts, PENDING, RUNNING
  <2>4. s # COMPLETED
    BY <2>1 DEF PENDING, COMPLETED
  <2>5. QED
    BY <1>1, <2>1, <2>3, <2>4, JobCalm
<1>9. CASE FlowStarts(i)
  <2> DEFINE u == [stage |-> "flow", flow |-> f, unsaved |-> TRUE]
  <2>1. /\ e.stage = "begun" /\ job' = [job EXCEPT ![i] = s] /\ exe' = [exe EXCEPT ![i] = u]
        /\ flow' = [flow EXCEPT ![i] = f] /\ \E x : bus' = Append(bus, x)
        /\ UNCHANGED <<saved, actor, fixed>>
    BY <1>1, <1>6, <1>7, <1>9 DEF FlowStarts, InStage
  <2>2. Fits(s, u, f) /\ u.stage \in Working
    BY <1>4, <2>1 DEF Fits, Working
  <2> HIDE DEF u
  <2>3. Starts(i) => s \notin {PENDING, RUNNING}
    BY <1>1 DEF Starts
  <2>4. QED
    BY <1>1, <2>1, <2>2, <2>3, JobCalm
<1>10. CASE FlowCompletes(i)
  <2> DEFINE u == [e EXCEPT !.stage = "flow_done", !.flow.finished = TRUE, !.unsaved = TRUE]
  <2>0. exe' = [exe EXCEPT ![i] = [exe[i] EXCEPT !.stage = "flow_done", !.flow.finished = TRUE,
                                                !.unsaved = TRUE]]
    BY <1>10 DEF FlowCompletes
  <2>1. /\ e.stage = "flow" /\ job' = [job EXCEPT ![i] = s] /\ exe' = [exe EXCEPT ![i] = u]
        /\ flow' = [flow EXCEPT ![i] = f] /\ \E x : bus' = Append(bus, x)
        /\ UNCHANGED <<saved, actor, fixed>>
    <3>1. exe' = [exe EXCEPT ![i] = u]
      BY <1>1, <2>0
    <3> HIDE DEF u
    <3>2. QED
      BY <1>1, <1>6, <1>7, <1>10, <3>1 DEF FlowCompletes, InStage
  <2>2. u.stage = "flow_done" /\ u.flow.finished /\ u.flow.evaluated = e.flow.evaluated
    BY <1>3 DEF Executions, Flow
  <2> HIDE DEF u
  <2>3. Fits(s, u, f) /\ u.stage \in Working
    BY <1>4, <2>1, <2>2 DEF Fits, Working
  <2>4. Starts(i) => s \notin {PENDING, RUNNING}
    BY <1>1 DEF Starts
  <2>5. QED
    BY <1>1, <2>1, <2>3, <2>4, JobCalm
<1>11. CASE FlowFails(i)
  <2> DEFINE u == [e EXCEPT !.stage = "failing", !.flow.finished = TRUE, !.flow.error = TRUE,
                            !.unsaved = TRUE]
  <2>0. exe' = [exe EXCEPT ![i] = [exe[i] EXCEPT !.stage = "failing", !.flow.finished = TRUE,
                                                !.flow.error = TRUE, !.unsaved = TRUE]]
    BY <1>11 DEF FlowFails
  <2>1. /\ e.stage = "flow" /\ ~e.flow.finished /\ job' = [job EXCEPT ![i] = s]
        /\ exe' = [exe EXCEPT ![i] = u] /\ flow' = [flow EXCEPT ![i] = f]
        /\ \E x : bus' = Append(bus, x) /\ UNCHANGED <<saved, actor, fixed>>
    <3>1. exe' = [exe EXCEPT ![i] = u]
      BY <1>1, <2>0
    <3> HIDE DEF u
    <3>2. QED
      BY <1>1, <1>6, <1>7, <1>11, <3>1 DEF FlowFails, InStage
  <2>2. u.stage = "failing" /\ u.flow.finished /\ u.flow.evaluated = e.flow.evaluated
    BY <1>3 DEF Executions, Flow
  <2> HIDE DEF u
  <2>3. Fits(s, u, f) /\ ~f.evaluated
    BY <1>4, <2>1, <2>2 DEF Fits
  <2>4. Starts(i) => s \notin {PENDING, RUNNING}
    BY <1>1 DEF Starts
  <2>5. QED
    BY <1>1, <2>1, <2>3, <2>4, JobCalm
<1>12. CASE FlowSaved(i)
  <2> DEFINE u == [e EXCEPT !.unsaved = FALSE]
  <2>1. /\ e.unsaved /\ job' = [job EXCEPT ![i] = s] /\ exe' = [exe EXCEPT ![i] = u]
        /\ flow' = [flow EXCEPT ![i] = e.flow] /\ bus' = bus /\ UNCHANGED <<saved, actor, fixed>>
    BY <1>1, <1>6, <1>12 DEF FlowSaved
  <2>2. u.stage = e.stage /\ u.flow = e.flow /\ ~u.unsaved
    BY <1>3 DEF Executions
  <2> HIDE DEF u
  <2>3. Fits(s, u, e.flow)
    BY <1>4, <2>2 DEF Fits
  <2>4. ~e.flow.evaluated \/ s = PENDING \/ u.stage \in Working \/ Announced(i) \/ Owed(i)
    <3>1. e.stage \in Stage
      BY <1>3 DEF Executions
    <3>2. QED
      BY <1>4, <1>5, <2>1, <2>2, <3>1 DEF Fits, Working, Stage
  <2>5. Starts(i) => s \notin {PENDING, RUNNING}
    BY <1>1 DEF Starts
  <2>6. QED
    BY <1>1, <2>1, <2>3, <2>4, <2>5, JobCalm
<1>13. CASE EvaluationStarts(i)
  <2> DEFINE u == [e EXCEPT !.stage = "evaluating"]
  <2>1. /\ e.stage = "flow_done" /\ job' = [job EXCEPT ![i] = s] /\ exe' = [exe EXCEPT ![i] = u]
        /\ flow' = [flow EXCEPT ![i] = f] /\ \E x : bus' = Append(bus, x)
        /\ UNCHANGED <<saved, actor, fixed>>
    BY <1>1, <1>6, <1>7, <1>13 DEF EvaluationStarts, GoTo, InStage
  <2>2. u.stage = "evaluating" /\ u.flow = e.flow
    BY <1>3 DEF Executions
  <2> HIDE DEF u
  <2>3. Fits(s, u, f) /\ u.stage \in Working
    BY <1>4, <2>1, <2>2 DEF Fits, Working
  <2>4. Starts(i) => s \notin {PENDING, RUNNING}
    BY <1>1 DEF Starts
  <2>5. QED
    BY <1>1, <2>1, <2>3, <2>4, JobCalm
<1>14. CASE Evaluates(i)
  <2> DEFINE g == [e.flow EXCEPT !.evaluated = TRUE]
             u == [e EXCEPT !.stage = "evaluated", !.flow.evaluated = TRUE]
  <2>0. exe' = [exe EXCEPT ![i] = [exe[i] EXCEPT !.stage = "evaluated", !.flow.evaluated = TRUE]]
        /\ flow' = [flow EXCEPT ![i] = [exe[i].flow EXCEPT !.evaluated = TRUE]]
    BY <1>14 DEF Evaluates
  <2>1. /\ e.stage = "evaluating" /\ job' = [job EXCEPT ![i] = s] /\ exe' = [exe EXCEPT ![i] = u]
        /\ flow' = [flow EXCEPT ![i] = g] /\ bus' = bus /\ UNCHANGED <<saved, actor, fixed>>
    <3>1. exe' = [exe EXCEPT ![i] = u] /\ flow' = [flow EXCEPT ![i] = g]
      BY <1>1, <2>0
    <3> HIDE DEF u, g
    <3>2. QED
      BY <1>1, <1>6, <1>14, <3>1 DEF Evaluates, InStage
  <2>2. /\ g.evaluated /\ g.finished = e.flow.finished /\ u.stage = "evaluated"
        /\ u.flow.evaluated /\ u.flow.finished = e.flow.finished
    BY <1>3 DEF Executions, Flow
  <2> HIDE DEF u, g
  <2>3. Fits(s, u, g) /\ u.stage \in Working
    BY <1>4, <2>1, <2>2 DEF Fits, Working
  <2>4. Starts(i) => s \notin {PENDING, RUNNING}
    BY <1>1 DEF Starts
  <2>5. QED
    BY <1>1, <2>1, <2>3, <2>4, JobCalm
<1>15. CASE EvaluationReported(i)
  <2> DEFINE u == [e EXCEPT !.stage = "ending"]
  <2>1. /\ e.stage = "evaluated" /\ job' = [job EXCEPT ![i] = s] /\ exe' = [exe EXCEPT ![i] = u]
        /\ flow' = [flow EXCEPT ![i] = f] /\ (\E x : bus' = Append(bus, x)) /\ Announced(i)'
        /\ UNCHANGED <<saved, actor, fixed>>
    BY <1>1, <1>6, <1>7, <1>15 DEF EvaluationReported, GoTo, InStage
  <2>2. u.stage = "ending" /\ u.flow = e.flow
    BY <1>3 DEF Executions
  <2> HIDE DEF u
  <2>3. Fits(s, u, f)
    BY <1>4, <2>1, <2>2 DEF Fits
  <2>4. Starts(i) => s \notin {PENDING, RUNNING}
    BY <1>1 DEF Starts
  <2>5. QED
    BY <1>1, <2>1, <2>3, <2>4, JobCalm
<1>16. CASE JobEnds(i)
  <2>1. PICK t, g : /\ t = IF e.stage = "ending" THEN COMPLETED ELSE FAILED
                    /\ g = f \/ g = e.flow
                    /\ e.stage \in {"ending", "failing"}
                    /\ job' = [job EXCEPT ![i] = t] /\ exe' = [exe EXCEPT ![i] = NotExecuting]
                    /\ flow' = [flow EXCEPT ![i] = g] /\ bus' = bus
                    /\ UNCHANGED <<saved, actor, fixed>>
    <3>1. \E g : (g = f \/ g = e.flow) /\ flow' = [flow EXCEPT ![i] = g]
      <4>1. flow' = flow \/ flow' = [flow EXCEPT ![i] = exe[i].flow]
        BY <1>16 DEF JobEnds
      <4>2. QED
        BY <1>1, <1>6, <4>1
    <3>2. QED
      BY <1>1, <1>16, <3>1 DEF JobEnds, InStage
  <2>2. t # RUNNING /\ t # PENDING /\ s = RUNNING
    BY <1>4, <2>1 DEF Fits, RUNNING, PENDING, COMPLETED, FAILED
  <2>3. Fits(t, NotExecuting, g)
    BY <1>4, <2>1, <2>2 DEF Fits, NotExecuting, NewFlow
  <2>4. ~g.evaluated \/ t = PENDING \/ NotExecuting.stage \in Working \/ Announced(i) \/ Owed(i)
    BY <1>4, <1>5, <2>1, <2>2 DEF Fits, Working, RUNNING, PENDING
  <2>5. s # COMPLETED
    BY <2>2 DEF RUNNING, COMPLETED
  <2>6. QED
    BY <1>1, <2>1, <2>2, <2>3, <2>4, <2>5, JobCalm
<1>17. QED
  BY <1>8, <1>9, <1>10, <1>11, <1>12, <1>13, <1>14, <1>15, <1>16 DEF JobSteps

\* Every step leaves coroutines and jobs in order.
LEMMA CalmNextKeeps ==
  ASSUME EvaluationInv, CalmInv, [Next]_vars
  PROVE  CalmInv'
<1>1. calm' = calm
  <2>1. CASE UNCHANGED vars
    BY <2>1 DEF vars
  <2>2. CASE \E a \in Clients, op \in Operations, i \in Instances : Request(a, op, i)
    BY <2>2 DEF Request, fixed
  <2>3. CASE HandleEvent
    BY <2>3 DEF HandleEvent, fixed
  <2>4. CASE \E a \in Actors : ActorSteps(a)
    BY <2>4 DEF ActorSteps, Ask, Process, Clean, Save, Start, Reset, SaveFlow, Launch,
       LookAtJob, CancelToRetry, CancelAll, fixed
  <2>5. CASE \E i \in Instances : JobSteps(i) \/ JobDies(i) \/ JobForgotten(i)
    BY <2>5 DEF JobSteps, JobBegins, FlowStarts, FlowCompletes, FlowFails, FlowSaved,
       EvaluationStarts, Evaluates, EvaluationReported, JobEnds, JobDies, JobForgotten, fixed
  <2>6. QED
    BY <2>1, <2>2, <2>3, <2>4, <2>5 DEF Next
<1>2. CASE ~calm
  BY <1>1, <1>2 DEF CalmInv
<1>3. CASE calm /\ UNCHANGED vars
  <2>1. UNCHANGED <<saved, actor, size, calm, job, exe, flow, bus>>
    BY <1>3 DEF vars
  <2>2. \A i \in Instances : (Owed(i)' => Owed(i)) /\ (Starts(i) => Starts(i)')
                           /\ (job[i] = COMPLETED => job'[i] = COMPLETED)
    BY <2>1 DEF Owed, Announced, Starts
  <2>3. JobsFit'
    BY <1>3, <2>1 DEF CalmInv, JobsFit, Fits, Instances
  <2>4. QED
    BY <1>3, <2>1, <2>2, <2>3, CalmRuns
<1>4. CASE calm /\ Next
  <2>1. ASSUME NEW i \in Instances, JobDies(i) \/ JobForgotten(i) PROVE CalmInv'
    BY <1>4, <2>1 DEF JobDies, JobForgotten
  <2>2. QED
    BY <1>4, <2>1, RequestCalm, HandleEventCalm, ActorStepsCalm, JobStepsCalm DEF Next
<1>5. QED
  BY <1>2, <1>3, <1>4

\* They are when an evaluation has been created.
LEMMA CalmInitKeeps ==
  ASSUME Init
  PROVE  CalmInv
<1>1. JobsFit
  BY DEF Init, JobsFit, Fits, NotExecuting, NewFlow, ABSENT, RUNNING
<1>2. \A a \in Actors : actor[a] = Rest
  BY DEF Init
<1>3. Known(saved)
  BY DEF Init, Known, Owed, NewFlow
<1>4. QED
  BY <1>1, <1>2, <1>3, RestOrderly DEF CalmInv, At

\* No evaluation is overlooked (evaluation/manager.py): where users neither cancel nor start
\* an instance that runs, and requests and events come one at a time, a trajectory that has
\* been evaluated is in the record as soon as nothing is under way for its instance.
THEOREM EvaluationsAreRecorded == Spec => []EvaluationIsRecorded
<1>1. EvaluationInv /\ CalmInv => EvaluationIsRecorded
  <2> SUFFICES ASSUME EvaluationInv, CalmInv, calm, NEW i \in Instances, Quiet(i),
                      flow[i].evaluated
               PROVE  saved.of[i].evaluated
    BY DEF EvaluationIsRecorded
  <2>1. Known(saved) /\ JobsFit
    BY CalmSaved DEF Quiet
  <2>2. job[i] \notin {PENDING, RUNNING} /\ ~Announced(i)
    BY DEF Quiet, Starts, Announced
  <2>3. exe[i].stage = "none"
    BY <2>1, <2>2 DEF JobsFit, Fits
  <2>4. Owed(i)
    BY <2>2, <2>3 DEF Owed, Working
  <2>5. QED
    BY <2>1, <2>4 DEF Known
<1>2. EvaluationInv /\ [Next]_vars => EvaluationInv'
  BY EvaluationNextKeeps
<1>3. EvaluationInv /\ CalmInv /\ [Next]_vars => CalmInv'
  BY CalmNextKeeps
<1>4. QED
  BY <1>1, <1>2, <1>3, EvaluationInitKeeps, CalmInitKeeps, PTL DEF Spec

================================================================================
