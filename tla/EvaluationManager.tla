--------------------------- MODULE EvaluationManager ---------------------------
(***************************************************************************)
(* The evaluation manager (moatless/evaluation/manager.py): requests and   *)
(* events that each load the record of an evaluation, bring it up to date  *)
(* from the runner and from the trajectories, and write it back, while the *)
(* jobs of run_instance.py run.                                            *)
(*                                                                         *)
(* Each await lets another coroutine in, and all that a coroutine knows of *)
(* the record is the copy it loaded.  One action is one access to storage  *)
(* or to the runner with what the coroutine does until the next one.  A    *)
(* trajectory is three facts: it is finished, its last node has an error,  *)
(* it has been evaluated.  Whether it was evaluated as resolved or failed  *)
(* decides nothing here, nor do timestamps, usage and summaries.           *)
(***************************************************************************)
EXTENDS Naturals, Sequences, JobStatuses

CONSTANTS
  Clients,     \* coroutines that serve requests
  Handler,     \* the coroutine that handles the events of the bus
  Operations,  \* the requests that are made
  MaxInstances, \* bound on the instances of an evaluation that is calm, or not
  MaxRequests, \* bound on the number of requests to it, polls aside, by its size
  MaxBacklog   \* bound on the number of events that wait: jobs wait beyond it

ASSUME ConstantsAssumption ==
  /\ Handler \notin Clients
  /\ Operations \subseteq {"get", "start", "start_instance", "retry", "cancel",
                           "process", "process_instance"}
  /\ MaxInstances \in [BOOLEAN -> Nat]
  /\ \A b \in BOOLEAN : \A n \in 1..MaxInstances[b] : MaxRequests[b][n] \in Nat
  /\ MaxBacklog \in Nat \ {0}

VARIABLES
  saved,    \* evaluation.json
  flow,     \* trajectory.json of each instance
  job,      \* the runner's status of the job of each instance
  exe,      \* the execution of each instance's job
  bus,      \* events on their way to the handler
  actor,    \* what each client and the handler are doing
  reported, \* history: the instances that have been evaluated
  requests, \* how many requests have been made
  size,     \* the number of instances
  calm      \* does each coroutine run undisturbed, and each job to its end?

vars == <<saved, flow, job, exe, bus, actor, reported, requests, size, calm>>

fixed == <<size, calm>>

Instances == 1..size

Actors == Clients \cup {Handler}

EvaluationStatus == {"pending", "running", "paused", "completed"}

ExecutionStatus == {"created", "queued", "running", "evaluating", "completed", "error"}

Flow == [finished : BOOLEAN, error : BOOLEAN, evaluated : BOOLEAN]

\* EvaluationInstance: how far it is, the last status of its job that the
\* manager has seen, and whether a resolution is recorded.
Record == [exec : ExecutionStatus, job : JobStatus \cup {ABSENT}, evaluated : BOOLEAN]

Evaluation == [status : EvaluationStatus, of : [Instances -> Record]]

\* How far the execution of a job is; see run_swebench_instance.
Stage == {"none", "begun", "flow", "flow_done", "evaluating", "evaluated", "ending", "failing"}

Event == [i : Instances, kind : {"flow started", "flow completed", "evaluation started",
                                 "evaluation completed", "error"}]

\* Before which access an actor stands.
Place == {"idle", "ask", "process", "clean", "sync_save", "start", "reset", "save_flow",
          "launch", "status", "cancel_job", "cancel_all", "process_one", "process_all", "save"}

TypeOK ==
  /\ saved \in Evaluation
  /\ flow \in [Instances -> Flow]
  /\ job \in [Instances -> JobStatus \cup {ABSENT}]
  /\ exe \in [Instances -> [stage : Stage, flow : Flow, unsaved : BOOLEAN]]
  /\ bus \in Seq(Event)
  /\ actor \in [Actors -> [op : Operations \cup {"event"}, at : Place, target : Instances,
                           i : Instances, doc : Evaluation, running : BOOLEAN,
                           complete : BOOLEAN, updates : BOOLEAN]]
  /\ reported \subseteq Instances
  /\ requests \in 0..MaxRequests[calm][size]
  /\ size \in 1..MaxInstances[calm]
  /\ calm \in BOOLEAN

NewFlow == [finished |-> FALSE, error |-> FALSE, evaluated |-> FALSE]

NewRecord == [exec |-> "created", job |-> ABSENT, evaluated |-> FALSE]

NewEvaluation == [status |-> "pending", of |-> [i \in Instances |-> NewRecord]]

NotExecuting == [stage |-> "none", flow |-> NewFlow, unsaved |-> FALSE]

\* A coroutine between two operations.
Rest == [op |-> "event", at |-> "idle", target |-> 1, i |-> 1, doc |-> NewEvaluation,
         running |-> FALSE, complete |-> TRUE, updates |-> FALSE]

\* create_evaluation has written the evaluation and its trajectories.
Init ==
  /\ calm \in BOOLEAN
  /\ size \in 1..MaxInstances[calm]
  /\ saved = NewEvaluation
  /\ flow = [i \in Instances |-> NewFlow]
  /\ job = [i \in Instances |-> ABSENT]
  /\ exe = [i \in Instances |-> NotExecuting]
  /\ bus = << >>
  /\ actor = [a \in Actors |-> Rest]
  /\ reported = {}
  /\ requests = 0

--------------------------------------------------------------------------------
(* The instances of an evaluation                                              *)

IsFinished(rec) == rec.exec \in {"completed", "error"}

\* _sync_instance_with_job_status, after job_status has been set to s.
Synced(rec, s) ==
  CASE s = PENDING /\ rec.exec = "created" -> [rec EXCEPT !.exec = "queued"]
    [] s = RUNNING /\ rec.exec \in {"created", "queued"} -> [rec EXCEPT !.exec = "running"]
    [] s = COMPLETED /\ rec.exec # "error" -> [rec EXCEPT !.exec = "completed"]
    [] s \in {FAILED, CANCELED, STOPPED} -> [rec EXCEPT !.exec = "error"]
    [] OTHER -> rec

\* (Mutant: a finished trajectory counts as an evaluated one.)
Processed_Finished(rec, f) ==
  [rec EXCEPT !.exec = IF f.error THEN "error" ELSE IF f.finished THEN "completed" ELSE "created",
              !.evaluated = @ \/ f.finished]

\* _process_trajectory_results: the trajectory decides, whatever the job did.
Processed(rec, f) ==
  [rec EXCEPT !.exec = IF f.error THEN "error" ELSE IF f.finished THEN "completed" ELSE "created",
              !.evaluated = @ \/ f.evaluated]

\* What the status of the job alone says, before a change of it is looked at.
Observed(rec, s) ==
  CASE s = RUNNING -> [rec EXCEPT !.exec = "running"]
    [] s = PENDING -> [rec EXCEPT !.exec = "queued"]
    [] OTHER -> rec

\* (Mutant: either will do.)
IsComplete_Either(rec) == IsFinished(rec) \/ rec.evaluated

\* An instance that does not keep its evaluation from being completed.
IsComplete(rec) == IsFinished(rec) /\ rec.evaluated

\* The status at the end of a synchronisation; running and complete were
\* computed for each instance when its job was asked for.
Concluded(status, running, complete) ==
  CASE complete -> "completed"
    [] ~complete /\ ~running -> "paused"
    [] OTHER -> "running"

\* What a request that has started jobs makes of the status.
Resumed(status) == IF status \in {"pending", "paused"} THEN "running" ELSE status

--------------------------------------------------------------------------------
(* The control of a coroutine: r is its record                                 *)

\* The last thing that a coroutine does.
SaveNext(doc) == [Rest EXCEPT !.at = "save", !.doc = doc]

\* start_evaluation goes on with the first instance from i on that is not
\* evaluated; when there is none it saves what it has started.
StartFrom(r, i) ==
  LET left == {k \in i..size : ~r.doc.of[k].evaluated}
  IN CASE left # {} ->
            [r EXCEPT !.at = "start", !.i = CHOOSE k \in left : \A l \in left : k <= l]
       [] left = {} /\ r.updates ->
            SaveNext([r.doc EXCEPT !.status = Resumed(@)])
       [] OTHER -> Rest

\* What follows get_evaluation.
AfterSync(r) ==
  LET r1 == [Rest EXCEPT !.op = r.op, !.i = r.target, !.doc = r.doc]
  IN CASE r.op = "start" -> StartFrom(r1, 1)
       [] r.op = "start_instance" -> [r1 EXCEPT !.at = "reset"]
       [] r.op = "retry" -> [r1 EXCEPT !.at = "cancel_job", !.doc.of[r.target] = NewRecord]
       [] r.op = "process_instance" -> [r1 EXCEPT !.at = "process_one"]
       [] OTHER -> Rest

\* The end of _sync_evaluation_status.
Conclude(r) ==
  LET status == Concluded(r.doc.status, r.running, r.complete)
      r1 == [r EXCEPT !.doc.status = status]
  IN IF r.updates \/ status # r.doc.status
     THEN [Rest EXCEPT !.op = r.op, !.at = "sync_save", !.target = r.target, !.doc = r1.doc]
     ELSE AfterSync(r1)

NextInstance(r) ==
  IF r.i < size THEN [r EXCEPT !.i = @ + 1, !.at = "ask"] ELSE Conclude(r)

\* Once an instance is up to date, its job is removed if it is of no more use.
AfterUpdate(r) ==
  IF r.doc.of[r.i].evaluated /\ r.doc.of[r.i].job = COMPLETED
  THEN [r EXCEPT !.at = "clean"] ELSE NextInstance(r)

\* What an operation does with the record it has just loaded.
Loaded(r) ==
  CASE r.op = "process" -> [r EXCEPT !.at = "process_all"]
    [] r.op = "cancel" -> [r EXCEPT !.at = "cancel_all"]
    [] r.op \notin {"process", "cancel"} /\ r.doc.status = "completed" -> AfterSync(r)
    [] OTHER -> [r EXCEPT !.at = "ask"]

At(a, place) == actor[a].at = place

Become(a, r) == actor' = [actor EXCEPT ![a] = r]

--------------------------------------------------------------------------------
(* The runner                                                                  *)

\* start_job leaves a job alone that waits or runs.
Starts(i) == job[i] \notin {PENDING, RUNNING}

StartJob(i) ==
  /\ job' = IF Starts(i) THEN [job EXCEPT ![i] = PENDING] ELSE job
  /\ UNCHANGED exe

\* cancel_job ends the execution; runners differ in whether the canceled or the
\* ended job is still known afterwards.
CancelJobs(these) ==
  /\ \E left \in {ABSENT, CANCELED} :
       job' = [i \in Instances |->
                 IF i \notin these \/ job[i] = ABSENT THEN job[i]
                 ELSE IF Starts(i) /\ left = CANCELED THEN job[i] ELSE left]
  /\ exe' = [i \in Instances |-> IF i \in these THEN NotExecuting ELSE exe[i]]

RunnerUnchanged == UNCHANGED <<job, exe>>

--------------------------------------------------------------------------------
(* Requests and events                                                         *)

\* A calm coroutine starts when no other is on its way.
MayBegin(a) ==
  /\ At(a, "idle")
  /\ calm => \A b \in Actors : At(b, "idle")

\* A request loads the evaluation.  Calm users do not cancel, and start an instance
\* only when its job is over: start_instance would reset a trajectory that the running
\* job still has in memory and writes again.
Request(a, op, i) ==
  /\ MayBegin(a)
  /\ op \in {"start_instance", "retry", "process_instance"} \/ i = 1
  /\ op = "get" \/ requests < MaxRequests[calm][size]
  /\ calm => op \in {"get", "start"} \/ (op = "start_instance" /\ Starts(i))
  /\ Become(a, Loaded([Rest EXCEPT !.op = op, !.doc = saved, !.target = i]))
  /\ requests' = IF op = "get" THEN requests ELSE requests + 1
  /\ UNCHANGED <<saved, flow, bus, reported, fixed>> /\ RunnerUnchanged

\* What _handle_event makes of the execution status of the event's instance.
Told(exec, kind) ==
  CASE kind = "flow started" -> "running"
    [] kind = "flow completed" -> "completed"
    [] kind = "evaluation started" -> "evaluating"
    [] kind = "error" -> "error"
    [] OTHER -> exec

\* (Mutant: the trajectory is read at the end of the flow only.)
ReadAfter_FlowOnly(kind) == kind = "flow completed"

\* The events after which the trajectory is read.
ReadAfter(kind) == kind \in {"flow completed", "evaluation completed"}

\* _handle_event: it loads the evaluation too, without bringing it up to date.
HandleEvent ==
  /\ bus # << >>
  /\ MayBegin(Handler)
  /\ LET e == Head(bus)
         doc == [saved EXCEPT !.of[e.i].exec = Told(@, e.kind)]
     IN Become(Handler, IF ReadAfter(e.kind)
                        THEN [Rest EXCEPT !.at = "process_one", !.doc = doc, !.i = e.i]
                        ELSE SaveNext(doc))
  /\ bus' = Tail(bus)
  /\ UNCHANGED <<saved, flow, reported, requests, fixed>> /\ RunnerUnchanged

\* The loop of _sync_evaluation_status asks the runner for the next job.
Ask(a) ==
  /\ At(a, "ask")
  /\ LET r == actor[a]
         s == job[r.i]
         rec == r.doc.of[r.i]
         seen == Observed(rec, s)
         changed == rec.job # s
         new == IF changed THEN Synced([seen EXCEPT !.job = s], s) ELSE seen
         next == [r EXCEPT !.doc.of[r.i] = new,
                           !.running = @ \/ s = RUNNING,
                           !.complete = @ /\ IsComplete(rec),
                           !.updates = @ \/ new # rec]
     IN Become(a, IF changed THEN [next EXCEPT !.at = "process"] ELSE AfterUpdate(next))
  /\ UNCHANGED <<saved, flow, bus, reported, requests, fixed>> /\ RunnerUnchanged

\* _process_trajectory_results: of the instance whose job has changed; of the one
\* that an event or a request is about; or of one after the other.
Process(a) ==
  /\ actor[a].at \in {"process", "process_one", "process_all"}
  /\ LET r == [actor[a] EXCEPT !.doc.of[actor[a].i] = Processed(@, flow[actor[a].i])]
     IN \/ /\ r.at = "process"
           /\ Become(a, AfterUpdate(r))
        \/ /\ r.at = "process_one"
           /\ Become(a, SaveNext(r.doc))
        \/ /\ r.at = "process_all" /\ r.i < size
           /\ Become(a, [r EXCEPT !.i = @ + 1])
        \/ /\ r.at = "process_all" /\ r.i = size
           /\ Become(a, SaveNext([r.doc EXCEPT !.status =
                                    IF \A i \in Instances : IsComplete(r.doc.of[i])
                                    THEN "completed" ELSE @]))
  /\ UNCHANGED <<saved, flow, bus, reported, requests, fixed>> /\ RunnerUnchanged

\* The completed job of an evaluated instance is removed from the runner, or,
\* when that fails, left for the next time.
Clean(a) ==
  /\ At(a, "clean")
  /\ LET r == actor[a]
     IN \/ /\ CancelJobs({r.i})
           /\ Become(a, NextInstance([r EXCEPT !.doc.of[r.i].job = ABSENT, !.updates = TRUE]))
        \/ RunnerUnchanged /\ ~calm /\ Become(a, NextInstance(r))
  /\ UNCHANGED <<saved, flow, bus, reported, requests, fixed>>

\* _save_evaluation writes the whole evaluation as this coroutine has it.
Save(a) ==
  /\ actor[a].at \in {"sync_save", "save"}
  /\ saved' = actor[a].doc
  /\ Become(a, IF At(a, "sync_save") THEN AfterSync(actor[a]) ELSE Rest)
  /\ UNCHANGED <<flow, bus, reported, requests, fixed>> /\ RunnerUnchanged

\* start_evaluation starts the job of the next instance.
Start(a) ==
  /\ At(a, "start")
  /\ LET r == actor[a]
         r1 == [r EXCEPT !.doc.of[r.i].exec = "queued", !.updates = TRUE]
     IN Become(a, StartFrom(IF Starts(r.i) THEN r1 ELSE r, r.i + 1))
  /\ StartJob(actor[a].i)
  /\ UNCHANGED <<saved, flow, bus, reported, requests, fixed>>

\* start_instance forgets the error of the instance and reads its trajectory,
\* whose erroneous node it resets.
Reset(a) ==
  /\ At(a, "reset")
  /\ LET r == actor[a]
         f == flow[r.i]
         rec == IF r.doc.of[r.i].exec = "error"
                THEN [NewRecord EXCEPT !.job = r.doc.of[r.i].job] ELSE r.doc.of[r.i]
         next == [r EXCEPT !.doc.of[r.i] = rec]
     IN Become(a, CASE f.error -> [next EXCEPT !.at = "save_flow"]
                    [] ~f.error /\ IsFinished(rec) /\ f.evaluated /\ f.finished -> Rest
                    [] OTHER -> [next EXCEPT !.at = "launch"])
  /\ UNCHANGED <<saved, flow, bus, reported, requests, fixed>> /\ RunnerUnchanged

SaveFlow(a) ==
  /\ At(a, "save_flow")
  /\ flow' = [flow EXCEPT ![actor[a].i] = NewFlow]
  /\ Become(a, [actor[a] EXCEPT !.at = "launch"])
  /\ UNCHANGED <<saved, bus, reported, requests, fixed>> /\ RunnerUnchanged

\* start_instance goes on to look at the job; retry_instance does not.
Launch(a) ==
  /\ At(a, "launch")
  /\ StartJob(actor[a].i)
  /\ Become(a, IF actor[a].op = "retry" THEN SaveNext(actor[a].doc)
               ELSE [actor[a] EXCEPT !.at = "status"])
  /\ UNCHANGED <<saved, flow, bus, reported, requests, fixed>>

LookAtJob(a) ==
  /\ At(a, "status")
  /\ LET r == actor[a]
         s == job[r.i]
     IN Become(a, SaveNext([r.doc EXCEPT !.status = Resumed(@),
                                         !.of[r.i] = Synced([@ EXCEPT !.job = s], s)]))
  /\ UNCHANGED <<saved, flow, bus, reported, requests, fixed>> /\ RunnerUnchanged

\* retry_instance cancels the job before it starts it again.
CancelToRetry(a) ==
  /\ At(a, "cancel_job")
  /\ CancelJobs({actor[a].i})
  /\ Become(a, [actor[a] EXCEPT !.at = "launch"])
  /\ UNCHANGED <<saved, flow, bus, reported, requests, fixed>>

\* cancel_evaluation
CancelAll(a) ==
  /\ At(a, "cancel_all")
  /\ CancelJobs(Instances)
  /\ Become(a, IF actor[a].doc.status = "running"
               THEN SaveNext([actor[a].doc EXCEPT !.status = "paused"]) ELSE Rest)
  /\ UNCHANGED <<saved, flow, bus, reported, requests, fixed>>

--------------------------------------------------------------------------------
(* The jobs                                                                    *)

InStage(i, stage) == exe[i].stage = stage

GoTo(i, stage) == exe' = [exe EXCEPT ![i].stage = stage]

Emit(i, kind) ==
  /\ Len(bus) < MaxBacklog
  /\ bus' = Append(bus, [i |-> i, kind |-> kind])

JobBegins(i) ==
  /\ job[i] = PENDING
  /\ job' = [job EXCEPT ![i] = RUNNING]
  /\ GoTo(i, "begun")
  /\ UNCHANGED <<saved, flow, bus, actor, reported, requests, fixed>>

\* The flow is made from the saved trajectory.  Its events have it saved by a
\* task of their own (handle_flow_event), hence after they have been published.
FlowStarts(i) ==
  /\ InStage(i, "begun")
  /\ Emit(i, "flow started")
  /\ exe' = [exe EXCEPT ![i] = [stage |-> "flow", flow |-> flow[i], unsaved |-> TRUE]]
  /\ UNCHANGED <<saved, flow, job, actor, reported, requests, fixed>>

\* A flow that has finished before has nothing left to do.
FlowCompletes(i) ==
  /\ InStage(i, "flow")
  /\ Emit(i, "flow completed")
  /\ exe' = [exe EXCEPT ![i].stage = "flow_done", ![i].flow.finished = TRUE,
                        ![i].unsaved = TRUE]
  /\ UNCHANGED <<saved, flow, job, actor, reported, requests, fixed>>

FlowFails(i) ==
  /\ InStage(i, "flow") /\ ~exe[i].flow.finished
  /\ Emit(i, "error")
  /\ exe' = [exe EXCEPT ![i].stage = "failing", ![i].flow.finished = TRUE,
                        ![i].flow.error = TRUE, ![i].unsaved = TRUE]
  /\ UNCHANGED <<saved, flow, job, actor, reported, requests, fixed>>

FlowSaved(i) ==
  /\ exe[i].unsaved
  /\ flow' = [flow EXCEPT ![i] = exe[i].flow]
  /\ exe' = [exe EXCEPT ![i].unsaved = FALSE]
  /\ UNCHANGED <<saved, job, bus, actor, reported, requests, fixed>>

EvaluationStarts(i) ==
  /\ InStage(i, "flow_done")
  /\ Emit(i, "evaluation started")
  /\ GoTo(i, "evaluating")
  /\ UNCHANGED <<saved, flow, job, actor, reported, requests, fixed>>

\* evaluate_instance: the result is saved at once, or there is none.
Evaluates(i) ==
  /\ InStage(i, "evaluating")
  /\ \/ /\ flow' = [flow EXCEPT ![i] = [exe[i].flow EXCEPT !.evaluated = TRUE]]
        /\ exe' = [exe EXCEPT ![i].stage = "evaluated", ![i].flow.evaluated = TRUE]
        /\ reported' = reported \cup {i}
     \/ /\ ~calm /\ ~exe[i].flow.evaluated
        /\ GoTo(i, "evaluated")
        /\ UNCHANGED <<flow, reported>>
  /\ UNCHANGED <<saved, job, bus, actor, requests, fixed>>

EvaluationReported(i) ==
  /\ InStage(i, "evaluated")
  /\ Emit(i, "evaluation completed")
  /\ GoTo(i, "ending")
  /\ UNCHANGED <<saved, flow, job, actor, reported, requests, fixed>>

\* What is not saved by now may be lost with the process.
JobEnds(i) ==
  /\ exe[i].stage \in {"ending", "failing"}
  /\ job' = [job EXCEPT ![i] = IF InStage(i, "ending") THEN COMPLETED ELSE FAILED]
  /\ exe' = [exe EXCEPT ![i] = NotExecuting]
  /\ flow' \in {flow, IF exe[i].unsaved THEN [flow EXCEPT ![i] = exe[i].flow] ELSE flow}
  /\ UNCHANGED <<saved, bus, actor, reported, requests, fixed>>

\* The process or container of a job disappears.
JobDies(i) ==
  /\ ~calm /\ job[i] = RUNNING
  /\ job' = [job EXCEPT ![i] = STOPPED]
  /\ exe' = [exe EXCEPT ![i] = NotExecuting]
  /\ UNCHANGED <<saved, flow, bus, actor, reported, requests, fixed>>

\* A runner removes a job that is over.
JobForgotten(i) ==
  /\ ~calm /\ job[i] \in {COMPLETED, FAILED, CANCELED, STOPPED}
  /\ job' = [job EXCEPT ![i] = ABSENT]
  /\ UNCHANGED <<saved, flow, exe, bus, actor, reported, requests, fixed>>

--------------------------------------------------------------------------------

ActorSteps(a) ==
  \/ Ask(a) \/ Process(a) \/ Clean(a) \/ Save(a) \/ Start(a)
  \/ Reset(a) \/ SaveFlow(a) \/ Launch(a) \/ LookAtJob(a)
  \/ CancelToRetry(a) \/ CancelAll(a)

JobSteps(i) ==
  \/ JobBegins(i) \/ FlowStarts(i) \/ FlowCompletes(i) \/ FlowFails(i) \/ FlowSaved(i)
  \/ EvaluationStarts(i) \/ Evaluates(i) \/ EvaluationReported(i) \/ JobEnds(i)

Next ==
  \/ \E a \in Clients, op \in Operations, i \in Instances : Request(a, op, i)
  \/ HandleEvent
  \/ \E a \in Actors : ActorSteps(a)
  \/ \E i \in Instances : JobSteps(i) \/ JobDies(i) \/ JobForgotten(i)

Spec == Init /\ [][Next]_vars

--------------------------------------------------------------------------------
(* Properties                                                                  *)

\* The record of an instance says that it has been evaluated only if its
\* trajectory has been, whatever order requests, events and the steps of the job
\* come in, and whichever copy is written last.
EvaluatedIsReported == \A i \in Instances : saved.of[i].evaluated => i \in reported

\* get_evaluation and process_evaluation_results complete an evaluation only
\* after the last of its instances has been evaluated, although the loop looks
\* at one instance after the other and the jobs go on meanwhile.
NoPrematureCompletion == saved.status = "completed" => reported = Instances

Quiet(i) ==
  /\ \A a \in Actors : At(a, "idle")
  /\ \A k \in 1..Len(bus) : bus[k].i # i
  /\ Starts(i)

\* No evaluation is overlooked: when nothing is under way for an instance any more,
\* its evaluation is in its record.  The events alone see to it, and no poll or
\* start between them takes it back.
EvaluationIsRecorded ==
  calm => \A i \in Instances : Quiet(i) /\ flow[i].evaluated => saved.of[i].evaluated

\* "Check if all instances in an evaluation have been evaluated" (manager.py, line
\* 618): is_finished and is_evaluated hold of all instances.  Violated.
CompletedMeansFinished ==
  saved.status = "completed" => \A i \in Instances : IsComplete(saved.of[i])

================================================================================
