---------------------------- MODULE KubernetesRunner ----------------------------
(***************************************************************************)
(* The runner on Kubernetes (moatless/runner/kubernetes_runner.py).  The   *)
(* state of a job is the cluster's: a job object under the job's name and  *)
(* the pods labelled with it.  An operation is a sequence of calls to the  *)
(* API server, and the cluster, other processes and errors come between.   *)
(* What the cluster does is modelled from what the code asks of it: the    *)
(* controller counts pods and tries again up to backoff_limit, a deleted   *)
(* job leaves its pods to a collector (propagation_policy "Background").   *)
(***************************************************************************)
EXTENDS Integers, FiniteSets, JobStatuses

CONSTANTS
  KubeJobs,     \* jobs of one project: the names of the job objects
  KubeCallers,  \* processes that use the runner
  BackoffLimit, \* backoff_limit: how many failed pods are replaced
  MaxObjects,   \* bound on the job objects created
  MaxErrors     \* bound on the calls the API server does not answer well

ASSUME KubeAssumption ==
  KubeJobs # {} /\ BackoffLimit \in Nat /\ MaxObjects \in Nat /\ MaxErrors \in Nat

VARIABLES
  object,     \* the job object under each name: its number and its counts
  pods,       \* the pods: [of |-> job, no |-> object, try |-> Nat, phase |-> STRING]
  kube,       \* what each caller is doing
  objects,    \* how many job objects have been created
  errors,     \* how many calls have failed
  ended       \* history: jobs that a start_job with no excuse (see SparesRunning)
              \* has deleted while a pod of theirs ran

kubeVars == <<object, pods, kube, objects, errors, ended>>

\* A pod waits for its image ("stuck": ErrImagePull and the like), runs, or is over.
Phases == {"pending", "stuck", "running", "failed", "succeeded"}

Calls == {"idle", "read", "pods", "status", "status.pods", "delete", "create", "list", "each"}

KubeTypeOK ==
  /\ object \in [KubeJobs -> [no : 0..MaxObjects, succeeded : BOOLEAN,
                              failed : 0..(BackoffLimit + 1), active : BOOLEAN]]
  /\ pods \subseteq [of : KubeJobs, no : 1..MaxObjects, try : 0..BackoffLimit, phase : Phases]
  /\ kube \in [KubeCallers -> [op : {"start", "cancel"}, at : Calls, job : KubeJobs,
                               left : SUBSET KubeJobs, excused : BOOLEAN]]
  /\ objects \in 0..MaxObjects /\ errors \in 0..MaxErrors
  /\ ended \subseteq KubeJobs
  /\ \A p, q \in pods : p.no = q.no /\ p.try = q.try => p = q

NoObject == [no |-> 0, succeeded |-> FALSE, failed |-> 0, active |-> FALSE]

\* A caller between two operations; the job only fills the field.
KubeIdle == [op |-> "start", at |-> "idle", job |-> CHOOSE j \in KubeJobs : TRUE,
             left |-> {}, excused |-> FALSE]

KubeInit ==
  /\ object = [j \in KubeJobs |-> NoObject]
  /\ pods = {} /\ objects = 0 /\ errors = 0 /\ ended = {}
  /\ kube = [c \in KubeCallers |-> KubeIdle]

Present(j) == object[j].no # 0

PodsOf(j) == {p \in pods : p.of = j}

OwnPods(j) == {p \in PodsOf(j) : p.no = object[j].no}

KubeError == errors < MaxErrors /\ errors' = errors + 1

\* The operation goes on to another call, or ends; what it has read may be an
\* excuse for what it does next (history).
KubeGotoKnowing(c, to, excuse) ==
  kube' = [kube EXCEPT ![c] =
    IF to = "idle" THEN KubeIdle
    ELSE [kube[c] EXCEPT !.at = to, !.excused = kube[c].excused \/ excuse]]

KubeGoto(c, to) == KubeGotoKnowing(c, to, FALSE)

KubeGotoBlind(c, to) == KubeGotoKnowing(c, to, TRUE)

--------------------------------------------------------------------------------
(* The cluster                                                                 *)

\* The controller: a job that is not over gets a pod.
CreatePod(j) ==
  /\ Present(j) /\ ~object[j].succeeded /\ ~object[j].active /\ object[j].failed <= BackoffLimit
  /\ pods' = pods \cup {[of |-> j, no |-> object[j].no, try |-> object[j].failed,
                         phase |-> "pending"]}
  /\ object' = [object EXCEPT ![j].active = TRUE]
  /\ UNCHANGED <<kube, objects, errors, ended>>

PodMoves(p) ==
  /\ p.phase \in {"pending", "stuck", "running"}
  /\ \E phase \in IF p.phase = "running" THEN {"failed", "succeeded"}
                  ELSE {"stuck", "running"} \ {p.phase} :
       pods' = (pods \ {p}) \cup {[p EXCEPT !.phase = phase]}
  /\ UNCHANGED <<object, kube, objects, errors, ended>>

\* The controller: a pod that is over is counted.
CountPod(p) ==
  LET j == p.of IN
  /\ object[j].no = p.no /\ object[j].active
  /\ p.phase \in {"failed", "succeeded"} /\ p.try = object[j].failed
  /\ object' = [object EXCEPT ![j].active = FALSE,
                              ![j].succeeded = p.phase = "succeeded",
                              ![j].failed = IF p.phase = "failed" THEN @ + 1 ELSE @]
  /\ UNCHANGED <<pods, kube, objects, errors, ended>>

\* active_deadline_seconds: the pod is removed and the job has failed for good.
Deadline(j) ==
  /\ Present(j) /\ object[j].active
  /\ object' = [object EXCEPT ![j].active = FALSE, ![j].failed = BackoffLimit + 1]
  /\ pods' = {p \in pods : p.no = object[j].no => p.phase \in {"failed", "succeeded"}}
  /\ UNCHANGED <<kube, objects, errors, ended>>

\* ttl_seconds_after_finished: a job that is over is removed with its pods.
Expire(j) ==
  /\ object[j].succeeded \/ object[j].failed > BackoffLimit
  /\ object' = [object EXCEPT ![j] = NoObject]
  /\ pods' = pods \ OwnPods(j)
  /\ UNCHANGED <<kube, objects, errors, ended>>

\* The collector removes the pods of a job object that has been deleted.
Collect(p) ==
  /\ object[p.of].no # p.no
  /\ pods' = pods \ {p}
  /\ UNCHANGED <<object, kube, objects, errors, ended>>

--------------------------------------------------------------------------------
(* start_job, cancel_job                                                       *)

\* Operations at work on one job at once are an excuse to each other.
KubeBegin(c, op, at, j) ==
  /\ kube[c].at = "idle"
  /\ LET meets(d) == d # c /\ kube[d].at # "idle"
                     /\ (kube[d].job = j \/ {at, kube[d].at} \cap {"list", "each"} # {})
         busy == {d \in KubeCallers : meets(d)}
     IN kube' = [d \in KubeCallers |->
          IF d = c THEN [op |-> op, at |-> at, job |-> j, left |-> {}, excused |-> busy # {}]
          ELSE [kube[d] EXCEPT !.excused = @ \/ d \in busy]]
  /\ UNCHANGED <<object, pods, objects, errors, ended>>

KubeStart(c, j) == KubeBegin(c, "start", "read", j)

KubeCancel(c, j) == KubeBegin(c, "cancel", "delete", j)

KubeCancelProject(c) == KubeBegin(c, "cancel", "list", kube[c].job)

\* job_exists: a server's error may mean a job, so the status decides; any other
\* error means none.
ReadJob(c) ==
  /\ kube[c].at = "read"
  /\ \/ /\ KubeGoto(c, IF Present(kube[c].job) THEN "status" ELSE "pods")
        /\ UNCHANGED errors
     \/ KubeError /\ (KubeGotoBlind(c, "status") \/ KubeGotoBlind(c, "create"))
  /\ UNCHANGED <<object, pods, objects, ended>>

\* job_exists of a job that is not found: pods of its name mean that it still is.
FindPods(c) ==
  /\ kube[c].at = "pods"
  /\ \/ /\ KubeGoto(c, IF PodsOf(kube[c].job) # {} THEN "status" ELSE "create")
        /\ UNCHANGED errors
     \/ KubeError /\ KubeGotoBlind(c, "create")
  /\ UNCHANGED <<object, pods, objects, ended>>

\* (Mutant: only a job that waits is left alone.)
After_Pending(status) == IF status = PENDING THEN "idle" ELSE "delete"

\* Where start_job goes from a status: only a job that runs is left alone.
After(status) == IF status = RUNNING THEN "idle" ELSE "delete"

\* _get_job_status_from_k8s_job, which asks for the pods of an active job only.
\* What the counts hide is an excuse: a failed pod that has been replaced, a job
\* with no pod yet.
ReadStatus(c) ==
  /\ kube[c].at = "status"
  /\ LET o == object[kube[c].job] IN
     \/ o.no = 0 /\ KubeGoto(c, After(ABSENT)) /\ UNCHANGED errors
     \/ /\ o.no # 0 /\ (o.succeeded \/ o.failed > 0 \/ ~o.active)
        /\ KubeGotoKnowing(c, After(CASE o.succeeded -> COMPLETED
                                      [] ~o.succeeded /\ o.failed > 0 -> FAILED
                                      [] OTHER -> PENDING),
                           ~o.succeeded /\ o.failed <= BackoffLimit)
        /\ UNCHANGED errors
     \/ /\ o.no # 0 /\ ~o.succeeded /\ o.failed = 0 /\ o.active
        /\ KubeGoto(c, "status.pods") /\ UNCHANGED errors
     \/ KubeError /\ KubeGotoBlind(c, After(ABSENT))
  /\ UNCHANGED <<object, pods, objects, ended>>

\* _get_pod_failure_status, for the pods that settle the status.
DecidedBy(p) ==
  CASE p.phase \in {"failed", "stuck"} -> FAILED
    [] p.phase = "running" -> RUNNING
    [] OTHER -> PENDING

\* The pods of the name come in any order, those of a deleted job too; the first
\* that has failed or runs decides, and an error or none means that the job runs.
ReadPods(c) ==
  /\ kube[c].at = "status.pods"
  /\ LET found == {s \in {DecidedBy(p) : p \in PodsOf(kube[c].job)} : s \in {FAILED, RUNNING}} IN
     \/ (\E s \in found : KubeGotoKnowing(c, After(s), s = FAILED)) /\ UNCHANGED errors
     \/ found = {} /\ KubeGoto(c, After(RUNNING)) /\ UNCHANGED errors
     \/ KubeError /\ KubeGoto(c, After(RUNNING))
  /\ UNCHANGED <<object, pods, objects, ended>>

\* delete_namespaced_job: the object goes at once, its pods later; a job that is
\* not there is no error, and an error is only logged.
DeleteJob(c) ==
  /\ kube[c].at = "delete"
  /\ LET j == kube[c].job IN
     \/ /\ object' = [object EXCEPT ![j] = NoObject]
        /\ ended' = ended \cup (IF /\ kube[c].op = "start" /\ ~kube[c].excused
                                   /\ \E p \in OwnPods(j) : p.phase = "running"
                                THEN {j} ELSE {})
        /\ UNCHANGED errors
     \/ KubeError /\ UNCHANGED <<object, ended>>
  /\ KubeGoto(c, IF kube[c].op = "start" THEN "create" ELSE "idle")
  /\ UNCHANGED <<pods, objects>>

\* create_namespaced_job: refused when the name is taken or the quota is used up.
\* (Bound: MaxObjects; another one is refused.)
CreateJob(c) ==
  /\ kube[c].at = "create"
  /\ LET j == kube[c].job
         created == /\ ~Present(j) /\ objects < MaxObjects
                    /\ objects' = objects + 1
                    /\ object' = [object EXCEPT ![j] = [NoObject EXCEPT !.no = objects + 1]]
     IN \/ created /\ UNCHANGED errors
        \/ (Present(j) \/ objects = MaxObjects) /\ UNCHANGED <<object, objects, errors>>
        \/ KubeError /\ (created \/ UNCHANGED <<object, objects>>)
  /\ KubeGoto(c, "idle")
  /\ UNCHANGED <<pods, ended>>

ListJobs(c) ==
  /\ kube[c].at = "list"
  /\ \/ /\ kube' = [kube EXCEPT ![c].at = "each", ![c].left = {j \in KubeJobs : Present(j)}]
        /\ UNCHANGED errors
     \/ KubeError /\ KubeGoto(c, "idle")
  /\ UNCHANGED <<object, pods, objects, ended>>

\* The jobs of a project are deleted one by one; an error, that the job has gone
\* among them, ends the loop.
DeleteEach(c) ==
  /\ kube[c].at = "each"
  /\ \/ /\ \E j \in kube[c].left :
             IF Present(j)
             THEN /\ object' = [object EXCEPT ![j] = NoObject]
                  /\ kube' = [kube EXCEPT ![c].left = @ \ {j}]
             ELSE KubeGoto(c, "idle") /\ UNCHANGED object
        /\ UNCHANGED errors
     \/ kube[c].left = {} /\ KubeGoto(c, "idle") /\ UNCHANGED <<object, errors>>
     \/ kube[c].left # {} /\ KubeError /\ KubeGoto(c, "idle") /\ UNCHANGED object
  /\ UNCHANGED <<pods, objects, ended>>

KubeCall(c) ==
  \/ ReadJob(c) \/ FindPods(c) \/ ReadStatus(c) \/ ReadPods(c)
  \/ DeleteJob(c) \/ CreateJob(c) \/ ListJobs(c) \/ DeleteEach(c)

KubeNext ==
  \/ \E c \in KubeCallers :
       \/ KubeCall(c)
       \/ \E j \in KubeJobs : KubeStart(c, j) \/ KubeCancel(c, j)
       \/ KubeCancelProject(c)
  \/ \E j \in KubeJobs : CreatePod(j) \/ Deadline(j) \/ Expire(j)
  \/ \E p \in pods : PodMoves(p) \/ CountPod(p) \/ Collect(p)

KubeSpec == KubeInit /\ [][KubeNext]_kubeVars

--------------------------------------------------------------------------------
(* Properties                                                                  *)

\* start_job ends a job whose pod runs only if it knew too little of it: a call
\* failed, a pod of its name had failed (a retry or the pod of a job deleted
\* before may run), it had no pod when it was read, or another operation was at
\* work on it.  With none of these excuses a running job is left alone, whatever
\* the cluster does between the calls.
SparesRunning == ended = {}
================================================================================
