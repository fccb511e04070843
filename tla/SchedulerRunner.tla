---------------------------- MODULE SchedulerRunner ----------------------------
(***************************************************************************)
(* The scheduler (moatless/runner/scheduler.py) over a container runner:   *)
(* requests queue jobs, the scheduler's loop starts them within limits,    *)
(* copies their status from the runner and cleans up.                      *)
(*                                                                         *)
(* Every call of the storage or of the runner suspends the coroutine that  *)
(* makes it, and everything it knows of a job meanwhile is its own copy of *)
(* the record.  One action is one such call, with what the coroutine does  *)
(* until the next one.  Each call takes effect at once here: the commands  *)
(* of a storage call are the subject of RedisJobStorage.                   *)
(***************************************************************************)
EXTENDS Integers, Sequences, FiniteSets, JobStatuses

CONSTANTS
  Jobs,        \* job keys
  ProjectOf,   \* the project of each job
  Clients,     \* coroutines that serve requests
  Loop,        \* the scheduler's loop
  MaxTotal,    \* max_total_jobs, 0: no limit
  MaxPerProject, \* max_jobs_per_project, 0: no limit
  AutoCleanup, \* auto_cleanup_completed
  Serial,      \* does a request or an iteration of the loop run undisturbed?
  Reliable,    \* does the container engine always do what it is asked?
  MaxRequests  \* bound on the number of requests

ASSUME ConstantsAssumption ==
  /\ Loop \notin Clients /\ IsFiniteSet(Jobs)
  /\ MaxTotal \in Nat /\ MaxPerProject \in Nat /\ MaxRequests \in Nat
  /\ AutoCleanup \in BOOLEAN /\ Serial \in BOOLEAN /\ Reliable \in BOOLEAN

VARIABLES
  stored,    \* the record of each job in storage: its status, or ABSENT
  older,     \* the pairs of jobs of which the first has the earlier enqueued_at
  running,   \* the members of the set of RUNNING jobs, what the limits count
  inProject, \* the members of the sets of the projects' jobs
  container, \* the container of each job
  actor,     \* what each client and the loop are doing
  requests   \* how many requests have been made

vars == <<stored, older, running, inProject, container, actor, requests>>

Actors == Clients \cup {Loop}

ContainerState == {"none", "created", "running", "exited", "crashed"}

\* The operation of an actor; the loop's iteration has four parts.
Operation == {"start_job", "cancel_job", "get_job_status", "get_jobs", "reset_jobs",
              "sync", "cleanup", "positions", "start_pending"}

\* Where an operation stands: before which call.
Place == {"idle", "list", "get", "ask", "add", "count", "count_project", "run",
          "exists", "delete", "update", "remove", "reread"}

\* A copy of a job's record.
Snapshot == [job : Jobs, status : JobStatus]

ActorRecord == [op : Operation, at : Place, job : Jobs, status : JobStatus,
                rest : Seq(Snapshot), pending : Seq(Snapshot)]

TypeOK ==
  /\ stored \in [Jobs -> JobStatus \cup {ABSENT}]
  /\ older \subseteq Jobs \X Jobs
  /\ running \subseteq Jobs /\ inProject \subseteq Jobs
  /\ container \in [Jobs -> ContainerState]
  /\ actor \in [Actors -> ActorRecord]
  /\ requests \in 0..MaxRequests

\* An actor between two operations; j only fills the field.
Rest(op, j) == [op |-> op, at |-> "idle", job |-> j, status |-> PENDING,
                rest |-> << >>, pending |-> << >>]

Init ==
  /\ stored = [j \in Jobs |-> ABSENT]
  /\ older = {}
  /\ running = {}
  /\ inProject = {}
  /\ container = [j \in Jobs |-> "none"]
  /\ \E j \in Jobs :
       actor = [a \in Actors |-> Rest(IF a = Loop THEN "sync" ELSE "start_job", j)]
  /\ requests = 0

--------------------------------------------------------------------------------
(* The control of a coroutine: an actor's record is rewritten.                 *)

\* The first call for a job of a list.
FirstCall(op, status) ==
  CASE op = "sync" -> "ask"
    [] op = "cleanup" -> "exists"
    [] op = "positions" -> "update"
    [] op = "start_pending" -> "count"
    [] op = "cancel_job" -> "get"
    [] op = "reset_jobs" /\ status = RUNNING -> "delete"
    [] OTHER -> "remove"

\* What follows the last job of a list.  An iteration of the loop has four
\* parts; the pending jobs are gone through twice, to note their positions and
\* to start them.
NextPart(r) ==
  CASE r.op = "sync" -> [r EXCEPT !.op = "cleanup", !.at = "list"]
    [] r.op = "cleanup" -> [r EXCEPT !.op = "positions", !.at = "list"]
    [] r.op = "start_pending" -> Rest("sync", r.job)
    [] OTHER -> Rest(r.op, r.job)

TakeNext(r) ==
  [r EXCEPT !.job = Head(r.rest).job, !.status = Head(r.rest).status,
            !.rest = Tail(r.rest), !.at = FirstCall(r.op, Head(r.rest).status)]

\* The actor is done with a job: the next one, or what follows.
Proceed(r) ==
  IF r.rest # << >> THEN TakeNext(r)
  ELSE IF r.op = "positions" THEN
    IF r.pending = << >> THEN Rest("sync", r.job)
    ELSE TakeNext([r EXCEPT !.op = "start_pending", !.rest = r.pending, !.pending = << >>])
  ELSE NextPart(r)

At(a, place) == actor[a].at = place

Become(a, r) == actor' = [actor EXCEPT ![a] = r]

GoTo(a, place) == Become(a, [actor[a] EXCEPT !.at = place])

Done(a) == Become(a, Proceed(actor[a]))

--------------------------------------------------------------------------------
(* The storage                                                                 *)

StorageUnchanged == UNCHANGED <<stored, older, running, inProject>>

\* (Mutant: the sets are left as they are.)
StoredUpdate_NoSets(j, s) ==
  /\ stored' = [stored EXCEPT ![j] = s]
  /\ UNCHANGED <<older, running, inProject>>

\* update_job: the sets follow the status only if the job is stored.
StoredUpdate(j, s) ==
  /\ stored' = [stored EXCEPT ![j] = s]
  /\ running' = IF stored[j] \in {ABSENT, s} THEN running
                ELSE IF s = RUNNING THEN running \cup {j}
                ELSE IF stored[j] = RUNNING THEN running \ {j}
                ELSE running
  /\ UNCHANGED <<older, inProject>>

\* remove_job: the sets are cleaned only if the job is stored.
StoredRemove(j) ==
  /\ stored' = [stored EXCEPT ![j] = ABSENT]
  /\ running' = IF stored[j] = RUNNING THEN running \ {j} ELSE running
  /\ inProject' = IF stored[j] = ABSENT THEN inProject ELSE inProject \ {j}
  /\ UNCHANGED older

\* add_job with a fresh enqueued_at.
StoredAdd(j) ==
  /\ stored' = [stored EXCEPT ![j] = PENDING]
  /\ inProject' = inProject \cup {j}
  /\ older' = {p \in older : j \notin {p[1], p[2]}} \cup (Jobs \ {j}) \X {j}
  /\ UNCHANGED running

SameProject(j) == {k \in Jobs : ProjectOf[k] = ProjectOf[j]}

\* get_jobs: copies of the records of some jobs in some statuses, in any order;
\* the jobs to start are sorted by enqueued_at, oldest first.
Records(jobs, statuses, sorted) ==
  LET chosen == {j \in jobs : stored[j] \in statuses}
      Goes(s) == \A i, k \in DOMAIN s :
        i < k => s[i] # s[k] /\ (sorted => <<s[i], s[k]>> \in older)
  IN  {[i \in DOMAIN s |-> [job |-> s[i], status |-> stored[s[i]]]] :
         s \in {t \in [1..Cardinality(chosen) -> chosen] : Goes(t)}}

--------------------------------------------------------------------------------
(* The container runner                                                        *)

ReportedStatus ==
  [none |-> ABSENT, created |-> PENDING, running |-> RUNNING,
   exited |-> COMPLETED, crashed |-> FAILED]

\* get_job_status and job_exists: an error of docker inspect reads as "no such
\* container".
RunnerStatus(j) ==
  {ReportedStatus[container[j]]} \cup (IF Reliable THEN {} ELSE {ABSENT})

\* cancel_job swallows every error: the container may be left as it is.
RunnerCancel(j) ==
  \/ container' = [container EXCEPT ![j] = "none"]
  \/ ~Reliable /\ UNCHANGED container

ContainerEnds(j) ==
  /\ container[j] = "running"
  /\ \/ \E s \in {"exited", "crashed"} : container' = [container EXCEPT ![j] = s]
     \/ ~Reliable /\ container' = [container EXCEPT ![j] = "none"]
  /\ StorageUnchanged /\ UNCHANGED <<actor, requests>>

--------------------------------------------------------------------------------
(* Requests and lists                                                          *)

Undisturbed(a) == Serial => \A b \in Actors \ {a} : At(b, "idle")

Request(c, op, j, place) ==
  /\ At(c, "idle") /\ Undisturbed(c)
  /\ requests < MaxRequests
  /\ requests' = requests + 1
  /\ Become(c, [Rest(op, j) EXCEPT !.at = place])
  /\ StorageUnchanged /\ UNCHANGED container

\* Requests for one job, and those that begin with a list of the jobs
\* (cancel_job for the whole project).
Call(c) == \E j \in Jobs :
  \/ \E op \in {"start_job", "cancel_job", "get_job_status"} : Request(c, op, j, "get")
  \/ \E op \in {"cancel_job", "get_jobs", "reset_jobs"} : Request(c, op, j, "list")

\* The loop wakes up.
Iterate ==
  /\ At(Loop, "idle") /\ Undisturbed(Loop)
  /\ GoTo(Loop, "list")
  /\ StorageUnchanged /\ UNCHANGED <<container, requests>>

\* (Mutant: the loop does not see the jobs that wait.)
Listed_NoneWaiting(op) ==
  CASE op \in {"sync", "positions"} -> {RUNNING}
    [] op \in {"cleanup", "get_jobs"} -> {COMPLETED, CANCELED}
    [] OTHER -> JobStatus

\* The jobs an operation goes through, by their status.
Listed(op) ==
  CASE op = "sync" -> {PENDING, RUNNING}
    [] op \in {"cleanup", "get_jobs"} -> {COMPLETED, CANCELED}
    [] op = "positions" -> {PENDING}
    [] OTHER -> JobStatus

\* The loop looks at all jobs, a request at those of a project or at all.
Scope(r) ==
  CASE r.op = "cancel_job" -> {SameProject(r.job)}
    [] r.op \in {"get_jobs", "reset_jobs"} -> {SameProject(r.job), Jobs}
    [] OTHER -> {Jobs}

List(a) ==
  /\ At(a, "list")
  /\ LET r == actor[a] IN
       \E jobs \in Scope(r) : \E list \in Records(jobs, Listed(r.op), r.op = "positions") :
         Become(a, Proceed([r EXCEPT !.rest = list,
                              !.pending = IF r.op = "positions" THEN list ELSE << >>]))
  /\ StorageUnchanged /\ UNCHANGED <<container, requests>>

\* storage.get_job at the head of an operation: a stored job is looked up in the
\* runner next, unless only the status in storage is asked for.
Get(a) ==
  /\ At(a, "get")
  /\ LET r == actor[a]
         s == stored[r.job]
         seen(place) == [r EXCEPT !.status = s, !.at = place]
     IN  \/ s = ABSENT /\ r.op = "start_job" /\ GoTo(a, "add")
         \/ s = ABSENT /\ r.op # "start_job" /\ Done(a)
         \/ s # ABSENT /\ r.op = "start_job" /\ Become(a, seen("ask"))
         \/ s # ABSENT /\ r.op = "cancel_job" /\ Become(a, seen("exists"))
         \/ s \in TerminalStates /\ r.op = "get_job_status" /\ Done(a)
         \/ /\ s \in JobStatus \ TerminalStates /\ r.op = "get_job_status"
            /\ Become(a, seen("ask"))
  /\ StorageUnchanged /\ UNCHANGED <<container, requests>>

--------------------------------------------------------------------------------
(* start_job and _try_start_job                                                *)

\* A stored job the runner still has to finish is left alone, another one is
\* removed and added again.
AskBeforeStart(a) ==
  /\ At(a, "ask") /\ actor[a].op = "start_job"
  /\ \E s \in RunnerStatus(actor[a].job) :
       IF s \in {PENDING, RUNNING} THEN Done(a) ELSE GoTo(a, "remove")
  /\ StorageUnchanged /\ UNCHANGED <<container, requests>>

Add(a) ==
  /\ At(a, "add")
  /\ StoredAdd(actor[a].job)
  /\ Become(a, [actor[a] EXCEPT !.at = "count", !.status = PENDING])
  /\ UNCHANGED <<container, requests>>

\* (Mutant: one job too many.)
WithinLimit_OffByOne(n, max) == max = 0 \/ n <= max

WithinLimit(n, max) == max = 0 \/ n < max

CountTotal(a) ==
  /\ At(a, "count")
  /\ IF WithinLimit(Cardinality(running), MaxTotal) THEN GoTo(a, "count_project")
                                                    ELSE Done(a)
  /\ StorageUnchanged /\ UNCHANGED <<container, requests>>

CountProject(a) ==
  /\ At(a, "count_project")
  /\ IF WithinLimit(Cardinality(running \cap inProject \cap SameProject(actor[a].job)),
                    MaxPerProject)
       THEN GoTo(a, "run") ELSE Done(a)
  /\ StorageUnchanged /\ UNCHANGED <<container, requests>>

\* docker run fails (the job stays PENDING), or the import or the call raises
\* (the job is FAILED); the container may have been created or removed.
RunFails(a, j) ==
  /\ ~Reliable
  /\ \E s \in {container[j]} \cup (IF container[j] = "running" THEN {} ELSE {"none", "created"}) :
       container' = [container EXCEPT ![j] = s]
  /\ \/ Done(a)
     \/ Become(a, [actor[a] EXCEPT !.at = "update", !.status = FAILED])

\* The job function is imported, then runner.start_job: refused when the
\* container is up, else what is left of an old one makes room.
RunContainer(a) ==
  /\ At(a, "run")
  /\ LET j == actor[a].job IN
       \/ /\ container[j] # "running"
          /\ container' = [container EXCEPT ![j] = "running"]
          /\ Become(a, [actor[a] EXCEPT !.at = "update", !.status = RUNNING])
       \/ /\ container[j] = "running"
          /\ UNCHANGED container
          /\ Done(a)
       \/ RunFails(a, j)
  /\ StorageUnchanged /\ UNCHANGED requests

--------------------------------------------------------------------------------
(* _sync_job                                                                   *)

\* (Mutant: what the runner reports is taken as it is.)
SyncedStatus_Raw(known, s) == s

\* What a record in status `known' becomes when the runner reports s: a RUNNING
\* job that the runner does not know has been stopped.
SyncedStatus(known, s) ==
  IF s # ABSENT THEN s ELSE IF known = RUNNING THEN STOPPED ELSE known

AskStatus(a) ==
  /\ At(a, "ask") /\ actor[a].op \in {"sync", "get_job_status"}
  /\ \E s \in RunnerStatus(actor[a].job) :
       LET r   == actor[a]
           new == SyncedStatus(r.status, s)
       IN  IF new = r.status
             THEN IF r.op = "sync" THEN Done(a) ELSE GoTo(a, "reread")
             ELSE Become(a, [r EXCEPT !.status = new,
                               !.at = IF new = COMPLETED THEN "delete" ELSE "update"])
  /\ StorageUnchanged /\ UNCHANGED <<container, requests>>

\* get_job_status reads the record again and returns its status.
Reread(a) ==
  /\ At(a, "reread")
  /\ Done(a)
  /\ StorageUnchanged /\ UNCHANGED <<container, requests>>

--------------------------------------------------------------------------------
(* _cancel_job, _cleanup_terminal_jobs, and the calls the operations share     *)

\* What follows the deletion of the container: an operation that cancels marks
\* the job first unless it is over; a completed job may keep its record.
AfterDelete(r) ==
  IF r.op = "cancel_job" /\ r.status \notin TerminalStates
    THEN [r EXCEPT !.at = "update", !.status = CANCELED]
  ELSE IF r.op \in {"sync", "get_job_status"} /\ ~AutoCleanup
    THEN [r EXCEPT !.at = "update"]
  ELSE [r EXCEPT !.at = "remove"]

\* runner.job_exists
AskExists(a) ==
  /\ At(a, "exists")
  /\ \E s \in RunnerStatus(actor[a].job) :
       IF s # ABSENT THEN GoTo(a, "delete") ELSE Become(a, AfterDelete(actor[a]))
  /\ StorageUnchanged /\ UNCHANGED <<container, requests>>

\* runner.cancel_job
DeleteContainer(a) ==
  /\ At(a, "delete")
  /\ RunnerCancel(actor[a].job)
  /\ Become(a, AfterDelete(actor[a]))
  /\ StorageUnchanged /\ UNCHANGED requests

\* (Mutant: a canceled job is marked and left.)
Update_Last(a) ==
  /\ At(a, "update")
  /\ StoredUpdate(actor[a].job, actor[a].status)
  /\ Done(a)
  /\ UNCHANGED <<container, requests>>

\* storage.update_job with the actor's copy of the record.
Update(a) ==
  /\ At(a, "update")
  /\ StoredUpdate(actor[a].job, actor[a].status)
  /\ \/ actor[a].op = "cancel_job" /\ GoTo(a, "remove")
     \/ actor[a].op = "get_job_status" /\ GoTo(a, "reread")
     \/ actor[a].op \notin {"cancel_job", "get_job_status"} /\ Done(a)
  /\ UNCHANGED <<container, requests>>

\* storage.remove_job
RemoveRecord(a) ==
  /\ At(a, "remove")
  /\ StoredRemove(actor[a].job)
  /\ \/ actor[a].op = "start_job" /\ GoTo(a, "add")
     \/ actor[a].op = "get_job_status" /\ GoTo(a, "reread")
     \/ actor[a].op \notin {"start_job", "get_job_status"} /\ Done(a)
  /\ UNCHANGED <<container, requests>>

--------------------------------------------------------------------------------

GoOn(a) ==
  \/ List(a) \/ Get(a) \/ AskBeforeStart(a) \/ Add(a)
  \/ CountTotal(a) \/ CountProject(a) \/ RunContainer(a)
  \/ AskStatus(a) \/ Reread(a) \/ AskExists(a) \/ DeleteContainer(a)
  \/ Update(a) \/ RemoveRecord(a)

Next ==
  \/ Iterate
  \/ \E a \in Actors : GoOn(a)
  \/ \E c \in Clients : Call(c)
  \/ \E j \in Jobs : ContainerEnds(j)

Spec == Init /\ [][Next]_vars

\* The event loop resumes every coroutine, the loop's sleep ends (although
\* requests may keep it from running undisturbed), and job functions end.
FairSpec ==
  /\ Spec
  /\ SF_vars(Iterate)
  /\ \A a \in Actors : WF_vars(GoOn(a))
  /\ \A j \in Jobs : WF_vars(ContainerEnds(j))

--------------------------------------------------------------------------------
(* Properties                                                                  *)

Up == {j \in Jobs : container[j] = "running"}

\* The limits are kept: never more containers up than "Maximum number of total
\* concurrent jobs" and "Maximum number of concurrent jobs per project"
\* (scheduler.py:46-47), which are counted and started in three separate calls.
LimitsKept ==
  /\ MaxTotal # 0 => Cardinality(Up) <= MaxTotal
  /\ MaxPerProject # 0 =>
       \A j \in Jobs : Cardinality(Up \cap SameProject(j)) <= MaxPerProject

AtRest == \A a \in Actors : At(a, "idle")

\* Between operations every container that is up is recorded, so that it can be
\* canceled and synchronised, and the sets the limits count agree with the
\* records.
RecordsAgree == AtRest => \A j \in Jobs :
  /\ container[j] = "running" => stored[j] = RUNNING
  /\ j \in running <=> stored[j] = RUNNING
  /\ j \in inProject <=> stored[j] # ABSENT

\* The scheduler never loses a container that is up: somebody can still cancel
\* it.  reset_jobs stops a job "if job is actually running" (scheduler.py:342),
\* which it reads off a copy of the record.
EveryContainerRecorded ==
  AtRest => \A j \in Jobs : container[j] = "running" => stored[j] # ABSENT

\* CANCELED is only passed through: somebody is about to remove the record, in
\* whatever order cancellations, restarts and the loop interleave.
CanceledIsTransient ==
  \A j \in Jobs : stored[j] = CANCELED =>
    \E c \in Clients : actor[c].op = "cancel_job" /\ At(c, "remove") /\ actor[c].job = j

\* A queued job does not stay queued: the loop starts it once there is room,
\* provided that jobs end.
QueuedJobLeaves == \A j \in Jobs : stored[j] = PENDING ~> stored[j] # PENDING

================================================================================
