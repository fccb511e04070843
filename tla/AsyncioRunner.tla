----------------------------- MODULE AsyncioRunner -----------------------------
(***************************************************************************)
(* The in-process job runner (moatless/runner/asyncio_runner.py): every    *)
(* job is an asyncio task of one event loop.                               *)
(*                                                                         *)
(* The loop runs one callback at a time, in the order of the FIFO `ready'. *)
(* A request from outside (start_job, cancel_job, a timer) may be          *)
(* dispatched between any two callbacks.  A coroutine that does not        *)
(* suspend keeps the loop: `holder' is the caller that has it in the       *)
(* middle of such a stretch, and nothing else can run meanwhile.           *)
(***************************************************************************)
EXTENDS Naturals, Sequences, JobStatuses

CONSTANTS
  Jobs,         \* the job ids, "project:trajectory"
  Projects,     \* sets of job ids: what cancel_job(project, None) may address
  Callers,      \* coroutines that call cancel_job, cleanup or the sweep
  Nobody,       \* the loop is free
  MaxTasks,     \* bound on the number of asyncio tasks ever created
  RestartInGap, \* may start_job run between the end of a task and its callbacks?
  Signals       \* may the process receive SIGINT or SIGTERM?

ASSUME ConstantsAssumption ==
  /\ Projects \subseteq SUBSET Jobs
  /\ Nobody \notin Callers
  /\ MaxTasks \in Nat
  /\ RestartInGap \in BOOLEAN
  /\ Signals \in BOOLEAN

VARIABLES
  metadata, \* job_metadata: status of each job; `of' is a history field that
            \* no guard reads: the task start_job made the entry for
  tasks,    \* the dictionary `tasks': the task number, 0 when there is no entry
  task,     \* the asyncio.Task objects
  created,  \* how many of them have been created
  ready,    \* the event loop's queue of callbacks
  caller,   \* what each caller is doing
  holder,   \* the caller whose coroutine has the loop, or Nobody
  closing,  \* cleanup() has been called: the application is shutting down
  exited    \* sys.exit(0) has run

vars == <<metadata, tasks, task, created, ready, caller, holder, closing, exited>>

TaskIds == 1..MaxTasks

TaskState  == {"unborn", "created", "running", "unwinding", "done"}
TaskResult == {"none", "return", "raise", "cancelled"}
Operation  == {"idle", "cancel", "cleanup", "sweep", "last_sweep"}

\* A callback: the step of a task, its done callback, the wake-up of a caller
\* that awaits it, the first step of a caller, or sys.exit.
Handle(k, t, c) == [kind |-> k, task |-> t, caller |-> c]

Handles ==
  [kind : {"step", "done"}, task : TaskIds, caller : {Nobody}] \cup
  [kind : {"wake"}, task : TaskIds, caller : Callers] \cup
  [kind : {"begin"}, task : {0}, caller : Callers] \cup
  [kind : {"exit"}, task : {0}, caller : {Nobody}]

Entry == [status : JobStatus \cup {ABSENT}, of : 0..MaxTasks]

TaskRecord == [job : Jobs, state : TaskState, cancelling : BOOLEAN,
               result : TaskResult, waiters : Seq(Callers)]

CallerRecord == [op : Operation, work : SUBSET Jobs]

TypeOK ==
  /\ metadata \in [Jobs -> Entry]
  /\ tasks \in [Jobs -> 0..MaxTasks]
  /\ task \in [TaskIds -> TaskRecord]
  /\ created \in 0..MaxTasks
  /\ ready \in Seq(Handles)
  /\ caller \in [Callers -> CallerRecord]
  /\ holder \in Callers \cup {Nobody}
  /\ closing \in BOOLEAN
  /\ exited \in BOOLEAN

Idle == [op |-> "idle", work |-> {}]

Init ==
  /\ metadata = [j \in Jobs |-> [status |-> ABSENT, of |-> 0]]
  /\ tasks = [j \in Jobs |-> 0]
  /\ \E j0 \in Jobs :
       task = [t \in TaskIds |-> [job |-> j0, state |-> "unborn", cancelling |-> FALSE,
                                  result |-> "none", waiters |-> << >>]]
  /\ created = 0
  /\ ready = << >>
  /\ caller = [c \in Callers |-> Idle]
  /\ holder = Nobody
  /\ closing = FALSE
  /\ exited = FALSE

LoopIsFree == holder = Nobody /\ ~exited

Terminal(j) == metadata[j].status \in TerminalStates

Unfinished(t) == task[t].state \in {"created", "running", "unwinding"}

--------------------------------------------------------------------------------
(* asyncio itself: Task.cancel, the end of a task.                             *)

\* Task.cancel: a finished task ignores it; one that waits is woken with
\* CancelledError; one whose step is already queued gets the error in that step.
CancelledTask(tk) ==
  IF tk.state = "done" THEN tk ELSE [tk EXCEPT !.cancelling = TRUE]

\* (Mutant: the error is never delivered.)
CancelHandles_Lost(t) == << >>

CancelHandles(t) ==
  IF task[t].state \in {"running", "unwinding"} /\ ~task[t].cancelling
    THEN <<Handle("step", t, Nobody)>> ELSE << >>

\* (Mutant: whoever awaits the task is forgotten.)
Callbacks_NoWakeUp(t) == <<Handle("done", t, Nobody)>>

\* What the end of task t queues: the callback of start_job, then whoever awaits it.
Callbacks(t) ==
  <<Handle("done", t, Nobody)>> \o
    [i \in 1..Len(task[t].waiters) |-> Handle("wake", t, task[t].waiters[i])]

EndTask(t, result, queue) ==
  /\ task' = [task EXCEPT ![t].state = "done", ![t].result = result,
                          ![t].cancelling = FALSE]
  /\ ready' = queue \o Callbacks(t)

SetStatus(j, s) == metadata' = [metadata EXCEPT ![j].status = s]

--------------------------------------------------------------------------------
(* start_job                                                                   *)

\* A task of the job has ended and not all of its callbacks have run.
InGap(j) == \E i \in 1..Len(ready) :
  ready[i].kind \in {"done", "wake"} /\ task[ready[i].task].job = j

\* (Mutant: no check that the job exists.)
MayStart_Always(j) == TRUE

\* A job that exists in a non-terminal status is refused.
MayStart(j) == metadata[j].status = ABSENT \/ Terminal(j)

\* A job in a terminal status is dropped first, with the task it may still have,
\* and started afresh.
StartJob(j) ==
  /\ LoopIsFree /\ ~closing
  /\ created < MaxTasks
  /\ RestartInGap \/ ~InGap(j)
  /\ MayStart(j)
  /\ LET stale == IF Terminal(j) THEN tasks[j] ELSE 0
         t     == created + 1
     IN  /\ created' = t
         /\ metadata' = [metadata EXCEPT ![j] = [status |-> PENDING, of |-> t]]
         /\ tasks' = [tasks EXCEPT ![j] = t]
         /\ task' = [u \in TaskIds |->
              IF u = t THEN [job |-> j, state |-> "created", cancelling |-> FALSE,
                             result |-> "none", waiters |-> << >>]
              ELSE IF u = stale THEN CancelledTask(task[u])
              ELSE task[u]]
         /\ ready' = ready \o (IF stale = 0 THEN << >> ELSE CancelHandles(stale))
                           \o <<Handle("step", t, Nobody)>>
  /\ UNCHANGED <<caller, holder, closing, exited>>

--------------------------------------------------------------------------------
(* _run_job, the coroutine of a task                                           *)

AtHead(k) == LoopIsFree /\ ready # << >> /\ Head(ready).kind = k

\* _run_job ends with the status `s' for its job; the entry may be gone, and
\* the assignment then raises KeyError.
EndWithStatus(t, s, queue) ==
  LET j == task[t].job IN
  \/ /\ metadata[j].status # ABSENT
     /\ SetStatus(j, s)
     /\ EndTask(t, "return", queue)
  \/ /\ metadata[j].status = ABSENT
     /\ EndTask(t, "raise", queue)
     /\ UNCHANGED metadata

\* The first step of a task: it marks the job RUNNING and calls the job
\* function, which suspends, returns at once or raises.
FirstStep ==
  /\ AtHead("step")
  /\ LET t == Head(ready).task
         j == task[t].job
         q == Tail(ready)
     IN  /\ task[t].state = "created"
         /\ \/ /\ task[t].cancelling
               /\ EndTask(t, "cancelled", q)
               /\ UNCHANGED metadata
            \/ /\ ~task[t].cancelling /\ metadata[j].status = ABSENT
               /\ EndTask(t, "raise", q)
               /\ UNCHANGED metadata
            \/ /\ ~task[t].cancelling /\ metadata[j].status # ABSENT
               /\ \/ /\ SetStatus(j, RUNNING)
                     /\ task' = [task EXCEPT ![t].state = "running"]
                     /\ ready' = q
                  \/ SetStatus(j, RUNNING) /\ EndTask(t, "return", q)
                  \/ SetStatus(j, FAILED)  /\ EndTask(t, "return", q)
  /\ UNCHANGED <<tasks, created, caller, holder, closing, exited>>

\* (Mutant: the job is marked as soon as the error is delivered.)
BeginUnwinding_MarksEarly(t) ==
  /\ task' = [task EXCEPT ![t].state = "unwinding", ![t].cancelling = FALSE]
  /\ SetStatus(task[t].job, CANCELED)

\* A `finally' clause of the job function waits for something.
BeginUnwinding(t) ==
  /\ task' = [task EXCEPT ![t].state = "unwinding", ![t].cancelling = FALSE]
  /\ UNCHANGED metadata

\* CancelledError reaches the job function: it may wait in a `finally' clause,
\* end with the error (CANCELED) or with another one (FAILED).
CancelledStep ==
  /\ AtHead("step")
  /\ LET t == Head(ready).task
         q == Tail(ready)
     IN  /\ task[t].state \in {"running", "unwinding"}
         /\ \/ /\ task[t].state = "running"
               /\ BeginUnwinding(t)
               /\ ready' = q
            \/ EndWithStatus(t, CANCELED, q)
            \/ EndWithStatus(t, FAILED, q)
  /\ UNCHANGED <<tasks, created, caller, holder, closing, exited>>

\* What the job function waits for arrives: it returns or raises.
Progress(t) ==
  /\ LoopIsFree
  /\ task[t].state = "running" /\ ~task[t].cancelling
  /\ \/ EndTask(t, "return", ready) /\ UNCHANGED metadata
     \/ EndWithStatus(t, FAILED, ready)
  /\ UNCHANGED <<tasks, created, caller, holder, closing, exited>>

\* The `finally' clause of a cancelled job function is done.
Unwound(t) ==
  /\ LoopIsFree
  /\ task[t].state = "unwinding" /\ ~task[t].cancelling
  /\ EndWithStatus(t, CANCELED, ready) \/ EndWithStatus(t, FAILED, ready)
  /\ UNCHANGED <<tasks, created, caller, holder, closing, exited>>

\* (Mutants: a terminal status is overridden; a cancelled task counts as
\* completed; a plain return is not recorded; the result is stored as it is.)
FinalStatus_Overrides(s, r) == IF s = ABSENT THEN s ELSE COMPLETED

FinalStatus_IgnoresCancel(s, r) ==
  IF s \in TerminalStates \cup {ABSENT} THEN s ELSE COMPLETED

FinalStatus_OnlyErrors(s, r) == IF s = RUNNING /\ r = "raise" THEN FAILED ELSE s

FinalStatus_Raw(s, r) == IF s = RUNNING THEN r ELSE s

\* The status of a job whose task ended with the result r.  A terminal status is
\* kept; task.exception() raises for a cancelled task, which keeps any status.
FinalStatus(s, r) ==
  IF s \in TerminalStates \cup {ABSENT} \/ r = "cancelled" THEN s
  ELSE IF r = "raise" THEN FAILED ELSE COMPLETED

\* _handle_task_done: drops the entry of the job in `tasks', whichever task it
\* holds, and settles the status of the job.
HandleTaskDone ==
  /\ AtHead("done")
  /\ LET t == Head(ready).task
         j == task[t].job
     IN  /\ tasks' = [tasks EXCEPT ![j] = 0]
         /\ SetStatus(j, FinalStatus(metadata[j].status, task[t].result))
  /\ ready' = Tail(ready)
  /\ UNCHANGED <<task, created, caller, holder, closing, exited>>

--------------------------------------------------------------------------------
(* cancel_job and _cancel_job_by_id, cleanup, the sweep                        *)

\* cancel_job for one job or for the jobs of a project.
BeginCancel(c) ==
  /\ LoopIsFree /\ caller[c].op = "idle"
  /\ \E w \in Projects \cup {{j} : j \in Jobs} :
       caller' = [caller EXCEPT ![c] =
         [op |-> "cancel", work |-> {j \in w : tasks[j] # 0}]]
  /\ holder' = c
  /\ UNCHANGED <<metadata, tasks, task, created, ready, closing, exited>>

\* cleanup(), called when the application shuts down: no request follows it.
BeginCleanup(c) ==
  /\ LoopIsFree /\ caller[c].op = "idle" /\ ~closing
  /\ caller' = [caller EXCEPT ![c] =
       [op |-> "cleanup", work |-> {j \in Jobs : tasks[j] # 0}]]
  /\ holder' = c
  /\ closing' = TRUE
  /\ UNCHANGED <<metadata, tasks, task, created, ready, exited>>

\* Every minute: _cleanup_stale_jobs.
BeginSweep(c) ==
  /\ LoopIsFree /\ caller[c].op = "idle"
  /\ caller' = [caller EXCEPT ![c] =
       [op |-> "sweep", work |-> {j \in Jobs : metadata[j].status # ABSENT}]]
  /\ holder' = c
  /\ UNCHANGED <<metadata, tasks, task, created, ready, closing, exited>>

\* The caller stops: its call returns or raises.
Return(c) == caller' = [caller EXCEPT ![c] = Idle] /\ holder' = Nobody

\* metadata of a canceled job, if it is still there.
MarkCanceled(j) ==
  IF metadata[j].status = ABSENT THEN UNCHANGED metadata ELSE SetStatus(j, CANCELED)

CrossOff(c, j) == caller' = [caller EXCEPT ![c].work = @ \ {j}]

\* _cancel_job_by_id finds no task.
CancelNothing(c, j) ==
  /\ tasks[j] = 0
  /\ CrossOff(c, j)
  /\ UNCHANGED <<metadata, task, ready, holder>>

\* The task has ended: awaiting it does not suspend, and raises what it raised.
CancelEnded(c, j) ==
  /\ tasks[j] # 0 /\ task[tasks[j]].state = "done"
  /\ \/ task[tasks[j]].result # "raise" /\ MarkCanceled(j) /\ CrossOff(c, j) /\ UNCHANGED holder
     \/ task[tasks[j]].result = "raise" /\ Return(c) /\ UNCHANGED metadata
  /\ UNCHANGED <<task, ready>>

AwaitedTask(tk, c) == [CancelledTask(tk) EXCEPT !.waiters = Append(@, c)]

\* The task is canceled and awaited.
CancelAndAwait(c, j) ==
  /\ tasks[j] # 0 /\ task[tasks[j]].state # "done"
  /\ task' = [task EXCEPT ![tasks[j]] = AwaitedTask(@, c)]
  /\ ready' = ready \o CancelHandles(tasks[j])
  /\ CrossOff(c, j)
  /\ holder' = Nobody
  /\ UNCHANGED metadata

\* One job of the list.
CancelNext(c) ==
  /\ holder = c /\ ~exited
  /\ caller[c].op \in {"cancel", "cleanup"}
  /\ \E j \in caller[c].work : CancelNothing(c, j) \/ CancelEnded(c, j) \/ CancelAndAwait(c, j)
  /\ UNCHANGED <<tasks, created, closing, exited>>

\* The awaited task has ended and the loop resumes the caller.
Wake ==
  /\ AtHead("wake")
  /\ LET c == Head(ready).caller
         t == Head(ready).task
         j == task[t].job
     IN  IF task[t].result = "raise"
           THEN Return(c) /\ UNCHANGED metadata
           ELSE /\ MarkCanceled(j)
                /\ holder' = c
                /\ UNCHANGED caller
  /\ ready' = Tail(ready)
  /\ UNCHANGED <<tasks, task, created, closing, exited>>

\* The list is done: cancel_job returns, cleanup goes on with a last sweep.
EndCancel(c) ==
  /\ holder = c /\ ~exited
  /\ caller[c].work = {}
  /\ \/ caller[c].op = "cancel" /\ Return(c)
     \/ /\ caller[c].op = "cleanup"
        /\ caller' = [caller EXCEPT ![c].op = "last_sweep",
                        ![c].work = {j \in Jobs : metadata[j].status # ABSENT}]
        /\ UNCHANGED holder
  /\ UNCHANGED <<metadata, tasks, task, created, ready, closing, exited>>

\* (Mutant: the sweep does not look at the status.)
Stale_Any(j) == tasks[j] # 0

Stale(j) == Terminal(j) /\ tasks[j] # 0

\* One job of the sweep: a terminal one that still has a task loses it.
SweepNext(c) ==
  /\ holder = c /\ ~exited
  /\ caller[c].op \in {"sweep", "last_sweep"}
  /\ \E j \in caller[c].work :
       /\ CrossOff(c, j)
       /\ IF Stale(j)
            THEN /\ task' = [task EXCEPT ![tasks[j]] = CancelledTask(@)]
                 /\ ready' = ready \o CancelHandles(tasks[j])
                 /\ tasks' = [tasks EXCEPT ![j] = 0]
            ELSE UNCHANGED <<task, ready, tasks>>
  /\ UNCHANGED <<metadata, created, holder, closing, exited>>

\* The sweep is done; the one that ends cleanup() clears the metadata.
EndSweep(c) ==
  /\ holder = c /\ ~exited
  /\ caller[c].op \in {"sweep", "last_sweep"} /\ caller[c].work = {}
  /\ Return(c)
  /\ metadata' = IF caller[c].op = "last_sweep"
                   THEN [j \in Jobs |-> [status |-> ABSENT, of |-> 0]] ELSE metadata
  /\ UNCHANGED <<tasks, task, created, ready, closing, exited>>

--------------------------------------------------------------------------------
(* _signal_handler                                                             *)

\* SIGINT or SIGTERM: a task for _cleanup_tasks, then a callback that exits.
Signal(c) ==
  /\ Signals /\ LoopIsFree /\ ~closing /\ caller[c].op = "idle"
  /\ closing' = TRUE
  /\ caller' = [caller EXCEPT ![c].op = "cancel"]
  /\ ready' = ready \o <<Handle("begin", 0, c), Handle("exit", 0, Nobody)>>
  /\ UNCHANGED <<metadata, tasks, task, created, holder, exited>>

BeginCleanupTasks ==
  /\ AtHead("begin")
  /\ LET c == Head(ready).caller IN
       /\ caller' = [caller EXCEPT ![c].work = {j \in Jobs : tasks[j] # 0}]
       /\ holder' = c
  /\ ready' = Tail(ready)
  /\ UNCHANGED <<metadata, tasks, task, created, closing, exited>>

Exit ==
  /\ AtHead("exit")
  /\ exited' = TRUE
  /\ ready' = Tail(ready)
  /\ UNCHANGED <<metadata, tasks, task, created, caller, holder, closing>>

--------------------------------------------------------------------------------

\* The callback at the head of the queue.
RunCallback ==
  FirstStep \/ CancelledStep \/ HandleTaskDone \/ Wake \/ BeginCleanupTasks \/ Exit

\* A coroutine that has the loop goes on.
GoOn(c) == CancelNext(c) \/ EndCancel(c) \/ SweepNext(c) \/ EndSweep(c)

Next ==
  \/ RunCallback
  \/ \E j \in Jobs : StartJob(j)
  \/ \E t \in TaskIds : Progress(t) \/ Unwound(t)
  \/ \E c \in Callers : \/ GoOn(c)
                        \/ BeginCancel(c) \/ BeginCleanup(c) \/ BeginSweep(c)
                        \/ Signal(c)

Spec == Init /\ [][Next]_vars

\* The loop never stops: a coroutine that has it goes on, the queue is served
\* although timers and requests keep coming in between (hence strong fairness),
\* and a `finally' clause ends.  Nothing is assumed of the job functions or of
\* the clients.
FairSpec ==
  /\ Spec
  /\ SF_vars(RunCallback)
  /\ \A c \in Callers : WF_vars(GoOn(c))
  /\ \A t \in TaskIds : SF_vars(Unwound(t))

--------------------------------------------------------------------------------
(* Properties                                                                  *)

\* Never two executions of one job at the same time: start_job refuses a job
\* that exists, and restarts one in a terminal status because "it's safe to
\* restart" (asyncio_runner.py:153-182).
AtMostOneExecution ==
  \A t, u \in TaskIds :
    Unfinished(t) /\ Unfinished(u) /\ task[t].job = task[u].job => t = u

\* A live execution can be reached by cancel_job: it is what `tasks' holds for
\* its job (_cancel_job_by_id only looks there).  The done callback of an older
\* task of the same job must not take the entry away.
LiveTaskIsTracked ==
  \A t \in TaskIds : Unfinished(t) => tasks[task[t].job] = t

\* A job reported in a terminal status has no execution that still goes on
\* (start_job and the sweep rely on it when they drop the task).
TerminalMeansOver ==
  \A j \in Jobs : Terminal(j) =>
    \A t \in TaskIds : task[t].job = j => ~Unfinished(t)

\* A job is reported COMPLETED only if the function of the execution that
\* start_job made the entry for was called and not cut short before.
OutcomeIsOwn ==
  \A j \in Jobs : metadata[j].status = COMPLETED =>
    task[metadata[j].of].result = "return"

\* No job is stuck: a job reported PENDING or RUNNING has a task that has not
\* ended, or a queued callback will still write its final status.
NoStuckJob ==
  \A j \in Jobs : metadata[j].status \in {PENDING, RUNNING} =>
    LET t == metadata[j].of IN
      \/ Unfinished(t)
      \/ \E i \in 1..Len(ready) : ready[i].kind \in {"done", "wake"} /\ ready[i].task = t

\* The statuses a client reads follow the lifecycle every runner promises.
Lifecycle == INSTANCE JobLifecycle WITH status <- [j \in Jobs |-> metadata[j].status]

ImplementsLifecycle == Lifecycle!Spec

\* Every call of cancel_job, cleanup or the sweep returns, however the task it
\* waits for takes the cancellation.
CallsReturn ==
  \A c \in Callers : caller[c].op # "idle" ~> caller[c].op = "idle"

\* A task that was canceled ends, and its done callback has dropped it.
CancelTakesEffect ==
  \A t \in TaskIds :
    Unfinished(t) /\ task[t].cancelling ~> (~Unfinished(t) /\ tasks[task[t].job] # t)

================================================================================
