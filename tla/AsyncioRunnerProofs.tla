--------------------------- MODULE AsyncioRunnerProofs --------------------------
(***************************************************************************)
(* Theorems about AsyncioRunner, for any jobs, callers and number of       *)
(* executions.  The strengthening IInv says why a restart is safe: what a  *)
(* job's status, the dictionary `tasks' and the queue of callbacks each    *)
(* say about a job whose execution has not ended.  StatusesTrue, which     *)
(* stands on IInv, says why a status can be believed: the entry of a job   *)
(* is what became of its task, or a callback that will make it so is       *)
(* queued.  From both, every step is a step of JobLifecycle for each job.  *)
(***************************************************************************)
EXTENDS AsyncioRunner, SequenceTheorems, TLAPS

\* Task numbers are given out in order.
BornInOrder == \A t \in TaskIds : task[t].state = "unborn" <=> t > created

\* An entry of `tasks' is a task of its job.
EntryIsOwn == \A j \in Jobs :
  tasks[j] # 0 => tasks[j] <= created /\ task[tasks[j]].job = j

Over(j) == \A t \in TaskIds : task[t].job = j => ~Unfinished(t)

\* A job that start_job takes for unknown has no live execution.
AbsentMeansOver == \A j \in Jobs :
  metadata[j].status = ABSENT => closing \/ Over(j)

\* While a callback of a task is queued, its job is not executing: this is what
\* the assumption about restarts gives.
CallbackMeansOver == \A i \in 1..Len(ready) :
  ready[i].kind \in {"done", "wake"} =>
    /\ task[ready[i].task].state = "done"
    /\ Over(task[ready[i].task].job)

\* Metadata is cleared only once no job can be started any more.
CleanupIsLast == \A c \in Callers :
  caller[c].op \in {"cleanup", "last_sweep"} => closing

IInv ==
  /\ TypeOK
  /\ BornInOrder
  /\ EntryIsOwn
  /\ LiveTaskIsTracked
  /\ TerminalMeansOver
  /\ AbsentMeansOver
  /\ CallbackMeansOver
  /\ CleanupIsLast

--------------------------------------------------------------------------------
(* Types of what the actions are built from                                    *)

\* The handle that the event loop runs next, and what is left of its queue, are
\* well typed.
LEMMA HeadOfReady ==
  ASSUME TypeOK, ready # << >>
  PROVE  /\ Head(ready) \in Handles
         /\ Tail(ready) \in Seq(Handles)
         /\ Head(ready) = ready[1]
  BY DEF TypeOK

\* What a handle of each kind carries: a task, a caller, or both.
LEMMA HandleFields ==
  ASSUME NEW h \in Handles
  PROVE  /\ h.kind \in {"step", "done", "wake"} => h.task \in TaskIds
         /\ h.kind \in {"wake", "begin"} => h.caller \in Callers
  BY DEF Handles

\* Every handle that the model puts in the queue of the event loop is one.
LEMMA HandleTypes ==
  ASSUME NEW t \in TaskIds, NEW c \in Callers
  PROVE  /\ Handle("step", t, Nobody) \in Handles
         /\ Handle("done", t, Nobody) \in Handles
         /\ Handle("wake", t, c) \in Handles
         /\ Handle("begin", 0, c) \in Handles
         /\ Handle("exit", 0, Nobody) \in Handles
  BY DEF Handle, Handles

\* The callbacks of a task that ends are handles.
LEMMA CallbacksType ==
  ASSUME TypeOK, NEW t \in TaskIds
  PROVE  Callbacks(t) \in Seq(Handles)
<1>1. task[t].waiters \in Seq(Callers)
  BY DEF TypeOK, TaskRecord
<1> DEFINE n == Len(task[t].waiters)
           w == [i \in 1..n |-> Handle("wake", t, task[t].waiters[i])]
<1>2. n \in Nat
  BY <1>1
<1>3. \A i \in 1..n : task[t].waiters[i] \in Callers
  BY <1>1
<1>4. \A i \in 1..n : Handle("wake", t, task[t].waiters[i]) \in Handles
  BY <1>3, HandleTypes
<1>5. w \in [1..n -> Handles]
  BY <1>4
<1>6. w \in Seq(Handles)
  BY <1>2, <1>5, SeqDef
<1>7. <<Handle("done", t, Nobody)>> \in Seq(Handles)
  <2>1. Handle("done", t, Nobody) \in Handles
    BY DEF Handle, Handles
  <2>2. QED
    BY <2>1
<1> HIDE DEF w
<1>8. <<Handle("done", t, Nobody)>> \o w \in Seq(Handles)
  BY <1>6, <1>7
<1>9. QED
  BY <1>8 DEF Callbacks, w

\* The step that a cancellation puts in the queue is a handle.
LEMMA CancelHandlesType ==
  ASSUME NEW t \in TaskIds
  PROVE  CancelHandles(t) \in Seq(Handles)
<1>1. Handle("step", t, Nobody) \in Handles
  BY DEF Handle, Handles
<1>2. QED
  BY <1>1 DEF CancelHandles

\* task.cancel() gives a task, of the same job and in the same state.
LEMMA CancelledTaskType ==
  ASSUME NEW tk \in TaskRecord
  PROVE  /\ CancelledTask(tk) \in TaskRecord
         /\ CancelledTask(tk).job = tk.job
         /\ CancelledTask(tk).state = tk.state
  BY DEF CancelledTask, TaskRecord

\* A canceled task that somebody also awaits is a task, of the same job and in
\* the same state.
LEMMA AwaitedTaskType ==
  ASSUME NEW tk \in TaskRecord, NEW c \in Callers
  PROVE  /\ AwaitedTask(tk, c) \in TaskRecord
         /\ AwaitedTask(tk, c).job = tk.job
         /\ AwaitedTask(tk, c).state = tk.state
<1> DEFINE u == CancelledTask(tk)
<1>1. u \in TaskRecord /\ u.job = tk.job /\ u.state = tk.state
  BY CancelledTaskType
<1> HIDE DEF u
<1>2. Append(u.waiters, c) \in Seq(Callers)
  <2>1. u.waiters \in Seq(Callers)
    BY <1>1 DEF TaskRecord
  <2>2. QED
    BY <2>1
<1>3. AwaitedTask(tk, c) = [u EXCEPT !.waiters = Append(u.waiters, c)]
  BY DEF AwaitedTask, u
<1>4. QED
  BY <1>1, <1>2, <1>3 DEF TaskRecord

\* The end of a task keeps the tasks and the queue of the event loop well typed.
LEMMA EndTaskType ==
  ASSUME TypeOK, NEW t \in TaskIds, NEW r \in TaskResult, NEW q \in Seq(Handles),
         EndTask(t, r, q)
  PROVE  /\ task' \in [TaskIds -> TaskRecord]
         /\ ready' \in Seq(Handles)
<1>1. Callbacks(t) \in Seq(Handles)
  BY CallbacksType
<1>2. ready' \in Seq(Handles)
  BY <1>1 DEF EndTask
<1> DEFINE tk == [task[t] EXCEPT !.state = "done", !.result = r, !.cancelling = FALSE]
<1>3. task' \in [TaskIds -> TaskRecord]
  <2>1. task[t] \in TaskRecord
    BY DEF TypeOK
  <2>2. tk \in TaskRecord
    BY <2>1 DEF TaskRecord, TaskState
  <2>3. task' = [task EXCEPT ![t] = tk]
    BY DEF EndTask
  <2>4. QED
    BY <2>2, <2>3 DEF TypeOK
<1>4. QED
  BY <1>2, <1>3

\* Setting a status keeps `job_metadata' well typed.
LEMMA SetStatusType ==
  ASSUME TypeOK, NEW j \in Jobs, NEW s \in JobStatus \cup {ABSENT}, SetStatus(j, s)
  PROVE  metadata' \in [Jobs -> Entry]
  BY DEF SetStatus, TypeOK, Entry

--------------------------------------------------------------------------------
(* Type correctness                                                            *)

\* The runner starts well typed.
LEMMA InitType == Init => TypeOK
<1> SUFFICES ASSUME Init PROVE TypeOK
  OBVIOUS
<1>1. PICK j0 \in Jobs :
        task = [t \in TaskIds |-> [job |-> j0, state |-> "unborn", cancelling |-> FALSE,
                                   result |-> "none", waiters |-> << >>]]
  BY DEF Init
<1>2. << >> \in Seq(Callers) /\ << >> \in Seq(Handles)
  OBVIOUS
<1>3. task \in [TaskIds -> TaskRecord]
  BY <1>1, <1>2 DEF TaskRecord, TaskState, TaskResult
<1>4. metadata \in [Jobs -> Entry] /\ tasks \in [Jobs -> 0..MaxTasks] /\ created \in 0..MaxTasks
  BY ConstantsAssumption DEF Init, Entry
<1>5. caller \in [Callers -> CallerRecord]
  BY DEF Init, Idle, CallerRecord, Operation
<1>6. QED
  BY <1>2, <1>3, <1>4, <1>5 DEF Init, TypeOK

\* start_job keeps the state well typed.
LEMMA StartJobType ==
  ASSUME TypeOK, NEW j \in Jobs, StartJob(j)
  PROVE  TypeOK'
<1> DEFINE stale == IF Terminal(j) THEN tasks[j] ELSE 0
           t == created + 1
           fresh == [job |-> j, state |-> "created", cancelling |-> FALSE,
                     result |-> "none", waiters |-> << >>]
<1>1. t \in TaskIds /\ t \in 0..MaxTasks /\ stale \in 0..MaxTasks
  BY ConstantsAssumption DEF StartJob, TypeOK, TaskIds
<1>2. metadata' \in [Jobs -> Entry]
  BY <1>1 DEF StartJob, TypeOK, Entry, JobStatus
<1>3. tasks' \in [Jobs -> 0..MaxTasks] /\ created' \in 0..MaxTasks
  BY <1>1 DEF StartJob, TypeOK
<1>4. task' \in [TaskIds -> TaskRecord]
  <2>1. fresh \in TaskRecord
    <3>1. << >> \in Seq(Callers)
      OBVIOUS
    <3>2. QED
      BY <3>1 DEF TaskRecord, TaskState, TaskResult
  <2>2. \A u \in TaskIds : task[u] \in TaskRecord /\ CancelledTask(task[u]) \in TaskRecord
    BY CancelledTaskType DEF TypeOK
  <2>3. task' = [u \in TaskIds |-> IF u = t THEN fresh
                                   ELSE IF u = stale THEN CancelledTask(task[u])
                                   ELSE task[u]]
    BY DEF StartJob
  <2>4. QED
    BY <2>1, <2>2, <2>3
<1>5. ready' \in Seq(Handles)
  <2>1. Handle("step", t, Nobody) \in Handles
    BY <1>1 DEF Handle, Handles
  <2>2. stale # 0 => CancelHandles(stale) \in Seq(Handles)
    BY <1>1, CancelHandlesType DEF TaskIds
  <2>3. (IF stale = 0 THEN << >> ELSE CancelHandles(stale)) \in Seq(Handles)
    BY <2>2
  <2>4. <<Handle("step", t, Nobody)>> \in Seq(Handles)
    BY <2>1
  <2>5. ready' = ready \o (IF stale = 0 THEN << >> ELSE CancelHandles(stale))
                       \o <<Handle("step", t, Nobody)>>
    BY DEF StartJob
  <2> HIDE DEF stale, t
  <2>6. QED
    BY <2>3, <2>4, <2>5 DEF TypeOK
<1>6. QED
  BY <1>2, <1>3, <1>4, <1>5 DEF StartJob, TypeOK

\* The end of an execution that also sets a status keeps the state well typed.
LEMMA EndWithStatusType ==
  ASSUME TypeOK, NEW t \in TaskIds, NEW s \in JobStatus, NEW q \in Seq(Handles),
         EndWithStatus(t, s, q)
  PROVE  /\ metadata' \in [Jobs -> Entry]
         /\ task' \in [TaskIds -> TaskRecord]
         /\ ready' \in Seq(Handles)
<1>1. task[t].job \in Jobs
  BY DEF TypeOK, TaskRecord
<1>2. CASE SetStatus(task[t].job, s) /\ EndTask(t, "return", q)
  BY <1>1, <1>2, EndTaskType, SetStatusType DEF TaskResult
<1>3. CASE UNCHANGED metadata /\ EndTask(t, "raise", q)
  BY <1>3, EndTaskType DEF TaskResult, TypeOK
<1>4. QED
  BY <1>2, <1>3 DEF EndWithStatus

\* Every step of an execution keeps the state well typed.
LEMMA TaskStepType ==
  ASSUME TypeOK, FirstStep \/ CancelledStep \/ \E t \in TaskIds : Progress(t) \/ Unwound(t)
  PROVE  TypeOK'
<1> DEFINE Typed == /\ metadata' \in [Jobs -> Entry]
                    /\ task' \in [TaskIds -> TaskRecord]
                    /\ ready' \in Seq(Handles)
<1>1. CASE FirstStep
  <2> SUFFICES Typed
    BY <1>1 DEF FirstStep, TypeOK
  <2> DEFINE t == Head(ready).task
             q == Tail(ready)
  <2>1. t \in TaskIds /\ q \in Seq(Handles)
    BY <1>1, HeadOfReady, HandleFields DEF FirstStep, AtHead
  <2>2. task[t].job \in Jobs /\ task[t] \in TaskRecord
    BY <2>1 DEF TypeOK, TaskRecord
  <2>3. /\ "return" \in TaskResult /\ "raise" \in TaskResult /\ "cancelled" \in TaskResult
        /\ RUNNING \in JobStatus /\ FAILED \in JobStatus
    BY DEF TaskResult, JobStatus
  <2>4. CASE (EndTask(t, "cancelled", q) \/ EndTask(t, "raise", q)) /\ UNCHANGED metadata
    <3>1. metadata' \in [Jobs -> Entry]
      BY <2>4 DEF TypeOK
    <3>2. QED
      BY <2>1, <2>3, <2>4, <3>1, EndTaskType
  <2>5. CASE /\ SetStatus(task[t].job, RUNNING) \/ SetStatus(task[t].job, FAILED)
             /\ EndTask(t, "return", q)
    BY <2>1, <2>2, <2>3, <2>5, EndTaskType, SetStatusType
  <2>6. CASE /\ SetStatus(task[t].job, RUNNING)
             /\ task' = [task EXCEPT ![t].state = "running"]
             /\ ready' = q
    <3>1. [task[t] EXCEPT !.state = "running"] \in TaskRecord
      BY <2>2 DEF TaskRecord, TaskState
    <3>2. task' \in [TaskIds -> TaskRecord]
      BY <2>1, <2>6, <3>1 DEF TypeOK
    <3>3. QED
      BY <2>1, <2>2, <2>3, <2>6, <3>2, SetStatusType
  <2>7. QED
    BY <1>1, <2>4, <2>5, <2>6 DEF FirstStep
<1>2. CASE CancelledStep
  <2> SUFFICES Typed
    BY <1>2 DEF CancelledStep, TypeOK
  <2> DEFINE t == Head(ready).task
             q == Tail(ready)
  <2>1. t \in TaskIds /\ q \in Seq(Handles)
    BY <1>2, HeadOfReady, HandleFields DEF CancelledStep, AtHead
  <2>2. CASE BeginUnwinding(t) /\ ready' = q
    <3>1. task[t] \in TaskRecord
      BY <2>1 DEF TypeOK
    <3>2. [task[t] EXCEPT !.state = "unwinding", !.cancelling = FALSE] \in TaskRecord
      BY <3>1 DEF TaskRecord, TaskState
    <3>3. task' = [task EXCEPT ![t] =
                     [task[t] EXCEPT !.state = "unwinding", !.cancelling = FALSE]]
      BY <2>2 DEF BeginUnwinding
    <3>4. task' \in [TaskIds -> TaskRecord]
      BY <2>1, <3>2, <3>3 DEF TypeOK
    <3>5. metadata' \in [Jobs -> Entry]
      BY <2>2 DEF BeginUnwinding, TypeOK
    <3>6. QED
      BY <2>1, <2>2, <3>4, <3>5
  <2>3. CASE EndWithStatus(t, CANCELED, q) \/ EndWithStatus(t, FAILED, q)
    <3>1. CANCELED \in JobStatus /\ FAILED \in JobStatus
      BY DEF JobStatus
    <3>2. QED
      BY <2>1, <2>3, <3>1, EndWithStatusType
  <2>4. QED
    BY <1>2, <2>2, <2>3 DEF CancelledStep
<1>3. ASSUME NEW t \in TaskIds, Progress(t) \/ Unwound(t)
      PROVE  TypeOK'
  <2> SUFFICES Typed
    BY <1>3 DEF Progress, Unwound, TypeOK
  <2>1. ready \in Seq(Handles)
    BY DEF TypeOK
  <2>2. CASE EndTask(t, "return", ready) /\ UNCHANGED metadata
    <3>1. metadata' \in [Jobs -> Entry]
      BY <2>2 DEF TypeOK
    <3>2. "return" \in TaskResult
      BY DEF TaskResult
    <3>3. QED
      BY <2>1, <2>2, <3>1, <3>2, EndTaskType
  <2>3. CASE EndWithStatus(t, CANCELED, ready) \/ EndWithStatus(t, FAILED, ready)
    <3>1. CANCELED \in JobStatus /\ FAILED \in JobStatus
      BY DEF JobStatus
    <3>2. QED
      BY <2>1, <2>3, <3>1, EndWithStatusType
  <2>4. QED
    BY <1>3, <2>2, <2>3 DEF Progress, Unwound
<1>4. QED
  BY <1>1, <1>2, <1>3

\* _handle_task_done keeps the state well typed.
LEMMA HandleTaskDoneType == TypeOK /\ HandleTaskDone => TypeOK'
<1> SUFFICES ASSUME TypeOK, HandleTaskDone PROVE TypeOK'
  OBVIOUS
<1> DEFINE t == Head(ready).task
           j == task[t].job
           s == FinalStatus(metadata[j].status, task[t].result)
<1>1. t \in TaskIds /\ Tail(ready) \in Seq(Handles)
  BY HeadOfReady, HandleFields DEF HandleTaskDone, AtHead
<1>2. j \in Jobs
  BY <1>1 DEF TypeOK, TaskRecord
<1>3. s \in JobStatus \cup {ABSENT}
  <2>1. metadata[j].status \in JobStatus \cup {ABSENT}
    BY <1>2 DEF TypeOK, Entry
  <2>2. QED
    BY <2>1 DEF FinalStatus, JobStatus
<1>4. metadata' \in [Jobs -> Entry]
  <2>1. SetStatus(j, s)
    BY DEF HandleTaskDone
  <2> HIDE DEF j, s
  <2>2. QED
    BY <1>2, <1>3, <2>1, SetStatusType
<1>5. tasks' \in [Jobs -> 0..MaxTasks]
  BY <1>2, ConstantsAssumption DEF HandleTaskDone, TypeOK
<1>6. QED
  BY <1>1, <1>4, <1>5 DEF HandleTaskDone, TypeOK

\* The first step of cancel_job, cleanup_tasks, the sweep and the signal handler
\* keeps the state well typed.
LEMMA CallerBeginsType ==
  ASSUME TypeOK, NEW c \in Callers,
         BeginCancel(c) \/ BeginCleanup(c) \/ BeginSweep(c) \/ Signal(c)
  PROVE  TypeOK'
<1>1. ASSUME NEW op \in Operation, NEW w \in SUBSET Jobs,
             caller' = [caller EXCEPT ![c] = [op |-> op, work |-> w]]
      PROVE  caller' \in [Callers -> CallerRecord]
  BY <1>1 DEF TypeOK, CallerRecord
<1>2. {"cancel", "cleanup", "sweep"} \subseteq Operation
  BY DEF Operation
<1>3. CASE BeginCancel(c)
  <2>1. PICK w : caller' = [caller EXCEPT ![c] =
                              [op |-> "cancel", work |-> {j \in w : tasks[j] # 0}]]
                 /\ w \in Projects \cup {{j} : j \in Jobs}
    BY <1>3 DEF BeginCancel
  <2>2. {j \in w : tasks[j] # 0} \in SUBSET Jobs
    BY <2>1, ConstantsAssumption
  <2>3. caller' \in [Callers -> CallerRecord]
    BY <1>1, <1>2, <2>1, <2>2
  <2>4. QED
    BY <1>3, <2>3 DEF BeginCancel, TypeOK
<1>4. CASE BeginCleanup(c)
  <2>1. {j \in Jobs : tasks[j] # 0} \in SUBSET Jobs
    OBVIOUS
  <2>2. caller' \in [Callers -> CallerRecord]
    BY <1>1, <1>2, <1>4, <2>1 DEF BeginCleanup
  <2>3. QED
    BY <1>4, <2>2 DEF BeginCleanup, TypeOK
<1>5. CASE BeginSweep(c)
  <2>1. {j \in Jobs : metadata[j].status # ABSENT} \in SUBSET Jobs
    OBVIOUS
  <2>2. caller' \in [Callers -> CallerRecord]
    BY <1>1, <1>2, <1>5, <2>1 DEF BeginSweep
  <2>3. QED
    BY <1>5, <2>2 DEF BeginSweep, TypeOK
<1>6. CASE Signal(c)
  <2>1. [caller[c] EXCEPT !.op = "cancel"] \in CallerRecord
    BY <1>2 DEF TypeOK, CallerRecord
  <2>2. caller' \in [Callers -> CallerRecord]
    BY <1>6, <2>1 DEF Signal, TypeOK
  <2>3. /\ Handle("begin", 0, c) \in Handles
        /\ Handle("exit", 0, Nobody) \in Handles
    BY DEF Handle, Handles
  <2>4. <<Handle("begin", 0, c), Handle("exit", 0, Nobody)>> \in Seq(Handles)
    BY <2>3
  <2>5. ready' \in Seq(Handles)
    BY <1>6, <2>4 DEF Signal, TypeOK
  <2>6. QED
    BY <1>6, <2>2, <2>5 DEF Signal, TypeOK
<1>7. QED
  BY <1>3, <1>4, <1>5, <1>6

\* A call that returns keeps the records of the callers well typed.
LEMMA ReturnType ==
  ASSUME TypeOK, NEW c \in Callers, Return(c)
  PROVE  /\ caller' \in [Callers -> CallerRecord]
         /\ holder' \in Callers \cup {Nobody}
  BY DEF Return, Idle, TypeOK, CallerRecord, Operation

\* A job is marked CANCELED if it is known at all.
LEMMA MarkType ==
  ASSUME TypeOK, NEW j \in Jobs,
         UNCHANGED metadata \/ SetStatus(j, CANCELED)
  PROVE  metadata' \in [Jobs -> Entry]
<1>1. CANCELED \in JobStatus
  BY DEF JobStatus
<1>2. CASE UNCHANGED metadata
  BY <1>2 DEF TypeOK
<1>3. QED
  BY <1>1, <1>2, SetStatusType

\* A caller woken by the end of the task it awaits keeps the state well typed.
LEMMA WakeType == TypeOK /\ Wake => TypeOK'
<1> SUFFICES ASSUME TypeOK, Wake PROVE TypeOK'
  OBVIOUS
<1> DEFINE c == Head(ready).caller
           t == Head(ready).task
           j == task[t].job
<1>1. t \in TaskIds /\ c \in Callers /\ Tail(ready) \in Seq(Handles)
  BY HeadOfReady, HandleFields DEF Wake, AtHead
<1>2. j \in Jobs
  BY <1>1 DEF TypeOK, TaskRecord
<1>3. UNCHANGED metadata \/ SetStatus(j, CANCELED)
  BY DEF Wake, MarkCanceled
<1>4. metadata' \in [Jobs -> Entry]
  <2> HIDE DEF j
  <2>1. QED
    BY <1>2, <1>3, MarkType
<1>5. /\ caller' \in [Callers -> CallerRecord]
      /\ holder' \in Callers \cup {Nobody}
  <2>1. Return(c) \/ (holder' = c /\ UNCHANGED caller)
    BY DEF Wake
  <2>2. QED
    BY <1>1, <2>1, ReturnType DEF TypeOK
<1>6. QED
  BY <1>1, <1>4, <1>5 DEF Wake, TypeOK

\* A caller that is done with one job of its list keeps the state well typed.
LEMMA CrossOffType ==
  ASSUME TypeOK, NEW c \in Callers, NEW j \in Jobs, CrossOff(c, j)
  PROVE  caller' \in [Callers -> CallerRecord]
<1>1. caller[c] \in CallerRecord
  BY DEF TypeOK
<1>2. [caller[c] EXCEPT !.work = @ \ {j}] \in CallerRecord
  BY <1>1 DEF CallerRecord
<1>3. QED
  BY <1>2 DEF CrossOff, TypeOK

\* cancel_job keeps the state well typed when it takes the next job of its list.
LEMMA CancelNextType ==
  ASSUME TypeOK, NEW c \in Callers, CancelNext(c)
  PROVE  TypeOK'
<1>1. PICK j \in caller[c].work :
        CancelNothing(c, j) \/ CancelEnded(c, j) \/ CancelAndAwait(c, j)
  BY DEF CancelNext
<1>2. j \in Jobs
  BY <1>1 DEF TypeOK, CallerRecord
<1>3. CASE CancelNothing(c, j)
  BY <1>2, <1>3, CrossOffType DEF CancelNext, CancelNothing, TypeOK
<1>4. CASE CancelEnded(c, j)
  <2>1. UNCHANGED metadata \/ SetStatus(j, CANCELED)
    BY <1>4 DEF CancelEnded, MarkCanceled
  <2>2. metadata' \in [Jobs -> Entry]
    BY <1>2, <2>1, MarkType
  <2>3. (CrossOff(c, j) /\ UNCHANGED holder) \/ Return(c)
    BY <1>4 DEF CancelEnded
  <2>4. caller' \in [Callers -> CallerRecord] /\ holder' \in Callers \cup {Nobody}
    BY <1>2, <2>3, CrossOffType, ReturnType DEF TypeOK
  <2>5. QED
    BY <1>4, <2>2, <2>4 DEF CancelNext, CancelEnded, TypeOK
<1>5. CASE CancelAndAwait(c, j)
  <2> DEFINE t == tasks[j]
  <2>1. t \in TaskIds
    BY <1>2, <1>5, ConstantsAssumption DEF CancelAndAwait, TypeOK, TaskIds
  <2>2. task' \in [TaskIds -> TaskRecord]
    <3>1. AwaitedTask(task[t], c) \in TaskRecord
      BY <2>1, AwaitedTaskType DEF TypeOK
    <3>2. task' = [task EXCEPT ![t] = AwaitedTask(task[t], c)]
      BY <1>5 DEF CancelAndAwait
    <3>3. QED
      BY <2>1, <3>1, <3>2 DEF TypeOK
  <2>3. ready' \in Seq(Handles)
    BY <1>5, <2>1, CancelHandlesType DEF CancelAndAwait, TypeOK
  <2>4. caller' \in [Callers -> CallerRecord]
    BY <1>2, <1>5, CrossOffType DEF CancelAndAwait
  <2>5. QED
    BY <1>5, <2>2, <2>3, <2>4 DEF CancelNext, CancelAndAwait, TypeOK
<1>6. QED
  BY <1>1, <1>3, <1>4, <1>5

\* The periodic sweep keeps the state well typed when it takes its next job.
LEMMA SweepNextType ==
  ASSUME TypeOK, NEW c \in Callers, SweepNext(c)
  PROVE  TypeOK'
<1>1. PICK j \in caller[c].work :
        /\ CrossOff(c, j)
        /\ IF Stale(j)
             THEN /\ task' = [task EXCEPT ![tasks[j]] = CancelledTask(@)]
                  /\ ready' = ready \o CancelHandles(tasks[j])
                  /\ tasks' = [tasks EXCEPT ![j] = 0]
             ELSE UNCHANGED <<task, ready, tasks>>
  BY DEF SweepNext
<1>2. j \in Jobs
  BY <1>1 DEF TypeOK, CallerRecord
<1>3. caller' \in [Callers -> CallerRecord]
  BY <1>1, <1>2, CrossOffType
<1>4. CASE Stale(j)
  <2>1. tasks[j] \in TaskIds
    BY <1>2, <1>4, ConstantsAssumption DEF Stale, TypeOK, TaskIds
  <2>2. task' \in [TaskIds -> TaskRecord]
    <3>1. CancelledTask(task[tasks[j]]) \in TaskRecord
      BY <2>1, CancelledTaskType DEF TypeOK
    <3>2. task' = [task EXCEPT ![tasks[j]] = CancelledTask(task[tasks[j]])]
      BY <1>1, <1>4
    <3>3. QED
      BY <2>1, <3>1, <3>2 DEF TypeOK
  <2>3. ready' \in Seq(Handles)
    <3>1. CancelHandles(tasks[j]) \in Seq(Handles)
      BY <2>1, CancelHandlesType
    <3>2. ready' = ready \o CancelHandles(tasks[j])
      BY <1>1, <1>4
    <3>3. QED
      BY <3>1, <3>2 DEF TypeOK
  <2>4. tasks' \in [Jobs -> 0..MaxTasks]
    BY <1>1, <1>2, <1>4, ConstantsAssumption DEF TypeOK
  <2>5. QED
    BY <1>3, <2>2, <2>3, <2>4 DEF SweepNext, TypeOK
<1>5. CASE ~Stale(j)
  BY <1>1, <1>3, <1>5 DEF SweepNext, TypeOK
<1>6. QED
  BY <1>4, <1>5

\* The last step of cancel_job and of the sweep keeps the state well typed.
LEMMA CallerEndsType ==
  ASSUME TypeOK, NEW c \in Callers, EndCancel(c) \/ EndSweep(c)
  PROVE  TypeOK'
<1>1. CASE EndCancel(c)
  <2>1. CASE Return(c)
    BY <1>1, <2>1, ReturnType DEF EndCancel, TypeOK
  <2>2. CASE /\ caller' = [caller EXCEPT ![c].op = "last_sweep",
                             ![c].work = {j \in Jobs : metadata[j].status # ABSENT}]
             /\ UNCHANGED holder
    <3>1. {j \in Jobs : metadata[j].status # ABSENT} \in SUBSET Jobs
      OBVIOUS
    <3>2. caller[c] \in CallerRecord
      BY DEF TypeOK
    <3>3. [caller[c] EXCEPT !.op = "last_sweep",
             !.work = {j \in Jobs : metadata[j].status # ABSENT}] \in CallerRecord
      BY <3>1, <3>2 DEF CallerRecord, Operation
    <3>4. caller' \in [Callers -> CallerRecord]
      BY <2>2, <3>3 DEF TypeOK
    <3>5. QED
      BY <1>1, <2>2, <3>4 DEF EndCancel, TypeOK
  <2>3. QED
    BY <1>1, <2>1, <2>2 DEF EndCancel
<1>2. CASE EndSweep(c)
  <2>1. [j \in Jobs |-> [status |-> ABSENT, of |-> 0]] \in [Jobs -> Entry]
    BY ConstantsAssumption DEF Entry
  <2>2. metadata' \in [Jobs -> Entry]
    BY <1>2, <2>1 DEF EndSweep, TypeOK
  <2>3. QED
    BY <1>2, <2>2, ReturnType DEF EndSweep, TypeOK
<1>3. QED
  BY <1>1, <1>2

\* The shutdown keeps the state well typed.
LEMMA ShutdownType == TypeOK /\ (BeginCleanupTasks \/ Exit) => TypeOK'
<1> SUFFICES ASSUME TypeOK, BeginCleanupTasks \/ Exit PROVE TypeOK'
  OBVIOUS
<1>1. CASE BeginCleanupTasks
  <2> DEFINE c == Head(ready).caller
  <2>1. c \in Callers /\ Tail(ready) \in Seq(Handles)
    BY <1>1, HeadOfReady, HandleFields DEF BeginCleanupTasks, AtHead
  <2>2. [caller[c] EXCEPT !.work = {j \in Jobs : tasks[j] # 0}] \in CallerRecord
    BY <2>1 DEF TypeOK, CallerRecord
  <2>3. caller' \in [Callers -> CallerRecord]
    BY <1>1, <2>1, <2>2 DEF BeginCleanupTasks, TypeOK
  <2>4. QED
    BY <1>1, <2>1, <2>3 DEF BeginCleanupTasks, TypeOK
<1>2. CASE Exit
  BY <1>2, HeadOfReady DEF Exit, AtHead, TypeOK
<1>3. QED
  BY <1>1, <1>2

\* The types of the variables are those TypeOK states, in every reachable state.
THEOREM TypeCorrectness == Spec => []TypeOK
<1>1. TypeOK /\ [Next]_vars => TypeOK'
  <2> SUFFICES ASSUME TypeOK, [Next]_vars PROVE TypeOK'
    OBVIOUS
  <2>1. CASE RunCallback
    BY <2>1, TaskStepType, HandleTaskDoneType, WakeType, ShutdownType DEF RunCallback
  <2>2. ASSUME NEW j \in Jobs, StartJob(j) PROVE TypeOK'
    BY <2>2, StartJobType
  <2>3. ASSUME NEW t \in TaskIds, Progress(t) \/ Unwound(t) PROVE TypeOK'
    BY <2>3, TaskStepType
  <2>4. ASSUME NEW c \in Callers, GoOn(c) PROVE TypeOK'
    BY <2>4, CancelNextType, SweepNextType, CallerEndsType DEF GoOn
  <2>5. ASSUME NEW c \in Callers,
               BeginCancel(c) \/ BeginCleanup(c) \/ BeginSweep(c) \/ Signal(c)
        PROVE  TypeOK'
    BY <2>5, CallerBeginsType
  <2>6. CASE UNCHANGED vars
    BY <2>6 DEF vars, TypeOK
  <2>7. QED
    BY <2>1, <2>2, <2>3, <2>4, <2>5, <2>6 DEF Next
<1>2. QED
  BY InitType, <1>1, PTL DEF Spec

--------------------------------------------------------------------------------
(* The inductive invariant                                                     *)

\* The invariant holds before the first job.
LEMMA InitIInv == Init => IInv
<1> SUFFICES ASSUME Init PROVE IInv
  OBVIOUS
<1>1. TypeOK
  BY InitType
<1>2. \A t \in TaskIds : task[t].state = "unborn" /\ t > created
  BY ConstantsAssumption DEF Init, TaskIds
<1>3. \A t \in TaskIds : ~Unfinished(t)
  BY <1>2 DEF Unfinished
<1>4. \A c \in Callers : caller[c].op = "idle"
  BY DEF Init, Idle
<1>5. ready = << >> /\ \A j \in Jobs : tasks[j] = 0
  BY DEF Init
<1>6. QED
  BY <1>1, <1>2, <1>3, <1>4, <1>5
  DEF IInv, BornInOrder, EntryIsOwn, LiveTaskIsTracked, TerminalMeansOver,
      AbsentMeansOver, Over, CallbackMeansOver, CleanupIsLast

\* What any step but start_job does to the tasks: they keep their job, and none
\* comes to life.
Ages == \A t \in TaskIds :
  /\ task'[t].job = task[t].job
  /\ Unfinished(t)' => Unfinished(t)
  /\ task'[t].state = "unborn" <=> task[t].state = "unborn"
  /\ task[t].state = "done" => task'[t].state = "done"

\* A callback in the queue was there before, or belongs to a job that is over.
CallbacksOldOrOver == \A i \in 1..Len(ready') :
  ready'[i].kind \in {"done", "wake"} =>
    \/ \E k \in 1..Len(ready) : ready'[i] = ready[k]
    \/ /\ ready'[i].task \in TaskIds
       /\ task'[ready'[i].task].state = "done"
       /\ \A j \in Jobs : task'[ready'[i].task].job = j => Over(j)'

\* A job that is over stays over in a step where executions only age.
LEMMA OverStays ==
  ASSUME Ages, NEW j, Over(j)
  PROVE  Over(j)'
  BY DEF Ages, Over

\* A callback in the queue belongs to a task.
LEMMA ReadyTask ==
  ASSUME TypeOK, NEW i \in 1..Len(ready), ready[i].kind \in {"done", "wake"}
  PROVE  ready[i].task \in TaskIds
<1>1. ready[i] \in Handles
  BY DEF TypeOK
<1>2. QED
  BY <1>1, HandleFields

\* The invariant survives a step that starts nothing, provided that it drops
\* entries, sets terminal statuses and queues callbacks only for jobs that are
\* over, and clears metadata only when the runner closes.
LEMMA Preserved ==
  ASSUME IInv, TypeOK', Ages, CallbacksOldOrOver,
         created' = created,
         closing => closing',
         \A j \in Jobs : tasks'[j] = tasks[j] \/ (tasks'[j] = 0 /\ Over(j)'),
         \A j \in Jobs : Terminal(j)' => Terminal(j) \/ Over(j)',
         \A j \in Jobs : metadata'[j].status = ABSENT =>
                           metadata[j].status = ABSENT \/ closing',
         \A c \in Callers : caller'[c].op \in {"cleanup", "last_sweep"} =>
                              caller[c].op \in {"cleanup", "last_sweep"} \/ closing'
  PROVE  IInv'
<1>1. TypeOK /\ \A t \in TaskIds : task[t].job \in Jobs
  BY DEF IInv, TypeOK, TaskRecord
<1>2. BornInOrder'
  BY DEF IInv, BornInOrder, Ages
<1>3. EntryIsOwn'
  <2> SUFFICES ASSUME NEW j \in Jobs, tasks'[j] # 0
               PROVE  tasks'[j] <= created' /\ task'[tasks'[j]].job = j
    BY DEF EntryIsOwn
  <2>1. tasks'[j] = tasks[j] /\ tasks[j] \in TaskIds
    BY <1>1, ConstantsAssumption DEF TypeOK, TaskIds
  <2>2. QED
    BY <2>1 DEF IInv, EntryIsOwn, Ages
<1>4. LiveTaskIsTracked'
  <2> SUFFICES ASSUME NEW t \in TaskIds, Unfinished(t)'
               PROVE  tasks'[task'[t].job] = t
    BY DEF LiveTaskIsTracked
  <2>1. PICK j \in Jobs : j = task[t].job
    BY <1>1
  <2>2. Unfinished(t) /\ task'[t].job = j
    BY <2>1 DEF Ages
  <2>3. tasks[j] = t
    BY <2>1, <2>2 DEF IInv, LiveTaskIsTracked
  <2>4. ~Over(j)'
    BY <2>2 DEF Over
  <2>5. QED
    BY <2>2, <2>3, <2>4
<1>5. TerminalMeansOver'
  <2>1. \A j \in Jobs : Terminal(j) => Over(j)
    BY DEF IInv, TerminalMeansOver, Over
  <2>2. \A j \in Jobs : Terminal(j)' => Over(j)'
    BY <2>1, OverStays
  <2>3. QED
    BY <2>2 DEF TerminalMeansOver, Over
<1>6. AbsentMeansOver'
  <2>1. \A j \in Jobs : metadata[j].status = ABSENT => closing \/ Over(j)'
    BY OverStays DEF IInv, AbsentMeansOver
  <2>2. QED
    BY <2>1 DEF AbsentMeansOver
<1>7. CallbackMeansOver'
  <2> SUFFICES ASSUME NEW i \in 1..Len(ready'), ready'[i].kind \in {"done", "wake"},
                      NEW u \in TaskIds
               PROVE  /\ task'[ready'[i].task].state = "done"
                      /\ task'[u].job = task'[ready'[i].task].job => ~Unfinished(u)'
    <3>1. TaskIds # {} \/ \A k \in 1..Len(ready') : ready'[k].kind \notin {"done", "wake"}
      <4>1. \A k \in 1..Len(ready') : ready'[k] \in Handles
        BY DEF TypeOK
      <4>2. QED
        BY <4>1, HandleFields
    <3>2. QED
      BY <3>1 DEF CallbackMeansOver, Over
  <2>1. CASE \E k \in 1..Len(ready) : ready'[i] = ready[k]
    <3>1. PICK k \in 1..Len(ready) : ready'[i] = ready[k]
      BY <2>1
    <3> DEFINE t == ready[k].task
    <3>2. t \in TaskIds
      BY <1>1, <3>1, ReadyTask
    <3>3. task[t].state = "done" /\ Over(task[t].job)
      BY <3>1 DEF IInv, CallbackMeansOver
    <3>4. task'[t].state = "done" /\ task'[t].job = task[t].job
      BY <3>2, <3>3 DEF Ages
    <3>5. task[u].job = task[t].job => ~Unfinished(u)
      BY <3>3 DEF Over
    <3>6. task'[u].job = task[u].job /\ (Unfinished(u)' => Unfinished(u))
      BY DEF Ages
    <3>7. QED
      BY <3>1, <3>4, <3>5, <3>6
  <2>2. CASE /\ ready'[i].task \in TaskIds
             /\ task'[ready'[i].task].state = "done"
             /\ \A j \in Jobs : task'[ready'[i].task].job = j => Over(j)'
    <3>1. PICK j \in Jobs : j = task'[ready'[i].task].job
      BY <1>1, <2>2 DEF Ages
    <3>2. Over(j)'
      BY <2>2, <3>1
    <3>3. QED
      BY <2>2, <3>1, <3>2 DEF Over
  <2>3. QED
    BY <2>1, <2>2 DEF CallbacksOldOrOver
<1>8. CleanupIsLast'
  BY DEF IInv, CleanupIsLast
<1>9. QED
  BY <1>2, <1>3, <1>4, <1>5, <1>6, <1>7, <1>8 DEF IInv

\* The queue q holds nothing that `ready' does not.
OldQueue(q) ==
  q \in Seq(Handles) /\ \A i \in 1..Len(q) : \E k \in 1..Len(ready) : q[i] = ready[k]

\* The queue of the event loop, and what is left of it, hold old handles only.
LEMMA OldQueues ==
  ASSUME TypeOK
  PROVE  OldQueue(ready) /\ (ready # << >> => OldQueue(Tail(ready)))
<1>1. OldQueue(ready)
  BY DEF TypeOK, OldQueue
<1>2. ASSUME ready # << >> PROVE OldQueue(Tail(ready))
  <2>1. /\ Len(ready) \in Nat /\ Len(ready) >= 1
        /\ Tail(ready) \in Seq(Handles)
        /\ Len(Tail(ready)) = Len(ready) - 1
        /\ \A i \in 1..Len(Tail(ready)) : Tail(ready)[i] = ready[i + 1]
    BY <1>2, EmptySeq, HeadTailProperties DEF TypeOK
  <2>2. \A i \in 1..Len(Tail(ready)) : i + 1 \in 1..Len(ready)
    BY <2>1
  <2>3. QED
    BY <2>1, <2>2 DEF OldQueue
<1>3. QED
  BY <1>1, <1>2

\* The callbacks in the queue q, steps of tasks apart, are in `ready'.
OldCallbacks(q) ==
  /\ q \in Seq(Handles)
  /\ \A i \in 1..Len(q) :
       q[i].kind \in {"done", "wake"} => \E k \in 1..Len(ready) : q[i] = ready[k]

\* New steps of executions behind old callbacks leave the callbacks old.
LEMMA AppendSteps ==
  ASSUME NEW q, OldCallbacks(q), NEW p \in Seq(Handles),
         \A i \in 1..Len(p) : p[i].kind \notin {"done", "wake"}
  PROVE  OldCallbacks(q \o p)
<1>1. /\ q \in Seq(Handles) /\ q \o p \in Seq(Handles)
      /\ Len(q) \in Nat /\ Len(p) \in Nat /\ Len(q \o p) = Len(q) + Len(p)
  BY ConcatProperties DEF OldCallbacks
<1> SUFFICES ASSUME NEW i \in 1..Len(q \o p), (q \o p)[i].kind \in {"done", "wake"}
             PROVE  \E k \in 1..Len(ready) : (q \o p)[i] = ready[k]
  BY <1>1 DEF OldCallbacks
<1>2. CASE i <= Len(q)
  <2>1. i \in 1..Len(q) /\ (q \o p)[i] = q[i]
    BY <1>1, <1>2, ConcatProperties
  <2>2. QED
    BY <2>1 DEF OldCallbacks
<1>3. CASE i > Len(q)
  <2>1. i - Len(q) \in 1..Len(p) /\ (q \o p)[i] = p[i - Len(q)]
    BY <1>1, <1>3, ConcatProperties
  <2>2. QED
    BY <2>1
<1>4. QED
  BY <1>1, <1>2, <1>3

\* Handles of kind "step" may be appended to an old queue.
LEMMA StepsAppended ==
  ASSUME TypeOK, NEW q \in Seq(Handles), OldQueue(q), NEW p \in Seq(Handles),
         \A i \in 1..Len(p) : p[i].kind \notin {"done", "wake"},
         ready' = q \o p
  PROVE  CallbacksOldOrOver
<1>1. OldCallbacks(q)
  BY DEF OldQueue, OldCallbacks
<1>2. OldCallbacks(ready')
  BY <1>1, AppendSteps
<1>3. QED
  BY <1>2 DEF OldCallbacks, CallbacksOldOrOver

\* A step that puts no callback in the queue leaves the callbacks old.
LEMMA SameQueue ==
  ASSUME TypeOK, OldQueue(ready')
  PROVE  CallbacksOldOrOver
  BY DEF OldQueue, CallbacksOldOrOver

\* When the execution of a job ends, the job is over: there was no other one.
LEMMA EndTaskEffect ==
  ASSUME IInv, NEW t \in TaskIds, Unfinished(t), NEW r \in TaskResult,
         NEW q, OldQueue(q), EndTask(t, r, q)
  PROVE  /\ Ages
         /\ CallbacksOldOrOver
         /\ \A j \in Jobs : task[t].job = j => Over(j)'
<1>1. TypeOK /\ task[t] \in TaskRecord
  BY DEF IInv, TypeOK
<1> DEFINE tk == [task[t] EXCEPT !.state = "done", !.result = r, !.cancelling = FALSE]
<1>2. tk.job = task[t].job /\ tk.state = "done"
  BY <1>1 DEF TaskRecord
<1>3. task' = [task EXCEPT ![t] = tk] /\ task \in [TaskIds -> TaskRecord]
  BY <1>1 DEF EndTask, TypeOK
<1> HIDE DEF tk
<1>4. Ages
  <2> SUFFICES ASSUME NEW u \in TaskIds
               PROVE  /\ task'[u].job = task[u].job
                      /\ Unfinished(u)' => Unfinished(u)
                      /\ task'[u].state = "unborn" <=> task[u].state = "unborn"
                      /\ task[u].state = "done" => task'[u].state = "done"
    BY DEF Ages
  <2>1. CASE u = t
    BY <1>2, <1>3, <2>1 DEF Unfinished
  <2>2. CASE u # t
    BY <1>3, <2>2 DEF Unfinished
  <2>3. QED
    BY <2>1, <2>2
<1>5. ASSUME NEW j \in Jobs, task[t].job = j PROVE Over(j)'
  <2> SUFFICES ASSUME NEW u \in TaskIds, task'[u].job = j, Unfinished(u)' PROVE FALSE
    BY DEF Over
  <2>1. task[u].job = j /\ Unfinished(u)
    BY <1>4 DEF Ages
  <2>2. u = t
    BY <1>5, <2>1 DEF IInv, LiveTaskIsTracked
  <2>3. QED
    BY <1>2, <1>3, <2>2 DEF Unfinished
<1>6. CallbacksOldOrOver
  <2> DEFINE p == Callbacks(t)
             n == Len(task[t].waiters)
  <2>1. p \in Seq(Handles)
    BY <1>1, CallbacksType
  <2>2. \A i \in 1..Len(p) : p[i].task = t
    <3> DEFINE h == <<Handle("done", t, Nobody)>>
               w == [i \in 1..n |-> Handle("wake", t, task[t].waiters[i])]
    <3>1. task[t].waiters \in Seq(Callers) /\ n \in Nat
      BY <1>1 DEF TaskRecord
    <3>2. \A i \in 1..n : task[t].waiters[i] \in Callers
      BY <3>1
    <3>3. w \in [1..n -> Handles]
      BY <3>2, HandleTypes
    <3>4. w \in Seq(Handles) /\ Len(w) = n
      BY <3>1, <3>3, SeqDef, LenProperties
    <3>5. h \in Seq(Handles) /\ Len(h) = 1 /\ h[1].task = t
      <4>1. Handle("done", t, Nobody) \in Handles /\ Handle("done", t, Nobody).task = t
        BY DEF Handle, Handles
      <4>2. QED
        BY <4>1
    <3>6. \A i \in 1..n : w[i].task = t
      BY DEF Handle
    <3>7. p = h \o w
      BY DEF Callbacks
    <3> HIDE DEF h, w, n, p
    <3>8. /\ Len(p) = 1 + n
          /\ \A i \in 1..1 + n : p[i] = IF i <= 1 THEN h[i] ELSE w[i - 1]
      <4>1. /\ Len(h \o w) = Len(h) + Len(w)
            /\ \A i \in 1..Len(h) + Len(w) :
                 (h \o w)[i] = IF i <= Len(h) THEN h[i] ELSE w[i - Len(h)]
        BY <3>4, <3>5, ConcatProperties
      <4>2. QED
        BY <3>4, <3>5, <3>7, <4>1
    <3>9. \A i \in 1..1 + n : p[i].task = t
      BY <3>1, <3>5, <3>6, <3>8
    <3>10. QED
      BY <3>8, <3>9
  <2> HIDE DEF p, n
  <2>3. ready' = q \o p /\ q \in Seq(Handles)
    BY DEF EndTask, p, OldQueue
  <2>4. Len(q) \in Nat /\ Len(p) \in Nat /\ Len(ready') = Len(q) + Len(p)
    BY <2>1, <2>3, ConcatProperties
  <2>5. task'[t].state = "done" /\ task'[t].job = task[t].job
    BY <1>2, <1>3
  <2> SUFFICES ASSUME NEW i \in 1..Len(ready'), ready'[i].kind \in {"done", "wake"}
               PROVE  \/ \E k \in 1..Len(ready) : ready'[i] = ready[k]
                      \/ ready'[i].task = t
    BY <1>5, <2>5 DEF CallbacksOldOrOver
  <2>6. CASE i <= Len(q)
    <3>1. i \in 1..Len(q) /\ ready'[i] = q[i]
      BY <2>1, <2>3, <2>4, <2>6, ConcatProperties
    <3>2. QED
      BY <3>1 DEF OldQueue
  <2>7. CASE i > Len(q)
    <3>1. i - Len(q) \in 1..Len(p) /\ ready'[i] = p[i - Len(q)]
      BY <2>1, <2>3, <2>4, <2>7, ConcatProperties
    <3>2. QED
      BY <2>2, <3>1
  <2>8. QED
    BY <2>4, <2>6, <2>7
<1>7. QED
  BY <1>4, <1>5, <1>6

\* Setting the status of a job changes that status and no other.
LEMMA SetStatusEffect ==
  ASSUME TypeOK, NEW j \in Jobs, NEW s, SetStatus(j, s)
  PROVE  \A i \in Jobs :
           metadata'[i].status = IF i = j THEN s ELSE metadata[i].status
  BY DEF SetStatus, TypeOK, Entry

\* The end of an execution keeps the invariant, with or without a status.
LEMMA EndTaskKeeps ==
  ASSUME IInv, TypeOK', NEW t \in TaskIds, Unfinished(t), NEW r \in TaskResult,
         NEW q, OldQueue(q), EndTask(t, r, q),
         UNCHANGED metadata \/ \E s \in JobStatus : SetStatus(task[t].job, s),
         UNCHANGED <<tasks, created, caller, closing>>
  PROVE  IInv'
<1>1. TypeOK /\ task[t].job \in Jobs
  BY DEF IInv, TypeOK, TaskRecord
<1>2. Ages /\ CallbacksOldOrOver /\ \A j \in Jobs : task[t].job = j => Over(j)'
  BY EndTaskEffect
<1>3. \A j \in Jobs : \/ metadata'[j].status = metadata[j].status
                      \/ metadata'[j].status \in JobStatus /\ Over(j)'
  BY <1>1, <1>2, SetStatusEffect
<1>4. \A j \in Jobs : Terminal(j)' => Terminal(j) \/ Over(j)'
  BY <1>3 DEF Terminal
<1>5. \A j \in Jobs : metadata'[j].status = ABSENT => metadata[j].status = ABSENT
  BY <1>3 DEF JobStatus, ABSENT, PENDING, RUNNING, COMPLETED, FAILED, CANCELED, STOPPED
<1>6. QED
  BY <1>2, <1>4, <1>5, Preserved

\* An execution that ends and sets its status keeps the invariant.
LEMMA EndWithStatusKeeps ==
  ASSUME IInv, TypeOK', NEW t \in TaskIds, Unfinished(t), NEW s \in JobStatus,
         NEW q, OldQueue(q), EndWithStatus(t, s, q),
         UNCHANGED <<tasks, created, caller, closing>>
  PROVE  IInv'
<1>1. "return" \in TaskResult /\ "raise" \in TaskResult
  BY DEF TaskResult
<1>2. CASE SetStatus(task[t].job, s) /\ EndTask(t, "return", q)
  BY <1>1, <1>2, EndTaskKeeps
<1>3. CASE UNCHANGED metadata /\ EndTask(t, "raise", q)
  BY <1>1, <1>3, EndTaskKeeps
<1>4. QED
  BY <1>2, <1>3 DEF EndWithStatus

\* A step after which the execution of a task goes on.
LEMMA GoingOnKeeps ==
  ASSUME IInv, TypeOK', NEW t \in TaskIds, Unfinished(t),
         NEW tk, tk.job = task[t].job, tk.state \in {"running", "unwinding"},
         task' = [task EXCEPT ![t] = tk], OldQueue(ready'),
         UNCHANGED metadata \/ SetStatus(task[t].job, RUNNING),
         UNCHANGED <<tasks, created, caller, closing>>
  PROVE  IInv'
<1>1. TypeOK /\ task[t].job \in Jobs /\ task \in [TaskIds -> TaskRecord]
  BY DEF IInv, TypeOK, TaskRecord
<1>2. Ages
  <2> SUFFICES ASSUME NEW u \in TaskIds
               PROVE  /\ task'[u].job = task[u].job
                      /\ Unfinished(u)' => Unfinished(u)
                      /\ task'[u].state = "unborn" <=> task[u].state = "unborn"
                      /\ task[u].state = "done" => task'[u].state = "done"
    BY DEF Ages
  <2>1. CASE u = t
    BY <1>1, <2>1 DEF Unfinished
  <2>2. CASE u # t
    BY <1>1, <2>2 DEF Unfinished
  <2>3. QED
    BY <2>1, <2>2
<1>3. CallbacksOldOrOver
  BY <1>1, SameQueue
<1>4. \A j \in Jobs : \/ metadata'[j].status = metadata[j].status
                      \/ metadata'[j].status = RUNNING
  BY <1>1, SetStatusEffect
<1>5. \A j \in Jobs : Terminal(j)' => Terminal(j)
  BY <1>4 DEF Terminal, TerminalStates, RUNNING, COMPLETED, FAILED, CANCELED
<1>6. \A j \in Jobs : metadata'[j].status = ABSENT => metadata[j].status = ABSENT
  BY <1>4 DEF ABSENT, RUNNING
<1>7. QED
  BY <1>2, <1>3, <1>5, <1>6, Preserved

\* The first step of an execution keeps the invariant.
LEMMA FirstStepKeeps == IInv /\ FirstStep => IInv'
<1> SUFFICES ASSUME IInv, FirstStep PROVE IInv'
  OBVIOUS
<1> DEFINE t == Head(ready).task
           q == Tail(ready)
<1>1. TypeOK /\ TypeOK'
  BY TaskStepType DEF IInv
<1>2. t \in TaskIds /\ OldQueue(q) /\ Unfinished(t)
  BY <1>1, HeadOfReady, HandleFields, OldQueues DEF FirstStep, AtHead, Unfinished
<1>3. UNCHANGED <<tasks, created, caller, closing>>
  BY DEF FirstStep
<1>4. /\ "return" \in TaskResult /\ "raise" \in TaskResult /\ "cancelled" \in TaskResult
      /\ RUNNING \in JobStatus /\ FAILED \in JobStatus
  BY DEF TaskResult, JobStatus
<1>5. CASE (EndTask(t, "cancelled", q) \/ EndTask(t, "raise", q)) /\ UNCHANGED metadata
  BY <1>1, <1>2, <1>3, <1>4, <1>5, EndTaskKeeps
<1>6. CASE /\ SetStatus(task[t].job, RUNNING) \/ SetStatus(task[t].job, FAILED)
           /\ EndTask(t, "return", q)
  BY <1>1, <1>2, <1>3, <1>4, <1>6, EndTaskKeeps
<1>7. CASE /\ SetStatus(task[t].job, RUNNING)
           /\ task' = [task EXCEPT ![t].state = "running"]
           /\ ready' = q
  <2> DEFINE tk == [task[t] EXCEPT !.state = "running"]
  <2>1. tk.job = task[t].job /\ tk.state = "running"
    BY <1>1, <1>2 DEF TypeOK, TaskRecord
  <2>2. task' = [task EXCEPT ![t] = tk]
    BY <1>7
  <2> HIDE DEF tk
  <2>3. QED
    BY <1>1, <1>2, <1>3, <1>7, <2>1, <2>2, GoingOnKeeps
<1>8. QED
  BY <1>5, <1>6, <1>7 DEF FirstStep

\* A cancellation that reaches an execution keeps the invariant.
LEMMA CancelledStepKeeps == IInv /\ CancelledStep => IInv'
<1> SUFFICES ASSUME IInv, CancelledStep PROVE IInv'
  OBVIOUS
<1> DEFINE t == Head(ready).task
           q == Tail(ready)
<1>1. TypeOK /\ TypeOK'
  BY TaskStepType DEF IInv
<1>2. t \in TaskIds /\ OldQueue(q) /\ Unfinished(t)
  BY <1>1, HeadOfReady, HandleFields, OldQueues DEF CancelledStep, AtHead, Unfinished
<1>3. UNCHANGED <<tasks, created, caller, closing>>
  BY DEF CancelledStep
<1>4. CASE BeginUnwinding(t) /\ ready' = q
  <2> DEFINE tk == [task[t] EXCEPT !.state = "unwinding", !.cancelling = FALSE]
  <2>1. tk.job = task[t].job /\ tk.state = "unwinding"
    BY <1>1, <1>2 DEF TypeOK, TaskRecord
  <2>2. task' = [task EXCEPT ![t] = tk] /\ UNCHANGED metadata
    BY <1>4 DEF BeginUnwinding
  <2> HIDE DEF tk
  <2>3. QED
    BY <1>1, <1>2, <1>3, <1>4, <2>1, <2>2, GoingOnKeeps
<1>5. CASE EndWithStatus(t, CANCELED, q) \/ EndWithStatus(t, FAILED, q)
  <2>1. CANCELED \in JobStatus /\ FAILED \in JobStatus
    BY DEF JobStatus
  <2>2. QED
    BY <1>1, <1>2, <1>3, <1>5, <2>1, EndWithStatusKeeps
<1>6. QED
  BY <1>4, <1>5 DEF CancelledStep

\* The job function, as it goes on or is unwound, keeps the invariant.
LEMMA JobFunctionKeeps ==
  ASSUME IInv, NEW t \in TaskIds, Progress(t) \/ Unwound(t)
  PROVE  IInv'
<1>1. TypeOK /\ TypeOK'
  BY TaskStepType DEF IInv
<1>2. OldQueue(ready) /\ Unfinished(t)
  BY <1>1, OldQueues DEF Progress, Unwound, Unfinished
<1>3. UNCHANGED <<tasks, created, caller, closing>>
  BY DEF Progress, Unwound
<1>4. "return" \in TaskResult /\ CANCELED \in JobStatus /\ FAILED \in JobStatus
  BY DEF TaskResult, JobStatus
<1>5. CASE EndTask(t, "return", ready) /\ UNCHANGED metadata
  BY <1>1, <1>2, <1>3, <1>4, <1>5, EndTaskKeeps
<1>6. CASE EndWithStatus(t, CANCELED, ready) \/ EndWithStatus(t, FAILED, ready)
  BY <1>1, <1>2, <1>3, <1>4, <1>6, EndWithStatusKeeps
<1>7. QED
  BY <1>5, <1>6 DEF Progress, Unwound

\* Executions that do not change only age.
LEMMA SameTasks ==
  ASSUME UNCHANGED task
  PROVE  Ages
  BY DEF Ages, Unfinished

\* A callback at the head of the queue says that its job is over.
LEMMA CallbackAtHead ==
  ASSUME IInv, ready # << >>, Head(ready).kind \in {"done", "wake"}
  PROVE  /\ Head(ready).task \in TaskIds
         /\ task[Head(ready).task].state = "done"
         /\ task[Head(ready).task].job \in Jobs
         /\ Over(task[Head(ready).task].job)
<1>1. TypeOK
  BY DEF IInv
<1>2. 1 \in 1..Len(ready) /\ Head(ready) = ready[1]
  BY <1>1, HeadOfReady, EmptySeq DEF TypeOK
<1>3. Head(ready).task \in TaskIds
  BY <1>1, HeadOfReady, HandleFields
<1>4. QED
  BY <1>1, <1>2, <1>3 DEF IInv, CallbackMeansOver, TypeOK, TaskRecord

\* _handle_task_done keeps the invariant.
LEMMA HandleTaskDoneKeeps == IInv /\ HandleTaskDone => IInv'
<1> SUFFICES ASSUME IInv, HandleTaskDone PROVE IInv'
  OBVIOUS
<1>1. TypeOK /\ TypeOK'
  BY HandleTaskDoneType DEF IInv
<1>2. PICK i \in Jobs : i = task[Head(ready).task].job
  BY CallbackAtHead DEF HandleTaskDone, AtHead
<1>3. PICK s : s = FinalStatus(metadata[i].status, task[Head(ready).task].result)
  OBVIOUS
<1>4. Over(i) /\ OldQueue(ready')
  BY <1>1, <1>2, CallbackAtHead, OldQueues DEF HandleTaskDone, AtHead
<1>5. Ages /\ CallbacksOldOrOver /\ Over(i)'
  BY <1>1, <1>4, SameTasks, SameQueue, OverStays DEF HandleTaskDone
<1>6. tasks' = [tasks EXCEPT ![i] = 0] /\ SetStatus(i, s)
  BY <1>2, <1>3 DEF HandleTaskDone
<1>7. \A j \in Jobs : metadata'[j].status = IF j = i THEN s ELSE metadata[j].status
  BY <1>1, <1>6, SetStatusEffect
<1>8. s = ABSENT => metadata[i].status = ABSENT
  BY <1>3 DEF FinalStatus, FAILED, COMPLETED, ABSENT
<1>9. \A j \in Jobs : tasks'[j] = tasks[j] \/ (tasks'[j] = 0 /\ Over(j)')
  BY <1>1, <1>5, <1>6 DEF TypeOK
<1>10. \A j \in Jobs : Terminal(j)' => Terminal(j) \/ Over(j)'
  BY <1>5, <1>7 DEF Terminal
<1>11. \A j \in Jobs : metadata'[j].status = ABSENT => metadata[j].status = ABSENT
  BY <1>7, <1>8
<1>12. UNCHANGED <<created, caller, closing>>
  BY DEF HandleTaskDone
<1>13. QED
  BY <1>1, <1>5, <1>9, <1>10, <1>11, <1>12, Preserved

\* cancel_job changes the status of the job it cancels only, and to CANCELED.
LEMMA MarkCanceledEffect ==
  ASSUME TypeOK, NEW i \in Jobs, MarkCanceled(i)
  PROVE  \A j \in Jobs : \/ metadata'[j].status = metadata[j].status
                         \/ metadata'[j].status = CANCELED /\ j = i
<1>1. CASE UNCHANGED metadata
  BY <1>1
<1>2. CASE SetStatus(i, CANCELED)
  BY <1>2, SetStatusEffect
<1>3. QED
  BY <1>1, <1>2 DEF MarkCanceled

\* A caller that goes on or stops does not take up a new operation.
LEMMA CallerGoesOn ==
  ASSUME TypeOK, NEW c \in Callers,
         (\E j \in Jobs : CrossOff(c, j)) \/ Return(c) \/ UNCHANGED caller
  PROVE  \A b \in Callers : \/ caller'[b].op = caller[b].op
                            \/ caller'[b].op = "idle"
  BY DEF CrossOff, Return, Idle, TypeOK, CallerRecord

\* A status set to CANCELED for a job that is over keeps the invariant.
LEMMA CanceledKeeps ==
  ASSUME IInv, TypeOK', UNCHANGED <<tasks, task, created, closing>>, OldQueue(ready'),
         NEW i \in Jobs, Over(i),
         UNCHANGED metadata \/ MarkCanceled(i),
         \A b \in Callers : caller'[b].op = caller[b].op \/ caller'[b].op = "idle"
  PROVE  IInv'
<1>1. TypeOK
  BY DEF IInv
<1>2. Ages /\ CallbacksOldOrOver
  BY <1>1, SameTasks, SameQueue
<1>3. Over(i)'
  BY <1>2, OverStays
<1>4. \A j \in Jobs : \/ metadata'[j].status = metadata[j].status
                      \/ metadata'[j].status = CANCELED /\ Over(j)'
  BY <1>1, <1>3, MarkCanceledEffect
<1>5. \A j \in Jobs : Terminal(j)' => Terminal(j) \/ Over(j)'
  BY <1>4 DEF Terminal
<1>6. \A j \in Jobs : metadata'[j].status = ABSENT => metadata[j].status = ABSENT
  BY <1>4 DEF CANCELED, ABSENT
<1>7. QED
  BY <1>2, <1>5, <1>6, Preserved

\* A caller woken by the end of the task it awaits keeps the invariant.
LEMMA WakeKeeps == IInv /\ Wake => IInv'
<1> SUFFICES ASSUME IInv, Wake PROVE IInv'
  OBVIOUS
<1> DEFINE c == Head(ready).caller
           i == task[Head(ready).task].job
<1>1. TypeOK /\ TypeOK'
  BY WakeType DEF IInv
<1>2. c \in Callers /\ i \in Jobs /\ Over(i) /\ OldQueue(ready')
  BY <1>1, HeadOfReady, HandleFields, CallbackAtHead, OldQueues DEF Wake, AtHead
<1>3. \/ Return(c) /\ UNCHANGED metadata
      \/ MarkCanceled(i) /\ UNCHANGED caller
  BY DEF Wake
<1>4. UNCHANGED <<tasks, task, created, closing>>
  BY DEF Wake
<1> HIDE DEF c, i
<1>5. \A b \in Callers : caller'[b].op = caller[b].op \/ caller'[b].op = "idle"
  BY <1>1, <1>2, <1>3, CallerGoesOn
<1>6. QED
  BY <1>1, <1>2, <1>3, <1>4, <1>5, CanceledKeeps

\* One task gets another record with the same job and state.
LEMMA SameProgress ==
  ASSUME TypeOK, NEW t \in TaskIds, NEW tk, tk.job = task[t].job, tk.state = task[t].state,
         task' = [task EXCEPT ![t] = tk]
  PROVE  Ages
<1> SUFFICES ASSUME NEW u \in TaskIds
             PROVE  task'[u].job = task[u].job /\ task'[u].state = task[u].state
  BY DEF Ages, Unfinished
<1>1. task \in [TaskIds -> TaskRecord]
  BY DEF TypeOK
<1>2. QED
  BY <1>1

\* A cancellation adds no callback to the queue.
LEMMA CancelHandlesAppended ==
  ASSUME TypeOK, NEW t \in TaskIds, ready' = ready \o CancelHandles(t)
  PROVE  CallbacksOldOrOver
<1>1. CancelHandles(t) \in Seq(Handles)
  BY CancelHandlesType
<1>2. \A i \in 1..Len(CancelHandles(t)) : CancelHandles(t)[i].kind = "step"
  BY DEF CancelHandles, Handle
<1>3. ready \in Seq(Handles) /\ OldQueue(ready)
  BY OldQueues DEF TypeOK
<1>4. QED
  BY <1>1, <1>2, <1>3, StepsAppended

\* An entry of `tasks' that has ended: no other execution of the job is live.
LEMMA EndedEntry ==
  ASSUME IInv, NEW j \in Jobs, tasks[j] # 0, task[tasks[j]].state = "done"
  PROVE  Over(j)
  BY DEF IInv, LiveTaskIsTracked, Over, Unfinished

\* cancel_job keeps the invariant when it takes the next job of its list.
LEMMA CancelNextKeeps ==
  ASSUME IInv, NEW c \in Callers, CancelNext(c)
  PROVE  IInv'
<1>1. TypeOK /\ TypeOK'
  BY CancelNextType DEF IInv
<1>2. PICK j \in caller[c].work : CancelNothing(c, j) \/ CancelEnded(c, j) \/ CancelAndAwait(c, j)
  BY DEF CancelNext
<1>3. j \in Jobs
  BY <1>1 DEF TypeOK, CallerRecord
<1>4. UNCHANGED <<tasks, created, closing>>
  BY DEF CancelNext
<1>5. \A b \in Callers : caller'[b].op = caller[b].op \/ caller'[b].op = "idle"
  <2>1. CrossOff(c, j) \/ Return(c)
    BY <1>2 DEF CancelNothing, CancelEnded, CancelAndAwait
  <2>2. QED
    BY <1>1, <1>3, <2>1, CallerGoesOn
<1>6. CASE CancelNothing(c, j)
  <2>1. UNCHANGED <<metadata, task, ready>>
    BY <1>6 DEF CancelNothing
  <2>2. Ages /\ CallbacksOldOrOver
    BY <1>1, <2>1, SameTasks, SameQueue, OldQueues
  <2>3. QED
    BY <1>1, <1>4, <1>5, <2>1, <2>2, Preserved DEF Terminal
<1>7. CASE CancelEnded(c, j)
  <2>1. Over(j)
    BY <1>3, <1>7, EndedEntry DEF CancelEnded
  <2>2. UNCHANGED <<task, ready>> /\ (UNCHANGED metadata \/ MarkCanceled(j))
    BY <1>7 DEF CancelEnded
  <2>3. OldQueue(ready')
    BY <1>1, <2>2, OldQueues
  <2>4. QED
    BY <1>1, <1>3, <1>4, <1>5, <2>1, <2>2, <2>3, CanceledKeeps
<1>8. CASE CancelAndAwait(c, j)
  <2>1. PICK t \in TaskIds : t = tasks[j]
    BY <1>1, <1>3, <1>8, ConstantsAssumption DEF CancelAndAwait, TypeOK, TaskIds
  <2>2. /\ AwaitedTask(task[t], c).job = task[t].job
        /\ AwaitedTask(task[t], c).state = task[t].state
    BY <1>1, AwaitedTaskType DEF TypeOK
  <2>3. /\ task' = [task EXCEPT ![t] = AwaitedTask(task[t], c)]
        /\ ready' = ready \o CancelHandles(t)
        /\ UNCHANGED metadata
    BY <1>8, <2>1 DEF CancelAndAwait
  <2>4. Ages
    BY <1>1, <2>2, <2>3, SameProgress
  <2>5. CallbacksOldOrOver
    BY <1>1, <2>3, CancelHandlesAppended
  <2>6. QED
    BY <1>1, <1>4, <1>5, <2>3, <2>4, <2>5, Preserved DEF Terminal
<1>9. QED
  BY <1>2, <1>6, <1>7, <1>8

\* The periodic sweep keeps the invariant when it takes its next job.
LEMMA SweepNextKeeps ==
  ASSUME IInv, NEW c \in Callers, SweepNext(c)
  PROVE  IInv'
<1>1. TypeOK /\ TypeOK'
  BY SweepNextType DEF IInv
<1>2. PICK j \in caller[c].work :
        /\ CrossOff(c, j)
        /\ IF Stale(j)
             THEN /\ task' = [task EXCEPT ![tasks[j]] = CancelledTask(@)]
                  /\ ready' = ready \o CancelHandles(tasks[j])
                  /\ tasks' = [tasks EXCEPT ![j] = 0]
             ELSE UNCHANGED <<task, ready, tasks>>
  BY DEF SweepNext
<1>3. j \in Jobs
  BY <1>1 DEF TypeOK, CallerRecord
<1>4. UNCHANGED <<metadata, created, closing>>
  BY DEF SweepNext
<1>5. \A b \in Callers : caller'[b].op = caller[b].op \/ caller'[b].op = "idle"
  BY <1>1, <1>2, <1>3, CallerGoesOn
<1>6. CASE Stale(j)
  <2>1. PICK t \in TaskIds : t = tasks[j]
    BY <1>1, <1>3, <1>6, ConstantsAssumption DEF Stale, TypeOK, TaskIds
  <2>2. /\ CancelledTask(task[t]).job = task[t].job
        /\ CancelledTask(task[t]).state = task[t].state
    BY <1>1, CancelledTaskType DEF TypeOK
  <2>3. /\ task' = [task EXCEPT ![t] = CancelledTask(task[t])]
        /\ ready' = ready \o CancelHandles(t)
        /\ tasks' = [tasks EXCEPT ![j] = 0]
    BY <1>2, <1>6, <2>1
  <2>4. Ages
    BY <1>1, <2>2, <2>3, SameProgress
  <2>5. CallbacksOldOrOver
    BY <1>1, <2>3, CancelHandlesAppended
  <2>6. Over(j)'
    <3>1. Over(j)
      BY <1>3, <1>6 DEF Stale, IInv, TerminalMeansOver, Over
    <3>2. QED
      BY <2>4, <3>1, OverStays
  <2>7. \A i \in Jobs : tasks'[i] = tasks[i] \/ (tasks'[i] = 0 /\ Over(i)')
    BY <1>1, <2>3, <2>6 DEF TypeOK
  <2>8. QED
    BY <1>1, <1>4, <1>5, <2>4, <2>5, <2>7, Preserved DEF Terminal
<1>7. CASE ~Stale(j)
  <2>1. UNCHANGED <<task, ready, tasks>>
    BY <1>2, <1>7
  <2>2. Ages /\ CallbacksOldOrOver
    BY <1>1, <2>1, SameTasks, SameQueue, OldQueues
  <2>3. QED
    BY <1>1, <1>4, <1>5, <2>1, <2>2, Preserved DEF Terminal
<1>8. QED
  BY <1>6, <1>7

\* A step of a caller that touches no job.
LEMMA CallersOnly ==
  ASSUME IInv, TypeOK', UNCHANGED <<metadata, tasks, task, created>>, CallbacksOldOrOver,
         closing => closing',
         \A c \in Callers : caller'[c].op \in {"cleanup", "last_sweep"} =>
                              caller[c].op \in {"cleanup", "last_sweep"} \/ closing'
  PROVE  IInv'
<1>1. Ages
  BY SameTasks
<1>2. QED
  BY <1>1, Preserved DEF Terminal

\* The first step of every call keeps the invariant.
LEMMA CallerBeginsKeeps ==
  ASSUME IInv, NEW c \in Callers,
         BeginCancel(c) \/ BeginCleanup(c) \/ BeginSweep(c) \/ Signal(c)
  PROVE  IInv'
<1>1. TypeOK /\ TypeOK'
  BY CallerBeginsType DEF IInv
<1>2. UNCHANGED <<metadata, tasks, task, created>> /\ (closing => closing')
  BY DEF BeginCancel, BeginCleanup, BeginSweep, Signal
<1>3. CallbacksOldOrOver
  <2>1. CASE UNCHANGED ready
    BY <1>1, <2>1, OldQueues, SameQueue
  <2>2. CASE Signal(c)
    <3> DEFINE p == <<Handle("begin", 0, c), Handle("exit", 0, Nobody)>>
    <3>1. Handle("begin", 0, c) \in Handles /\ Handle("exit", 0, Nobody) \in Handles
      BY DEF Handle, Handles
    <3>2. p \in Seq(Handles) /\ \A i \in 1..Len(p) : p[i].kind \notin {"done", "wake"}
      BY <3>1 DEF Handle
    <3>3. ready' = ready \o p
      BY <2>2 DEF Signal
    <3> HIDE DEF p
    <3>4. ready \in Seq(Handles) /\ OldQueue(ready)
      BY <1>1, OldQueues DEF TypeOK
    <3>5. QED
      BY <1>1, <3>2, <3>3, <3>4, StepsAppended
  <2>3. QED
    BY <2>1, <2>2 DEF BeginCancel, BeginCleanup, BeginSweep
<1>4. \A b \in Callers : caller'[b].op \in {"cleanup", "last_sweep"} =>
                           caller[b].op \in {"cleanup", "last_sweep"} \/ closing'
  <2>1. CASE BeginCleanup(c) \/ Signal(c)
    BY <2>1 DEF BeginCleanup, Signal
  <2>2. ASSUME NEW op \in {"cancel", "sweep"}, NEW w,
               caller' = [caller EXCEPT ![c] = [op |-> op, work |-> w]]
        PROVE  \A b \in Callers : caller'[b].op = caller[b].op \/ caller'[b].op = op
    BY <1>1, <2>2 DEF TypeOK
  <2>3. CASE BeginCancel(c) \/ BeginSweep(c)
    BY <2>2, <2>3 DEF BeginCancel, BeginSweep
  <2>4. QED
    BY <2>1, <2>3
<1>5. QED
  BY <1>1, <1>2, <1>3, <1>4, CallersOnly

\* cancel_job keeps the invariant when it ends.
LEMMA EndCancelKeeps ==
  ASSUME IInv, NEW c \in Callers, EndCancel(c)
  PROVE  IInv'
<1>1. TypeOK /\ TypeOK'
  BY CallerEndsType DEF IInv
<1>2. UNCHANGED <<metadata, tasks, task, created, ready, closing>>
  BY DEF EndCancel
<1>3. CallbacksOldOrOver
  BY <1>1, <1>2, OldQueues, SameQueue
<1>4. \A b \in Callers : caller'[b].op \in {"cleanup", "last_sweep"} =>
                           caller[b].op \in {"cleanup", "last_sweep"}
  <2>1. CASE Return(c)
    BY <1>1, <2>1, CallerGoesOn
  <2>2. CASE /\ caller[c].op = "cleanup"
             /\ caller' = [caller EXCEPT ![c].op = "last_sweep",
                             ![c].work = {j \in Jobs : metadata[j].status # ABSENT}]
    <3>1. \A b \in Callers \ {c} : caller'[b] = caller[b]
      BY <2>2, <1>1 DEF TypeOK
    <3>2. QED
      BY <2>2, <3>1
  <2>3. QED
    BY <2>1, <2>2 DEF EndCancel
<1>5. QED
  BY <1>1, <1>2, <1>3, <1>4, CallersOnly

\* The sweep keeps the invariant when it ends.
LEMMA EndSweepKeeps ==
  ASSUME IInv, NEW c \in Callers, EndSweep(c)
  PROVE  IInv'
<1>1. TypeOK /\ TypeOK'
  BY CallerEndsType DEF IInv
<1>2. UNCHANGED <<tasks, task, created, ready, closing>>
  BY DEF EndSweep
<1>3. Ages /\ CallbacksOldOrOver
  BY <1>1, <1>2, SameTasks, OldQueues, SameQueue
<1>4. \A b \in Callers : caller'[b].op = caller[b].op \/ caller'[b].op = "idle"
  BY <1>1, CallerGoesOn DEF EndSweep
<1>5. \/ UNCHANGED metadata
      \/ closing /\ \A j \in Jobs : metadata'[j].status = ABSENT
  BY DEF EndSweep, IInv, CleanupIsLast
<1>6. \A j \in Jobs : Terminal(j)' => Terminal(j)
  BY <1>5 DEF Terminal, TerminalStates, COMPLETED, FAILED, CANCELED, ABSENT
<1>7. \A j \in Jobs : metadata'[j].status = ABSENT => metadata[j].status = ABSENT \/ closing'
  BY <1>2, <1>5
<1>8. QED
  BY <1>1, <1>2, <1>3, <1>4, <1>6, <1>7, Preserved

\* The shutdown keeps the invariant.
LEMMA ShutdownKeeps == IInv /\ (BeginCleanupTasks \/ Exit) => IInv'
<1> SUFFICES ASSUME IInv, BeginCleanupTasks \/ Exit PROVE IInv'
  OBVIOUS
<1>1. TypeOK /\ TypeOK'
  BY ShutdownType DEF IInv
<1>2. UNCHANGED <<metadata, tasks, task, created, closing>>
  BY DEF BeginCleanupTasks, Exit
<1>3. CallbacksOldOrOver
  BY <1>1, OldQueues, SameQueue DEF BeginCleanupTasks, Exit, AtHead
<1>4. \A b \in Callers : caller'[b].op = caller[b].op
  BY <1>1 DEF BeginCleanupTasks, Exit, TypeOK, CallerRecord
<1>5. QED
  BY <1>1, <1>2, <1>3, <1>4, CallersOnly

--------------------------------------------------------------------------------
(* start_job                                                                   *)

\* What start_job does to the tasks: one is born, the others keep their state.
LEMMA StartJobTasks ==
  ASSUME TypeOK, NEW j \in Jobs, StartJob(j)
  PROVE  /\ created + 1 \in TaskIds /\ created' = created + 1
         /\ task'[created + 1].job = j /\ task'[created + 1].state = "created"
         /\ \A u \in TaskIds : u # created + 1 =>
              task'[u].job = task[u].job /\ task'[u].state = task[u].state
         /\ \A i \in Jobs : tasks'[i] = IF i = j THEN created + 1 ELSE tasks[i]
         /\ \A i \in Jobs : metadata'[i].status = IF i = j THEN PENDING ELSE metadata[i].status
<1> DEFINE t == created + 1
           stale == IF Terminal(j) THEN tasks[j] ELSE 0
<1>1. t \in TaskIds
  BY ConstantsAssumption DEF StartJob, TypeOK, TaskIds
<1>2. task' = [u \in TaskIds |->
                 IF u = t THEN [job |-> j, state |-> "created", cancelling |-> FALSE,
                                result |-> "none", waiters |-> << >>]
                 ELSE IF u = stale THEN CancelledTask(task[u])
                 ELSE task[u]]
  BY DEF StartJob
<1>3. \A u \in TaskIds : CancelledTask(task[u]).job = task[u].job
                         /\ CancelledTask(task[u]).state = task[u].state
  BY CancelledTaskType DEF TypeOK
<1>4. \A u \in TaskIds : u # t =>
        task'[u].job = task[u].job /\ task'[u].state = task[u].state
  BY <1>2, <1>3
<1>5. /\ created' = t
      /\ metadata' = [metadata EXCEPT ![j] = [status |-> PENDING, of |-> t]]
      /\ tasks' = [tasks EXCEPT ![j] = t]
  BY DEF StartJob
<1>6. QED
  BY <1>1, <1>2, <1>4, <1>5 DEF TypeOK

\* start_job puts no callback in the queue of the event loop.
LEMMA StartJobQueue ==
  ASSUME TypeOK, NEW j \in Jobs, StartJob(j)
  PROVE  OldCallbacks(ready')
<1> DEFINE stale == IF Terminal(j) THEN tasks[j] ELSE 0
           p == IF stale = 0 THEN << >> ELSE CancelHandles(stale)
           b == <<Handle("step", created + 1, Nobody)>>
<1>1. created + 1 \in TaskIds /\ (stale = 0 \/ stale \in TaskIds)
  BY ConstantsAssumption DEF StartJob, TypeOK, TaskIds
<1>2. OldCallbacks(ready)
  BY DEF TypeOK, OldCallbacks
<1>3. p \in Seq(Handles) /\ \A i \in 1..Len(p) : p[i].kind \notin {"done", "wake"}
  <2>1. CASE stale = 0
    BY <2>1
  <2>2. CASE stale # 0
    <3>1. CancelHandles(stale) \in Seq(Handles)
      BY <1>1, <2>2, CancelHandlesType
    <3>2. \A i \in 1..Len(CancelHandles(stale)) : CancelHandles(stale)[i].kind = "step"
      BY DEF CancelHandles, Handle
    <3>3. QED
      BY <2>2, <3>1, <3>2
  <2>3. QED
    BY <2>1, <2>2
<1>4. b \in Seq(Handles) /\ \A i \in 1..Len(b) : b[i].kind \notin {"done", "wake"}
  <2>1. Handle("step", created + 1, Nobody) \in Handles
    BY <1>1 DEF Handle, Handles
  <2>2. QED
    BY <2>1 DEF Handle
<1>5. ready' = ready \o p \o b
  BY DEF StartJob
<1> HIDE DEF p, b
<1>6. OldCallbacks(ready \o p)
  BY <1>2, <1>3, AppendSteps
<1>7. OldCallbacks(ready \o p \o b)
  BY <1>4, <1>6, AppendSteps
<1>8. QED
  BY <1>5, <1>7

\* Where no job is restarted between the end of its task and the callbacks, a
\* job that start_job accepts is over, and nothing queued speaks of it.
LEMMA StartJobKeeps ==
  ASSUME ~RestartInGap, IInv, NEW j \in Jobs, StartJob(j)
  PROVE  IInv'
<1> DEFINE t == created + 1
<1>1. TypeOK /\ TypeOK'
  BY StartJobType DEF IInv
<1>2. ~closing /\ closing' = closing /\ UNCHANGED caller /\ ~InGap(j)
  BY DEF StartJob
<1>3. Over(j)
  BY <1>2 DEF StartJob, MayStart, IInv, TerminalMeansOver, AbsentMeansOver, Over
<1>4. /\ t \in TaskIds /\ created' = t
      /\ task'[t].job = j /\ task'[t].state = "created"
      /\ \A u \in TaskIds : u # t =>
           task'[u].job = task[u].job /\ task'[u].state = task[u].state
      /\ \A i \in Jobs : tasks'[i] = IF i = j THEN t ELSE tasks[i]
      /\ \A i \in Jobs : metadata'[i].status = IF i = j THEN PENDING ELSE metadata[i].status
  BY <1>1, StartJobTasks
<1>5. created \in Nat /\ task[t].state = "unborn"
  BY <1>1, <1>4, ConstantsAssumption DEF IInv, BornInOrder, TypeOK
<1> HIDE DEF t
<1>6. \A i \in Jobs : i # j /\ Over(i) => Over(i)'
  BY <1>4 DEF Over, Unfinished
<1>7. BornInOrder'
  <2> SUFFICES ASSUME NEW u \in TaskIds
               PROVE  task'[u].state = "unborn" <=> u > created'
    BY DEF BornInOrder
  <2>1. u \in Nat
    BY DEF TaskIds
  <2>2. CASE u = t
    BY <1>4, <2>1, <2>2
  <2>3. CASE u # t
    BY <1>4, <1>5, <2>1, <2>3 DEF IInv, BornInOrder, t
  <2>4. QED
    BY <2>2, <2>3
<1>8. EntryIsOwn'
  <2> SUFFICES ASSUME NEW i \in Jobs, tasks'[i] # 0
               PROVE  tasks'[i] <= created' /\ task'[tasks'[i]].job = i
    BY DEF EntryIsOwn
  <2>1. CASE i = j
    BY <1>4, <1>5, <2>1 DEF t
  <2>2. CASE i # j
    <3>1. /\ tasks'[i] = tasks[i] /\ tasks[i] \in TaskIds
          /\ tasks[i] <= created /\ task[tasks[i]].job = i
      BY <1>1, <1>4, <2>2, ConstantsAssumption DEF IInv, EntryIsOwn, TypeOK, TaskIds
    <3>2. tasks[i] # t /\ tasks[i] <= t
      BY <1>5, <3>1 DEF t, TaskIds
    <3>3. QED
      BY <1>4, <3>1, <3>2
  <2>3. QED
    BY <2>1, <2>2
<1>9. LiveTaskIsTracked'
  <2> SUFFICES ASSUME NEW u \in TaskIds, Unfinished(u)'
               PROVE  tasks'[task'[u].job] = u
    BY DEF LiveTaskIsTracked
  <2>1. CASE u = t
    BY <1>4, <2>1
  <2>2. CASE u # t
    <3>1. PICK i \in Jobs : i = task[u].job
      BY <1>1 DEF TypeOK, TaskRecord
    <3>2. task'[u].job = i /\ Unfinished(u)
      BY <1>4, <2>2, <3>1 DEF Unfinished
    <3>3. i # j
      BY <1>3, <3>1, <3>2 DEF Over
    <3>4. QED
      BY <1>4, <3>1, <3>2, <3>3 DEF IInv, LiveTaskIsTracked
  <2>3. QED
    BY <2>1, <2>2
<1>10. TerminalMeansOver'
  <2>1. \A i \in Jobs : Terminal(i)' => i # j /\ Terminal(i)
    BY <1>4 DEF Terminal, TerminalStates, PENDING, COMPLETED, FAILED, CANCELED
  <2>2. \A i \in Jobs : Terminal(i) => Over(i)
    BY DEF IInv, TerminalMeansOver, Over
  <2>3. \A i \in Jobs : Terminal(i)' => Over(i)'
    BY <1>6, <2>1, <2>2
  <2>4. QED
    BY <2>3 DEF TerminalMeansOver, Over
<1>11. AbsentMeansOver'
  <2>1. \A i \in Jobs : metadata'[i].status = ABSENT => i # j /\ metadata[i].status = ABSENT
    BY <1>4 DEF PENDING, ABSENT
  <2>2. \A i \in Jobs : metadata'[i].status = ABSENT => Over(i)'
    BY <1>2, <1>6, <2>1 DEF IInv, AbsentMeansOver
  <2>3. QED
    BY <2>2 DEF AbsentMeansOver
<1>12. CallbackMeansOver'
  <2> SUFFICES ASSUME NEW n \in 1..Len(ready'), ready'[n].kind \in {"done", "wake"}
               PROVE  /\ task'[ready'[n].task].state = "done"
                      /\ \A u \in TaskIds :
                           task'[u].job = task'[ready'[n].task].job => ~Unfinished(u)'
    BY DEF CallbackMeansOver, Over
  <2>1. PICK k \in 1..Len(ready) : ready'[n] = ready[k]
    BY <1>1, StartJobQueue DEF OldCallbacks
  <2>2. ready[k].task \in TaskIds
    BY <1>1, <2>1, ReadyTask
  <2>3. PICK i \in Jobs : i = task[ready[k].task].job
    BY <1>1, <2>2 DEF TypeOK, TaskRecord
  <2>4. task[ready[k].task].state = "done" /\ Over(i)
    BY <2>1, <2>3 DEF IInv, CallbackMeansOver
  <2>5. i # j
    BY <1>2, <2>1, <2>3 DEF InGap
  <2>6. ready[k].task # t
    BY <1>5, <2>4
  <2>7. task'[ready'[n].task].state = "done" /\ task'[ready'[n].task].job = i
    BY <1>4, <2>1, <2>2, <2>3, <2>4, <2>6
  <2>8. Over(i)'
    BY <1>6, <2>4, <2>5
  <2>9. QED
    BY <2>7, <2>8 DEF Over
<1>13. CleanupIsLast'
  BY <1>2 DEF IInv, CleanupIsLast
<1>14. QED
  BY <1>1, <1>7, <1>8, <1>9, <1>10, <1>11, <1>12, <1>13 DEF IInv

--------------------------------------------------------------------------------
(* What the invariant gives                                                    *)

\* Every step of the runner keeps the invariant, unless a job may be restarted
\* while the callback of its last execution waits in the queue.
LEMMA NextKeeps == ~RestartInGap /\ IInv /\ [Next]_vars => IInv'
<1> SUFFICES ASSUME ~RestartInGap, IInv, [Next]_vars PROVE IInv'
  OBVIOUS
<1>1. CASE RunCallback
  BY <1>1, FirstStepKeeps, CancelledStepKeeps, HandleTaskDoneKeeps, WakeKeeps, ShutdownKeeps
  DEF RunCallback
<1>2. ASSUME NEW j \in Jobs, StartJob(j) PROVE IInv'
  BY <1>2, StartJobKeeps
<1>3. ASSUME NEW t \in TaskIds, Progress(t) \/ Unwound(t) PROVE IInv'
  BY <1>3, JobFunctionKeeps
<1>4. ASSUME NEW c \in Callers, GoOn(c) PROVE IInv'
  BY <1>4, CancelNextKeeps, EndCancelKeeps, SweepNextKeeps, EndSweepKeeps DEF GoOn
<1>5. ASSUME NEW c \in Callers,
             BeginCancel(c) \/ BeginCleanup(c) \/ BeginSweep(c) \/ Signal(c)
      PROVE  IInv'
  BY <1>5, CallerBeginsKeeps
<1>6. CASE UNCHANGED vars
  BY <1>6 DEF vars, IInv, TypeOK, BornInOrder, EntryIsOwn, LiveTaskIsTracked,
              TerminalMeansOver, AbsentMeansOver, CallbackMeansOver, CleanupIsLast,
              Over, Unfinished, Terminal
<1>7. QED
  BY <1>1, <1>2, <1>3, <1>4, <1>5, <1>6 DEF Next

\* A live execution is the one `tasks' holds for its job: cancel_job reaches it.
THEOREM LiveTasksAreTracked ==
  ASSUME ~RestartInGap PROVE Spec => []LiveTaskIsTracked
<1>1. Init => IInv
  BY InitIInv
<1>2. IInv /\ [Next]_vars => IInv'
  BY NextKeeps
<1>3. IInv => LiveTaskIsTracked
  BY DEF IInv
<1>4. QED
  BY <1>1, <1>2, <1>3, PTL DEF Spec

\* A job has at most one execution at a time: two of them would both be the one
\* task that `tasks' holds for the job.
THEOREM AtMostOne ==
  ASSUME ~RestartInGap PROVE Spec => []AtMostOneExecution
<1>1. LiveTaskIsTracked => AtMostOneExecution
  BY DEF LiveTaskIsTracked, AtMostOneExecution
<1>2. QED
  BY <1>1, LiveTasksAreTracked, PTL

\* A job in a terminal status has no execution that still goes on, which start_job
\* and the sweep rely on when they drop its task.
THEOREM TerminalJobsAreOver ==
  ASSUME ~RestartInGap PROVE Spec => []TerminalMeansOver
<1>1. Init => IInv
  BY InitIInv
<1>2. IInv /\ [Next]_vars => IInv'
  BY NextKeeps
<1>3. IInv => TerminalMeansOver
  BY DEF IInv
<1>4. QED
  BY <1>1, <1>2, <1>3, PTL DEF Spec

--------------------------------------------------------------------------------
(* What the statuses say                                                       *)

\* A callback of kind k for task t is in the queue q.
InQueue(q, k, t) == \E i \in 1..Len(q) : q[i].kind = k /\ q[i].task = t

Queued(k, t) == InQueue(ready, k, t)

\* The entry of a job is about one of its tasks, of which it says what is so: that it has
\* not begun or not ended, that it returned, or nothing that a queued callback will not
\* settle.
EntryIsTrue(j) ==
  LET s == metadata[j].status
      t == metadata[j].of
  IN  /\ s # STOPPED
      /\ s # ABSENT => t \in TaskIds /\ task[t].job = j /\ task[t].state # "unborn"
      /\ s \in {PENDING, RUNNING} =>
           \/ Unfinished(t)
           \/ /\ task[t].state = "done" /\ task[t].result = "return"
              /\ s = RUNNING /\ Queued("done", t)
           \/ task[t].state = "done" /\ task[t].result = "cancelled" /\ Queued("wake", t)
      /\ s = COMPLETED => task[t].state = "done" /\ task[t].result = "return"

\* A live task of a job, and one with a callback in the queue, is what the entry of the job
\* is about, if there is one; a task that is canceled before it begins has somebody who
\* waits for it.
TaskIsKnown(t) ==
  LET e == metadata[task[t].job]
  IN  /\ Unfinished(t) /\ e.status # ABSENT =>
           e.of = t /\ e.status = IF task[t].state = "created" THEN PENDING ELSE RUNNING
      /\ task[t].state = "created" /\ task[t].cancelling => task[t].waiters # << >>
      /\ task[t].state = "done" => task[t].result # "none"
      /\ (Queued("done", t) \/ Queued("wake", t)) /\ e.status # ABSENT => e.of = t

StatusesTrue ==
  (\A j \in Jobs : EntryIsTrue(j)) /\ (\A t \in TaskIds : TaskIsKnown(t))

\* What is said of a job stays true if its entry, its tasks and its callbacks stay.
LEMMA EntryStays ==
  ASSUME NEW j \in Jobs, EntryIsTrue(j), metadata'[j] = metadata[j],
         \A t \in TaskIds : task[t].job = j /\ task[t].state # "unborn" =>
           /\ task'[t].job = j /\ task'[t].state = task[t].state
           /\ task'[t].result = task[t].result
           /\ InQueue(ready, "done", t) => InQueue(ready', "done", t)
           /\ InQueue(ready, "wake", t) => InQueue(ready', "wake", t)
  PROVE  EntryIsTrue(j)'
<1> DEFINE s == metadata[j].status
           t == metadata[j].of
<1>1. metadata'[j].status = s /\ metadata'[j].of = t
  OBVIOUS
<1>2. /\ s # STOPPED
      /\ s # ABSENT => t \in TaskIds /\ task[t].job = j /\ task[t].state # "unborn"
      /\ s \in {PENDING, RUNNING} =>
           \/ Unfinished(t)
           \/ /\ task[t].state = "done" /\ task[t].result = "return"
              /\ s = RUNNING /\ InQueue(ready, "done", t)
           \/ task[t].state = "done" /\ task[t].result = "cancelled" /\ InQueue(ready, "wake", t)
      /\ s = COMPLETED => task[t].state = "done" /\ task[t].result = "return"
  BY DEF EntryIsTrue, Queued
<1> HIDE DEF s, t
<1>3. CASE s = ABSENT
  BY <1>1, <1>3 DEF EntryIsTrue, ABSENT, STOPPED, PENDING, RUNNING, COMPLETED
<1>4. CASE s # ABSENT
  BY <1>1, <1>2, <1>4 DEF EntryIsTrue, Queued, Unfinished
<1>5. QED
  BY <1>3, <1>4

\* ... and so does what is known of a task.
LEMMA KnownStays ==
  ASSUME NEW t \in TaskIds, TaskIsKnown(t), task'[t].job = task[t].job,
         metadata'[task[t].job] = metadata[task[t].job],
         task'[t].state = task[t].state, task'[t].result = task[t].result,
         task'[t].state = "created" /\ task'[t].cancelling => task'[t].waiters # << >>,
         InQueue(ready', "done", t) => InQueue(ready, "done", t),
         InQueue(ready', "wake", t) => InQueue(ready, "wake", t)
  PROVE  TaskIsKnown(t)'
  BY DEF TaskIsKnown, Unfinished, Queued

--------------------------------------------------------------------------------
(* What is in a queue of callbacks                                             *)

\* A queue holds what its two parts hold.
LEMMA QueueJoined ==
  ASSUME NEW q \in Seq(Handles), NEW p \in Seq(Handles), NEW k, NEW t
  PROVE  InQueue(q \o p, k, t) <=> InQueue(q, k, t) \/ InQueue(p, k, t)
<1>1. /\ q \o p \in Seq(Handles) /\ Len(q) \in Nat /\ Len(p) \in Nat
      /\ Len(q \o p) = Len(q) + Len(p)
      /\ \A i \in 1..Len(q) + Len(p) :
           (q \o p)[i] = IF i <= Len(q) THEN q[i] ELSE p[i - Len(q)]
  BY ConcatProperties
<1> DEFINE a == q \o p
<1>2. /\ Len(a) = Len(q) + Len(p)
      /\ \A i \in 1..Len(q) + Len(p) : a[i] = IF i <= Len(q) THEN q[i] ELSE p[i - Len(q)]
  BY <1>1
<1> HIDE DEF a
<1>3. ASSUME InQueue(a, k, t) PROVE InQueue(q, k, t) \/ InQueue(p, k, t)
  <2>1. PICK i \in 1..Len(a) : a[i].kind = k /\ a[i].task = t
    BY <1>3 DEF InQueue
  <2>2. CASE i <= Len(q)
    <3>1. i \in 1..Len(q) /\ a[i] = q[i]
      BY <1>1, <1>2, <2>2
    <3>2. QED
      BY <2>1, <3>1 DEF InQueue
  <2>3. CASE ~(i <= Len(q))
    <3>1. i - Len(q) \in 1..Len(p) /\ a[i] = p[i - Len(q)]
      BY <1>1, <1>2, <2>3
    <3>2. QED
      BY <2>1, <3>1 DEF InQueue
  <2>4. QED
    BY <2>2, <2>3
<1>4. ASSUME InQueue(q, k, t) PROVE InQueue(a, k, t)
  <2>1. PICK i \in 1..Len(q) : q[i].kind = k /\ q[i].task = t
    BY <1>4 DEF InQueue
  <2>2. i \in 1..Len(a) /\ a[i] = q[i]
    BY <1>1, <1>2
  <2>3. QED
    BY <2>1, <2>2 DEF InQueue
<1>5. ASSUME InQueue(p, k, t) PROVE InQueue(a, k, t)
  <2>1. PICK i \in 1..Len(p) : p[i].kind = k /\ p[i].task = t
    BY <1>5 DEF InQueue
  <2>2. /\ Len(q) + i \in 1..Len(a) /\ ~(Len(q) + i <= Len(q))
        /\ (Len(q) + i) - Len(q) = i /\ Len(q) + i \in 1..Len(q) + Len(p)
    BY <1>1, <1>2
  <2>3. a[Len(q) + i] = p[i]
    BY <1>2, <2>2
  <2>4. QED
    BY <2>1, <2>2, <2>3 DEF InQueue
<1>6. QED
  BY <1>3, <1>4, <1>5 DEF a

\* A queue holds what its head is and what its tail holds.
LEMMA QueueServed ==
  ASSUME NEW q \in Seq(Handles), q # << >>, NEW k, NEW t
  PROVE  InQueue(q, k, t) <=>
           (Head(q).kind = k /\ Head(q).task = t) \/ InQueue(Tail(q), k, t)
<1>1. /\ Len(q) \in Nat /\ Len(q) >= 1 /\ Tail(q) \in Seq(Handles)
      /\ Len(Tail(q)) = Len(q) - 1 /\ Head(q) = q[1]
      /\ \A i \in 1..Len(Tail(q)) : Tail(q)[i] = q[i + 1]
  BY EmptySeq, HeadTailProperties
<1>2. ASSUME InQueue(q, k, t)
      PROVE  (Head(q).kind = k /\ Head(q).task = t) \/ InQueue(Tail(q), k, t)
  <2>1. PICK i \in 1..Len(q) : q[i].kind = k /\ q[i].task = t
    BY <1>2 DEF InQueue
  <2>2. CASE i = 1
    BY <1>1, <2>1, <2>2
  <2>3. CASE i # 1
    <3>1. i - 1 \in 1..Len(Tail(q)) /\ (i - 1) + 1 = i
      BY <1>1, <2>3
    <3>2. Tail(q)[i - 1] = q[i]
      BY <1>1, <3>1
    <3>3. QED
      BY <2>1, <3>1, <3>2 DEF InQueue
  <2>4. QED
    BY <2>2, <2>3
<1>3. ASSUME Head(q).kind = k /\ Head(q).task = t PROVE InQueue(q, k, t)
  <2>1. 1 \in 1..Len(q)
    BY <1>1
  <2>2. QED
    BY <1>1, <1>3, <2>1 DEF InQueue
<1>4. ASSUME InQueue(Tail(q), k, t) PROVE InQueue(q, k, t)
  <2>1. PICK i \in 1..Len(Tail(q)) : Tail(q)[i].kind = k /\ Tail(q)[i].task = t
    BY <1>4 DEF InQueue
  <2>2. i + 1 \in 1..Len(q) /\ Tail(q)[i] = q[i + 1]
    BY <1>1
  <2>3. QED
    BY <2>1, <2>2 DEF InQueue
<1>5. QED
  BY <1>2, <1>3, <1>4

\* What the end of a task queues: its done callback, and a wake-up if somebody waits.
LEMMA QueuedByEnd ==
  ASSUME TypeOK, NEW t \in TaskIds
  PROVE  /\ \A u : InQueue(Callbacks(t), "done", u) <=> u = t
         /\ \A u : InQueue(Callbacks(t), "wake", u) <=> u = t /\ task[t].waiters # << >>
<1> DEFINE n == Len(task[t].waiters)
           h == <<Handle("done", t, Nobody)>>
           w == [i \in 1..n |-> Handle("wake", t, task[t].waiters[i])]
<1>1. task[t].waiters \in Seq(Callers) /\ n \in Nat
  BY DEF TypeOK, TaskRecord
<1>2. \A i \in 1..n : task[t].waiters[i] \in Callers
  BY <1>1
<1>3. w \in [1..n -> Handles]
  BY <1>2, HandleTypes
<1>4. w \in Seq(Handles) /\ Len(w) = n
  BY <1>1, <1>3, SeqDef, LenProperties
<1>5. h \in Seq(Handles) /\ Len(h) = 1 /\ h[1].kind = "done" /\ h[1].task = t
  <2>1. Handle("done", t, Nobody) \in Handles
    BY DEF Handle, Handles
  <2>2. QED
    BY <2>1 DEF Handle
<1>6. \A i \in 1..n : w[i].kind = "wake" /\ w[i].task = t
  BY DEF Handle
<1>7. task[t].waiters # << >> <=> 1 \in 1..n
  BY <1>1, EmptySeq
<1>8. Callbacks(t) = h \o w
  BY DEF Callbacks
<1> HIDE DEF h, w, n
<1>9. /\ \A u : InQueue(h, "done", u) <=> u = t
      /\ \A u : ~InQueue(h, "wake", u)
  BY <1>5 DEF InQueue
<1>10. /\ \A u : ~InQueue(w, "done", u)
       /\ \A u : InQueue(w, "wake", u) <=> u = t /\ task[t].waiters # << >>
  <2>1. \A u : ~InQueue(w, "done", u)
    BY <1>4, <1>6 DEF InQueue
  <2>2. ASSUME NEW u, InQueue(w, "wake", u) PROVE u = t /\ task[t].waiters # << >>
    <3>1. PICK i \in 1..n : w[i].task = u
      BY <1>4, <2>2 DEF InQueue
    <3>2. 1 \in 1..n
      BY <1>1, <3>1
    <3>3. QED
      BY <1>6, <1>7, <3>1, <3>2
  <2>3. ASSUME task[t].waiters # << >> PROVE InQueue(w, "wake", t)
    BY <1>4, <1>6, <1>7, <2>3 DEF InQueue
  <2>4. QED
    BY <2>1, <2>2, <2>3
<1>11. \A k, u : InQueue(h \o w, k, u) <=> InQueue(h, k, u) \/ InQueue(w, k, u)
  BY <1>4, <1>5, QueueJoined
<1>12. QED
  BY <1>8, <1>9, <1>10, <1>11

\* Neither a cancellation nor a start queues a callback.
LEMMA StepsAreNoCallbacks ==
  ASSUME NEW t \in TaskIds, NEW k \in {"done", "wake"}, NEW u
  PROVE  ~InQueue(CancelHandles(t), k, u) /\ ~InQueue(<<Handle("step", t, Nobody)>>, k, u)
<1>1. \A i \in 1..Len(CancelHandles(t)) : CancelHandles(t)[i].kind = "step"
  BY DEF CancelHandles, Handle
<1>2. \A i \in 1..Len(<<Handle("step", t, Nobody)>>) :
        <<Handle("step", t, Nobody)>>[i].kind = "step"
  BY DEF Handle
<1>3. QED
  BY <1>1, <1>2 DEF InQueue

\* The end of a task changes that task only, and queues its callbacks only.
LEMMA EndTaskOutcome ==
  ASSUME TypeOK, NEW t \in TaskIds, NEW r \in TaskResult, NEW q \in Seq(Handles),
         \A k \in {"done", "wake"}, u \in TaskIds : InQueue(q, k, u) <=> InQueue(ready, k, u),
         EndTask(t, r, q)
  PROVE  /\ task'[t].state = "done" /\ task'[t].result = r /\ task'[t].job = task[t].job
         /\ \A u \in TaskIds : u # t => task'[u] = task[u]
         /\ InQueue(ready', "done", t)
         /\ task[t].waiters # << >> => InQueue(ready', "wake", t)
         /\ \A k \in {"done", "wake"}, u \in TaskIds :
              u # t => (InQueue(ready', k, u) <=> InQueue(ready, k, u))
<1> DEFINE tk == [task[t] EXCEPT !.state = "done", !.result = r, !.cancelling = FALSE]
           p == Callbacks(t)
<1>1. task \in [TaskIds -> TaskRecord] /\ task[t] \in TaskRecord
  BY DEF TypeOK
<1>2. tk.job = task[t].job /\ tk.state = "done" /\ tk.result = r
  BY <1>1 DEF TaskRecord
<1>3. task' = [task EXCEPT ![t] = tk] /\ ready' = q \o p
  BY DEF EndTask
<1> HIDE DEF tk
<1>4. p \in Seq(Handles)
  BY CallbacksType
<1>5. /\ \A u : InQueue(p, "done", u) <=> u = t
      /\ \A u : InQueue(p, "wake", u) <=> u = t /\ task[t].waiters # << >>
  BY QueuedByEnd
<1> HIDE DEF p
<1>6. \A k, u : InQueue(ready', k, u) <=> InQueue(q, k, u) \/ InQueue(p, k, u)
  BY <1>3, <1>4, QueueJoined
<1>7. \A u \in TaskIds : u # t => task'[u] = task[u]
  BY <1>1, <1>3
<1>8. task'[t] = tk
  BY <1>1, <1>3
<1>9. QED
  BY <1>2, <1>5, <1>6, <1>7, <1>8

\* The entry of a job in a step that changes its status only.
StatusSet(j, s) ==
  /\ metadata'[j].of = metadata[j].of /\ metadata'[j].status = s
  /\ \A i \in Jobs : i # j => metadata'[i] = metadata[i]

\* Setting a status leaves the other entries, and whose entry it is.
LEMMA StatusSetSound ==
  ASSUME TypeOK, NEW j \in Jobs
  PROVE  /\ \A s : SetStatus(j, s) => StatusSet(j, s)
         /\ UNCHANGED metadata => StatusSet(j, metadata[j].status)
         /\ MarkCanceled(j) =>
              StatusSet(j, IF metadata[j].status = ABSENT THEN ABSENT ELSE CANCELED)
<1>1. ASSUME NEW s, SetStatus(j, s) PROVE StatusSet(j, s)
  BY <1>1 DEF SetStatus, StatusSet, TypeOK, Entry
<1>2. ASSUME UNCHANGED metadata PROVE StatusSet(j, metadata[j].status)
  BY <1>2 DEF StatusSet
<1>3. ASSUME MarkCanceled(j)
      PROVE  StatusSet(j, IF metadata[j].status = ABSENT THEN ABSENT ELSE CANCELED)
  BY <1>1, <1>2, <1>3 DEF MarkCanceled
<1>4. QED
  BY <1>1, <1>2, <1>3

\* A step that concerns one job, whose other tasks it leaves alone, keeps what is known of
\* the others.
LEMMA OthersStay ==
  ASSUME TypeOK, StatusesTrue, NEW i \in Jobs, NEW s, StatusSet(i, s),
         \A u \in TaskIds : task[u].job # i =>
           /\ task'[u] = task[u]
           /\ \A k \in {"done", "wake"} : InQueue(ready', k, u) <=> InQueue(ready, k, u)
  PROVE  /\ \A j \in Jobs : j # i => EntryIsTrue(j)'
         /\ \A u \in TaskIds : task[u].job # i => TaskIsKnown(u)'
<1>1. ASSUME NEW j \in Jobs, j # i PROVE EntryIsTrue(j)'
  <2>1. EntryIsTrue(j) /\ metadata'[j] = metadata[j]
    BY <1>1 DEF StatusesTrue, StatusSet
  <2>2. QED
    BY <1>1, <2>1, EntryStays
<1>2. ASSUME NEW u \in TaskIds, task[u].job # i PROVE TaskIsKnown(u)'
  <2>1. task[u].job \in Jobs
    BY DEF TypeOK, TaskRecord
  <2>2. TaskIsKnown(u) /\ metadata'[task[u].job] = metadata[task[u].job]
    BY <1>2, <2>1 DEF StatusesTrue, StatusSet
  <2>3. task[u].state = "created" /\ task[u].cancelling => task[u].waiters # << >>
    BY <2>2 DEF TaskIsKnown
  <2>4. QED
    BY <1>2, <2>2, <2>3, KnownStays
<1>3. QED
  BY <1>1, <1>2

\* The end of an execution: its job gets a final status, or the callbacks of the task will
\* settle it.
LEMMA EndKeepsStatuses ==
  ASSUME IInv, StatusesTrue, NEW t \in TaskIds, Unfinished(t),
         NEW r \in TaskResult \ {"none"}, NEW q \in Seq(Handles),
         \A k \in {"done", "wake"}, u \in TaskIds : InQueue(q, k, u) <=> InQueue(ready, k, u),
         EndTask(t, r, q), NEW s, StatusSet(task[t].job, s),
         \/ s = ABSENT /\ metadata[task[t].job].status = ABSENT
         \/ s \in {FAILED, CANCELED} /\ metadata[task[t].job].status # ABSENT
         \/ s = RUNNING /\ r = "return" /\ metadata[task[t].job].status # ABSENT
         \/ /\ s = metadata[task[t].job].status
            /\ r = "cancelled" /\ task[t].state = "created" /\ task[t].cancelling
  PROVE  StatusesTrue'
<1>1. TypeOK /\ \A u \in TaskIds : task[u].job \in Jobs
  BY DEF IInv, TypeOK, TaskRecord
<1>2. PICK i \in Jobs : i = task[t].job
  BY <1>1
<1>3. /\ task'[t].state = "done" /\ task'[t].result = r /\ task'[t].job = i
      /\ \A u \in TaskIds : u # t => task'[u] = task[u]
      /\ InQueue(ready', "done", t)
      /\ task[t].waiters # << >> => InQueue(ready', "wake", t)
      /\ \A k \in {"done", "wake"}, u \in TaskIds :
           u # t => (InQueue(ready', k, u) <=> InQueue(ready, k, u))
  BY <1>1, <1>2, EndTaskOutcome
<1>4. StatusSet(i, s)
  BY <1>2
<1>5. /\ \A j \in Jobs : j # i => EntryIsTrue(j)'
      /\ \A u \in TaskIds : task[u].job # i => TaskIsKnown(u)'
  BY <1>1, <1>2, <1>3, <1>4, OthersStay
<1> DEFINE e == metadata[i]
<1>6. /\ EntryIsTrue(i) /\ \A u \in TaskIds : TaskIsKnown(u)
      /\ metadata'[i].status = s /\ metadata'[i].of = e.of
  BY <1>4 DEF StatusesTrue, StatusSet
<1>7. \/ s = ABSENT /\ e.status = ABSENT
      \/ s \in {FAILED, CANCELED} /\ e.status # ABSENT
      \/ s = RUNNING /\ r = "return" /\ e.status # ABSENT
      \/ s = e.status /\ r = "cancelled" /\ task[t].state = "created" /\ task[t].cancelling
  BY <1>2
<1>8. /\ e.status # ABSENT => e.of = t
      /\ task[t].state = "created" /\ task[t].cancelling => task[t].waiters # << >>
      /\ task[t].state = "created" /\ e.status # ABSENT => e.status = PENDING
  BY <1>2, <1>6 DEF TaskIsKnown
<1> HIDE DEF e
<1>9. EntryIsTrue(i)'
  <2>1. CASE s = ABSENT
    BY <1>6, <2>1
      DEF EntryIsTrue, ABSENT, STOPPED, PENDING, RUNNING, COMPLETED
  <2>2. CASE s # ABSENT
    <3>1. e.of = t /\ e.status # ABSENT
      BY <1>7, <1>8, <2>2
    <3>2. s \in {FAILED, CANCELED, PENDING, RUNNING}
      BY <1>7, <1>8, <2>2
    <3>3. s \in {PENDING, RUNNING} =>
            \/ r = "return" /\ s = RUNNING
            \/ r = "cancelled" /\ InQueue(ready', "wake", t)
      BY <1>3, <1>7, <1>8, <2>2
        DEF FAILED, CANCELED, PENDING, RUNNING, ABSENT
    <3>4. QED
      BY <1>3, <1>6, <3>1, <3>2, <3>3
        DEF EntryIsTrue, Queued, FAILED, CANCELED, PENDING, RUNNING, COMPLETED, STOPPED
  <2>3. QED
    BY <2>1, <2>2
<1>10. ASSUME NEW u \in TaskIds, task[u].job = i PROVE TaskIsKnown(u)'
  <2>1. CASE u = t
    <3>1. s # ABSENT => e.of = t
      BY <1>7, <1>8
    <3>2. QED
      BY <1>3, <1>6, <2>1, <3>1 DEF TaskIsKnown, Unfinished
  <2>2. CASE u # t
    <3>1. ~Unfinished(u)
      BY <1>2, <1>10, <2>2 DEF IInv, LiveTaskIsTracked
    <3>2. task'[u] = task[u] /\ task[u].state # "created"
      BY <1>3, <2>2, <3>1 DEF Unfinished
    <3>3. /\ InQueue(ready', "done", u) <=> InQueue(ready, "done", u)
          /\ InQueue(ready', "wake", u) <=> InQueue(ready, "wake", u)
      BY <1>3, <2>2
    <3>4. e.status = ABSENT => s = ABSENT
      BY <1>7
    <3>5. /\ task[u].state = "done" => task[u].result # "none"
          /\ (InQueue(ready, "done", u) \/ InQueue(ready, "wake", u)) /\ e.status # ABSENT
               => e.of = u
      BY <1>6, <1>10 DEF TaskIsKnown, Queued, e
    <3>6. ~Unfinished(u)'
      BY <3>1, <3>2 DEF Unfinished
    <3>7. QED
      BY <1>6, <1>10, <3>2, <3>3, <3>4, <3>5, <3>6 DEF TaskIsKnown, Queued
  <2>3. QED
    BY <2>1, <2>2
<1>11. QED
  BY <1>5, <1>9, <1>10 DEF StatusesTrue

--------------------------------------------------------------------------------
(* The statuses follow the lifecycle                                           *)

\* What a step of the runner does to the statuses is a step of JobLifecycle, or nothing.
LifecycleStep == [Lifecycle!Next]_[j \in Jobs |-> metadata[j].status]

\* A status that stays is nothing to the lifecycle.
LEMMA LifecycleStutters ==
  ASSUME \A j \in Jobs : metadata'[j].status = metadata[j].status
  PROVE  LifecycleStep
BY DEF LifecycleStep

\* A status that changes as the lifecycle lets it.
LEMMA LifecycleGoesOn ==
  ASSUME TypeOK, NEW i \in Jobs, NEW s,
         \A j \in Jobs : metadata'[j].status = IF j = i THEN s ELSE metadata[j].status,
         \/ metadata[i].status \in TerminalStates \cup {ABSENT} /\ s = PENDING
         \/ metadata[i].status = PENDING /\ s = RUNNING
         \/ metadata[i].status = RUNNING /\ s = COMPLETED
         \/ metadata[i].status \in {PENDING, RUNNING} /\ s = FAILED
         \/ metadata[i].status # ABSENT /\ s = CANCELED
         \/ metadata[i].status = s
  PROVE  LifecycleStep
<1> DEFINE f == [j \in Jobs |-> metadata[j].status]
           g == [j \in Jobs |-> metadata'[j].status]
<1>1. g = [f EXCEPT ![i] = s] /\ f[i] = metadata[i].status
  OBVIOUS
<1>2. metadata[i].status \in JobStatus \cup {ABSENT}
  BY DEF TypeOK, Entry
<1> HIDE DEF f, g
<1>3. CASE metadata[i].status = s
  <2>1. \A j \in Jobs : metadata'[j].status = metadata[j].status
    BY <1>3
  <2>2. QED
    BY <2>1, LifecycleStutters
<1>4. CASE metadata[i].status # s
  <2>1. \/ f[i] \in TerminalStates \cup {ABSENT} /\ s = PENDING
        \/ f[i] \in {PENDING} /\ s = RUNNING
        \/ f[i] \in {RUNNING} /\ s = COMPLETED
        \/ f[i] \in {PENDING, RUNNING} /\ s = FAILED
        \/ f[i] \in JobStatus /\ s = CANCELED
    BY <1>1, <1>2, <1>4
  <2>2. Lifecycle!Submit(i) \/ Lifecycle!Start(i) \/ Lifecycle!Complete(i)
          \/ Lifecycle!Fail(i) \/ Lifecycle!Cancel(i)
    BY <1>1, <2>1 DEF Lifecycle!Submit, Lifecycle!Start, Lifecycle!Complete, Lifecycle!Fail,
                      Lifecycle!Cancel, Lifecycle!Move, f, g, PENDING, RUNNING, COMPLETED,
                      FAILED, CANCELED, STOPPED, ABSENT, JobStatus, TerminalStates,
                      Lifecycle!PENDING, Lifecycle!RUNNING, Lifecycle!COMPLETED,
                      Lifecycle!FAILED, Lifecycle!CANCELED, Lifecycle!STOPPED,
                      Lifecycle!ABSENT, Lifecycle!JobStatus, Lifecycle!TerminalStates
  <2>3. QED
    BY <2>2 DEF LifecycleStep, Lifecycle!Next
<1>5. QED
  BY <1>3, <1>4

\* ... in a step that changes nothing else of the entries.
LEMMA LifecycleMoves ==
  ASSUME TypeOK, NEW i \in Jobs, NEW s, StatusSet(i, s),
         \/ metadata[i].status = PENDING /\ s = RUNNING
         \/ metadata[i].status = RUNNING /\ s = COMPLETED
         \/ metadata[i].status \in {PENDING, RUNNING} /\ s = FAILED
         \/ metadata[i].status # ABSENT /\ s = CANCELED
         \/ metadata[i].status = s
  PROVE  LifecycleStep
<1>1. \A j \in Jobs : metadata'[j].status = IF j = i THEN s ELSE metadata[j].status
  BY DEF StatusSet
<1>2. QED
  BY <1>1, LifecycleGoesOn

\* The runner forgets all its jobs.
LEMMA LifecycleForgets ==
  ASSUME \A j \in Jobs : metadata'[j].status = ABSENT
  PROVE  LifecycleStep
BY DEF LifecycleStep, Lifecycle!Next, Lifecycle!Forget, Lifecycle!ABSENT, ABSENT

--------------------------------------------------------------------------------
(* Executions                                                                  *)

\* The queue q holds the callbacks that `ready' holds.
SameCallbacks(q) ==
  \A k \in {"done", "wake"}, u \in TaskIds : InQueue(q, k, u) <=> InQueue(ready, k, u)

\* Serving a step takes no callback from the queue.
LEMMA StepServed ==
  ASSUME TypeOK, ready # << >>, Head(ready).kind \notin {"done", "wake"}
  PROVE  Tail(ready) \in Seq(Handles) /\ SameCallbacks(Tail(ready))
<1>1. ready \in Seq(Handles) /\ Tail(ready) \in Seq(Handles)
  BY HeadOfReady DEF TypeOK
<1>2. QED
  BY <1>1, QueueServed DEF SameCallbacks

\* The status of a live task whose job has an entry.
LEMMA LiveStatus ==
  ASSUME TypeOK, StatusesTrue, NEW t \in TaskIds, Unfinished(t)
  PROVE  /\ task[t].job \in Jobs
         /\ metadata[task[t].job].status # ABSENT =>
              /\ metadata[task[t].job].of = t
              /\ metadata[task[t].job].status =
                   IF task[t].state = "created" THEN PENDING ELSE RUNNING
  BY DEF StatusesTrue, TaskIsKnown, TypeOK, TaskRecord

\* An execution that ends with a final status.
LEMMA EndWithStatusOutcome ==
  ASSUME IInv, StatusesTrue, NEW t \in TaskIds, Unfinished(t), NEW s \in {FAILED, CANCELED},
         NEW q \in Seq(Handles), SameCallbacks(q), EndWithStatus(t, s, q)
  PROVE  StatusesTrue' /\ LifecycleStep
<1>1. TypeOK
  BY DEF IInv
<1>2. PICK i \in Jobs : i = task[t].job
  BY <1>1, LiveStatus
<1>3. metadata[i].status \in {PENDING, RUNNING, ABSENT}
  BY <1>1, <1>2, LiveStatus
<1>4. /\ "return" \in TaskResult \ {"none"} /\ "raise" \in TaskResult \ {"none"}
      /\ \A k \in {"done", "wake"}, u \in TaskIds : InQueue(q, k, u) <=> InQueue(ready, k, u)
  BY DEF TaskResult, SameCallbacks
<1>5. CASE metadata[i].status # ABSENT /\ SetStatus(i, s) /\ EndTask(t, "return", q)
  <2>1. StatusSet(i, s)
    BY <1>1, <1>5, StatusSetSound
  <2>2. LifecycleStep
    BY <1>1, <1>3, <1>5, <2>1, LifecycleMoves
  <2>3. StatusesTrue'
    BY <1>2, <1>4, <1>5, <2>1, EndKeepsStatuses
  <2>4. QED
    BY <2>2, <2>3
<1>6. CASE metadata[i].status = ABSENT /\ UNCHANGED metadata /\ EndTask(t, "raise", q)
  <2>1. StatusSet(i, ABSENT)
    BY <1>1, <1>6, StatusSetSound
  <2>2. LifecycleStep
    BY <1>6, LifecycleStutters
  <2>3. StatusesTrue'
    BY <1>2, <1>4, <1>6, <2>1, EndKeepsStatuses
  <2>4. QED
    BY <2>2, <2>3
<1>7. QED
  BY <1>2, <1>5, <1>6 DEF EndWithStatus

\* An execution that goes on, and is marked RUNNING if it has just begun.
LEMMA GoingOnOutcome ==
  ASSUME IInv, StatusesTrue, NEW t \in TaskIds, Unfinished(t),
         NEW tk, tk.job = task[t].job, tk.state \in {"running", "unwinding"},
         task' = [task EXCEPT ![t] = tk], SameCallbacks(ready'),
         \/ UNCHANGED metadata /\ task[t].state # "created"
         \/ metadata[task[t].job].status # ABSENT /\ SetStatus(task[t].job, RUNNING)
  PROVE  StatusesTrue' /\ LifecycleStep
<1>1. TypeOK /\ task \in [TaskIds -> TaskRecord]
  BY DEF IInv, TypeOK
<1>2. PICK i \in Jobs : i = task[t].job
  BY <1>1, LiveStatus
<1> DEFINE e == metadata[i]
<1>3. /\ e.status # ABSENT => e.of = t
      /\ e.status # ABSENT => e.status = IF task[t].state = "created" THEN PENDING ELSE RUNNING
  BY <1>1, <1>2, LiveStatus
<1>4. PICK s : /\ StatusSet(i, s) /\ s \in {RUNNING, ABSENT}
               /\ s = ABSENT <=> e.status = ABSENT
  <2>1. CASE UNCHANGED metadata /\ task[t].state # "created"
    <3>1. StatusSet(i, e.status)
      BY <1>1, <2>1, StatusSetSound
    <3>2. QED
      BY <1>3, <2>1, <3>1
  <2>2. CASE e.status # ABSENT /\ SetStatus(i, RUNNING)
    <3>1. StatusSet(i, RUNNING)
      BY <1>1, <2>2, StatusSetSound
    <3>2. QED
      BY <2>2, <3>1 DEF RUNNING, ABSENT
  <2>3. QED
    BY <1>2, <2>1, <2>2
<1>5. metadata'[i].status = s /\ metadata'[i].of = e.of
  BY <1>4 DEF StatusSet
<1> HIDE DEF e
<1>6. task'[t] = tk /\ \A u \in TaskIds : u # t => task'[u] = task[u]
  BY <1>1
<1>7. /\ \A j \in Jobs : j # i => EntryIsTrue(j)'
      /\ \A u \in TaskIds : task[u].job # i => TaskIsKnown(u)'
  <2>1. \A u \in TaskIds : task[u].job # i =>
          /\ task'[u] = task[u]
          /\ \A k \in {"done", "wake"} : InQueue(ready', k, u) <=> InQueue(ready, k, u)
    BY <1>2, <1>6 DEF SameCallbacks
  <2>2. QED
    BY <1>1, <1>4, <2>1, OthersStay
<1>8. EntryIsTrue(i)'
  <2>1. CASE s = ABSENT
    BY <1>5, <2>1 DEF EntryIsTrue, ABSENT, STOPPED, PENDING, RUNNING, COMPLETED
  <2>2. CASE s = RUNNING
    <3>1. e.of = t
      BY <1>3, <1>4, <2>2 DEF RUNNING, ABSENT
    <3>2. Unfinished(t)' /\ task'[t].job = i /\ task'[t].state # "unborn"
      BY <1>2, <1>6 DEF Unfinished
    <3>3. QED
      BY <1>5, <2>2, <3>1, <3>2 DEF EntryIsTrue, ABSENT, STOPPED, PENDING, RUNNING, COMPLETED
  <2>3. QED
    BY <1>4, <2>1, <2>2
<1>9. ASSUME NEW u \in TaskIds, task[u].job = i PROVE TaskIsKnown(u)'
  <2>1. CASE u = t
    BY <1>2, <1>3, <1>4, <1>5, <1>6, <2>1 DEF TaskIsKnown, Unfinished, RUNNING, ABSENT
  <2>2. CASE u # t
    <3>1. ~Unfinished(u)
      BY <1>2, <1>9, <2>2 DEF IInv, LiveTaskIsTracked
    <3>2. task'[u] = task[u] /\ task[u].state # "created" /\ ~Unfinished(u)'
      BY <1>6, <2>2, <3>1 DEF Unfinished
    <3>3. /\ InQueue(ready', "done", u) <=> InQueue(ready, "done", u)
          /\ InQueue(ready', "wake", u) <=> InQueue(ready, "wake", u)
      BY DEF SameCallbacks
    <3>4. TaskIsKnown(u)
      BY DEF StatusesTrue
    <3>5. /\ task[u].state = "done" => task[u].result # "none"
          /\ (InQueue(ready, "done", u) \/ InQueue(ready, "wake", u)) /\ e.status # ABSENT
               => e.of = u
      BY <1>9, <3>4 DEF TaskIsKnown, Queued, e
    <3>6. QED
      BY <1>4, <1>5, <1>9, <3>2, <3>3, <3>5 DEF TaskIsKnown, Queued
  <2>3. QED
    BY <2>1, <2>2
<1>10. StatusesTrue'
  BY <1>7, <1>8, <1>9 DEF StatusesTrue
<1>11. LifecycleStep
  <2>1. e.status = s \/ (e.status = PENDING /\ s = RUNNING)
    BY <1>3, <1>4
  <2>2. QED
    BY <1>1, <1>4, <2>1, LifecycleMoves DEF e
<1>12. QED
  BY <1>10, <1>11

\* The first step of an execution settles the status of its job, or leaves it to a callback.
LEMMA FirstStepOutcome ==
  ASSUME IInv, StatusesTrue, FirstStep
  PROVE  StatusesTrue' /\ LifecycleStep
<1> DEFINE t == Head(ready).task
           q == Tail(ready)
<1>1. TypeOK
  BY DEF IInv
<1>2. /\ t \in TaskIds /\ Unfinished(t) /\ task[t].state = "created"
      /\ q \in Seq(Handles) /\ SameCallbacks(q)
  BY <1>1, HeadOfReady, HandleFields, StepServed DEF FirstStep, AtHead, Unfinished
<1>3. PICK i \in Jobs : i = task[t].job
  BY <1>1, <1>2, LiveStatus
<1>4. metadata[i].status \in {PENDING, ABSENT}
  BY <1>1, <1>2, <1>3, LiveStatus
<1>5. \/ /\ task[t].cancelling /\ EndTask(t, "cancelled", q) /\ UNCHANGED metadata
      \/ metadata[i].status = ABSENT /\ EndTask(t, "raise", q) /\ UNCHANGED metadata
      \/ /\ metadata[i].status # ABSENT
         /\ \/ /\ SetStatus(i, RUNNING)
               /\ task' = [task EXCEPT ![t].state = "running"]
               /\ ready' = q
            \/ SetStatus(i, RUNNING) /\ EndTask(t, "return", q)
            \/ SetStatus(i, FAILED)  /\ EndTask(t, "return", q)
  BY <1>3 DEF FirstStep
<1>6. task[t] \in TaskRecord
  BY <1>1, <1>2 DEF TypeOK
<1> HIDE DEF t, q
<1>7. /\ {"return", "raise", "cancelled"} \subseteq TaskResult \ {"none"}
      /\ \A k \in {"done", "wake"}, u \in TaskIds : InQueue(q, k, u) <=> InQueue(ready, k, u)
  BY <1>2 DEF TaskResult, SameCallbacks
<1>8. CASE task[t].cancelling /\ EndTask(t, "cancelled", q) /\ UNCHANGED metadata
  <2>1. StatusSet(i, metadata[i].status)
    BY <1>1, <1>8, StatusSetSound
  <2>2. StatusesTrue'
    BY <1>2, <1>3, <1>7, <1>8, <2>1, EndKeepsStatuses
  <2>3. QED
    BY <1>8, <2>2, LifecycleStutters
<1>9. CASE metadata[i].status = ABSENT /\ EndTask(t, "raise", q) /\ UNCHANGED metadata
  <2>1. StatusSet(i, ABSENT)
    BY <1>1, <1>9, StatusSetSound
  <2>2. StatusesTrue'
    BY <1>2, <1>3, <1>7, <1>9, <2>1, EndKeepsStatuses
  <2>3. QED
    BY <1>9, <2>2, LifecycleStutters
<1>10. CASE /\ metadata[i].status # ABSENT /\ SetStatus(i, RUNNING)
            /\ task' = [task EXCEPT ![t].state = "running"] /\ ready' = q
  <2> DEFINE tk == [task[t] EXCEPT !.state = "running"]
  <2>1. tk.job = task[t].job /\ tk.state = "running"
    BY <1>6 DEF TaskRecord
  <2>2. task' = [task EXCEPT ![t] = tk]
    BY <1>10
  <2> HIDE DEF tk
  <2>3. QED
    BY <1>2, <1>3, <1>10, <2>1, <2>2, GoingOnOutcome
<1>11. ASSUME NEW s \in {RUNNING, FAILED}, metadata[i].status # ABSENT,
              SetStatus(i, s), EndTask(t, "return", q)
       PROVE  StatusesTrue' /\ LifecycleStep
  <2>1. StatusSet(i, s)
    BY <1>1, <1>11, StatusSetSound
  <2>2. StatusesTrue'
    BY <1>2, <1>3, <1>7, <1>11, <2>1, EndKeepsStatuses
  <2>3. LifecycleStep
    BY <1>1, <1>4, <1>11, <2>1, LifecycleMoves
  <2>4. QED
    BY <2>2, <2>3
<1>12. QED
  BY <1>5, <1>8, <1>9, <1>10, <1>11

\* The step that delivers a cancellation.
LEMMA CancelledStepOutcome ==
  ASSUME IInv, StatusesTrue, CancelledStep
  PROVE  StatusesTrue' /\ LifecycleStep
<1> DEFINE t == Head(ready).task
           q == Tail(ready)
<1>1. TypeOK
  BY DEF IInv
<1>2. /\ t \in TaskIds /\ Unfinished(t) /\ task[t].state # "created"
      /\ q \in Seq(Handles) /\ SameCallbacks(q) /\ task[t] \in TaskRecord
  BY <1>1, HeadOfReady, HandleFields, StepServed DEF CancelledStep, AtHead, Unfinished, TypeOK
<1>3. \/ BeginUnwinding(t) /\ ready' = q
      \/ EndWithStatus(t, CANCELED, q)
      \/ EndWithStatus(t, FAILED, q)
  BY DEF CancelledStep
<1> HIDE DEF t, q
<1>4. CASE BeginUnwinding(t) /\ ready' = q
  <2> DEFINE tk == [task[t] EXCEPT !.state = "unwinding", !.cancelling = FALSE]
  <2>1. tk.job = task[t].job /\ tk.state = "unwinding"
    BY <1>2 DEF TaskRecord
  <2>2. task' = [task EXCEPT ![t] = tk] /\ UNCHANGED metadata
    BY <1>4 DEF BeginUnwinding
  <2> HIDE DEF tk
  <2>3. QED
    BY <1>2, <1>4, <2>1, <2>2, GoingOnOutcome
<1>5. CASE EndWithStatus(t, CANCELED, q) \/ EndWithStatus(t, FAILED, q)
  BY <1>2, <1>5, EndWithStatusOutcome
<1>6. QED
  BY <1>3, <1>4, <1>5

\* The job function returns, raises, or is unwound.
LEMMA JobFunctionOutcome ==
  ASSUME IInv, StatusesTrue, NEW t \in TaskIds, Progress(t) \/ Unwound(t)
  PROVE  StatusesTrue' /\ LifecycleStep
<1>1. TypeOK /\ ready \in Seq(Handles) /\ SameCallbacks(ready)
  BY DEF IInv, TypeOK, SameCallbacks
<1>2. Unfinished(t) /\ task[t].state # "created"
  BY DEF Progress, Unwound, Unfinished
<1>3. CASE EndTask(t, "return", ready) /\ UNCHANGED metadata
  <2>1. PICK i \in Jobs : i = task[t].job
    BY <1>1, <1>2, LiveStatus
  <2>2. metadata[i].status \in {RUNNING, ABSENT}
    BY <1>1, <1>2, <2>1, LiveStatus
  <2>3. StatusSet(i, metadata[i].status)
    BY <1>1, <1>3, StatusSetSound
  <2>4. "return" \in TaskResult \ {"none"} /\ RUNNING # ABSENT
    BY DEF TaskResult, RUNNING, ABSENT
  <2>5. StatusesTrue'
    BY <1>1, <1>2, <1>3, <2>1, <2>2, <2>3, <2>4, EndKeepsStatuses
  <2>6. QED
    BY <1>3, <2>5, LifecycleStutters
<1>4. CASE EndWithStatus(t, CANCELED, ready) \/ EndWithStatus(t, FAILED, ready)
  BY <1>1, <1>2, <1>4, EndWithStatusOutcome
<1>5. QED
  BY <1>3, <1>4 DEF Progress, Unwound

--------------------------------------------------------------------------------
(* Callbacks                                                                   *)

\* What the callback at the head of the queue is about: a task that has ended, and that the
\* entry of its job is about.
LEMMA CallbackStatus ==
  ASSUME IInv, StatusesTrue, ready # << >>, Head(ready).kind \in {"done", "wake"},
         NEW t, t = Head(ready).task
  PROVE  /\ t \in TaskIds /\ task[t].job \in Jobs /\ Over(task[t].job)
         /\ task[t].state = "done" /\ task[t].result # "none"
         /\ metadata[task[t].job].status # ABSENT => metadata[task[t].job].of = t
         /\ Tail(ready) \in Seq(Handles)
         /\ \A k \in {"done", "wake"}, u \in TaskIds :
              /\ InQueue(Tail(ready), k, u) => InQueue(ready, k, u)
              /\ (k = Head(ready).kind /\ u = t)
                   \/ (InQueue(Tail(ready), k, u) <=> InQueue(ready, k, u))
<1>1. TypeOK /\ ready \in Seq(Handles) /\ Tail(ready) \in Seq(Handles)
  BY HeadOfReady DEF IInv, TypeOK
<1>2. /\ t \in TaskIds /\ task[t].job \in Jobs /\ Over(task[t].job)
      /\ task[t].state = "done"
  BY CallbackAtHead
<1>3. \A k, u : InQueue(ready, k, u) <=>
        (Head(ready).kind = k /\ Head(ready).task = u) \/ InQueue(Tail(ready), k, u)
  BY <1>1, QueueServed
<1>4. InQueue(ready, "done", t) \/ InQueue(ready, "wake", t)
  BY <1>3
<1>5. TaskIsKnown(t)
  BY <1>2 DEF StatusesTrue
<1>6. QED
  BY <1>1, <1>2, <1>3, <1>4, <1>5 DEF TaskIsKnown, Queued

\* A step that takes a callback of a job from the queue, or none, and settles its status.
LEMMA SettledKeepsStatuses ==
  ASSUME IInv, StatusesTrue, NEW i \in Jobs, Over(i), UNCHANGED task,
         \A u \in TaskIds : task[u].job # i =>
           \A k \in {"done", "wake"} : InQueue(ready', k, u) <=> InQueue(ready, k, u),
         \A k \in {"done", "wake"}, u \in TaskIds :
           InQueue(ready', k, u) => InQueue(ready, k, u),
         NEW s, StatusSet(i, s), s = ABSENT <=> metadata[i].status = ABSENT,
         EntryIsTrue(i)'
  PROVE  StatusesTrue'
<1>1. TypeOK
  BY DEF IInv
<1>2. /\ \A j \in Jobs : j # i => EntryIsTrue(j)'
      /\ \A u \in TaskIds : task[u].job # i => TaskIsKnown(u)'
  BY <1>1, OthersStay
<1>3. ASSUME NEW u \in TaskIds, task[u].job = i PROVE TaskIsKnown(u)'
  <2>1. TaskIsKnown(u) /\ ~Unfinished(u)
    BY <1>3 DEF StatusesTrue, Over
  <2>2. metadata'[i].of = metadata[i].of /\ metadata'[i].status = s
    BY DEF StatusSet
  <2>3. /\ task[u].state = "done" => task[u].result # "none"
        /\ task[u].state # "created"
        /\ (InQueue(ready, "done", u) \/ InQueue(ready, "wake", u))
             /\ metadata[i].status # ABSENT => metadata[i].of = u
    BY <1>3, <2>1 DEF TaskIsKnown, Queued, Unfinished
  <2>4. InQueue(ready', "done", u) \/ InQueue(ready', "wake", u) =>
          InQueue(ready, "done", u) \/ InQueue(ready, "wake", u)
    OBVIOUS
  <2>5. ~Unfinished(u)'
    BY <2>1 DEF Unfinished
  <2>6. QED
    BY <1>3, <2>2, <2>3, <2>4, <2>5 DEF TaskIsKnown, Queued
<1>4. QED
  BY <1>2, <1>3 DEF StatusesTrue

\* _handle_task_done: the task is the one the entry is about.
LEMMA HandleTaskDoneOutcome ==
  ASSUME IInv, StatusesTrue, HandleTaskDone
  PROVE  StatusesTrue' /\ LifecycleStep
<1>1. PICK t : t = Head(ready).task
  OBVIOUS
<1>2. ready # << >> /\ Head(ready).kind = "done" /\ TypeOK
  BY DEF HandleTaskDone, AtHead, IInv
<1>3. PICK i \in Jobs : i = task[t].job
  BY <1>1, <1>2, CallbackStatus
<1>4. /\ t \in TaskIds /\ Over(i) /\ task[t].state = "done" /\ task[t].result # "none"
      /\ metadata[i].status # ABSENT => metadata[i].of = t
      /\ \A k \in {"done", "wake"}, u \in TaskIds :
           /\ InQueue(Tail(ready), k, u) => InQueue(ready, k, u)
           /\ (k = "done" /\ u = t) \/ (InQueue(Tail(ready), k, u) <=> InQueue(ready, k, u))
  BY <1>1, <1>2, <1>3, CallbackStatus
<1>5. PICK s : s = FinalStatus(metadata[i].status, task[t].result)
  OBVIOUS
<1>6. SetStatus(i, s) /\ ready' = Tail(ready) /\ UNCHANGED task
  BY <1>1, <1>3, <1>5 DEF HandleTaskDone
<1>7. StatusSet(i, s)
  BY <1>2, <1>6, StatusSetSound
<1>8. metadata'[i].status = s /\ metadata'[i].of = metadata[i].of
  BY <1>7 DEF StatusSet
<1>9. EntryIsTrue(i)
  BY DEF StatusesTrue
<1>10. \/ s = ABSENT /\ metadata[i].status = ABSENT
       \/ s = metadata[i].status /\ s \in TerminalStates
       \/ /\ s = metadata[i].status /\ s \in {PENDING, RUNNING}
          /\ task[t].result = "cancelled" /\ InQueue(ready, "wake", t)
       \/ s = COMPLETED /\ metadata[i].status = RUNNING /\ task[t].result = "return"
  <2>1. metadata[i].status \in JobStatus \cup {ABSENT}
    BY <1>2 DEF TypeOK, Entry
  <2>2. metadata[i].status \in {PENDING, RUNNING} =>
          \/ task[t].result = "return" /\ metadata[i].status = RUNNING
          \/ task[t].result = "cancelled" /\ InQueue(ready, "wake", t)
    BY <1>3, <1>4, <1>9 DEF EntryIsTrue, Queued, Unfinished, PENDING, RUNNING, ABSENT
  <2>3. metadata[i].status # STOPPED
    BY <1>9 DEF EntryIsTrue
  <2>4. CASE metadata[i].status \in TerminalStates \cup {ABSENT}
    BY <1>5, <2>4 DEF FinalStatus
  <2>5. CASE metadata[i].status \in {PENDING, RUNNING}
    <3>1. metadata[i].status \notin TerminalStates \cup {ABSENT}
      BY <2>5 DEF PENDING, RUNNING, COMPLETED, FAILED, CANCELED, TerminalStates, ABSENT
    <3>2. QED
      BY <1>5, <2>2, <2>5, <3>1 DEF FinalStatus
  <2>6. QED
    BY <2>1, <2>3, <2>4, <2>5 DEF JobStatus, TerminalStates
<1>11. EntryIsTrue(i)'
  <2>1. InQueue(ready, "wake", t) => InQueue(ready', "wake", t)
    BY <1>4, <1>6
  <2>2. /\ s # STOPPED
        /\ s # ABSENT => /\ metadata[i].of \in TaskIds /\ task[metadata[i].of].job = i
                         /\ task[metadata[i].of].state # "unborn" /\ metadata[i].of = t
        /\ s = COMPLETED => task[metadata[i].of].state = "done"
                            /\ task[metadata[i].of].result = "return"
    BY <1>4, <1>9, <1>10 DEF EntryIsTrue, STOPPED, ABSENT, PENDING, RUNNING, COMPLETED,
                             FAILED, CANCELED, TerminalStates
  <2>3. s \in {PENDING, RUNNING} =>
          /\ metadata[i].of = t /\ task[t].state = "done" /\ task[t].result = "cancelled"
          /\ InQueue(ready', "wake", t)
    BY <1>4, <1>10, <2>1, <2>2 DEF ABSENT, PENDING, RUNNING, COMPLETED, FAILED, CANCELED,
                                   TerminalStates
  <2>4. QED
    BY <1>6, <1>8, <2>2, <2>3 DEF EntryIsTrue, Queued
<1>12. StatusesTrue'
  <2>1. s = ABSENT <=> metadata[i].status = ABSENT
    BY <1>10 DEF ABSENT, PENDING, RUNNING, COMPLETED, FAILED, CANCELED, TerminalStates
  <2>2. \A u \in TaskIds : task[u].job # i =>
           \A k \in {"done", "wake"} : InQueue(ready', k, u) <=> InQueue(ready, k, u)
    BY <1>3, <1>4, <1>6
  <2>3. \A k \in {"done", "wake"}, u \in TaskIds :
           InQueue(ready', k, u) => InQueue(ready, k, u)
    BY <1>4, <1>6
  <2>4. QED
    BY <1>4, <1>6, <1>7, <1>11, <2>1, <2>2, <2>3, SettledKeepsStatuses
<1>13. LifecycleStep
  BY <1>2, <1>7, <1>10, LifecycleMoves
<1>14. QED
  BY <1>12, <1>13

\* An entry that says CANCELED, or nothing, is true.
LEMMA CanceledIsTrue ==
  ASSUME IInv, StatusesTrue, NEW i \in Jobs, UNCHANGED task,
         StatusSet(i, IF metadata[i].status = ABSENT THEN ABSENT ELSE CANCELED)
  PROVE  EntryIsTrue(i)'
<1> DEFINE s == IF metadata[i].status = ABSENT THEN ABSENT ELSE CANCELED
<1>1. metadata'[i].status = s /\ metadata'[i].of = metadata[i].of
  BY DEF StatusSet
<1>2. s \in {ABSENT, CANCELED} /\ (s = ABSENT <=> metadata[i].status = ABSENT)
  BY DEF ABSENT, CANCELED
<1> HIDE DEF s
<1>3. EntryIsTrue(i)
  BY DEF StatusesTrue
<1>4. metadata[i].status # ABSENT =>
        /\ metadata[i].of \in TaskIds /\ task[metadata[i].of].job = i
        /\ task[metadata[i].of].state # "unborn"
  BY <1>3 DEF EntryIsTrue
<1>5. QED
  BY <1>1, <1>2, <1>4
    DEF EntryIsTrue, ABSENT, CANCELED, STOPPED, PENDING, RUNNING, COMPLETED

\* A caller woken by the end of the task it awaits.
LEMMA WakeOutcome ==
  ASSUME IInv, StatusesTrue, Wake
  PROVE  StatusesTrue' /\ LifecycleStep
<1>1. PICK t : t = Head(ready).task
  OBVIOUS
<1>2. ready # << >> /\ Head(ready).kind = "wake" /\ TypeOK
  BY DEF Wake, AtHead, IInv
<1>3. PICK i \in Jobs : i = task[t].job
  BY <1>1, <1>2, CallbackStatus
<1>4. /\ t \in TaskIds /\ Over(i) /\ task[t].state = "done" /\ task[t].result # "none"
      /\ metadata[i].status # ABSENT => metadata[i].of = t
      /\ \A k \in {"done", "wake"}, u \in TaskIds :
           /\ InQueue(Tail(ready), k, u) => InQueue(ready, k, u)
           /\ (k = "wake" /\ u = t) \/ (InQueue(Tail(ready), k, u) <=> InQueue(ready, k, u))
  BY <1>1, <1>2, <1>3, CallbackStatus
<1>5. /\ ready' = Tail(ready) /\ UNCHANGED task
      /\ \/ task[t].result = "raise" /\ UNCHANGED metadata
         \/ MarkCanceled(i)
  BY <1>1, <1>3 DEF Wake
<1>6. /\ \A u \in TaskIds : task[u].job # i =>
           \A k \in {"done", "wake"} : InQueue(ready', k, u) <=> InQueue(ready, k, u)
      /\ \A k \in {"done", "wake"}, u \in TaskIds :
           InQueue(ready', k, u) => InQueue(ready, k, u)
  BY <1>3, <1>4, <1>5
<1>7. CASE task[t].result = "raise" /\ UNCHANGED metadata
  <2>1. StatusSet(i, metadata[i].status)
    BY <1>2, <1>7, StatusSetSound
  <2>2. EntryIsTrue(i)
    BY DEF StatusesTrue
  <2>3. metadata[i].status \notin {PENDING, RUNNING}
    BY <1>4, <1>7, <2>2 DEF EntryIsTrue, Unfinished, PENDING, RUNNING, ABSENT
  <2>4. EntryIsTrue(i)'
    BY <1>5, <1>7, <2>2, <2>3 DEF EntryIsTrue
  <2>5. StatusesTrue'
    BY <1>4, <1>5, <1>6, <2>1, <2>4, SettledKeepsStatuses
  <2>6. QED
    BY <1>7, <2>5, LifecycleStutters
<1>8. CASE MarkCanceled(i)
  <2> DEFINE s == IF metadata[i].status = ABSENT THEN ABSENT ELSE CANCELED
  <2>1. StatusSet(i, s)
    BY <1>2, <1>8, StatusSetSound
  <2>2. EntryIsTrue(i)'
    BY <1>5, <2>1, CanceledIsTrue
  <2>3. (s = ABSENT <=> metadata[i].status = ABSENT) /\ s \in {ABSENT, CANCELED}
    BY DEF ABSENT, CANCELED
  <2> HIDE DEF s
  <2>4. StatusesTrue'
    BY <1>4, <1>5, <1>6, <2>1, <2>2, <2>3, SettledKeepsStatuses
  <2>5. LifecycleStep
    BY <1>2, <2>1, <2>3, LifecycleMoves
  <2>6. QED
    BY <2>4, <2>5
<1>9. QED
  BY <1>5, <1>7, <1>8

\* A step that touches no entry, and of the tasks only who waits for them and whether they
\* are to be canceled.
LEMMA NothingSaid ==
  ASSUME StatusesTrue, UNCHANGED metadata, SameCallbacks(ready'),
         \A u \in TaskIds :
           /\ task'[u].job = task[u].job /\ task'[u].state = task[u].state
           /\ task'[u].result = task[u].result
           /\ task'[u].cancelling => task[u].cancelling \/ task'[u].waiters # << >>
           /\ task[u].waiters # << >> => task'[u].waiters # << >>
  PROVE  StatusesTrue' /\ LifecycleStep
<1>1. ASSUME NEW j \in Jobs PROVE EntryIsTrue(j)'
  <2>1. EntryIsTrue(j) /\ metadata'[j] = metadata[j]
    BY DEF StatusesTrue
  <2>2. QED
    BY <2>1, EntryStays DEF SameCallbacks
<1>2. ASSUME NEW u \in TaskIds PROVE TaskIsKnown(u)'
  <2>1. TaskIsKnown(u)
    BY DEF StatusesTrue
  <2>2. task'[u].state = "created" /\ task'[u].cancelling => task'[u].waiters # << >>
    BY <2>1 DEF TaskIsKnown
  <2>3. QED
    BY <2>1, <2>2, KnownStays DEF SameCallbacks
<1>3. QED
  BY <1>1, <1>2, LifecycleStutters DEF StatusesTrue

\* A cancellation puts no callback in the queue.
LEMMA CancelHandlesQueued ==
  ASSUME TypeOK, NEW t \in TaskIds, ready' = ready \o CancelHandles(t)
  PROVE  SameCallbacks(ready')
<1>1. ready \in Seq(Handles) /\ CancelHandles(t) \in Seq(Handles)
  BY CancelHandlesType DEF TypeOK
<1>2. \A k, u : InQueue(ready', k, u) <=> InQueue(ready, k, u) \/ InQueue(CancelHandles(t), k, u)
  BY <1>1, QueueJoined
<1>3. QED
  BY <1>2, StepsAreNoCallbacks DEF SameCallbacks

\* cancel_job takes the next job of its list.
LEMMA CancelNextOutcome ==
  ASSUME IInv, StatusesTrue, NEW c \in Callers, CancelNext(c)
  PROVE  StatusesTrue' /\ LifecycleStep
<1>1. TypeOK
  BY DEF IInv
<1>2. PICK j \in caller[c].work : CancelNothing(c, j) \/ CancelEnded(c, j) \/ CancelAndAwait(c, j)
  BY DEF CancelNext
<1>3. j \in Jobs
  BY <1>1 DEF TypeOK, CallerRecord
<1>4. CASE UNCHANGED <<metadata, task, ready>>
  BY <1>4, NothingSaid DEF SameCallbacks
<1>5. CASE CancelEnded(c, j) /\ MarkCanceled(j)
  <2> DEFINE s == IF metadata[j].status = ABSENT THEN ABSENT ELSE CANCELED
  <2>1. Over(j) /\ UNCHANGED <<task, ready>>
    BY <1>3, <1>5, EndedEntry DEF CancelEnded
  <2>2. StatusSet(j, s)
    BY <1>1, <1>3, <1>5, StatusSetSound
  <2>3. EntryIsTrue(j)'
    BY <1>3, <2>1, <2>2, CanceledIsTrue
  <2>4. (s = ABSENT <=> metadata[j].status = ABSENT) /\ s \in {ABSENT, CANCELED}
    BY DEF ABSENT, CANCELED
  <2> HIDE DEF s
  <2>5. StatusesTrue'
    BY <1>3, <2>1, <2>2, <2>3, <2>4, SettledKeepsStatuses
  <2>6. LifecycleStep
    BY <1>1, <1>3, <2>2, <2>4, LifecycleMoves
  <2>7. QED
    BY <2>5, <2>6
<1>6. CASE CancelAndAwait(c, j)
  <2>1. PICK t \in TaskIds : t = tasks[j]
    BY <1>1, <1>3, <1>6, ConstantsAssumption DEF CancelAndAwait, TypeOK, TaskIds
  <2> DEFINE tk == AwaitedTask(task[t], c)
  <2>2. /\ task' = [task EXCEPT ![t] = tk] /\ UNCHANGED metadata
        /\ ready' = ready \o CancelHandles(t)
    BY <1>6, <2>1 DEF CancelAndAwait
  <2>3. /\ tk.job = task[t].job /\ tk.state = task[t].state
        /\ tk.result = task[t].result /\ tk.waiters # << >>
    <3>1. task[t] \in TaskRecord
      BY <1>1 DEF TypeOK
    <3> DEFINE m == CancelledTask(task[t])
    <3>2. m \in TaskRecord /\ m.job = task[t].job /\ m.state = task[t].state
          /\ m.result = task[t].result
      BY <3>1 DEF CancelledTask, TaskRecord
    <3> HIDE DEF m
    <3>3. tk = [m EXCEPT !.waiters = Append(m.waiters, c)]
      BY DEF AwaitedTask, m
    <3>4. m.waiters \in Seq(Callers)
      BY <3>2 DEF TaskRecord
    <3>5. Append(m.waiters, c) # << >>
      <4>1. Len(Append(m.waiters, c)) = Len(m.waiters) + 1 /\ Len(m.waiters) \in Nat
        BY <3>4, AppendProperties
      <4>2. Len(<< >>) = 0
        OBVIOUS
      <4>3. QED
        BY <4>1, <4>2
    <3> HIDE DEF tk
    <3>6. tk.waiters = Append(m.waiters, c) /\ tk.job = m.job /\ tk.state = m.state
          /\ tk.result = m.result
      BY <3>2, <3>3 DEF TaskRecord
    <3>7. QED
      BY <3>2, <3>5, <3>6
  <2> HIDE DEF tk
  <2>4. task'[t] = tk /\ \A u \in TaskIds : u # t => task'[u] = task[u]
    BY <1>1, <2>2 DEF TypeOK
  <2>5. SameCallbacks(ready')
    BY <1>1, <2>2, CancelHandlesQueued
  <2>6. \A u \in TaskIds :
           /\ task'[u].job = task[u].job /\ task'[u].state = task[u].state
           /\ task'[u].result = task[u].result
           /\ task'[u].cancelling => task[u].cancelling \/ task'[u].waiters # << >>
           /\ task[u].waiters # << >> => task'[u].waiters # << >>
    BY <2>3, <2>4
  <2>7. QED
    BY <2>2, <2>5, <2>6, NothingSaid
<1>7. QED
  BY <1>2, <1>4, <1>5, <1>6 DEF CancelNothing, CancelEnded

\* A task of a job that is over, and that `tasks' holds, has ended: canceling it does
\* nothing.
LEMMA StaleIsDone ==
  ASSUME IInv, NEW j \in Jobs, Terminal(j), tasks[j] # 0
  PROVE  /\ tasks[j] \in TaskIds /\ task[tasks[j]].state = "done"
         /\ CancelledTask(task[tasks[j]]) = task[tasks[j]]
         /\ CancelHandles(tasks[j]) = << >>
<1> DEFINE t == tasks[j]
<1>1. TypeOK /\ t \in TaskIds /\ t <= created /\ task[t].job = j
  BY ConstantsAssumption DEF IInv, TypeOK, TaskIds, EntryIsOwn
<1>2. created \in Nat /\ t \in Nat
  BY <1>1, ConstantsAssumption DEF TypeOK, TaskIds
<1>3. ~Unfinished(t)
  BY <1>1 DEF IInv, TerminalMeansOver
<1>4. task[t].state # "unborn"
  BY <1>1, <1>2 DEF IInv, BornInOrder
<1>5. task[t].state \in TaskState
  BY <1>1 DEF TypeOK, TaskRecord
<1>6. task[t].state = "done"
  BY <1>3, <1>4, <1>5 DEF TaskState, Unfinished
<1>7. QED
  BY <1>1, <1>6 DEF CancelledTask, CancelHandles

\* The periodic sweep takes its next job.
LEMMA SweepNextOutcome ==
  ASSUME IInv, StatusesTrue, NEW c \in Callers, SweepNext(c)
  PROVE  StatusesTrue' /\ LifecycleStep
<1>1. TypeOK /\ UNCHANGED metadata
  BY DEF IInv, SweepNext
<1>2. PICK j \in caller[c].work :
         IF Stale(j)
           THEN /\ task' = [task EXCEPT ![tasks[j]] = CancelledTask(@)]
                /\ ready' = ready \o CancelHandles(tasks[j])
           ELSE UNCHANGED <<task, ready>>
  BY DEF SweepNext
<1>3. j \in Jobs
  BY <1>1 DEF TypeOK, CallerRecord
<1>4. UNCHANGED <<task, ready>>
  <2>1. CASE Stale(j)
    <3>1. /\ tasks[j] \in TaskIds /\ CancelledTask(task[tasks[j]]) = task[tasks[j]]
          /\ CancelHandles(tasks[j]) = << >>
      BY <1>3, <2>1, StaleIsDone DEF Stale
    <3>2. task' = task
      BY <1>1, <1>2, <2>1, <3>1 DEF TypeOK
    <3>3. ready' = ready
      <4>1. ready' = ready \o << >>
        BY <1>2, <2>1, <3>1
      <4>2. QED
        BY <1>1, <4>1, ConcatEmptySeq DEF TypeOK
    <3>4. QED
      BY <3>2, <3>3
  <2>2. QED
    BY <1>2, <2>1
<1>5. QED
  BY <1>1, <1>4, NothingSaid DEF SameCallbacks

\* The sweep ends, and cleanup() forgets all jobs.
LEMMA EndSweepOutcome ==
  ASSUME IInv, StatusesTrue, NEW c \in Callers, EndSweep(c)
  PROVE  StatusesTrue' /\ LifecycleStep
<1>1. UNCHANGED <<task, ready>>
  BY DEF EndSweep
<1>2. CASE UNCHANGED metadata
  BY <1>1, <1>2, NothingSaid DEF SameCallbacks
<1>3. CASE metadata' = [j \in Jobs |-> [status |-> ABSENT, of |-> 0]]
  <2>1. \A j \in Jobs : metadata'[j].status = ABSENT
    BY <1>3
  <2>2. \A j \in Jobs : EntryIsTrue(j)'
    BY <2>1 DEF EntryIsTrue, ABSENT, STOPPED, PENDING, RUNNING, COMPLETED
  <2>3. ASSUME NEW u \in TaskIds PROVE TaskIsKnown(u)'
    <3>1. TaskIsKnown(u) /\ task[u].job \in Jobs
      BY DEF StatusesTrue, IInv, TypeOK, TaskRecord
    <3>2. QED
      BY <1>1, <2>1, <3>1 DEF TaskIsKnown
  <2>4. QED
    BY <2>1, <2>2, <2>3, LifecycleForgets DEF StatusesTrue
<1>4. QED
  BY <1>2, <1>3 DEF EndSweep

\* What a caller does to begin or to end, and the shutdown, concern no job.
LEMMA CallersOutcome ==
  ASSUME IInv, StatusesTrue,
         \/ BeginCleanupTasks \/ Exit
         \/ \E c \in Callers : \/ BeginCancel(c) \/ BeginCleanup(c) \/ BeginSweep(c)
                               \/ Signal(c) \/ EndCancel(c)
  PROVE  StatusesTrue' /\ LifecycleStep
<1>1. TypeOK
  BY DEF IInv
<1>2. UNCHANGED <<metadata, task>>
  BY DEF BeginCleanupTasks, Exit, BeginCancel, BeginCleanup, BeginSweep, Signal, EndCancel
<1>3. SameCallbacks(ready')
  <2>1. CASE BeginCleanupTasks \/ Exit
    BY <1>1, <2>1, StepServed DEF BeginCleanupTasks, Exit, AtHead
  <2>2. ASSUME NEW c \in Callers, Signal(c) PROVE SameCallbacks(ready')
    <3> DEFINE p == <<Handle("begin", 0, c), Handle("exit", 0, Nobody)>>
    <3>1. Handle("begin", 0, c) \in Handles /\ Handle("exit", 0, Nobody) \in Handles
      BY DEF Handle, Handles
    <3>2. p \in Seq(Handles) /\ ready \in Seq(Handles) /\ ready' = ready \o p
      BY <1>1, <2>2, <3>1 DEF Signal, TypeOK
    <3>3. \A k, u : k \in {"done", "wake"} => ~InQueue(p, k, u)
      BY DEF InQueue, Handle
    <3> HIDE DEF p
    <3>4. \A k, u : InQueue(ready', k, u) <=> InQueue(ready, k, u) \/ InQueue(p, k, u)
      BY <3>2, QueueJoined
    <3>5. QED
      BY <3>3, <3>4 DEF SameCallbacks
  <2>3. CASE UNCHANGED ready
    BY <2>3 DEF SameCallbacks
  <2>4. QED
    BY <2>1, <2>2, <2>3 DEF BeginCancel, BeginCleanup, BeginSweep, EndCancel
<1>4. QED
  BY <1>2, <1>3, NothingSaid

\* start_job: what is queued of callbacks stays, and the other tasks stay.
LEMMA StartJobQueues ==
  ASSUME IInv, NEW j \in Jobs, StartJob(j)
  PROVE  /\ SameCallbacks(ready')
         /\ \A u \in TaskIds : u # created + 1 => task'[u] = task[u]
         /\ task'[created + 1] = [job |-> j, state |-> "created", cancelling |-> FALSE,
                                  result |-> "none", waiters |-> << >>]
<1> DEFINE t == created + 1
           stale == IF Terminal(j) THEN tasks[j] ELSE 0
           fresh == [job |-> j, state |-> "created", cancelling |-> FALSE,
                     result |-> "none", waiters |-> << >>]
           p == IF stale = 0 THEN << >> ELSE CancelHandles(stale)
           b == <<Handle("step", t, Nobody)>>
<1>1. TypeOK /\ t \in TaskIds
  BY ConstantsAssumption DEF IInv, StartJob, TypeOK, TaskIds
<1>2. /\ task' = [u \in TaskIds |-> IF u = t THEN fresh
                                    ELSE IF u = stale THEN CancelledTask(task[u])
                                    ELSE task[u]]
      /\ ready' = ready \o p \o b
  BY DEF StartJob
<1>3. stale # 0 => CancelledTask(task[stale]) = task[stale] /\ CancelHandles(stale) = << >>
  BY StaleIsDone
<1>4. p = << >>
  BY <1>3
<1>5. b \in Seq(Handles) /\ ready \in Seq(Handles)
  <2>1. Handle("step", t, Nobody) \in Handles
    BY <1>1 DEF Handle, Handles
  <2>2. QED
    BY <1>1, <2>1 DEF TypeOK
<1> HIDE DEF p
<1>6. ready' = ready \o b
  BY <1>2, <1>4, <1>5, ConcatEmptySeq
<1>7. \A k, u : InQueue(ready', k, u) <=> InQueue(ready, k, u) \/ InQueue(b, k, u)
  BY <1>5, <1>6, QueueJoined
<1>8. SameCallbacks(ready')
  BY <1>1, <1>7, StepsAreNoCallbacks DEF SameCallbacks
<1> HIDE DEF stale, fresh
<1>9. \A u \in TaskIds : u # t => task'[u] = task[u]
  <2>1. ASSUME NEW u \in TaskIds, u # t PROVE task'[u] = task[u]
    <3>1. u # 0
      BY DEF TaskIds
    <3>2. u = stale => CancelledTask(task[u]) = task[u]
      BY <1>3, <3>1
    <3>3. QED
      BY <1>2, <2>1, <3>2
  <2>2. QED
    BY <2>1
<1>10. task'[t] = fresh
  BY <1>1, <1>2
<1>11. QED
  BY <1>8, <1>9, <1>10 DEF fresh

\* Where no job is restarted between the end of its task and the callbacks, the new entry is
\* about the new task, and nothing queued is about another one.
LEMMA StartJobOutcome ==
  ASSUME ~RestartInGap, IInv, StatusesTrue, NEW j \in Jobs, StartJob(j)
  PROVE  StatusesTrue' /\ LifecycleStep
<1>1. TypeOK /\ \A u \in TaskIds : task[u].job \in Jobs
  BY DEF IInv, TypeOK, TaskRecord
<1>t. PICK t \in TaskIds : t = created + 1 /\ t > created
  <2>1. created + 1 \in TaskIds /\ created + 1 > created
    BY <1>1, ConstantsAssumption DEF StartJob, TypeOK, TaskIds
  <2>2. QED
    BY <2>1
<1>2. /\ SameCallbacks(ready')
      /\ \A u \in TaskIds : u # t => task'[u] = task[u]
      /\ task'[t].job = j /\ task'[t].state = "created" /\ task'[t].cancelling = FALSE
  <2>1. /\ SameCallbacks(ready')
        /\ \A u \in TaskIds : u # t => task'[u] = task[u]
        /\ task'[t] = [job |-> j, state |-> "created", cancelling |-> FALSE,
                       result |-> "none", waiters |-> << >>]
    BY <1>t, StartJobQueues
  <2>2. QED
    BY <2>1
<1>3. Over(j) /\ ~InGap(j)
  BY DEF StartJob, MayStart, IInv, TerminalMeansOver, AbsentMeansOver, Over
<1>4. t \in TaskIds /\ task[t].state = "unborn"
  BY <1>t DEF IInv, BornInOrder
<1>5. /\ metadata'[j] = [status |-> PENDING, of |-> t]
      /\ \A i \in Jobs : i # j => metadata'[i] = metadata[i]
      /\ metadata[j].status \in TerminalStates \cup {ABSENT}
  BY <1>1, <1>t DEF StartJob, MayStart, Terminal, TypeOK
<1>6. \A k \in {"done", "wake"}, u \in TaskIds :
        InQueue(ready', k, u) => InQueue(ready, k, u) /\ task[u].job # j /\ u # t
  <2>1. ASSUME NEW k \in {"done", "wake"}, NEW u \in TaskIds, InQueue(ready, k, u)
        PROVE  task[u].job # j /\ task[u].state = "done"
    <3>1. PICK i \in 1..Len(ready) : ready[i].kind = k /\ ready[i].task = u
      BY <2>1 DEF InQueue
    <3>2. QED
      BY <1>3, <3>1 DEF InGap, IInv, CallbackMeansOver
  <2>2. QED
    BY <1>2, <1>4, <2>1 DEF SameCallbacks
<1>7. ASSUME NEW i \in Jobs PROVE EntryIsTrue(i)'
  <2>1. CASE i = j
    <3>1. Unfinished(t)'
      BY <1>2 DEF Unfinished
    <3>2. QED
      BY <1>2, <1>4, <1>5, <2>1, <3>1
        DEF EntryIsTrue, PENDING, RUNNING, COMPLETED, STOPPED, ABSENT
  <2>2. CASE i # j
    <3>1. EntryIsTrue(i) /\ metadata'[i] = metadata[i]
      BY <1>5, <2>2 DEF StatusesTrue
    <3>2. \A u \in TaskIds : task[u].job = i /\ task[u].state # "unborn" => task'[u] = task[u]
      BY <1>2, <1>4
    <3>3. QED
      BY <1>2, <3>1, <3>2, EntryStays DEF SameCallbacks
  <2>3. QED
    BY <2>1, <2>2
<1>8. ASSUME NEW u \in TaskIds PROVE TaskIsKnown(u)'
  <2>1. TaskIsKnown(u)
    BY DEF StatusesTrue
  <2>2. CASE u = t
    <3>1. ~InQueue(ready', "done", u) /\ ~InQueue(ready', "wake", u)
      BY <1>6, <2>2
    <3>2. QED
      BY <1>2, <1>5, <2>2, <3>1 DEF TaskIsKnown, Queued, Unfinished
  <2>3. CASE u # t /\ task[u].job = j
    <3>1. task'[u] = task[u] /\ ~Unfinished(u)
      BY <1>2, <1>3, <2>3 DEF Over
    <3>2. ~InQueue(ready', "done", u) /\ ~InQueue(ready', "wake", u)
      BY <1>6, <2>3
    <3>3. QED
      BY <2>1, <3>1, <3>2 DEF TaskIsKnown, Queued, Unfinished
  <2>4. CASE u # t /\ task[u].job # j
    <3>1. task'[u] = task[u] /\ metadata'[task[u].job] = metadata[task[u].job]
      BY <1>1, <1>2, <1>5, <2>4
    <3>2. task[u].state = "created" /\ task[u].cancelling => task[u].waiters # << >>
      BY <2>1 DEF TaskIsKnown
    <3>3. QED
      BY <1>2, <2>1, <3>1, <3>2, KnownStays DEF SameCallbacks
  <2>5. QED
    BY <2>2, <2>3, <2>4
<1>9. LifecycleStep
  <2>1. \A i \in Jobs : metadata'[i].status = IF i = j THEN PENDING ELSE metadata[i].status
    BY <1>5
  <2>2. QED
    BY <1>1, <1>5, <2>1, LifecycleGoesOn
<1>10. QED
  BY <1>7, <1>8, <1>9 DEF StatusesTrue

--------------------------------------------------------------------------------
(* What the statuses are worth                                                 *)

\* Before the first job there is nothing to say.
LEMMA StatusesInit == Init => StatusesTrue
<1> SUFFICES ASSUME Init PROVE StatusesTrue
  OBVIOUS
<1>1. TypeOK
  BY InitType
<1>2. /\ \A j \in Jobs : metadata[j].status = ABSENT
      /\ \A t \in TaskIds : task[t].state = "unborn" /\ task[t].job \in Jobs
  BY <1>1 DEF Init, TypeOK, TaskRecord
<1>3. \A j \in Jobs : EntryIsTrue(j)
  BY <1>2 DEF EntryIsTrue, ABSENT, STOPPED, PENDING, RUNNING, COMPLETED
<1>4. \A t \in TaskIds : TaskIsKnown(t)
  BY <1>2 DEF TaskIsKnown, Unfinished
<1>5. QED
  BY <1>3, <1>4 DEF StatusesTrue

\* Each step of the runner keeps the statuses true, and is a step of the lifecycle.
LEMMA StatusesNext ==
  ~RestartInGap /\ IInv /\ StatusesTrue /\ [Next]_vars => StatusesTrue' /\ LifecycleStep
<1> SUFFICES ASSUME ~RestartInGap, IInv, StatusesTrue, [Next]_vars
             PROVE  StatusesTrue' /\ LifecycleStep
  OBVIOUS
<1>1. CASE RunCallback
  BY <1>1, FirstStepOutcome, CancelledStepOutcome, HandleTaskDoneOutcome, WakeOutcome,
     CallersOutcome DEF RunCallback
<1>2. ASSUME NEW j \in Jobs, StartJob(j) PROVE StatusesTrue' /\ LifecycleStep
  BY <1>2, StartJobOutcome
<1>3. ASSUME NEW t \in TaskIds, Progress(t) \/ Unwound(t)
      PROVE  StatusesTrue' /\ LifecycleStep
  BY <1>3, JobFunctionOutcome
<1>4. ASSUME NEW c \in Callers, GoOn(c) PROVE StatusesTrue' /\ LifecycleStep
  BY <1>4, CancelNextOutcome, CallersOutcome, SweepNextOutcome, EndSweepOutcome DEF GoOn
<1>5. ASSUME NEW c \in Callers, BeginCancel(c) \/ BeginCleanup(c) \/ BeginSweep(c) \/ Signal(c)
      PROVE  StatusesTrue' /\ LifecycleStep
  BY <1>5, CallersOutcome
<1>6. CASE UNCHANGED vars
  <2>1. UNCHANGED <<metadata, task, ready>>
    BY <1>6 DEF vars
  <2>2. QED
    BY <2>1, NothingSaid DEF SameCallbacks
<1>7. QED
  BY <1>1, <1>2, <1>3, <1>4, <1>5, <1>6 DEF Next

\* A job is reported COMPLETED only if the function of the execution that start_job made
\* its entry for was called and returned, whatever other executions the job had.
THEOREM OutcomesAreOwn ==
  ASSUME ~RestartInGap PROVE Spec => []OutcomeIsOwn
<1>1. Init => IInv /\ StatusesTrue
  BY InitIInv, StatusesInit
<1>2. IInv /\ StatusesTrue /\ [Next]_vars => IInv' /\ StatusesTrue'
  BY NextKeeps, StatusesNext
<1>3. StatusesTrue => OutcomeIsOwn
  BY DEF StatusesTrue, EntryIsTrue, OutcomeIsOwn
<1>4. QED
  BY <1>1, <1>2, <1>3, PTL DEF Spec

\* No job is stuck in PENDING or RUNNING: its task has not ended, or a callback in the queue
\* will write its final status, however many callers cancel it at which moment.
THEOREM NoJobIsStuck ==
  ASSUME ~RestartInGap PROVE Spec => []NoStuckJob
<1>1. Init => IInv /\ StatusesTrue
  BY InitIInv, StatusesInit
<1>2. IInv /\ StatusesTrue /\ [Next]_vars => IInv' /\ StatusesTrue'
  BY NextKeeps, StatusesNext
<1>3. StatusesTrue => NoStuckJob
  BY DEF StatusesTrue, EntryIsTrue, NoStuckJob, Queued, InQueue
<1>4. QED
  BY <1>1, <1>2, <1>3, PTL DEF Spec

\* The statuses that a client of AsyncioRunner reads follow the lifecycle that every runner
\* promises: each step of the runner is a step of JobLifecycle, or none.
THEOREM AsyncioImplementsLifecycle ==
  ASSUME ~RestartInGap PROVE Spec => ImplementsLifecycle
<1>1. Init => Lifecycle!Init
  BY DEF Init, Lifecycle!Init, Lifecycle!ABSENT, ABSENT
<1>2. Init => IInv /\ StatusesTrue
  BY InitIInv, StatusesInit
<1>3. IInv /\ StatusesTrue /\ [Next]_vars => IInv' /\ StatusesTrue'
  BY NextKeeps, StatusesNext
<1>4. IInv /\ StatusesTrue /\ [Next]_vars
        => [Lifecycle!Next]_[j \in Jobs |-> metadata[j].status]
  BY StatusesNext DEF LifecycleStep
<1>5. QED
  BY <1>1, <1>2, <1>3, <1>4, PTL DEF Spec, ImplementsLifecycle, Lifecycle!Spec

================================================================================
