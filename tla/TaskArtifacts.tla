----------------------------- MODULE TaskArtifacts -----------------------------
(***************************************************************************)
(* The tasks that an agent sets itself (artifacts/json_handler.py and the  *)
(* actions on tasks): a handler keeps them in memory, reads them from a    *)
(* document of the trajectory when it has none, and writes all of them     *)
(* after each change.  A read or a write that fails is logged and the      *)
(* action goes on.  A process that dies takes the memory along.            *)
(***************************************************************************)
EXTENDS Integers, Sequences, SequencesExt

CONSTANTS
  TaskIds,
  NoTask,         \* what is not there: a task, a document
  MaxTaskActions, \* bound: actions
  MaxTaskFaults   \* bound: reads and writes that fail, processes that die

ASSUME TasksAssumption ==
  /\ NoTask \notin {"open", "completed"} \cup [TaskIds -> {"open", "completed", NoTask}]
  /\ MaxTaskActions \in Nat /\ MaxTaskFaults \in Nat

VARIABLES
  tasksOf,     \* the handler: of "task" or of "coding_task"
  kept,        \* whether the workspace was given a storage
  artifacts,   \* the tasks in memory, by id
  document,    \* the tasks in storage
  action,      \* what is under way: the state to come, on which ids, which are still to do
  told,        \* what the answers have said of each id
  untold,      \* the ids of actions that never answered
  unsaved,     \* whether the last change was not written
  slipped,     \* whether tasks were lost or came back
  taskActions, \* how many actions were begun
  taskFaults   \* how much has failed

taskVars == <<tasksOf, kept, artifacts, document, action, told, untold, unsaved, slipped,
              taskActions, taskFaults>>

Empty == [id \in TaskIds |-> NoTask]

Resting == [state |-> "none", ids |-> {}, missing |-> {}, toDo |-> <<>>]

\* The ids that an action is given: an agent may repeat one.
IdLists == {<<id>> : id \in TaskIds} \cup (TaskIds \X TaskIds)

\* The ids of such a list that are in a set.
Among(ids, set) ==
  LET At(k) == IF k \in DOMAIN ids /\ ids[k] \in set THEN <<ids[k]>> ELSE <<>>
  IN At(1) \o At(2)

Stored == IF document = NoTask THEN Empty ELSE document

\* _load_artifacts: memory that has a task is not read again.
Loaded == IF artifacts # Empty THEN artifacts ELSE Stored

Failing(reads, writes) ==
  /\ taskFaults' = taskFaults + (IF reads THEN 0 ELSE 1) + (IF writes THEN 0 ELSE 1)
  /\ taskFaults' <= MaxTaskFaults

\* (Mutant: a change is made to what is in memory.)
LoadTasks_Never(tasks, writes) == tasks = artifacts /\ Failing(TRUE, writes) /\ UNCHANGED slipped

\* The tasks that an access goes by. A read that fails leaves none; a document that lacks
\* the last change brings tasks back.
LoadTasks(tasks, writes) ==
  /\ tasks \in {Loaded, artifacts}
  /\ Failing(tasks = Loaded, writes)
  /\ slipped' = (slipped \/ tasks # Loaded \/ (artifacts # Loaded /\ unsaved))

--------------------------------------------------------------------------------

TasksInit ==
  /\ tasksOf \in {"task", "coding_task"} /\ kept \in BOOLEAN
  /\ artifacts = Empty /\ document = NoTask /\ action = Resting
  /\ told = Empty /\ untold = {} /\ unsaved = FALSE /\ slipped = FALSE
  /\ taskActions = 0 /\ taskFaults = 0

BeginTasks(state, ids, missing, toDo) ==
  /\ action = Resting /\ taskActions < MaxTaskActions
  /\ taskActions' = taskActions + 1
  /\ action' = [state |-> state, ids |-> ToSet(ids), missing |-> missing, toDo |-> toDo]
  /\ UNCHANGED <<tasksOf, kept, document, told, untold, unsaved>>

Missing(ids, tasks) == {id \in ToSet(ids) : tasks[id] = NoTask}

\* AddCodingTasks as well: whether a task is there already is not asked.
CreateTasks(ids) ==
  /\ BeginTasks("open", ids, {}, ids)
  /\ UNCHANGED <<artifacts, slipped, taskFaults>>

\* The task is read, and the answer is an error when it is not there.
UpdateTask(id, state) ==
  /\ tasksOf = "task"
  /\ \E tasks \in {Loaded, artifacts} :
       /\ LoadTasks(tasks, TRUE) /\ artifacts' = tasks
       /\ BeginTasks(state, <<id>>, Missing(<<id>>, tasks),
                IF tasks[id] = NoTask THEN <<>> ELSE <<id>>)

\* Looks at all tasks first, and leaves out those that are not there and
\* those that are completed.
FinishCodingTasks(ids) ==
  /\ tasksOf = "coding_task"
  /\ \E tasks \in {Loaded, artifacts} :
       /\ LoadTasks(tasks, TRUE) /\ artifacts' = tasks
       /\ BeginTasks("completed", ids, Missing(ids, tasks),
                Among(ids, {id \in TaskIds : tasks[id] = "open"}))

\* Likewise.
RemoveCodingTasks(ids) ==
  /\ tasksOf = "coding_task"
  /\ \E tasks \in {Loaded, artifacts} :
       /\ LoadTasks(tasks, TRUE) /\ artifacts' = tasks
       /\ BeginTasks(NoTask, ids, Missing(ids, tasks),
                Among(ids, {id \in TaskIds : tasks[id] # NoTask}))

\* _save_artifacts
Save(tasks, writes) ==
  /\ artifacts' = tasks
  /\ document' = IF kept /\ writes THEN tasks ELSE document
  /\ unsaved' = ~(kept /\ writes)

\* JsonArtifactHandler.create, update, delete, of the next id: all but the first raise when
\* it is not there, as it is when it was removed under the same id before.
ChangeTask ==
  /\ action.toDo # <<>>
  /\ \E tasks \in {Loaded, artifacts}, writes \in BOOLEAN :
       LET id == Head(action.toDo)
       IN  /\ LoadTasks(tasks, writes) /\ (kept \/ writes)
           /\ IF action.state # "open" /\ tasks[id] = NoTask
              THEN /\ artifacts' = tasks /\ writes /\ action' = Resting
                   /\ untold' = untold \cup action.ids
                   /\ UNCHANGED <<document, unsaved>>
              ELSE /\ Save([tasks EXCEPT ![id] = action.state], writes)
                   /\ action' = [action EXCEPT !.toDo = Tail(@)]
                   /\ UNCHANGED untold
  /\ UNCHANGED <<tasksOf, kept, told, taskActions>>

\* What the action has done is told, and what it has not found. Those on coding tasks that
\* are there list the tasks that are left, which they look at again.
TellTasks ==
  /\ action # Resting /\ action.toDo = <<>>
  /\ told' = [id \in TaskIds |-> IF id \in action.missing THEN NoTask
                                 ELSE IF id \in action.ids THEN action.state ELSE told[id]]
  /\ untold' = untold \ action.ids
  /\ action' = Resting
  /\ IF tasksOf = "coding_task" /\ action.state # "open"
     THEN \E tasks \in {Loaded, artifacts} : LoadTasks(tasks, TRUE) /\ artifacts' = tasks
     ELSE UNCHANGED <<artifacts, slipped, taskFaults>>
  /\ UNCHANGED <<tasksOf, kept, document, unsaved, taskActions>>

\* ListTasks of all states loads the tasks; of one state it searches what is in memory.
ListTasks ==
  /\ tasksOf = "task" /\ action = Resting
  /\ \E tasks \in {Loaded, artifacts} : LoadTasks(tasks, TRUE) /\ artifacts' = tasks
  /\ UNCHANGED <<tasksOf, kept, document, action, told, untold, unsaved, taskActions>>

\* The process dies; another one goes on with the trajectory.
Restart ==
  /\ Failing(FALSE, TRUE)
  /\ artifacts' = Empty /\ action' = Resting
  /\ untold' = untold \cup action.ids
  /\ slipped' = (slipped \/ unsaved) /\ unsaved' = FALSE
  /\ UNCHANGED <<tasksOf, kept, document, told, taskActions>>

TasksNext ==
  \/ \E ids \in IdLists : CreateTasks(ids) \/ FinishCodingTasks(ids) \/ RemoveCodingTasks(ids)
  \/ \E id \in TaskIds, state \in {"open", "completed"} : UpdateTask(id, state)
  \/ ChangeTask \/ TellTasks \/ ListTasks \/ Restart

TasksSpec == TasksInit /\ [][TasksNext]_taskVars

TasksTypeOK ==
  /\ {artifacts, told, Stored} \subseteq [TaskIds -> {"open", "completed", NoTask}]
  /\ untold \subseteq TaskIds
  /\ taskFaults \in 0..MaxTaskFaults

--------------------------------------------------------------------------------

\* Between two actions the tasks are what the agent was told of them, in memory as in the
\* document (json_handler.py), but for those of an action that has not answered: unless a
\* read failed, which is taken for an empty document, or a change was not written when
\* memory is lost or empty.
TasksAreAsTold ==
  action = Resting /\ ~slipped =>
    \A id \in TaskIds \ untold :
      IF unsaved THEN artifacts[id] = told[id]
      ELSE Loaded[id] = told[id] /\ Stored[id] = told[id]
================================================================================
