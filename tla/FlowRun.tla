-------------------------------- MODULE FlowRun --------------------------------
(***************************************************************************)
(* The job that runs the flow of a trajectory: run_flow and the tasks that *)
(* save the tree on an event (moatless/flow/run_flow.py), AgenticFlow.run, *)
(* the loop of AgenticLoop and the search of SearchTree, and the agent     *)
(* that builds and executes the action steps of a node.                    *)
(*                                                                         *)
(* A step ends where the code awaits something slow: a completion, an      *)
(* action, a value function, a write of the storage.  What a completion or *)
(* an action answers is arbitrary.                                         *)
(***************************************************************************)
EXTENDS NodeTree

CONSTANTS
  Settings,   \* the flow.json a trajectory may have: records of [kind, iterations,
              \* expansions, expandRoot, cost, minFinished, maxFinished, threshold, scores];
              \* their fields steps, calls, crashes and requests are bounds: on the
              \* action steps of a completion, on the completions asked for, on the
              \* deaths of processes and the ends of other flows in the job's
              \* process, on the requests
  MaxTasks    \* bound on the save tasks that wait for the lock

\* A search that expands its root takes the last of the children it has made, so it makes
\* some.
ASSUME FlowAssumption ==
  /\ MaxTasks \in Nat
  /\ \A s \in Settings :
       /\ s \in [kind : {"loop", "search"}, iterations : Nat, expansions : Nat,
                 expandRoot : BOOLEAN, cost : Nat, minFinished : Nat, maxFinished : Nat,
                 threshold : BOOLEAN, scores : BOOLEAN,
                 steps : 0..MaxSteps, calls : Nat, crashes : Nat, requests : Nat]
       /\ s.expandRoot => s.expansions > 0

VARIABLES
  settings, \* the settings of the trajectory
  flow,     \* the tree in the memory of the job, <<>> without a job
  file,     \* trajectory.json: a tree, <<>> while it is empty
  run,      \* the job: where it is, the node it works on, its node_id argument
  tasks,    \* the save tasks that wait for _flow_lock, in order: of the flow that runs,
            \* whatever its tree is by then, or of the tree of a run that has failed
  saving,   \* the tree the task that holds the lock writes, <<>> for none
  late,     \* a write that was canceled in the middle and may still reach the file
  ended,    \* history: how the last run ended and the tree it ended with
  calls, crashes \* how often, for the bounds

jobVars == <<settings, flow, file, run, tasks, saving, late, ended, calls, crashes>>

Where == {"none", "pending", "top", "generate", "act", "score", "reward", "return", "closing"}

Outcomes == {"new", "running", "finished", "partial", "failed", "again", "killed", "cut"}

Trees == Seq(Node)

\* A task that saves the flow that runs, and one that saves the tree of a failed run.
SavesRunning == [failed |-> FALSE, tree |-> <<>>]

SavesFailed(t) == [failed |-> TRUE, tree |-> t]

FlowTypeOK ==
  /\ settings \in Settings
  /\ flow \in Trees /\ file \in Trees /\ saving \in Trees /\ late \in Trees
  /\ run \in [pc : Where, cur : Nat, arg : Nat, step : 0..MaxSteps]
  /\ tasks \in Seq([failed : BOOLEAN, tree : Trees]) /\ Len(tasks) <= MaxTasks
  /\ ended \in [how : Outcomes, tree : Trees]
  /\ calls \in 0..settings.calls /\ crashes \in 0..settings.crashes
  /\ run.pc \in {"none", "pending"} <=> flow = <<>>
  /\ run.pc \notin {"none", "pending"} => run.cur \in DOMAIN flow

NoRun == [pc |-> "none", cur |-> 0, arg |-> 0, step |-> 0]

\* FlowManager.create_flow: a root, saved, and a job that has not been started.
FlowInit ==
  /\ settings \in Settings
  /\ flow = <<>> /\ file = <<Root>>
  /\ run = NoRun
  /\ tasks = <<>> /\ saving = <<>> /\ late = <<>>
  /\ ended = [how |-> "new", tree |-> <<>>]
  /\ calls = 0 /\ crashes = 0

Search == settings.kind = "search"

--------------------------------------------------------------------------------
(* is_finished                                                                 *)

Cost(t) == Cardinality({i \in DOMAIN t : t[i].paid})

CostReached(t) == settings.cost > 0 /\ Cost(t) >= settings.cost

IterationsReached(t) == Len(t) >= settings.iterations

\* (Mutant: a terminal node does not end the loop.)
LoopFinished_Terminal(t) == CostReached(t) \/ IterationsReached(t)

LoopFinished(t) == CostReached(t) \/ Terminal(LastNode(t)) \/ IterationsReached(t)

SearchFinished(t) ==
  LET finished == FinishedNodes(t)
      count    == Cardinality(finished)
  IN \/ CostReached(t)
     \/ IterationsReached(t)
     \/ settings.maxFinished > 0 /\ count >= settings.maxFinished
     \/ /\ settings.threshold /\ \E i \in finished : t[i].reward = "high"
        /\ settings.minFinished = 0 \/ count >= settings.minFinished
     \/ ExpandableNodes(t) = {}

Finished(t) == IF Search THEN SearchFinished(t) ELSE LoopFinished(t)

--------------------------------------------------------------------------------
(* Saving on events: handle_flow_event                                         *)

\* Only flow events and node:expanded have their task save the tree; the tasks
\* of other events take the lock and do nothing.
\* (Bound: MaxTasks.)
Emit ==
  /\ Len(tasks) < MaxTasks
  /\ tasks' = Append(tasks, SavesRunning)

\* The first task in line takes the lock; the data is taken and the file is
\* emptied before it is written.
SaveBegin ==
  /\ tasks # <<>> /\ saving = <<>>
  /\ saving' = IF Head(tasks).failed THEN Head(tasks).tree ELSE flow
  /\ file' = <<>>
  /\ tasks' = Tail(tasks)
  /\ UNCHANGED <<settings, flow, run, late, ended, calls, crashes>>

SaveEnd ==
  /\ saving # <<>>
  /\ file' = saving /\ saving' = <<>>
  /\ UNCHANGED <<settings, flow, run, tasks, late, ended, calls, crashes>>

\* task.cancel on all of them: one that waits for the lock never runs; the write
\* of one that holds it is given up, or still goes on in a thread.
CancelTasks ==
  /\ tasks' = <<>> /\ saving' = <<>>
  /\ \/ late' = IF saving # <<>> THEN saving ELSE late
     \/ UNCHANGED late

LateWrite ==
  /\ late # <<>>
  /\ file' = late /\ late' = <<>>
  /\ UNCHANGED <<settings, flow, run, tasks, saving, ended, calls, crashes>>

--------------------------------------------------------------------------------
(* The end of a run                                                            *)

\* The tree is kept where a property asks for it.
Ended(how, t) ==
  ended' = [how |-> how, tree |-> IF how \in {"killed", "cut", "running", "new"} THEN <<>> ELSE t]

\* (Mutants: the tasks of the run's events are left to run after it; the tree
\* stays in memory.)
Complete_Uncanceled ==
  /\ tasks' = [k \in DOMAIN tasks |-> IF tasks[k].failed THEN tasks[k] ELSE SavesFailed(flow)]
  /\ UNCHANGED <<saving, late>>
  /\ IF Finished(flow)
     THEN /\ run' = [run EXCEPT !.pc = "closing", !.cur = 1]
          /\ file' = <<>> /\ UNCHANGED <<flow, ended>>
     ELSE /\ Ended("partial", flow) /\ run' = NoRun /\ flow' = <<>> /\ UNCHANGED file
  /\ UNCHANGED <<settings, calls, crashes>>

Complete_Kept ==
  /\ CancelTasks
  /\ Ended("partial", flow) /\ run' = NoRun
  /\ UNCHANGED <<settings, flow, file, calls, crashes>>

\* _run returns.  The task of the FlowCompleted event has not run when all the
\* tasks are canceled; only a finished flow is saved once more.
Complete ==
  /\ CancelTasks
  /\ IF Finished(flow)
     THEN /\ run' = [run EXCEPT !.pc = "closing", !.cur = 1]
          /\ file' = <<>> /\ UNCHANGED <<flow, ended>>
     ELSE /\ Ended("partial", flow) /\ run' = NoRun /\ flow' = <<>> /\ UNCHANGED file
  /\ UNCHANGED <<settings, calls, crashes>>

Close ==
  /\ run.pc = "closing"
  /\ file' = flow
  /\ Ended(IF late = <<>> THEN "finished" ELSE "cut", flow)
  /\ run' = NoRun /\ flow' = <<>>
  /\ UNCHANGED <<settings, tasks, saving, late, calls, crashes>>

\* An exception leaves the run: the last node, whichever node it came from, gets
\* the error.  The tasks are not canceled: they save the tree of the failed run.
Fail(t, how) ==
  LET failed == [t EXCEPT ![Len(t)].error = TRUE] IN
  /\ Len(tasks) < MaxTasks
  /\ tasks' = [k \in 1 .. Len(tasks) + 1 |->
                IF k <= Len(tasks) /\ tasks[k].failed THEN tasks[k] ELSE SavesFailed(failed)]
  /\ Ended(IF late = <<>> THEN how ELSE "cut", failed)
  /\ run' = NoRun /\ flow' = <<>>
  /\ UNCHANGED <<settings, file, saving, late, crashes>>

--------------------------------------------------------------------------------
(* The start of a run: run_flow, AgenticFlow.run                               *)

\* start_job, by a request or by another program: nothing if the job exists.
StartJob(node) ==
  IF run.pc = "none"
  THEN run' = [NoRun EXCEPT !.pc = "pending", !.arg = node]
  ELSE UNCHANGED run

\* setup_flow cannot read the file, or finds the flow finished and no node to run.
NotRun ==
  /\ run.pc = "pending"
  /\ \/ file = <<>>
     \/ file # <<>> /\ run.arg = 0 /\ Finished(Load(file))
  /\ run' = NoRun
  /\ UNCHANGED <<settings, flow, file, tasks, saving, late, ended, calls, crashes>>

\* The loop starts at the given node or at the last one, the search at the given
\* node or at the root; a node that is not in the tree is an error.
Setup ==
  /\ run.pc = "pending" /\ file # <<>>
  /\ LET t  == Load(file)
         at == IF run.arg # 0 THEN NodeById(t, run.arg) ELSE IF Search THEN 1 ELSE Len(t)
     IN /\ run.arg # 0 \/ ~Finished(t)
        /\ IF at = 0 THEN Fail(t, "failed")
           ELSE /\ flow' = t
                /\ run' = [run EXCEPT !.pc = "top", !.cur = at]
                /\ Emit
                /\ Ended("running", <<>>)
                /\ UNCHANGED <<settings, file, saving, late, crashes>>
  /\ UNCHANGED calls

--------------------------------------------------------------------------------
(* The agent: ActionAgent.run                                                  *)

inJob == <<settings, file, saving, late, crashes>>

\* The agent is run on the node at i of the tree t: it asks for a completion if
\* there are no action steps yet, and executes all of them from the first.
RunAgent(t, i) ==
  /\ flow' = t
  /\ run' = [run EXCEPT !.cur = i, !.step = IF t[i].steps = 0 THEN 0 ELSE 1,
                        !.pc = IF t[i].steps = 0 THEN "generate" ELSE "act"]

\* The end of an iteration: a run of one node returns, another goes on.
NextIteration == IF run.arg # 0 THEN "return" ELSE "top"

\* _backpropagate, for a node that has a reward.
Backpropagated(t) == IF Search /\ t[run.cur].reward # "none" THEN Visit(t, run.cur) ELSE t

\* The agent returns: the search scores a node that is no duplicate and has an
\* observation.
AgentReturns(t) ==
  LET scores == /\ Search /\ settings.scores
                /\ ~t[run.cur].duplicate /\ Observed(t[run.cur])
  IN /\ flow' = IF scores THEN t ELSE Backpropagated(t)
     /\ run' = [run EXCEPT !.step = 0, !.pc = IF scores THEN "score" ELSE NextIteration]
     /\ UNCHANGED <<tasks, ended>> /\ UNCHANGED inJob

\* The agent raises: the loop survives a RejectError, nothing survives another.
AgentRaises(t, rejected) ==
  IF rejected /\ ~Search
  THEN /\ flow' = t
       /\ run' = [run EXCEPT !.step = 0, !.pc = NextIteration]
       /\ UNCHANGED <<tasks, ended>> /\ UNCHANGED inJob
  ELSE Fail(t, "failed")

\* find_node_with_same_action_steps: two lists are the same if the shorter one
\* begins the other; whether it does is arbitrary, but for empty lists.
SameSteps(t, i) ==
  {(t[i].steps = 0) \/ same : same \in
     IF \E s \in ChildrenOf(t, ParentOf(t, i)) :
           t[s].id # t[i].id /\ (t[s].steps = 0 <=> t[i].steps = 0)
     THEN BOOLEAN ELSE {}}

\* With the action steps the node has now: a duplicate is left alone, so is a
\* node that has got none, the others are executed.
GoOn(t) ==
  LET i == run.cur IN
  \/ \E same \in SameSteps(t, i) : same /\ AgentReturns([t EXCEPT ![i].duplicate = TRUE])
  \/ /\ FALSE \in SameSteps(t, i) \/ SameSteps(t, i) = {}
     /\ IF t[i].steps = 0 THEN AgentReturns(t)
        ELSE /\ flow' = t
             /\ run' = [run EXCEPT !.pc = "act", !.step = 1]
             /\ UNCHANGED <<tasks, ended>> /\ UNCHANGED inJob

\* Whether a failed completion is recorded, where there is a limit on the cost.
Recorded == {FALSE, settings.cost > 0}

\* (Bound: calls; the completion after that fails.)
Generating(limit) ==
  /\ run.pc = "generate" /\ calls <= limit
  /\ calls' = IF calls < settings.calls THEN calls + 1 ELSE calls

\* The completion has action steps, or none that is an action.
Generated ==
  /\ Generating(settings.calls - 1)
  /\ \E n \in 0..settings.steps :
       GoOn([flow EXCEPT ![run.cur].steps = n, ![run.cur].paid = settings.cost > 0])

\* CompletionRejectError: an error the agent returns with; the completion may be
\* recorded.
GenerateRejected ==
  /\ Generating(settings.calls - 1)
  /\ \E paid \in Recorded :
       GoOn([flow EXCEPT ![run.cur].error = TRUE, ![run.cur].paid = @ \/ paid])

\* Another CompletionError, or the RejectError of an answer without actions, or
\* any other exception: only a CompletionError leaves the node not terminal.
GenerateRaised ==
  /\ Generating(settings.calls)
  /\ \E kind \in {"completion", "none", "other"}, paid \in Recorded :
       AgentRaises([flow EXCEPT ![run.cur].error = TRUE,
                                ![run.cur].terminal = @ \/ kind # "completion",
                                ![run.cur].paid = @ \/ paid], kind = "none")

\* An action step has its observation; a terminal one ends the agent's work.
Acted ==
  /\ run.pc = "act"
  /\ \E fin, terminal \in BOOLEAN :
       LET i == run.cur
           done == IF flow[i].done > run.step THEN flow[i].done ELSE run.step
           t == [flow EXCEPT ![i].done = done,
                             ![i].fin  = IF run.step = done THEN fin ELSE @,
                             ![i].terminal = @ \/ fin \/ terminal]
       IN IF t[i].terminal \/ run.step = t[i].steps THEN AgentReturns(t)
          ELSE /\ flow' = t
               /\ run' = [run EXCEPT !.step = @ + 1]
               /\ UNCHANGED <<tasks, ended>> /\ UNCHANGED inJob
  /\ UNCHANGED calls

\* CompletionRejectError: the node is terminal and the agent returns; any other
\* exception is raised.
ActRejected ==
  /\ run.pc = "act"
  /\ AgentReturns([flow EXCEPT ![run.cur].error = TRUE, ![run.cur].terminal = TRUE])
  /\ UNCHANGED calls

ActRaised ==
  /\ run.pc = "act"
  /\ \E rejected \in BOOLEAN :
       AgentRaises([flow EXCEPT ![run.cur].error = TRUE, ![run.cur].terminal = TRUE], rejected)
  /\ UNCHANGED calls

--------------------------------------------------------------------------------
(* AgenticLoop._run                                                            *)

\* (Mutant: one less than the size of the tree.)
UniqueId_Last(t) == Len(t) - 1

\* _generate_unique_id
UniqueId(t) == Len(t)

CreateNextNode(t, p) == AddChild(t, p, NewNode(UniqueId(t), 0, 0))

\* The test at the top of the while loop: a run of one node does not look.
GoesOn == run.pc = "top" /\ (run.arg # 0 \/ ~Finished(flow))

\* A node that is executed gets a child that is run in its place.
LoopExpand ==
  /\ ~Search /\ GoesOn
  /\ Expandable(flow, run.cur) /\ Executed(flow, run.cur)
  /\ RunAgent(CreateNextNode(flow, run.cur), ChildPosition(flow, run.cur))
  /\ Emit
  /\ UNCHANGED <<ended, calls>> /\ UNCHANGED inJob

LoopRun ==
  /\ ~Search /\ GoesOn
  /\ ~Executed(flow, run.cur)
  /\ RunAgent(flow, run.cur)
  /\ UNCHANGED <<tasks, ended, calls>> /\ UNCHANGED inJob

\* The node is executed and cannot be expanded: RuntimeError.
LoopStuck ==
  /\ ~Search /\ GoesOn
  /\ Executed(flow, run.cur) /\ ~Expandable(flow, run.cur)
  /\ Fail(flow, "again")
  /\ UNCHANGED calls

--------------------------------------------------------------------------------
(* SearchTree._run: select, expand, simulate, backpropagate                    *)

\* The current node while it is not executed, else the first leaf without an
\* observation, else what the selector finds among the nodes to expand, by its id.
Selections(t, i) ==
  LET unexecuted == {j \in DOMAIN t : ~Observed(t[j]) /\ Leaf(t, j)}
  IN IF ~Executed(t, i) THEN {i}
     ELSE IF unexecuted # {} THEN {CHOOSE j \in unexecuted : \A k \in unexecuted : j <= k}
     ELSE {NodeById(t, t[j].id) : j \in ExpandableNodes(t)}

UnexecutedChildren(t, i) == {j \in ChildrenOf(t, i) : ~Observed(t[j])}

\* Expander.expand: one child, or all of them at once for the root.
ExpandNode(t, p) ==
  LET count == IF settings.expandRoot /\ p = 1 THEN settings.expansions ELSE 1
      t0    == [t EXCEPT ![p].max = IF @ = 0 THEN settings.expansions ELSE @]
      grown[k \in 0..count] ==
        IF k = 0 THEN t0
        ELSE AddChild(grown[k - 1], p, NewNode(UniqueId(grown[k - 1]), 0, settings.expansions))
  IN grown[count]

\* The selected node itself if it is not executed, or its first child without an
\* observation, is simulated.
SearchRun ==
  /\ Search /\ GoesOn
  /\ \E i \in Selections(flow, run.cur) :
       LET waiting == UnexecutedChildren(flow, i) IN
       /\ Executed(flow, i) => ~FullyExpanded(flow, i) /\ waiting # {}
       /\ RunAgent(flow, IF Executed(flow, i)
                         THEN CHOOSE j \in waiting : \A k \in waiting : j <= k ELSE i)
  /\ UNCHANGED <<tasks, ended, calls>> /\ UNCHANGED inJob

\* A new child of it is simulated, the last one if there are several.
SearchExpand ==
  /\ Search /\ GoesOn
  /\ \E i \in Selections(flow, run.cur) :
       /\ Executed(flow, i) /\ ~FullyExpanded(flow, i) /\ UnexecutedChildren(flow, i) = {}
       /\ LET t == ExpandNode(flow, i) IN RunAgent(t, ChildPosition(t, i) - 1)
  /\ Emit
  /\ UNCHANGED <<ended, calls>> /\ UNCHANGED inJob

\* Nothing to select, or a node that has all its children: the search is over.
SearchStuck ==
  /\ Search /\ GoesOn
  /\ LET selected == Selections(flow, run.cur) IN
       /\ selected = {} \/ \E i \in selected : Executed(flow, i) /\ FullyExpanded(flow, i)
       /\ IF selected = {} THEN UNCHANGED tasks ELSE Emit
  /\ run' = [run EXCEPT !.pc = "return"]
  /\ UNCHANGED <<flow, ended, calls>> /\ UNCHANGED inJob

\* The value function answers with a reward, above the threshold if there is one
\* or not, or with none (as when it rejects).  The event of a reward is awaited
\* before it is propagated.
Scored ==
  /\ run.pc = "score"
  /\ \E reward \in {"none", "low"} \cup (IF settings.threshold THEN {"high"} ELSE {}) :
       LET t == [flow EXCEPT ![run.cur].reward = reward] IN
       /\ flow' = t
       /\ run' = [run EXCEPT !.pc = IF reward = "none" THEN NextIteration ELSE "reward"]
  /\ UNCHANGED <<tasks, ended, calls>> /\ UNCHANGED inJob

ScoreRaised ==
  /\ run.pc = "score"
  /\ Fail(flow, "failed")
  /\ UNCHANGED calls

\* (Mutant: the ancestors are left out.)
Backpropagate_NodeOnly ==
  /\ run.pc = "reward"
  /\ flow' = [flow EXCEPT ![run.cur].visits = @ + 1]
  /\ run' = [run EXCEPT !.pc = NextIteration]
  /\ UNCHANGED <<tasks, ended, calls>> /\ UNCHANGED inJob

Backpropagate ==
  /\ run.pc = "reward"
  /\ flow' = Backpropagated(flow)
  /\ run' = [run EXCEPT !.pc = NextIteration]
  /\ UNCHANGED <<tasks, ended, calls>> /\ UNCHANGED inJob

--------------------------------------------------------------------------------

\* _run returns: it was one node's run, or the flow is finished.
Returns ==
  /\ run.pc = "return" \/ (run.pc = "top" /\ ~GoesOn)
  /\ Complete

\* The process of the job dies, with its tasks.
Crash ==
  /\ run.pc # "none" \/ tasks # <<>> \/ saving # <<>>
  /\ crashes < settings.crashes
  /\ crashes' = crashes + 1
  /\ run' = NoRun /\ flow' = <<>> /\ tasks' = <<>> /\ saving' = <<>> /\ late' = <<>>
  /\ Ended("killed", flow)
  /\ UNCHANGED <<settings, file, calls>>

\* Another flow of the process ends and cancels the tasks of all flows.
OtherFlowEnds ==
  /\ tasks # <<>> \/ saving # <<>>
  /\ crashes < settings.crashes /\ crashes' = crashes + 1
  /\ CancelTasks
  /\ IF ended.how \in {"failed", "again"} THEN Ended("cut", ended.tree) ELSE UNCHANGED ended
  /\ UNCHANGED <<settings, flow, file, run, calls>>

Agent == Generated \/ GenerateRejected \/ GenerateRaised \/ Acted \/ ActRejected \/ ActRaised

Loop == LoopExpand \/ LoopRun \/ LoopStuck

SearchStep == SearchRun \/ SearchExpand \/ SearchStuck \/ Scored \/ ScoreRaised \/ Backpropagate

JobNext ==
  \/ NotRun \/ Setup \/ Loop \/ SearchStep \/ Agent \/ Returns \/ Close
  \/ SaveBegin \/ SaveEnd \/ LateWrite
  \/ Crash \/ OtherFlowEnds

================================================================================
