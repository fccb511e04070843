---------------------------- MODULE TrajectoryProofs ----------------------------
(***************************************************************************)
(* What is proved of the parts of a trajectory, for every value of the     *)
(* constants.                                                              *)
(***************************************************************************)
EXTENDS Trajectory, TrajectoryPartsProofs

--------------------------------------------------------------------------------
(* The job keeps its types and its trees their kind                            *)

\* What a job may be doing while it has a tree.
Steps == Where \ {"none", "pending"}

RunRecords == [pc : Where, cur : Nat, arg : Nat, step : 0..MaxSteps]

EndRecords == [how : Outcomes, tree : Trees]

TaskRecords(kind) == [failed : BOOLEAN, tree : TreesOf(kind)]

RunInv ==
  /\ settings \in Settings
  /\ run \in RunRecords /\ ended \in EndRecords
  /\ run.pc \in {"none", "pending"} <=> flow = <<>>
  /\ run.pc \in Steps => run.cur \in 1..Len(flow)
  /\ run.pc = "act" => run.step \in 1..flow[run.cur].steps
  /\ run.pc = "generate" => run.cur # 1

\* The trees in memory and in the file, and in a loop the place of the work: its last node.
FlowKnown(kind) ==
  /\ RunInv
  /\ flow \in TreesOf(kind) /\ file \in TreesOf(kind)
  /\ saving \in TreesOf(kind) /\ late \in TreesOf(kind)
  /\ tasks \in Seq(TaskRecords(kind)) /\ Len(tasks) <= MaxTasks
  /\ kind = "search" => Search
  /\ kind = "loop" => /\ ~Search /\ run.arg = 0
                      /\ run.pc \in Steps \ {"closing"} => run.cur = Len(flow)

LEMMA SettingsKnown ==
  ASSUME settings \in Settings
  PROVE  /\ settings.steps \in 0..MaxSteps /\ settings.expansions \in Nat
         /\ settings.expandRoot => settings.expansions > 0
         /\ settings.calls \in Nat /\ settings.crashes \in Nat /\ settings.requests \in Nat
         /\ MaxSteps \in Nat /\ MaxTasks \in Nat
         /\ settings.scores \in BOOLEAN /\ settings.expandRoot \in BOOLEAN
  BY FlowAssumption, NodeAssumption

\* A running job that goes on with a tree of its kind, in one of its nodes.
LEMMA Goes ==
  ASSUME NEW kind \in Kinds, FlowKnown(kind), flow' \in TreesOf(kind), flow' # <<>>,
         run' \in RunRecords, run'.pc \in Steps, run'.cur \in 1..Len(flow'),
         run'.pc = "act" => run'.step \in 1..flow'[run'.cur].steps,
         run'.pc = "generate" => run'.cur # 1,
         kind = "loop" => run'.arg = 0 /\ (run'.pc # "closing" => run'.cur = Len(flow')),
         UNCHANGED tasks \/ Emit, UNCHANGED ended \/ ended' \in EndRecords,
         UNCHANGED <<settings, saving, late>>, file' \in TreesOf(kind)
  PROVE  FlowKnown(kind)'
<1>1. tasks' \in Seq(TaskRecords(kind)) /\ Len(tasks') <= MaxTasks
  <2>1. CASE UNCHANGED tasks
    BY <2>1 DEF FlowKnown
  <2>2. CASE Emit
    <3>1. SavesRunning \in TaskRecords(kind)
      BY KindsHaveRoots DEF SavesRunning, TaskRecords
    <3>2. /\ tasks \in Seq(TaskRecords(kind)) /\ Len(tasks) \in Nat /\ Len(tasks) < MaxTasks
          /\ tasks' = Append(tasks, SavesRunning)
      BY <2>2, SeqParts DEF FlowKnown, Emit
    <3>3. tasks' \in Seq(TaskRecords(kind)) /\ Len(tasks') = Len(tasks) + 1
      BY <3>1, <3>2, AppendProperties
    <3>4. MaxTasks \in Nat
      BY FlowAssumption
    <3>5. QED
      BY <3>2, <3>3, <3>4
  <2>3. QED
    BY <2>1, <2>2
<1>2. RunInv'
  BY DEF FlowKnown, RunInv, Steps
<1>3. Search' = Search
  BY DEF Search
<1>4. QED
  BY <1>1, <1>2, <1>3 DEF FlowKnown

\* A job that is over.
LEMMA Stops ==
  ASSUME NEW kind \in Kinds, FlowKnown(kind), flow' = <<>>, run' = NoRun,
         tasks' \in Seq(TaskRecords(kind)), Len(tasks') <= MaxTasks,
         UNCHANGED ended \/ ended' \in EndRecords, UNCHANGED settings,
         file' \in TreesOf(kind), saving' \in TreesOf(kind), late' \in TreesOf(kind)
  PROVE  FlowKnown(kind)'
<1>1. NoRun \in RunRecords /\ NoRun.pc = "none" /\ NoRun.arg = 0
  BY NodeAssumption DEF NoRun, RunRecords, Where
<1>2. RunInv'
  BY <1>1 DEF FlowKnown, RunInv, Steps
<1>3. Search' = Search
  BY DEF Search
<1>4. <<>> \in TreesOf(kind)
  BY KindsHaveRoots
<1>5. QED
  BY <1>1, <1>2, <1>3, <1>4 DEF FlowKnown, Steps

\* The end of a run, whichever it is.
LEMMA EndKnownRecord ==
  ASSUME NEW t \in Trees, NEW how \in Outcomes, Ended(how, t)
  PROVE  ended' \in EndRecords
<1>1. <<>> \in Trees
  BY DEF Trees
<1>2. QED
  BY <1>1 DEF Ended, EndRecords

\* A run that fails leaves tasks that save its tree, with the error in the last node.
LEMMA Fails ==
  ASSUME NEW kind \in Kinds, FlowKnown(kind), NEW t \in TreesOf(kind), t # <<>>,
         NEW how \in {"failed", "again"}, Fail(t, how)
  PROVE  FlowKnown(kind)'
<1> DEFINE f == [t EXCEPT ![Len(t)].error = TRUE]
           new == [k \in 1 .. Len(tasks) + 1 |->
                    IF k <= Len(tasks) /\ tasks[k].failed THEN tasks[k] ELSE SavesFailed(f)]
<1>1. t \in Tree /\ t \in Seq(Node) /\ Len(t) \in 1..Len(t)
  BY KindsHaveRoots, TreeParts
<1>2. f \in TreesOf(kind)
  <2> DEFINE o == [t[Len(t)] EXCEPT !.error = TRUE]
  <2>1. f = Updated(t, Len(t), o) /\ o \in Node /\ o.id = t[Len(t)].id
        /\ o.depth = t[Len(t)].depth /\ o.duplicate = t[Len(t)].duplicate
    BY <1>1, MarkedChange
  <2>2. kind = "loop" => ~o.duplicate
    BY <1>1, <2>1 DEF TreesOf, Chain
  <2> HIDE DEF f, o
  <2>3. QED
    BY <1>1, <2>1, <2>2, NodeChangedInKind
<1>3. f \in Trees
  BY <1>2, KindsHaveRoots, TreeParts DEF Trees
<1>4. /\ Len(tasks) < MaxTasks /\ tasks' = new
      /\ Ended(IF late = <<>> THEN how ELSE "cut", f)
      /\ run' = NoRun /\ flow' = <<>> /\ UNCHANGED <<settings, file, saving, late, crashes>>
  BY DEF Fail
<1> HIDE DEF f
<1>5. PICK n \in Nat : n = Len(tasks) /\ tasks \in Seq(TaskRecords(kind)) /\ n < MaxTasks
                       /\ \A k \in 1..n : tasks[k] \in TaskRecords(kind)
  BY <1>4, SeqParts DEF FlowKnown
<1>6. SavesFailed(f) \in TaskRecords(kind)
  BY <1>2 DEF SavesFailed, TaskRecords
<1>7. new \in Seq(TaskRecords(kind)) /\ Len(new) = n + 1
  <2>1. n + 1 \in Nat /\ new = [k \in 1..n + 1 |-> new[k]]
    BY <1>5
  <2>2. \A k \in 1..n + 1 : new[k] \in TaskRecords(kind)
    <3>1. SUFFICES ASSUME NEW k \in 1..n + 1 PROVE new[k] \in TaskRecords(kind)
      OBVIOUS
    <3>2. CASE k <= Len(tasks) /\ tasks[k].failed
      <4>1. k \in 1..n /\ new[k] = tasks[k]
        BY <1>5, <3>2
      <4>2. QED
        BY <1>5, <4>1
    <3>3. CASE ~(k <= Len(tasks) /\ tasks[k].failed)
      <4>1. new[k] = SavesFailed(f)
        BY <1>5, <3>3
      <4>2. QED
        BY <1>6, <4>1
    <3>4. QED
      BY <3>2, <3>3
  <2> HIDE DEF new
  <2>3. QED
    BY <2>1, <2>2, SeqMade
<1> HIDE DEF new
<1>8. Len(tasks') <= MaxTasks
  BY <1>4, <1>5, <1>7, FlowAssumption
<1>9. ended' \in EndRecords
  <2>1. (IF late = <<>> THEN how ELSE "cut") \in Outcomes
    BY DEF Outcomes
  <2>2. QED
    BY <1>3, <1>4, <2>1, EndKnownRecord
<1>10. file' \in TreesOf(kind) /\ saving' \in TreesOf(kind) /\ late' \in TreesOf(kind)
  BY <1>4 DEF FlowKnown
<1>11. QED
  BY <1>4, <1>7, <1>8, <1>9, <1>10, Stops

\* What the agent returns with: the tree it has worked on, with the same nodes.
LEMMA Returned ==
  ASSUME NEW kind \in Kinds, FlowKnown(kind), run.pc \in Steps \ {"closing"},
         NEW t \in TreesOf(kind), Len(t) = Len(flow), AgentReturns(t)
  PROVE  FlowKnown(kind)'
<1>1. PICK pc \in {"score", "return", "top"} : run' = [run EXCEPT !.step = 0, !.pc = pc]
  BY DEF AgentReturns, NextIteration
<1>2. /\ run \in RunRecords /\ run.cur \in 1..Len(flow) /\ 0 \in 0..MaxSteps
      /\ kind = "loop" => run.arg = 0 /\ run.cur = Len(flow)
  BY FlowAssumption, NodeAssumption DEF FlowKnown, RunInv
<1>3. /\ run' \in RunRecords /\ run'.pc = pc /\ run'.cur = run.cur /\ run'.arg = run.arg
      /\ pc \in Steps
  BY <1>1, <1>2 DEF RunRecords, Where, Steps
<1>4. flow' \in TreesOf(kind) /\ Len(flow') = Len(flow)
  <2>1. flow' = t \/ flow' = Visit(t, run.cur)
    BY DEF AgentReturns, Backpropagated
  <2>2. QED
    BY <2>1, VisitedInKind
<1>5. flow' # <<>>
  <2>1. Len(flow) \in Nat /\ flow \in Tree /\ flow' \in Tree
    BY <1>4, KindsHaveRoots, TreeParts DEF FlowKnown
  <2>2. Len(flow) # 0
    BY <1>2, <2>1
  <2>3. QED
    BY <1>4, <2>2, <2>1, SeqParts DEF Tree
<1>6. UNCHANGED <<tasks, ended, settings, file, saving, late>>
  BY DEF AgentReturns, inJob
<1>7. file' \in TreesOf(kind)
  BY <1>6 DEF FlowKnown
<1>8. pc # "act" /\ pc # "generate"
  OBVIOUS
<1>9. QED
  BY <1>2, <1>3, <1>4, <1>5, <1>6, <1>7, <1>8, Goes

LEMMA Raised ==
  ASSUME NEW kind \in Kinds, FlowKnown(kind), run.pc \in Steps \ {"closing"},
         NEW t \in TreesOf(kind), Len(t) = Len(flow), NEW rejected, AgentRaises(t, rejected)
  PROVE  FlowKnown(kind)'
<1>1. t # <<>> /\ run.cur \in 1..Len(flow)
  <2>1. flow \in Tree /\ t \in Tree /\ run.cur \in 1..Len(flow)
    BY KindsHaveRoots DEF FlowKnown, RunInv
  <2>2. Len(flow) # 0 /\ (t = <<>> <=> Len(t) = 0)
    BY <2>1, SeqParts DEF Tree
  <2>3. QED
    BY <2>1, <2>2
<1>2. CASE rejected /\ ~Search
  <2>1. PICK pc \in {"return", "top"} : run' = [run EXCEPT !.step = 0, !.pc = pc]
    BY <1>2 DEF AgentRaises, NextIteration
  <2>2. /\ run \in RunRecords /\ 0 \in 0..MaxSteps
        /\ kind = "loop" => run.arg = 0 /\ run.cur = Len(flow)
    BY FlowAssumption, NodeAssumption DEF FlowKnown, RunInv
  <2>3. /\ run' \in RunRecords /\ run'.pc = pc /\ run'.cur = run.cur /\ run'.arg = run.arg
        /\ pc \in Steps
    BY <2>1, <2>2 DEF RunRecords, Where, Steps
  <2>4. flow' = t /\ UNCHANGED <<tasks, ended, settings, file, saving, late>>
    BY <1>2 DEF AgentRaises, inJob
  <2>5. file' \in TreesOf(kind) /\ pc # "act" /\ pc # "generate"
    BY <2>4 DEF FlowKnown
  <2>6. QED
    BY <1>1, <2>2, <2>3, <2>4, <2>5, Goes
<1>3. CASE ~(rejected /\ ~Search)
  BY <1>1, <1>3, Fails DEF AgentRaises
<1>4. QED
  BY <1>2, <1>3

\* In a loop the node that is worked on has no sibling: it is never a duplicate.
LEMMA NoSibling ==
  ASSUME NEW t \in Chain, NEW i \in 2..Len(t)
  PROVE  SameSteps(t, i) = {}
<1>1. t \in Tree /\ Len(t) \in Nat /\ t \in Seq(Node) /\ t # <<>>
  BY TreeParts, SeqParts DEF Chain, Tree
<1>2. TreeAt(t, 0) /\ \A j \in 1..Len(t) : t[j].depth = j - 1
  BY <1>1, TreeParts DEF Chain
<1>3. ParentOf(t, i) \in 1 .. i - 1 /\ i \in ChildrenOf(t, ParentOf(t, i))
  BY <1>1, <1>2, ParentIsThere
<1>4. PICK p \in 1 .. i - 1 : p = ParentOf(t, i)
  BY <1>3
<1>5. p \in 1..Len(t) /\ i \in 1..Len(t) /\ p \in Nat
  BY <1>1
<1>6. ASSUME NEW j \in ChildrenOf(t, p) PROVE j = p + 1
  <2>1. j \in p + 1 .. Len(t) /\ t[j].depth = t[p].depth + 1
    BY DEF ChildrenOf, Descendants
  <2>2. j \in 1..Len(t) /\ j \in Nat
    BY <1>1, <1>5, <2>1
  <2>3. t[j].depth = j - 1 /\ t[p].depth = p - 1
    BY <1>2, <1>5, <2>2
  <2>4. QED
    BY <1>5, <2>1, <2>2, <2>3
<1>7. \A s \in ChildrenOf(t, p) : s = i
  BY <1>3, <1>4, <1>6
<1>8. ~\E s \in ChildrenOf(t, ParentOf(t, i)) :
          t[s].id # t[i].id /\ (t[s].steps = 0 <=> t[i].steps = 0)
  BY <1>4, <1>7
<1>9. QED
  BY <1>8 DEF SameSteps

\* The agent has the answer it asked for.
LEMMA GoesOnWith ==
  ASSUME NEW kind \in Kinds, FlowKnown(kind), run.pc = "generate",
         NEW t \in TreesOf(kind), Len(t) = Len(flow), GoOn(t)
  PROVE  FlowKnown(kind)'
<1> DEFINE i == run.cur
<1>1. /\ t \in Tree /\ t \in Seq(Node) /\ i \in 1..Len(t) /\ i # 1 /\ Len(t) \in Nat
      /\ kind = "loop" => i = Len(flow) /\ run.arg = 0
      /\ run \in RunRecords /\ run.pc \in Steps \ {"closing"}
  BY KindsHaveRoots, TreeParts DEF FlowKnown, RunInv, Steps, Where
<1>2. CASE \E same \in SameSteps(t, i) :
             same /\ AgentReturns([t EXCEPT ![i].duplicate = TRUE])
  <2> DEFINE d == [t[i] EXCEPT !.duplicate = TRUE]
             u == [t EXCEPT ![i].duplicate = TRUE]
  <2>1. kind # "loop"
    <3>1. SUFFICES ASSUME kind = "loop" PROVE FALSE
      OBVIOUS
    <3>2. t \in Chain /\ i \in 2..Len(t)
      BY <1>1, <3>1 DEF TreesOf
    <3>3. QED
      BY <1>2, <3>2, NoSibling
  <2>3. u = Updated(t, i, d) /\ d \in Node /\ d.id = t[i].id /\ d.depth = t[i].depth
    BY <1>1, DuplicateChange
  <2>4. AgentReturns(u)
    BY <1>2
  <2> HIDE DEF u, d, i
  <2>5. u \in TreesOf(kind) /\ Len(u) = Len(t)
    BY <1>1, <2>1, <2>3, NodeChangedInKind
  <2>6. QED
    BY <1>1, <2>4, <2>5, Returned
<1>3. CASE t[i].steps = 0 /\ AgentReturns(t)
  BY <1>1, <1>3, Returned
<1>4. CASE /\ t[i].steps # 0 /\ flow' = t
           /\ run' = [run EXCEPT !.pc = "act", !.step = 1]
           /\ UNCHANGED <<tasks, ended>> /\ UNCHANGED inJob
  <2>1. t[i].steps \in 1..MaxSteps /\ MaxSteps \in Nat
    <3>1. t[i].steps \in 0..MaxSteps /\ MaxSteps \in Nat
      BY <1>1, SeqParts, NodeFields, NodeAssumption
    <3>2. QED
      BY <1>4, <3>1
  <2>2. /\ run' \in RunRecords /\ run'.pc = "act" /\ run'.cur = i /\ run'.arg = run.arg
        /\ run'.step = 1 /\ 1 \in 1..t[i].steps /\ "act" \in Steps
    <3>1. 1 \in 1..t[i].steps /\ 1 \in 0..MaxSteps
      <4>1. PICK n \in 1..MaxSteps : n = t[i].steps
        BY <2>1
      <4>2. 1 \in 1..n /\ 1 \in 0..MaxSteps
        BY <2>1
      <4>3. QED
        BY <4>1, <4>2
    <3>2. run' = [run EXCEPT !.pc = "act", !.step = 1] /\ run \in RunRecords
      BY <1>1, <1>4
    <3>3. "act" \in Steps /\ "act" \in Where
      BY DEF Steps, Where
    <3>4. /\ run' \in RunRecords /\ run'.pc = "act" /\ run'.cur = i /\ run'.arg = run.arg
          /\ run'.step = 1
      BY <3>1, <3>2, <3>3 DEF RunRecords
    <3>5. QED
      BY <3>1, <3>3, <3>4
  <2>3. t # <<>>
    BY <1>1, SeqParts
  <2>4. UNCHANGED <<tasks, ended, settings, file, saving, late>> /\ file' \in TreesOf(kind)
    BY <1>4 DEF inJob, FlowKnown
  <2>5. flow' = t
    BY <1>4
  <2> HIDE DEF i
  <2>6. QED
    BY <1>1, <2>2, <2>3, <2>4, <2>5, Goes
<1>5. QED
  BY <1>2, <1>3, <1>4 DEF GoOn

\* The steps of the agent.
LEMMA AgentSteps ==
  ASSUME NEW kind \in Kinds, FlowKnown(kind), Agent
  PROVE  FlowKnown(kind)'
<1> DEFINE i == run.cur
           o == flow[i]
<1>1. /\ run.pc \in {"generate", "act"} /\ run.pc \in Steps \ {"closing"}
      /\ run \in RunRecords /\ settings \in Settings
  BY DEF Agent, Generated, Generating, GenerateRejected, GenerateRaised, Acted, ActRejected,
         ActRaised, Steps, Where, FlowKnown, RunInv
<1>2. /\ flow \in TreesOf(kind) /\ flow \in Tree /\ flow \in Seq(Node) /\ i \in 1..Len(flow)
      /\ o \in Node /\ (kind = "loop" => ~o.duplicate)
  <2>1. flow \in TreesOf(kind) /\ flow \in Tree /\ flow \in Seq(Node) /\ i \in 1..Len(flow)
    BY <1>1, KindsHaveRoots, TreeParts DEF FlowKnown, RunInv
  <2>2. kind = "loop" => ~o.duplicate
    BY <2>1 DEF TreesOf, Chain
  <2>3. QED
    BY <2>1, <2>2, SeqParts
<1>3. settings.steps \in 0..MaxSteps /\ MaxSteps \in Nat
  BY <1>1, SettingsKnown
<1>3a. (settings.cost > 0) \in BOOLEAN
  <2>1. settings.cost \in Nat
    BY <1>1, FlowAssumption
  <2>2. QED
    BY <2>1
<1>3b. Recorded \subseteq BOOLEAN
  BY <1>3a DEF Recorded
\* What is changed in the node of a tree is changed in a tree of the kind.
<1>4. ASSUME NEW n \in Node, n.id = o.id, n.depth = o.depth, n.duplicate = o.duplicate
      PROVE  /\ Updated(flow, i, n) \in TreesOf(kind) /\ Len(Updated(flow, i, n)) = Len(flow)
             /\ Updated(flow, i, n)[i] = n
  BY <1>2, <1>4, NodeChangedInKind
<1>5. CASE Generated
  <2>1. PICK n \in 0..settings.steps :
          GoOn([flow EXCEPT ![run.cur].steps = n, ![run.cur].paid = settings.cost > 0])
    BY <1>5 DEF Generated
  <2>2. n \in 0..MaxSteps
    BY <1>3
  <2>3. PICK charged \in BOOLEAN : charged = (settings.cost > 0)
    BY <1>3a
  <2> DEFINE u == GeneratedIn(flow, i, n, charged)
             m == NodeGenerated(flow[i], n, charged)
  <2>4. /\ u = Updated(flow, i, m) /\ m \in Node /\ m.id = o.id /\ m.depth = o.depth
        /\ m.duplicate = o.duplicate
    BY <1>2, <2>2, GeneratedChange
  <2>5. GoOn(u)
    BY <2>1, <2>3 DEF GeneratedIn
  <2>6. run.pc = "generate"
    BY <1>5 DEF Generated, Generating
  <2> HIDE DEF u, m
  <2>7. u \in TreesOf(kind) /\ Len(u) = Len(flow)
    BY <1>4, <2>4
  <2>8. QED
    BY <2>5, <2>6, <2>7, GoesOnWith
<1>6. CASE GenerateRejected
  <2>1. PICK charged \in Recorded :
          GoOn([flow EXCEPT ![run.cur].error = TRUE, ![run.cur].paid = @ \/ charged])
    BY <1>6 DEF GenerateRejected
  <2>2. charged \in BOOLEAN
    BY <1>3b
  <2> DEFINE u == RejectedIn(flow, i, charged)
             m == NodeRejected(flow[i], charged)
  <2>4. /\ u = Updated(flow, i, m) /\ m \in Node /\ m.id = o.id /\ m.depth = o.depth
        /\ m.duplicate = o.duplicate
    BY <1>2, <2>2, RejectedChange
  <2>5. GoOn(u)
    BY <2>1 DEF RejectedIn
  <2>6. run.pc = "generate"
    BY <1>6 DEF GenerateRejected, Generating
  <2> HIDE DEF u, m
  <2>7. u \in TreesOf(kind) /\ Len(u) = Len(flow)
    BY <1>4, <2>4
  <2>8. QED
    BY <2>5, <2>6, <2>7, GoesOnWith
<1>7. CASE GenerateRaised
  <2>1. PICK what \in {"completion", "none", "other"}, charged \in Recorded :
          AgentRaises([flow EXCEPT ![run.cur].error = TRUE,
                                   ![run.cur].terminal = @ \/ what # "completion",
                                   ![run.cur].paid = @ \/ charged], what = "none")
    BY <1>7 DEF GenerateRaised
  <2>2. PICK terminal \in BOOLEAN : terminal = (what # "completion")
    OBVIOUS
  <2>3. charged \in BOOLEAN
    BY <1>3b
  <2> DEFINE u == RaisedIn(flow, i, terminal, charged)
             m == NodeRaised(flow[i], terminal, charged)
  <2>4. /\ u = Updated(flow, i, m) /\ m \in Node /\ m.id = o.id /\ m.depth = o.depth
        /\ m.duplicate = o.duplicate
    BY <1>2, <2>2, <2>3, RaisedChange, Zenon
  <2>5. AgentRaises(u, what = "none")
    <3>1. u = [flow EXCEPT ![run.cur].error = TRUE,
                           ![run.cur].terminal = @ \/ what # "completion",
                           ![run.cur].paid = @ \/ charged]
      BY <2>2 DEF RaisedIn
    <3>2. QED
      BY <2>1, <3>1
  <2> HIDE DEF u, m
  <2>6. u \in TreesOf(kind) /\ Len(u) = Len(flow)
    BY <1>4, <2>4
  <2>7. QED
    BY <1>1, <2>5, <2>6, Raised
<1>8. CASE Acted
  <2> DEFINE done == IF flow[i].done > run.step THEN flow[i].done ELSE run.step
  <2>1. PICK fin \in BOOLEAN, terminal \in BOOLEAN :
          LET t == [flow EXCEPT ![i].done = done,
                                ![i].fin  = IF run.step = done THEN fin ELSE @,
                                ![i].terminal = @ \/ fin \/ terminal]
          IN IF t[i].terminal \/ run.step = t[i].steps THEN AgentReturns(t)
             ELSE /\ flow' = t
                  /\ run' = [run EXCEPT !.step = @ + 1]
                  /\ UNCHANGED <<tasks, ended>> /\ UNCHANGED inJob
    BY <1>8 DEF Acted
  <2>2. PICK here \in BOOLEAN : here = (run.step = done)
    OBVIOUS
  <2>3. /\ run.pc = "act" /\ run.step \in 1..o.steps /\ o.steps \in 0..MaxSteps
        /\ o.done \in 0..MaxSteps /\ run.step \in 0..MaxSteps
    BY <1>1, <1>2, <1>8, NodeFields DEF Acted, FlowKnown, RunInv, RunRecords
  <2>4. done \in 0..MaxSteps
    BY <2>3
  <2> HIDE DEF done
  <2> DEFINE t == ActedIn(flow, i, done, here, fin, terminal)
             m == NodeActed(flow[i], done, here, fin, terminal)
  <2>5. /\ t = Updated(flow, i, m) /\ m \in Node /\ m.id = o.id /\ m.depth = o.depth
        /\ m.duplicate = o.duplicate /\ m.steps = o.steps
    BY <1>2, <2>4, ActedChange
  <2>6. IF t[i].terminal \/ run.step = t[i].steps THEN AgentReturns(t)
        ELSE /\ flow' = t
             /\ run' = [run EXCEPT !.step = @ + 1]
             /\ UNCHANGED <<tasks, ended>> /\ UNCHANGED inJob
    BY <2>1, <2>2 DEF ActedIn
  <2> HIDE DEF t, m
  <2>7. t \in TreesOf(kind) /\ Len(t) = Len(flow) /\ t[i].steps = o.steps
    BY <1>4, <2>5
  <2>8. CASE AgentReturns(t)
    BY <1>1, <2>7, <2>8, Returned
  <2>9. CASE /\ run.step # t[i].steps /\ flow' = t
             /\ run' = [run EXCEPT !.step = @ + 1]
             /\ UNCHANGED <<tasks, ended>> /\ UNCHANGED inJob
    <3>1. run.step + 1 \in 1..t[i].steps /\ run.step + 1 \in 0..MaxSteps
      <4>1. PICK a \in Nat, b \in Nat :
              a = run.step /\ b = o.steps /\ b <= MaxSteps /\ 1 <= a /\ a <= b
        BY <1>3, <2>3
      <4>2. a # b
        BY <2>7, <2>9, <4>1
      <4>3. a + 1 \in 1..b /\ a + 1 \in 0..MaxSteps
        BY <1>3, <4>1, <4>2
      <4>4. QED
        BY <2>7, <4>1, <4>3
    <3>2. /\ run' \in RunRecords /\ run'.pc = "act" /\ run'.cur = i /\ run'.arg = run.arg
          /\ run'.step = run.step + 1 /\ run'.pc \in Steps
      <4>1. run' = [run EXCEPT !.step = run.step + 1]
        BY <2>9
      <4>2. QED
        BY <1>1, <2>3, <3>1, <4>1 DEF RunRecords
    <3>3. t # <<>> /\ i \in 1..Len(t)
      <4>1. t \in Tree /\ i \in 1..Len(t)
        BY <1>2, <2>7, KindsHaveRoots
      <4>2. Len(t) # 0 /\ (t = <<>> <=> Len(t) = 0)
        BY <4>1, SeqParts DEF Tree
      <4>3. QED
        BY <4>1, <4>2
    <3>4. UNCHANGED <<tasks, ended, settings, file, saving, late>> /\ file' \in TreesOf(kind)
      BY <2>9 DEF inJob, FlowKnown
    <3>5. kind = "loop" => run.arg = 0 /\ i = Len(t)
      BY <1>1, <2>7 DEF FlowKnown
    <3>6. flow' = t
      BY <2>9
    <3> HIDE DEF i
    <3>7. QED
      BY <2>7, <3>1, <3>2, <3>3, <3>4, <3>5, <3>6, Goes
  <2>10. QED
    BY <2>6, <2>8, <2>9
<1>9. CASE ActRejected \/ ActRaised
  <2> DEFINE u == [flow EXCEPT ![i].error = TRUE, ![i].terminal = TRUE]
             m == [flow[i] EXCEPT !.error = TRUE, !.terminal = TRUE]
  <2>1. /\ u = Updated(flow, i, m) /\ m \in Node /\ m.id = o.id /\ m.depth = o.depth
        /\ m.duplicate = o.duplicate
    BY <1>2, MarkedChange
  <2>2. AgentReturns(u) \/ \E rejected \in BOOLEAN : AgentRaises(u, rejected)
    BY <1>9 DEF ActRejected, ActRaised
  <2> HIDE DEF u, m
  <2>3. u \in TreesOf(kind) /\ Len(u) = Len(flow)
    BY <1>4, <2>1
  <2>4. QED
    BY <1>1, <2>2, <2>3, Returned, Raised
<1>10. QED
  BY <1>5, <1>6, <1>7, <1>8, <1>9 DEF Agent

\* The agent is run on a node that it may work on.
LEMMA AgentRuns ==
  ASSUME NEW kind \in Kinds, FlowKnown(kind), run.pc \in Steps \ {"closing"},
         NEW t \in TreesOf(kind), NEW i \in 1..Len(t), t[i].steps = 0 => i # 1,
         kind = "loop" => i = Len(t),
         RunAgent(t, i), UNCHANGED tasks \/ Emit, UNCHANGED ended, UNCHANGED inJob
  PROVE  FlowKnown(kind)'
<1>1. t \in Tree /\ t # <<>> /\ t[i] \in Node /\ i \in Nat
  <2>1. t \in Tree
    BY KindsHaveRoots
  <2>2. t[i] \in Node /\ Len(t) # 0 /\ i \in Nat
    BY <2>1, TreeParts
  <2>3. QED
    BY <2>1, <2>2, SeqParts DEF Tree
<1>2. t[i].steps \in 0..MaxSteps /\ MaxSteps \in Nat
  BY <1>1, NodeFields, NodeAssumption
<1>3. PICK step \in {0, 1}, pc \in {"generate", "act"} :
        /\ run' = [run EXCEPT !.cur = i, !.step = step, !.pc = pc]
        /\ IF t[i].steps = 0 THEN step = 0 /\ pc = "generate" ELSE step = 1 /\ pc = "act"
  BY DEF RunAgent
<1>4. step \in 0..MaxSteps /\ (pc = "act" => step \in 1..t[i].steps)
  <2>1. PICK n \in 0..MaxSteps : n = t[i].steps
    BY <1>2
  <2>2. CASE n = 0
    BY <1>2, <1>3, <2>1, <2>2
  <2>3. CASE n # 0
    BY <1>2, <1>3, <2>1, <2>3
  <2>4. QED
    BY <2>2, <2>3
<1>5. pc \in Where /\ pc \in Steps /\ run \in RunRecords
  BY DEF Where, Steps, FlowKnown, RunInv
<1>6. /\ run' \in RunRecords /\ run'.pc = pc /\ run'.cur = i /\ run'.arg = run.arg
      /\ run'.step = step
  BY <1>1, <1>3, <1>4, <1>5 DEF RunRecords
<1>7. flow' = t /\ UNCHANGED <<settings, file, saving, late>>
  BY DEF RunAgent, inJob
<1>8. file' \in TreesOf(kind) /\ (kind = "loop" => run.arg = 0)
  BY <1>7 DEF FlowKnown
<1>9. pc = "generate" => i # 1
  BY <1>3
<1>10. QED
  BY <1>1, <1>4, <1>5, <1>6, <1>7, <1>8, <1>9, Goes

LEMMA LoopSteps ==
  ASSUME NEW kind \in Kinds, FlowKnown(kind), Loop
  PROVE  FlowKnown(kind)'
<1> DEFINE i == run.cur
<1>1. run.pc = "top" /\ run.pc \in Steps \ {"closing"}
  BY DEF Loop, LoopExpand, LoopRun, LoopStuck, GoesOn, Steps, Where
<1>2. /\ flow \in TreesOf(kind) /\ flow \in Tree /\ flow \in Seq(Node) /\ i \in 1..Len(flow)
      /\ Len(flow) \in Nat /\ flow # <<>>
      /\ kind = "loop" => i = Len(flow)
  BY <1>1, KindsHaveRoots, TreeParts DEF FlowKnown, RunInv, Steps
<1>3. CASE LoopExpand
  <2> DEFINE n  == NewNode(Len(flow), 0, 0)
             t  == AddChild(flow, i, n)
             at == ChildPosition(flow, i)
  <2>1. n \in Node /\ n.id = Len(flow) /\ n.duplicate = FALSE
    <3>1. n \in Node
      BY <1>2, NewNodeKnown
    <3>2. QED
      BY <3>1 DEF NewNode
  <2>2. RunAgent(t, at) /\ Emit /\ UNCHANGED ended /\ UNCHANGED inJob
    BY <1>3 DEF LoopExpand, CreateNextNode, UniqueId
  <2> HIDE DEF n
  <2>3. /\ t \in TreesOf(kind) /\ Len(t) = Len(flow) + 1 /\ at \in 2..Len(t)
        /\ kind = "loop" => at = Len(t)
    BY <1>2, <2>1, GrownInKind
  <2> HIDE DEF t, at
  <2>4. at \in 1..Len(t) /\ at # 1
    BY <1>2, <2>3
  <2>5. QED
    BY <1>1, <2>2, <2>3, <2>4, AgentRuns
<1>4. CASE LoopRun
  <2>1. flow[i].steps = 0 => i # 1
    BY <1>4 DEF LoopRun, Executed
  <2>2. RunAgent(flow, i) /\ UNCHANGED tasks /\ UNCHANGED ended /\ UNCHANGED inJob
    BY <1>4 DEF LoopRun
  <2> HIDE DEF i
  <2>3. QED
    BY <1>1, <1>2, <2>1, <2>2, AgentRuns
<1>5. CASE LoopStuck
  BY <1>2, <1>5, Fails DEF LoopStuck
<1>6. QED
  BY <1>3, <1>4, <1>5 DEF Loop

\* The end of the children of a node that has got one more.
LEMMA GrownEnd ==
  ASSUME NEW t \in Seq(Node), NEW p \in 1..Len(t), NEW n \in Node
  PROVE  LET u == AddChild(t, p, n)
         IN ChildPosition(u, p) = ChildPosition(t, p) + 1
<1> DEFINE u == AddChild(t, p, n)
           c == Child(n, t[p].depth)
<1>1. /\ c \in Node /\ u \in Seq(Node) /\ Len(u) = Len(t) + 1
      /\ \E e \in p..Len(t) :
           /\ ChildPosition(t, p) = e + 1
           /\ \A k \in p + 1 .. e : t[k].depth > t[p].depth
           /\ e < Len(t) => t[e + 1].depth <= t[p].depth
           /\ u[e + 1] = c
           /\ \A j \in 1..e : u[j] = t[j]
           /\ \A j \in e + 2 .. Len(t) + 1 : u[j] = t[j - 1]
  BY AddedChild
<1>2. t[p].depth \in Nat /\ Len(t) \in Nat /\ p \in Nat
  BY SeqParts, NodeFields
<1>3. c.depth = t[p].depth + 1
  BY <1>2, ChildDepth
<1> HIDE DEF u, c
<1>4. PICK e \in p..Len(t) :
        /\ ChildPosition(t, p) = e + 1
        /\ \A k \in p + 1 .. e : t[k].depth > t[p].depth
        /\ e < Len(t) => t[e + 1].depth <= t[p].depth
        /\ u[e + 1] = c
        /\ \A j \in 1..e : u[j] = t[j]
        /\ \A j \in e + 2 .. Len(t) + 1 : u[j] = t[j - 1]
  BY <1>1
<1>5. e \in Nat /\ p <= e /\ e <= Len(t) /\ p \in 1..Len(u) /\ p \in 1..e
  BY <1>1, <1>2
<1>6. u[p].depth = t[p].depth
  BY <1>4, <1>5
<1>7. /\ EndOf(u, p) \in p..Len(u) /\ ChildPosition(u, p) = EndOf(u, p) + 1
      /\ \A k \in p + 1 .. EndOf(u, p) : u[k].depth > u[p].depth
      /\ EndOf(u, p) < Len(u) => u[EndOf(u, p) + 1].depth <= u[p].depth
  BY <1>1, <1>5, EndKnown
<1>8. PICK x \in Nat : x = EndOf(u, p) /\ p <= x /\ x <= Len(u)
  BY <1>1, <1>2, <1>7
<1>9. ~(x < e + 1)
  <2>1. SUFFICES ASSUME x < e + 1 PROVE FALSE
    OBVIOUS
  <2>2. x < Len(u) /\ x + 1 \in p + 1 .. e + 1
    BY <1>1, <1>2, <1>5, <1>8, <2>1
  <2>3. u[x + 1].depth <= t[p].depth
    BY <1>6, <1>7, <1>8, <2>2
  <2>4. CASE x + 1 = e + 1
    BY <1>2, <1>3, <1>4, <2>3, <2>4
  <2>5. CASE x + 1 \in p + 1 .. e
    <3>1. x + 1 \in 1..e
      BY <1>2, <1>8, <2>5
    <3>2. t[x + 1].depth > t[p].depth /\ u[x + 1] = t[x + 1]
      BY <1>4, <2>5, <3>1
    <3>3. t[x + 1].depth \in Nat
      <4>1. x + 1 \in 1..Len(t)
        BY <1>2, <1>5, <3>1
      <4>2. QED
        BY <4>1, SeqParts, NodeFields
    <3>4. QED
      BY <1>2, <2>3, <3>2, <3>3
  <2>6. QED
    BY <1>2, <1>5, <1>8, <2>2, <2>4, <2>5
<1>10. ~(e + 1 < x)
  <2>1. SUFFICES ASSUME e + 1 < x PROVE FALSE
    OBVIOUS
  <2>2. /\ e + 2 \in p + 1 .. x /\ e + 2 \in e + 2 .. Len(t) + 1 /\ e < Len(t)
        /\ (e + 2) - 1 = e + 1 /\ e + 1 \in 1..Len(t)
    BY <1>1, <1>2, <1>5, <1>8, <2>1
  <2>3. u[e + 2] = t[e + 1] /\ t[e + 1].depth <= t[p].depth
    BY <1>4, <2>2
  <2>4. u[e + 2].depth > t[p].depth
    BY <1>6, <1>7, <1>8, <2>2
  <2>5. t[e + 1].depth \in Nat
    BY <2>2, SeqParts, NodeFields
  <2>6. QED
    BY <1>2, <2>3, <2>4, <2>5
<1>11. x = e + 1
  BY <1>5, <1>9, <1>10
<1>12. QED
  BY <1>4, <1>7, <1>8, <1>11 DEF u

\* How far a search expands a node, and the node before it is given children.
Expansions(p) == IF settings.expandRoot /\ p = 1 THEN settings.expansions ELSE 1

Limited(t, p) == [t EXCEPT ![p].max = IF @ = 0 THEN settings.expansions ELSE @]

NextOf(t, p) == AddChild(t, p, NewNode(UniqueId(t), 0, settings.expansions))

\* One child after the other, each by one step.
LEMMA ExpandedByOne ==
  ASSUME settings \in Settings, NEW t, NEW p, NEW S, Limited(t, p) \in S,
         \A u \in S : NextOf(u, p) \in S
  PROVE  \E u \in S : ExpandNode(t, p) = NextOf(u, p)
<1> DEFINE n == Expansions(p)
           t0 == Limited(t, p)
           Rec(m, f) == f = [k \in 0..m |-> IF k = 0 THEN t0 ELSE NextOf(f[k - 1], p)]
           Good == {m \in 0..n : \E f : Rec(m, f)}
<1>1. n \in Nat /\ n # 0 /\ 0 \in 0..n /\ n \in 0..n
  <2>1. settings.expansions \in Nat /\ (settings.expandRoot => settings.expansions > 0)
    BY FlowAssumption
  <2>2. QED
    BY <2>1 DEF Expansions
<1> HIDE DEF n, t0
<1>2. 0 \in Good
  <2> DEFINE f == [k \in 0..0 |-> t0]
  <2>1. Rec(0, f)
    OBVIOUS
  <2> HIDE DEF Rec, f
  <2>2. QED
    BY <1>1, <2>1
<1>3. ASSUME NEW m \in 0..n - 1, m \in Good PROVE m + 1 \in Good
  <2>1. PICK f : Rec(m, f)
    BY <1>3
  <2> DEFINE new == NextOf(f[m], p)
             g == [k \in 0..m + 1 |-> IF k <= m THEN f[k] ELSE new]
  <2>2. ASSUME NEW k \in 0..m + 1
        PROVE  g[k] = IF k = 0 THEN t0 ELSE NextOf(g[k - 1], p)
    <3>1. CASE k <= m
      <4>1. k \in 0..m /\ g[k] = f[k] /\ (k # 0 => g[k - 1] = f[k - 1])
        BY <1>1, <3>1
      <4>2. f[k] = IF k = 0 THEN t0 ELSE NextOf(f[k - 1], p)
        BY <2>1, <4>1
      <4> HIDE DEF g
      <4>3. QED
        BY <4>1, <4>2
    <3>2. CASE k = m + 1
      <4>1. g[k] = new /\ g[k - 1] = f[m] /\ k # 0
        BY <1>1, <3>2
      <4> HIDE DEF g
      <4>2. QED
        BY <3>2, <4>1
    <3>3. QED
      BY <1>1, <3>1, <3>2
  <2>3. Rec(m + 1, g)
    <3>1. g = [k \in 0..m + 1 |-> g[k]]
      OBVIOUS
    <3> HIDE DEF g
    <3>2. QED
      BY <2>2, <3>1
  <2> HIDE DEF Rec, g
  <2>4. m + 1 \in 0..n
    BY <1>1
  <2>5. QED
    BY <2>3, <2>4
<1>4. n \in Good
  <2> HIDE DEF Good
  <2>1. QED
    BY <1>1, <1>2, <1>3, CountsUp
<1> DEFINE grown == CHOOSE f : Rec(n, f)
<1>5. Rec(n, grown)
  <2>1. \E f : Rec(n, f)
    BY <1>4
  <2> HIDE DEF Rec
  <2>2. QED
    BY <2>1
<1>6. ExpandNode(t, p) = grown[n]
  BY DEF ExpandNode, n, t0, Expansions, Limited, NextOf
<1> HIDE DEF grown
<1> DEFINE In == {m \in 0..n : grown[m] \in S}
<1>7. 0 \in In
  BY <1>1, <1>5 DEF t0
<1>8. ASSUME NEW m \in 0..n - 1, m \in In PROVE m + 1 \in In
  <2>1. m + 1 \in 0..n /\ m + 1 # 0 /\ (m + 1) - 1 = m
    BY <1>1
  <2>2. grown[m + 1] = NextOf(grown[m], p)
    BY <1>5, <2>1
  <2>3. QED
    BY <1>8, <2>1, <2>2
<1>9. \A m \in 0..n : m \in In
  <2> HIDE DEF In
  <2>1. QED
    BY <1>1, <1>7, <1>8, CountsUp
<1>10. n - 1 \in 0..n
  BY <1>1
<1>11. grown[n] = NextOf(grown[n - 1], p)
  BY <1>1, <1>5
<1>12. QED
  BY <1>6, <1>9, <1>10, <1>11

\* A number that a tree has is found, at the first place that has it.
LEMMA FoundById ==
  ASSUME NEW t \in Tree, NEW id
  PROVE  /\ NodeById(t, id) \in 0..Len(t)
         /\ NodeById(t, id) # 0 => t[NodeById(t, id)].id = id
         /\ \A j \in 1..Len(t) : t[j].id = id => NodeById(t, id) # 0
<1> DEFINE found == {i \in 1..Len(t) : t[i].id = id}
<1>1. Len(t) \in Nat /\ DOMAIN t = 1..Len(t) /\ found \subseteq 0..Len(t)
  BY TreeParts
<1>2. NodeById(t, id) = IF found = {} THEN 0 ELSE CHOOSE i \in found : \A j \in found : i <= j
  BY <1>1 DEF NodeById
<1>3. CASE found = {}
  BY <1>1, <1>2, <1>3
<1>4. CASE found # {}
  <2> HIDE DEF found
  <2>1. \E i \in found : \A j \in found : i <= j
    BY <1>1, <1>4, ExtremesExist
  <2>2. NodeById(t, id) \in found
    BY <1>2, <1>4, <2>1
  <2>3. QED
    BY <1>1, <2>2 DEF found
<1>5. QED
  BY <1>3, <1>4

\* What a search may select is a node of its tree.
LEMMA SelectedKnown ==
  ASSUME NEW t \in Tree, NEW i \in 1..Len(t), NEW s \in Selections(t, i)
  PROVE  s \in 1..Len(t)
<1> DEFINE waiting == {j \in 1..Len(t) : ~Observed(t[j]) /\ Leaf(t, j)}
<1>1. Len(t) \in Nat /\ DOMAIN t = 1..Len(t) /\ waiting \subseteq 0..Len(t)
  BY TreeParts
<1>2. CASE s = i
  BY <1>2
<1>3. CASE waiting # {} /\ s = CHOOSE j \in waiting : \A k \in waiting : j <= k
  <2> HIDE DEF waiting
  <2>1. \E j \in waiting : \A k \in waiting : j <= k
    BY <1>1, <1>3, ExtremesExist
  <2>2. s \in waiting
    BY <1>3, <2>1
  <2>3. QED
    BY <2>2 DEF waiting
<1>4. CASE s \in {NodeById(t, t[j].id) : j \in ExpandableNodes(t)}
  <2>1. PICK j \in 1..Len(t) : s = NodeById(t, t[j].id)
    BY <1>1, <1>4 DEF ExpandableNodes
  <2>2. s \in 0..Len(t) /\ s # 0
    BY <2>1, FoundById
  <2>3. QED
    BY <1>1, <2>2
<1>5. QED
  BY <1>1, <1>2, <1>3, <1>4 DEF Selections

\* The first of the children that wait.
LEMMA FirstWaiting ==
  ASSUME NEW t \in Tree, NEW i \in 1..Len(t), UnexecutedChildren(t, i) # {}
  PROVE  LET w == CHOOSE j \in UnexecutedChildren(t, i) :
                     \A k \in UnexecutedChildren(t, i) : j <= k
         IN w \in 2..Len(t) /\ w \in ChildrenOf(t, i) /\ ~Observed(t[w])
<1> DEFINE W == UnexecutedChildren(t, i)
<1>1. Len(t) \in Nat
  BY TreeParts
<1>2. W \subseteq i + 1 .. Len(t)
  BY DEF UnexecutedChildren, ChildrenOf, Descendants
<1>3. W \subseteq 0..Len(t)
  BY <1>1, <1>2
<1> HIDE DEF W
<1>4. \E j \in W : \A k \in W : j <= k
  <2>1. W # {}
    BY DEF W
  <2>2. QED
    BY <1>1, <1>3, <2>1, ExtremesExist
<1>5. PICK w \in W : w = CHOOSE j \in W : \A k \in W : j <= k
  BY <1>4
<1>6. w \in 2..Len(t)
  <2>1. w \in W
    BY <1>5
  <2>2. i \in Nat /\ 1 <= i /\ w \in i + 1 .. Len(t)
    BY <1>1, <1>2, <2>1
  <2>3. QED
    BY <1>1, <2>2
<1>7. w \in ChildrenOf(t, i) /\ ~Observed(t[w])
  BY <1>5 DEF W, UnexecutedChildren
<1>8. QED
  BY <1>5, <1>6, <1>7 DEF W

\* What a search gets from the expansion of a node: a tree of its kind, whose last child of
\* that node has been added last.
LEMMA ExpandedInKind ==
  ASSUME settings \in Settings, NEW kind \in {"any", "search"}, NEW t \in TreesOf(kind),
         NEW p \in 1..Len(t)
  PROVE  LET u == ExpandNode(t, p)
         IN u \in TreesOf(kind) /\ ChildPosition(u, p) - 1 \in 2..Len(u)
<1> DEFINE S == {u \in TreesOf(kind) : p \in 1..Len(u)}
           max == settings.expansions
<1>1. kind \in Kinds /\ kind # "loop" /\ max \in Nat
  BY FlowAssumption DEF Kinds
<1>2. t \in Tree /\ t \in Seq(Node)
  BY <1>1, KindsHaveRoots, TreeParts
<1>3. Limited(t, p) \in S
  <2>1. PICK o \in Node : o = t[p]
    BY <1>2, TreeParts
  <2> DEFINE m == [o EXCEPT !.max = IF o.max = 0 THEN max ELSE o.max]
  <2>2. m \in Node /\ m.id = o.id /\ m.depth = o.depth
    <3>1. o.max \in Nat
      BY NodeFields
    <3>2. QED
      BY <1>1, <3>1 DEF Node
  <2>3. Limited(t, p) = Updated(t, p, m)
    BY <2>1 DEF Limited, Updated
  <2> HIDE DEF m
  <2>4. Updated(t, p, m) \in TreesOf(kind) /\ Len(Updated(t, p, m)) = Len(t)
    BY <1>1, <2>1, <2>2, NodeChangedInKind
  <2>5. QED
    BY <2>3, <2>4
<1>4. ASSUME NEW u \in S
      PROVE  /\ NextOf(u, p) \in S
             /\ ChildPosition(NextOf(u, p), p) - 1 \in 2..Len(NextOf(u, p))
  <2> DEFINE n == NewNode(UniqueId(u), 0, max)
  <2>1. u \in TreesOf(kind) /\ u \in Tree /\ u \in Seq(Node) /\ Len(u) \in Nat /\ p \in 1..Len(u)
    BY <1>1, KindsHaveRoots, TreeParts
  <2>2. n \in Node /\ n.id = Len(u)
    <3>1. n \in Node
      BY <1>1, <2>1, NewNodeKnown DEF UniqueId
    <3>2. QED
      BY <3>1 DEF NewNode, UniqueId
  <2> HIDE DEF n
  <2> DEFINE v == AddChild(u, p, n)
  <2>3. v \in TreesOf(kind) /\ Len(v) = Len(u) + 1 /\ ChildPosition(u, p) \in 2..Len(v)
    BY <1>1, <2>1, <2>2, GrownInKind
  <2>4. ChildPosition(v, p) = ChildPosition(u, p) + 1
    BY <2>1, <2>2, GrownEnd
  <2>5. v = NextOf(u, p)
    BY DEF NextOf, n
  <2> HIDE DEF v
  <2>6. p \in 1..Len(v)
    BY <2>1, <2>3
  <2>7. ChildPosition(v, p) - 1 \in 2..Len(v)
    <3>1. PICK x \in Nat : x = ChildPosition(u, p) /\ x \in 2..Len(v)
      BY <2>3
    <3>2. ChildPosition(v, p) - 1 = x
      BY <2>4, <3>1
    <3>3. QED
      BY <3>1, <3>2
  <2>8. QED
    BY <2>3, <2>5, <2>6, <2>7
<1> HIDE DEF S
<1>5. PICK u \in S : ExpandNode(t, p) = NextOf(u, p)
  BY <1>3, <1>4, ExpandedByOne
<1>6. QED
  BY <1>4, <1>5 DEF S

LEMMA SearchSteps ==
  ASSUME NEW kind \in Kinds, FlowKnown(kind), SearchStep
  PROVE  FlowKnown(kind)'
<1> DEFINE i == run.cur
<1>1. run.pc \in {"top", "score", "reward"} /\ run.pc \in Steps \ {"closing"}
  BY DEF SearchStep, SearchRun, SearchExpand, SearchStuck, Scored, ScoreRaised, Backpropagate,
         GoesOn, Steps, Where
<1>2. /\ flow \in TreesOf(kind) /\ flow \in Tree /\ flow \in Seq(Node) /\ i \in 1..Len(flow)
      /\ Len(flow) \in Nat /\ flow # <<>>
      /\ kind = "loop" => i = Len(flow) /\ run.arg = 0
      /\ run \in RunRecords /\ settings \in Settings
  BY <1>1, KindsHaveRoots, TreeParts DEF FlowKnown, RunInv, Steps
<1>3. Search => kind \in {"any", "search"}
  BY DEF FlowKnown, Kinds
<1>4. CASE SearchRun
  <2> DEFINE first(s) == CHOOSE j \in UnexecutedChildren(flow, s) :
                           \A k \in UnexecutedChildren(flow, s) : j <= k
  <2>1. PICK s \in Selections(flow, i) :
          /\ Executed(flow, s) => UnexecutedChildren(flow, s) # {}
          /\ RunAgent(flow, IF Executed(flow, s) THEN first(s) ELSE s)
    BY <1>4 DEF SearchRun
  <2>2. s \in 1..Len(flow)
    BY <1>2, SelectedKnown
  <2>3. UNCHANGED tasks /\ UNCHANGED ended /\ UNCHANGED inJob /\ kind # "loop"
    BY <1>3, <1>4 DEF SearchRun
  <2>4. CASE Executed(flow, s)
    <3> DEFINE w == first(s)
    <3>1. w \in 2..Len(flow)
      BY <1>2, <2>1, <2>2, <2>4, FirstWaiting
    <3>2. RunAgent(flow, w)
      BY <2>1, <2>4
    <3> HIDE DEF w
    <3>3. w \in 1..Len(flow) /\ w # 1
      BY <1>2, <3>1
    <3>4. QED
      BY <1>1, <1>2, <2>3, <3>2, <3>3, AgentRuns
  <2>5. CASE ~Executed(flow, s)
    <3>1. RunAgent(flow, s)
      BY <2>1, <2>5
    <3>2. flow[s].steps = 0 => s # 1
      BY <2>5 DEF Executed
    <3>3. QED
      BY <1>1, <1>2, <2>2, <2>3, <3>1, <3>2, AgentRuns
  <2>6. QED
    BY <2>4, <2>5
<1>5. CASE SearchExpand
  <2>1. PICK s \in Selections(flow, i) :
          LET t == ExpandNode(flow, s) IN RunAgent(t, ChildPosition(t, s) - 1)
    BY <1>5 DEF SearchExpand
  <2>2. s \in 1..Len(flow)
    BY <1>2, SelectedKnown
  <2>3. Emit /\ UNCHANGED ended /\ UNCHANGED inJob /\ kind \in {"any", "search"}
    BY <1>3, <1>5 DEF SearchExpand
  <2> DEFINE t == ExpandNode(flow, s)
             w == ChildPosition(t, s) - 1
  <2>4. t \in TreesOf(kind) /\ w \in 2..Len(t)
    BY <1>2, <2>2, <2>3, ExpandedInKind
  <2>5. RunAgent(t, w)
    BY <2>1
  <2> HIDE DEF t, w
  <2>6. w \in 1..Len(t) /\ w # 1
    <3>1. Len(t) \in Nat
      BY <2>4, KindsHaveRoots, TreeParts
    <3>2. QED
      BY <2>4, <3>1
  <2>7. kind # "loop"
    BY <2>3
  <2>8. QED
    BY <1>1, <2>3, <2>4, <2>5, <2>6, <2>7, AgentRuns
\* The rest works on the same node, or on none.
<1>6. ASSUME NEW pc \in {"return", "top", "reward"}, run' = [run EXCEPT !.pc = pc],
             flow' \in TreesOf(kind), Len(flow') = Len(flow),
             UNCHANGED tasks \/ Emit, UNCHANGED ended, UNCHANGED inJob
      PROVE  FlowKnown(kind)'
  <2>1. /\ run' \in RunRecords /\ run'.pc = pc /\ run'.cur = i /\ run'.arg = run.arg
        /\ pc \in Steps /\ pc # "act" /\ pc # "generate"
    BY <1>2, <1>6 DEF RunRecords, Where, Steps
  <2>2. flow' # <<>>
    <3>1. flow' \in Tree
      BY <1>6, KindsHaveRoots
    <3>2. Len(flow) # 0 /\ (flow' = <<>> <=> Len(flow') = 0)
      BY <1>2, <3>1, SeqParts DEF Tree
    <3>3. QED
      BY <1>6, <3>2
  <2>3. UNCHANGED <<settings, saving, late>> /\ file' \in TreesOf(kind)
    BY <1>6 DEF inJob, FlowKnown
  <2> HIDE DEF i
  <2>4. QED
    BY <1>2, <1>6, <2>1, <2>2, <2>3, Goes DEF i
<1>7. CASE SearchStuck
  <2>1. /\ run' = [run EXCEPT !.pc = "return"] /\ UNCHANGED <<flow, ended>> /\ UNCHANGED inJob
        /\ UNCHANGED tasks \/ Emit
    BY <1>7 DEF SearchStuck
  <2>2. QED
    BY <1>2, <1>6, <2>1
<1>8. CASE Scored
  <2>1. PICK reward \in {"none", "low", "high"} :
          /\ flow' = [flow EXCEPT ![run.cur].reward = reward]
          /\ run' = [run EXCEPT !.pc = IF reward = "none" THEN NextIteration ELSE "reward"]
    BY <1>8 DEF Scored
  <2> DEFINE u == RatedIn(flow, i, reward)
             o == NodeRated(flow[i], reward)
  <2>2. reward \in Rewards
    BY DEF Rewards
  <2>3. /\ u = Updated(flow, i, o) /\ o \in Node /\ o.id = flow[i].id
        /\ o.depth = flow[i].depth /\ o.duplicate = flow[i].duplicate
    BY <1>2, <2>2, RatedChange
  <2>4. flow' = u /\ UNCHANGED tasks /\ UNCHANGED ended /\ UNCHANGED inJob
    BY <1>8, <2>1 DEF Scored, RatedIn
  <2>5. kind = "loop" => ~flow[i].duplicate
    BY <1>2 DEF TreesOf, Chain
  <2> HIDE DEF u, o
  <2>6. u \in TreesOf(kind) /\ Len(u) = Len(flow)
    BY <1>2, <2>3, <2>5, NodeChangedInKind
  <2>7. QED
    BY <1>6, <2>1, <2>4, <2>6 DEF NextIteration
<1>9. CASE ScoreRaised
  BY <1>2, <1>9, Fails DEF ScoreRaised
<1>10. CASE Backpropagate
  <2>1. flow' = flow \/ flow' = Visit(flow, run.cur)
    BY <1>10 DEF Backpropagate, Backpropagated
  <2>2. flow' \in TreesOf(kind) /\ Len(flow') = Len(flow)
    BY <1>2, <2>1, VisitedInKind
  <2>3. QED
    BY <1>6, <1>10, <2>2 DEF Backpropagate, NextIteration
<1>11. QED
  BY <1>4, <1>5, <1>7, <1>8, <1>9, <1>10 DEF SearchStep

\* A run that is set up works on the last node or the root, or on the node it is told.
LEMMA SetupStep ==
  ASSUME NEW kind \in Kinds, FlowKnown(kind), Setup
  PROVE  FlowKnown(kind)'
<1> DEFINE t  == Load(file)
           at == IF run.arg # 0 THEN NodeById(t, run.arg) ELSE IF Search THEN 1 ELSE Len(t)
<1>1. file \in TreesOf(kind) /\ file # <<>> /\ run.pc = "pending" /\ run \in RunRecords
  BY DEF Setup, FlowKnown, RunInv
<1>2. t \in TreesOf(kind) /\ t # <<>> /\ t \in Tree
  BY <1>1, LoadedInKind, KindsHaveRoots
<1>3. Len(t) \in Nat /\ 1 \in 1..Len(t) /\ Len(t) \in 1..Len(t)
  BY <1>2, TreeParts
<1> HIDE DEF t
<1>4. at \in 0..Len(t) /\ (kind = "loop" => at = Len(t))
  <2>1. NodeById(t, run.arg) \in 0..Len(t)
    BY <1>2, FoundById
  <2>2. kind = "loop" => ~Search /\ run.arg = 0
    BY DEF FlowKnown
  <2>3. QED
    BY <1>3, <2>1, <2>2
<1>5. IF at = 0 THEN Fail(t, "failed")
      ELSE /\ flow' = t
           /\ run' = [run EXCEPT !.pc = "top", !.cur = at]
           /\ Emit
           /\ Ended("running", <<>>)
           /\ UNCHANGED <<settings, file, saving, late, crashes>>
  BY DEF Setup, t
<1> HIDE DEF at
<1>6. CASE at = 0
  BY <1>2, <1>5, <1>6, Fails
<1>7. CASE at # 0
  <2>1. at \in 1..Len(t) /\ at \in Nat
    BY <1>3, <1>4, <1>7
  <2>2. /\ run' \in RunRecords /\ run'.pc = "top" /\ run'.cur = at /\ run'.arg = run.arg
        /\ "top" \in Steps
    BY <1>1, <1>5, <1>7, <2>1 DEF RunRecords, Where, Steps
  <2>3. ended' \in EndRecords
    <3>1. <<>> \in Trees /\ "running" \in Outcomes
      BY DEF Trees, Outcomes
    <3>2. Ended("running", <<>>)
      BY <1>5, <1>7
    <3>3. QED
      BY <3>1, <3>2, EndKnownRecord
  <2>4. flow' = t /\ Emit /\ UNCHANGED <<settings, saving, late>> /\ file' \in TreesOf(kind)
    BY <1>1, <1>5, <1>7
  <2>5. kind = "loop" => run.arg = 0
    BY DEF FlowKnown
  <2>6. QED
    BY <1>2, <1>4, <2>1, <2>2, <2>3, <2>4, <2>5, Goes
<1>8. QED
  BY <1>6, <1>7

\* What is saved changes, and the run does not.
LEMMA TreesStored ==
  ASSUME NEW kind \in Kinds, FlowKnown(kind), UNCHANGED <<settings, flow, run>>,
         UNCHANGED ended \/ ended' \in EndRecords,
         tasks' \in Seq(TaskRecords(kind)), Len(tasks') <= MaxTasks,
         file' \in TreesOf(kind), saving' \in TreesOf(kind), late' \in TreesOf(kind)
  PROVE  FlowKnown(kind)'
<1>1. RunInv'
  BY DEF FlowKnown, RunInv
<1>2. Search' = Search
  BY DEF Search
<1>3. QED
  BY <1>1, <1>2 DEF FlowKnown

\* The tasks that are canceled are gone; what one of them was writing may still be written.
LEMMA Canceled ==
  ASSUME NEW kind \in Kinds, FlowKnown(kind), CancelTasks
  PROVE  /\ tasks' \in Seq(TaskRecords(kind)) /\ Len(tasks') <= MaxTasks
         /\ saving' \in TreesOf(kind) /\ late' \in TreesOf(kind)
<1>1. tasks' = <<>> /\ saving' = <<>> /\ late' \in {saving, late}
  BY DEF CancelTasks
<1>2. <<>> \in TreesOf(kind)
  BY KindsHaveRoots
<1>3. <<>> \in Seq(TaskRecords(kind)) /\ Len(<<>>) = 0
  OBVIOUS
<1>4. MaxTasks \in Nat
  BY FlowAssumption
<1>5. QED
  BY <1>1, <1>2, <1>3, <1>4 DEF FlowKnown

LEMMA ReturnSteps ==
  ASSUME NEW kind \in Kinds, FlowKnown(kind), Returns \/ Close
  PROVE  FlowKnown(kind)'
<1>1. /\ flow \in TreesOf(kind) /\ flow \in Tree /\ run \in RunRecords /\ settings \in Settings
      /\ ended \in EndRecords /\ run.pc \in Steps
      /\ flow # <<>> /\ flow \in Trees /\ 1 \in 1..Len(flow)
  <2>1. /\ flow \in TreesOf(kind) /\ flow \in Tree /\ run \in RunRecords /\ settings \in Settings
        /\ ended \in EndRecords /\ (run.pc \in {"none", "pending"} <=> flow = <<>>)
    BY KindsHaveRoots DEF FlowKnown, RunInv
  <2>2. run.pc \in Steps /\ run.pc \notin {"none", "pending"}
    BY DEF Returns, Close, Steps, Where
  <2>3. flow # <<>>
    BY <2>1, <2>2
  <2>4. flow \in Seq(Node) /\ 1 \in 1..Len(flow)
    BY <2>1, <2>3, TreeParts
  <2>5. QED
    BY <2>1, <2>2, <2>3, <2>4 DEF Trees
<1>2. <<>> \in TreesOf(kind)
  BY KindsHaveRoots
<1>3. CASE Returns
  <2>1. /\ tasks' \in Seq(TaskRecords(kind)) /\ Len(tasks') <= MaxTasks
        /\ saving' \in TreesOf(kind) /\ late' \in TreesOf(kind)
    BY <1>3, Canceled DEF Returns, Complete
  <2>2. CASE Finished(flow)
    <3>1. /\ run' = [run EXCEPT !.pc = "closing", !.cur = 1]
          /\ file' = <<>> /\ UNCHANGED <<flow, ended, settings>>
      BY <1>3, <2>2 DEF Returns, Complete
    <3>2. run' \in RunRecords /\ run'.pc = "closing" /\ run'.cur = 1 /\ run'.arg = run.arg
      BY <1>1, <3>1 DEF RunRecords, Where
    <3>3. RunInv'
      BY <1>1, <3>1, <3>2 DEF RunInv
    <3>4. Search' = Search
      BY <3>1 DEF Search
    <3>5. QED
      BY <1>1, <1>2, <2>1, <3>1, <3>2, <3>3, <3>4 DEF FlowKnown
  <2>3. CASE ~Finished(flow)
    <3>1. Ended("partial", flow) /\ run' = NoRun /\ flow' = <<>> /\ UNCHANGED <<file, settings>>
      BY <1>3, <2>3 DEF Returns, Complete
    <3>2. ended' \in EndRecords
      BY <1>1, <3>1, EndKnownRecord DEF Outcomes
    <3>3. file' \in TreesOf(kind)
      BY <3>1 DEF FlowKnown
    <3>4. QED
      BY <2>1, <3>1, <3>2, <3>3, Stops
  <2>4. QED
    BY <2>2, <2>3
<1>4. CASE Close
  <2>1. /\ file' = flow /\ run' = NoRun /\ flow' = <<>>
        /\ Ended(IF late = <<>> THEN "finished" ELSE "cut", flow)
        /\ UNCHANGED <<settings, tasks, saving, late>>
    BY <1>4 DEF Close
  <2>2. ended' \in EndRecords
    <3>1. (IF late = <<>> THEN "finished" ELSE "cut") \in Outcomes
      BY DEF Outcomes
    <3>2. QED
      BY <1>1, <2>1, <3>1, EndKnownRecord
  <2>3. /\ file' \in TreesOf(kind) /\ saving' \in TreesOf(kind) /\ late' \in TreesOf(kind)
        /\ tasks' \in Seq(TaskRecords(kind)) /\ Len(tasks') <= MaxTasks
    BY <1>1, <2>1 DEF FlowKnown
  <2>4. QED
    BY <2>1, <2>2, <2>3, Stops
<1>5. QED
  BY <1>3, <1>4

LEMMA SaveSteps ==
  ASSUME NEW kind \in Kinds, FlowKnown(kind), SaveBegin \/ SaveEnd \/ LateWrite
  PROVE  FlowKnown(kind)'
<1>1. <<>> \in TreesOf(kind)
  BY KindsHaveRoots
<1>2. CASE SaveBegin
  <2>1. /\ tasks \in Seq(TaskRecords(kind)) /\ tasks # <<>> /\ Len(tasks) <= MaxTasks
    BY <1>2 DEF SaveBegin, FlowKnown
  <2>2. /\ Head(tasks) \in TaskRecords(kind) /\ Tail(tasks) \in Seq(TaskRecords(kind))
        /\ Len(Tail(tasks)) = Len(tasks) - 1 /\ Len(tasks) \in Nat
    BY <2>1, HeadTailProperties, SeqParts
  <2>3. saving' \in TreesOf(kind)
    <3>1. saving' \in {Head(tasks).tree, flow}
      BY <1>2 DEF SaveBegin
    <3>2. QED
      BY <2>2, <3>1 DEF TaskRecords, FlowKnown
  <2>4. Len(tasks') <= MaxTasks /\ tasks' \in Seq(TaskRecords(kind))
    <3>1. tasks' = Tail(tasks) /\ MaxTasks \in Nat
      BY <1>2, FlowAssumption DEF SaveBegin
    <3>2. QED
      BY <2>1, <2>2, <3>1
  <2>5. /\ UNCHANGED <<settings, flow, run, ended>> /\ file' \in TreesOf(kind)
        /\ late' \in TreesOf(kind)
    BY <1>1, <1>2 DEF SaveBegin, FlowKnown
  <2>6. QED
    BY <2>3, <2>4, <2>5, TreesStored
<1>3. CASE SaveEnd \/ LateWrite
  <2>1. /\ UNCHANGED <<settings, flow, run, ended, tasks>>
        /\ file' \in TreesOf(kind) /\ saving' \in TreesOf(kind) /\ late' \in TreesOf(kind)
    BY <1>1, <1>3 DEF SaveEnd, LateWrite, FlowKnown
  <2>2. tasks' \in Seq(TaskRecords(kind)) /\ Len(tasks') <= MaxTasks
    BY <2>1 DEF FlowKnown
  <2>3. QED
    BY <2>1, <2>2, TreesStored
<1>4. QED
  BY <1>2, <1>3

\* Every step of a job, of the tasks that save and of the processes they run in.
LEMMA JobSteps ==
  ASSUME NEW kind \in Kinds, FlowKnown(kind), JobNext
  PROVE  FlowKnown(kind)'
<1>1. CASE NotRun
  <2>1. /\ flow = <<>> /\ file \in TreesOf(kind) /\ saving \in TreesOf(kind)
        /\ late \in TreesOf(kind) /\ tasks \in Seq(TaskRecords(kind)) /\ Len(tasks) <= MaxTasks
    BY <1>1 DEF NotRun, FlowKnown, RunInv
  <2>2. run' = NoRun /\ UNCHANGED <<settings, flow, file, tasks, saving, late, ended>>
    BY <1>1 DEF NotRun
  <2>3. QED
    BY <2>1, <2>2, Stops
<1>2. CASE Crash
  <2>1. /\ run' = NoRun /\ flow' = <<>> /\ tasks' = <<>> /\ saving' = <<>> /\ late' = <<>>
        /\ Ended("killed", flow) /\ UNCHANGED <<settings, file>>
    BY <1>2 DEF Crash
  <2>2. ended' \in EndRecords
    <3>1. flow \in Trees /\ "killed" \in Outcomes
      BY KindsHaveRoots, TreeParts DEF FlowKnown, Trees, Outcomes
    <3>2. QED
      BY <2>1, <3>1, EndKnownRecord
  <2>3. <<>> \in TreesOf(kind) /\ <<>> \in Seq(TaskRecords(kind)) /\ Len(<<>>) = 0
        /\ MaxTasks \in Nat
    BY KindsHaveRoots, FlowAssumption
  <2>4. Len(tasks') <= MaxTasks
    BY <2>1, <2>3
  <2>5. file' \in TreesOf(kind)
    BY <2>1 DEF FlowKnown
  <2>6. QED
    BY <2>1, <2>2, <2>3, <2>4, <2>5, Stops
<1>3. CASE OtherFlowEnds
  <2>1. /\ tasks' \in Seq(TaskRecords(kind)) /\ Len(tasks') <= MaxTasks
        /\ saving' \in TreesOf(kind) /\ late' \in TreesOf(kind)
    BY <1>3, Canceled DEF OtherFlowEnds
  <2>2. UNCHANGED ended \/ ended' \in EndRecords
    <3>1. ended.tree \in Trees /\ "cut" \in Outcomes
      BY DEF FlowKnown, RunInv, EndRecords, Outcomes
    <3>2. QED
      BY <1>3, <3>1, EndKnownRecord DEF OtherFlowEnds
  <2>3. UNCHANGED <<settings, flow, run>> /\ file' \in TreesOf(kind)
    BY <1>3 DEF OtherFlowEnds, FlowKnown
  <2>4. QED
    BY <2>1, <2>2, <2>3, TreesStored
<1>4. QED
  BY <1>1, <1>2, <1>3, AgentSteps, LoopSteps, SearchSteps, SetupStep, ReturnSteps, SaveSteps
     DEF JobNext

\* How often what is bounded has happened.
BoundsInv == calls \in 0..settings.calls /\ crashes \in 0..settings.crashes

LEMMA JobBounds ==
  ASSUME RunInv, BoundsInv, JobNext
  PROVE  BoundsInv'
<1>1. settings.calls \in Nat /\ settings.crashes \in Nat
  BY SettingsKnown DEF RunInv
<1>2. UNCHANGED settings
  BY DEF JobNext, NotRun, Setup, Loop, SearchStep, Agent, Returns, Close, SaveBegin, SaveEnd,
         LateWrite, Crash, OtherFlowEnds, LoopExpand, LoopRun, LoopStuck, SearchRun,
         SearchExpand, SearchStuck, Scored, ScoreRaised, Backpropagate, Generated,
         GenerateRejected, GenerateRaised, Acted, ActRejected, ActRaised, Complete, Fail,
         inJob, GoOn, AgentReturns, AgentRaises
<1>3. CASE Crash \/ OtherFlowEnds
  <2>1. crashes < settings.crashes /\ crashes' = crashes + 1 /\ UNCHANGED calls
    BY <1>3 DEF Crash, OtherFlowEnds
  <2>2. QED
    BY <1>1, <1>2, <2>1 DEF BoundsInv
<1>4. CASE ~(Crash \/ OtherFlowEnds)
  <2>1. UNCHANGED crashes
    BY <1>4 DEF JobNext, NotRun, Setup, Loop, SearchStep, Agent, Returns, Close, SaveBegin,
         SaveEnd, LateWrite, LoopExpand, LoopRun, LoopStuck, SearchRun,
         SearchExpand, SearchStuck, Scored, ScoreRaised, Backpropagate, Generated,
         GenerateRejected, GenerateRaised, Acted, ActRejected, ActRaised, Complete, Fail,
         inJob, GoOn, AgentReturns, AgentRaises
  <2>2. UNCHANGED calls \/ (calls' = IF calls < settings.calls THEN calls + 1 ELSE calls)
    BY <1>4 DEF JobNext, NotRun, Setup, Loop, SearchStep, Agent, Returns, Close, SaveBegin,
         SaveEnd, LateWrite, LoopExpand, LoopRun, LoopStuck, SearchRun,
         SearchExpand, SearchStuck, Scored, ScoreRaised, Backpropagate, Generated,
         GenerateRejected, GenerateRaised, Acted, ActRejected, ActRaised, Complete,
         Generating
  <2>3. QED
    BY <1>1, <1>2, <2>1, <2>2 DEF BoundsInv
<1>5. QED
  BY <1>3, <1>4

--------------------------------------------------------------------------------
(* The requests                                                                *)

ReqPlaces == {"idle", "read", "status", "write", "flush", "job"}

ReqRecords == [kind : Requests, pc : ReqPlaces, tree : Trees, node : Nat]

\* A request that has a node to run in the end is one that executes it, and one that resets
\* a node has no job to start.
ReqInv ==
  /\ req \in ReqRecords /\ req.tree \in Tree
  /\ req.pc = "status" /\ req.kind = "start" => req.tree # <<>>
  /\ req.pc \in {"write", "flush", "job"} /\ req.node # 0 => req.kind \in {"execute", "reset"}
  /\ req.pc = "job" => req.kind # "reset"
  /\ req.pc = "flush" => req.kind \in touched
  /\ touched \subseteq Requests /\ requests \in 0..settings.requests

\* The kind that a trajectory's trees have until a request numbers nodes otherwise.
Own == IF Search THEN "search" ELSE "loop"

Renumbering == IF Search THEN {"execute", "resume", "reset"} ELSE {"execute"}

KeptInv ==
  touched \cap Renumbering = {} =>
    /\ FlowKnown(Own)
    /\ req.kind \notin Renumbering => req.tree \in TreesOf(Own)

\* What a request makes of a tree is a tree, and of the kind it was if the request does not
\* number nodes otherwise.
LEMMA ChangedTrees ==
  ASSUME ReqInv, NEW kind \in Kinds, NEW t \in TreesOf(kind), t # <<>>,
         kind # "any" => req.kind # "execute",
         kind = "search" => req.kind \notin {"resume", "reset"},
         (req.kind = "start" /\ StartChange(t)) \/ Change(t)
  PROVE  \E u \in TreesOf(kind), node \in Nat, save \in BOOLEAN :
           /\ Changed(u, save, node)
           /\ node # 0 => req.kind \in {"execute", "reset"}
           /\ ~save => req.kind # "reset"
<1>1. /\ t \in Tree /\ t \in Seq(Node) /\ Len(t) \in Nat /\ 1 \in 1..Len(t) /\ Len(t) \in 1..Len(t)
      /\ req.node \in Nat
  BY KindsHaveRoots, TreeParts DEF ReqInv, ReqRecords
<1>2. CASE req.kind = "start" /\ StartChange(t)
  <2>1. PICK failed \in BOOLEAN :
          Changed(IF failed THEN ResetNode(t, Len(t), TRUE) ELSE t, failed, 0)
    <3>1. LastNode(t).error \in BOOLEAN
      BY <1>1, TreeParts, NodeFields DEF LastNode
    <3>2. QED
      BY <1>2, <3>1 DEF StartChange
  <2>2. (IF failed THEN ResetNode(t, Len(t), TRUE) ELSE t) \in TreesOf(kind)
    BY CutInKind
  <2>3. QED
    BY <1>2, <2>1, <2>2
<1>3. CASE req.kind = "retry" /\ RetryChange(t)
  <2>1. PICK grown \in BOOLEAN : Changed(IF grown THEN DropChildren(t, 1) ELSE t, grown, 0)
    BY <1>3 DEF RetryChange
  <2>2. (IF grown THEN DropChildren(t, 1) ELSE t) \in TreesOf(kind)
    BY CutInKind
  <2>3. QED
    BY <1>3, <2>1, <2>2
<1>4. CASE req.kind = "resume" /\ ResumeChange(t)
  <2> DEFINE n  == NewNode(t[Len(t)].id + 1, 0, t[Len(t)].max)
             t0 == [t EXCEPT ![Len(t)].terminal = FALSE]
             o  == [t[Len(t)] EXCEPT !.terminal = FALSE]
             u  == IF Executed(t, Len(t)) THEN AddChild(t0, Len(t), n) ELSE t
  <2>1. n \in Node /\ n.id = t[Len(t)].id + 1 /\ n.duplicate = FALSE
    <3>1. t[Len(t)].id + 1 \in Nat /\ t[Len(t)].max \in Nat
      BY <1>1, TreeParts, NodeFields
    <3>2. n \in Node
      BY <3>1, NewNodeKnown
    <3>3. QED
      BY <3>2 DEF NewNode
  <2>2. /\ t0 = Updated(t, Len(t), o) /\ o \in Node /\ o.id = t[Len(t)].id
        /\ o.depth = t[Len(t)].depth /\ o.duplicate = t[Len(t)].duplicate
    BY <1>1, MarkedChange
  <2>3. kind = "loop" => ~t[Len(t)].duplicate /\ t[Len(t)].id = Len(t) - 1
    BY <1>1 DEF TreesOf, Chain
  <2>4. Changed(u, TRUE, 0)
    BY <1>4 DEF ResumeChange, LastNode
  <2> HIDE DEF n, t0, o
  <2>5. t0 \in TreesOf(kind) /\ Len(t0) = Len(t)
    BY <1>1, <2>2, <2>3, NodeChangedInKind
  <2>6. AddChild(t0, Len(t), n) \in TreesOf(kind)
    <3>1. CASE kind = "loop"
      <4>1. n.id = Len(t0) /\ Len(t) \in 1..Len(t0)
        BY <1>1, <2>1, <2>3, <2>5, <3>1
      <4>2. QED
        BY <2>1, <2>5, <3>1, <4>1, GrownInKind
    <3>2. CASE kind = "any"
      <4>1. t0 \in Tree /\ Len(t) \in 1..Len(t0)
        BY <1>1, <2>5, KindsHaveRoots
      <4>2. QED
        BY <2>1, <3>2, <4>1, AddedChildInTree DEF TreesOf
    <3>3. QED
      BY <1>4, <3>1, <3>2 DEF Kinds
  <2>7. u \in TreesOf(kind)
    BY <2>6
  <2> HIDE DEF u
  <2>8. QED
    BY <1>4, <2>4, <2>7
<1>5. CASE req.kind = "execute" /\ ExecuteChange(t)
  <2> DEFINE i  == NodeById(t, req.node)
             at == ChildPosition(t, ParentOf(t, i))
             copied == CloneNode(t, i)
  <2>1. i \in 0..Len(t) /\ i # 0 /\ TreesOf(kind) = Tree
    <3>1. kind = "any"
      BY <1>5
    <3>2. QED
      BY <1>1, <1>5, <3>1, FoundById DEF ExecuteChange, TreesOf
  <2>2. IF Executed(t, i)
        THEN /\ i # 1
             /\ Changed(ResetNode(copied, at, FALSE), TRUE, copied[at].id)
        ELSE Changed(t, FALSE, req.node)
    BY <1>5 DEF ExecuteChange
  <2> HIDE DEF i
  <2>3. CASE Executed(t, i)
    <3>1. i \in 2..Len(t)
      BY <1>1, <2>1, <2>2, <2>3
    <3>2. copied \in Tree /\ at \in 1..Len(copied) /\ copied[at].id \in Nat
      BY <1>1, <3>1, ClonedTree
    <3>3. Changed(ResetNode(copied, at, FALSE), TRUE, copied[at].id)
      BY <2>2, <2>3
    <3> HIDE DEF copied, at
    <3>4. ResetNode(copied, at, FALSE) \in Tree
      BY <3>2, ResetTree
    <3>5. QED
      BY <1>5, <2>1, <3>2, <3>3, <3>4
  <2>4. CASE ~Executed(t, i)
    BY <1>1, <1>5, <2>2, <2>4
  <2>5. QED
    BY <2>3, <2>4
<1>6. CASE req.kind = "reset" /\ ResetChange(t)
  <2> DEFINE i == NodeById(t, req.node)
  <2>1. i \in 0..Len(t) /\ i # 0 /\ Changed(ResetNode(t, i, TRUE), TRUE, req.node)
    BY <1>1, <1>6, FoundById DEF ResetChange
  <2> HIDE DEF i
  <2>2. i \in 1..Len(t)
    BY <1>1, <2>1
  <2>3. ResetNode(t, i, TRUE) \in TreesOf(kind)
    <3>1. CASE kind = "loop"
      BY <2>2, <3>1, CutInKind
    <3>2. CASE kind = "any"
      BY <1>1, <2>2, <3>2, ResetTree DEF TreesOf
    <3>3. QED
      BY <1>6, <3>1, <3>2 DEF Kinds
  <2>4. QED
    BY <1>1, <1>6, <2>1, <2>3
<1>7. QED
  BY <1>2, <1>3, <1>4, <1>5, <1>6 DEF Change

\* What happens beside a running job leaves it and its trees as they are.
LEMMA KnownStays ==
  ASSUME NEW kind, FlowKnown(kind),
         UNCHANGED <<settings, flow, file, run, tasks, saving, late, ended>>
  PROVE  FlowKnown(kind)'
<1>1. Search' = Search
  BY DEF Search
<1>2. RunInv'
  BY DEF FlowKnown, RunInv
<1>3. QED
  BY <1>1, <1>2 DEF FlowKnown

\* A job is started while there is none.
LEMMA StartedJob ==
  ASSUME NEW kind \in Kinds, FlowKnown(kind), NEW node \in Nat, StartJob(node),
         kind = "loop" => node = 0,
         UNCHANGED <<settings, flow, file, tasks, saving, late, ended>>
  PROVE  FlowKnown(kind)'
<1>1. Search' = Search
  BY DEF Search
<1>2. CASE run.pc = "none"
  <2>1. run' = [NoRun EXCEPT !.pc = "pending", !.arg = node]
    BY <1>2 DEF StartJob
  <2>2. run' \in RunRecords /\ run'.pc = "pending" /\ run'.arg = node
    <3>1. NoRun \in RunRecords /\ NoRun.arg = 0 /\ NoRun.pc = "none"
      BY NodeAssumption DEF NoRun, RunRecords, Where
    <3>2. PICK r \in RunRecords : r = NoRun
      BY <3>1
    <3>3. run' = [r EXCEPT !.pc = "pending", !.arg = node] /\ "pending" \in Where
      BY <2>1, <3>2 DEF Where
    <3>4. QED
      BY <3>3 DEF RunRecords
  <2>3. flow = <<>>
    BY <1>2 DEF FlowKnown, RunInv
  <2>4. RunInv'
    BY <2>2, <2>3 DEF FlowKnown, RunInv, Steps
  <2>5. QED
    BY <1>1, <2>2, <2>4 DEF FlowKnown, Steps
<1>3. CASE run.pc # "none"
  BY <1>3, KnownStays DEF StartJob
<1>4. QED
  BY <1>2, <1>3

\* The file is written by a request.
LEMMA FileWritten ==
  ASSUME NEW kind \in Kinds, FlowKnown(kind), file' \in TreesOf(kind), Ended("new", <<>>),
         UNCHANGED <<settings, flow, run, tasks, saving, late>>
  PROVE  FlowKnown(kind)'
<1>1. ended' \in EndRecords
  <2>1. <<>> \in Trees /\ "new" \in Outcomes
    BY DEF Trees, Outcomes
  <2>2. QED
    BY <2>1, EndKnownRecord
<1>2. /\ tasks' \in Seq(TaskRecords(kind)) /\ Len(tasks') <= MaxTasks
      /\ saving' \in TreesOf(kind) /\ late' \in TreesOf(kind)
  BY DEF FlowKnown
<1>3. QED
  BY <1>1, <1>2, TreesStored

NodeArgs == run.arg # 0 => "execute" \in touched

FlowInv == FlowKnown("any") /\ BoundsInv /\ ReqInv /\ NodeArgs /\ KeptInv /\ NodeToRun

LEMMA OwnKnown == Own \in Kinds /\ "any" \in Kinds /\ Own # "any"
                  /\ (Own = "search" <=> Search) /\ (Own = "loop" <=> ~Search)
  BY DEF Own, Kinds

LEMMA FlowInit1 ==
  ASSUME Init
  PROVE  FlowInv
<1>1. /\ settings \in Settings /\ flow = <<>> /\ file = <<Root>> /\ run = NoRun
      /\ tasks = <<>> /\ saving = <<>> /\ late = <<>>
      /\ ended = [how |-> "new", tree |-> <<>>] /\ calls = 0 /\ crashes = 0
      /\ req = Idle /\ touched = {} /\ requests = 0
  BY DEF Init, FlowInit
<1>2. NoRun \in RunRecords /\ NoRun.pc = "none" /\ NoRun.arg = 0
  BY NodeAssumption DEF NoRun, RunRecords, Where
<1>3. RunInv
  <2>1. ended \in EndRecords
    BY <1>1 DEF EndRecords, Outcomes, Trees
  <2>2. QED
    BY <1>1, <1>2, <2>1 DEF RunInv, Steps
<1>4. ASSUME NEW kind \in Kinds, kind = "search" => Search, kind = "loop" => ~Search
      PROVE  FlowKnown(kind)
  <2>1. <<>> \in TreesOf(kind) /\ <<Root>> \in TreesOf(kind) /\ MaxTasks \in Nat
    BY KindsHaveRoots, FlowAssumption
  <2>2. <<>> \in Seq(TaskRecords(kind)) /\ Len(<<>>) = 0
    OBVIOUS
  <2>3. QED
    BY <1>1, <1>2, <1>3, <1>4, <2>1, <2>2 DEF FlowKnown, Steps
<1>5. FlowKnown("any") /\ FlowKnown(Own)
  BY <1>4, OwnKnown
<1>6. BoundsInv
  BY <1>1, SettingsKnown DEF BoundsInv
<1>7. /\ req.pc = "idle" /\ req.tree = <<>> /\ req.node = 0 /\ req \in ReqRecords
      /\ req.tree \in Tree
  BY <1>1 DEF Idle, ReqRecords, ReqPlaces, Requests, Trees, Tree
<1>8. ReqInv
  BY <1>1, <1>7, SettingsKnown DEF ReqInv
<1>9. KeptInv
  <2>1. <<>> \in TreesOf(Own)
    BY OwnKnown, KindsHaveRoots
  <2>2. QED
    BY <1>5, <1>7, <2>1 DEF KeptInv
<1>10. NodeArgs /\ NodeToRun
  BY <1>1, <1>2 DEF NodeArgs, NodeToRun
<1>11. QED
  BY <1>5, <1>6, <1>8, <1>9, <1>10 DEF FlowInv

\* The argument of a job stays with it, and no run of a loop fails for want of a node while
\* no request has had the job run one.
LEMMA JobArguments ==
  ASSUME FlowInv, JobNext, UNCHANGED <<req, touched, requests>>
  PROVE  NodeArgs' /\ NodeToRun'
<1>1. /\ run \in RunRecords /\ ended \in EndRecords /\ NoRun.arg = 0
  BY DEF FlowInv, FlowKnown, RunInv, NoRun
<1>2. run'.arg \in {run.arg, 0}
  <2>1. CASE Generated \/ GenerateRejected \/ GenerateRaised
    BY <1>1, <2>1 DEF Generated, GenerateRejected, GenerateRaised, GoOn, AgentReturns, AgentRaises,
           Fail, RunRecords
  <2>2. CASE Acted \/ ActRejected \/ ActRaised
    BY <1>1, <2>2 DEF Acted, ActRejected, ActRaised, AgentReturns, AgentRaises, Fail, RunRecords
  <2>3. CASE Loop
    BY <1>1, <2>3 DEF Loop, LoopExpand, LoopRun, LoopStuck, RunAgent, Fail, RunRecords
  <2>4. CASE SearchStep
    BY <1>1, <2>4 DEF SearchStep, SearchRun, SearchExpand, SearchStuck, Scored, ScoreRaised,
           Backpropagate, RunAgent, Fail, RunRecords
  <2>5. CASE NotRun \/ Setup \/ Returns \/ Close
    BY <1>1, <2>5 DEF NotRun, Setup, Returns, Close, Complete, Fail, RunRecords
  <2>6. CASE SaveBegin \/ SaveEnd \/ LateWrite \/ Crash \/ OtherFlowEnds
    BY <1>1, <2>6 DEF SaveBegin, SaveEnd, LateWrite, Crash, OtherFlowEnds
  <2>7. QED
    BY <2>1, <2>2, <2>3, <2>4, <2>5, <2>6 DEF JobNext, Agent
<1>3. NodeArgs'
  BY <1>2 DEF FlowInv, NodeArgs
<1>4. CASE LoopStuck
  <2>1. SUFFICES ASSUME "execute" \notin touched PROVE FALSE
    BY <1>3 DEF NodeToRun
  <2>2. /\ ~Search /\ run.pc = "top" /\ run.arg = 0
        /\ ~Finished(flow) /\ ~Expandable(flow, run.cur)
    BY <1>4, <2>1 DEF LoopStuck, GoesOn, FlowInv, NodeArgs
  <2>3. FlowKnown("loop")
    BY <2>1, <2>2 DEF FlowInv, KeptInv, Own, Renumbering
  <2>4. /\ flow \in Chain /\ run.cur = Len(flow) /\ run.cur \in 1..Len(flow)
    BY <2>2, <2>3 DEF FlowKnown, RunInv, TreesOf, Steps, Where
  <2> DEFINE n == Len(flow)
  <2>5. /\ n \in Nat /\ ~flow[n].duplicate /\ flow[n].max \in Nat
    BY <2>4, TreeParts, NodeFields DEF Chain
  <2>6. ~Terminal(flow[n])
    BY <2>2 DEF Finished, LoopFinished, LastNode
  <2>7. ChildrenOf(flow, n) = {}
    BY <2>5 DEF ChildrenOf, Descendants
  <2>8. ~FullyExpanded(flow, n)
    <3>1. Cardinality(ChildrenOf(flow, n)) = 0
      BY <2>7, FS_EmptySet
    <3>2. QED
      BY <2>5, <3>1 DEF FullyExpanded
  <2>9. QED
    BY <2>2, <2>4, <2>5, <2>6, <2>8 DEF Expandable
<1>5. CASE ~LoopStuck
  <2>1. \/ UNCHANGED ended
        \/ \E how \in Outcomes \ {"again"} : \E t : Ended(how, t)
    BY <1>5 DEF JobNext, NotRun, Setup, Loop, SearchStep, Agent, Returns, Close, SaveBegin, SaveEnd,
         LateWrite, Crash, OtherFlowEnds, LoopExpand, LoopRun, SearchRun,
         SearchExpand, SearchStuck, Scored, ScoreRaised, Backpropagate, Generated,
         GenerateRejected, GenerateRaised, Acted, ActRejected, ActRaised, Complete, Fail,
         GoOn, AgentReturns, AgentRaises, Outcomes
  <2>2. CASE UNCHANGED ended
    BY <1>3, <2>2 DEF FlowInv, NodeToRun
  <2>3. CASE \E how \in Outcomes \ {"again"} : \E t : Ended(how, t)
    <3>1. ended'.how # "again"
      BY <2>3 DEF Ended
    <3>2. QED
      BY <1>3, <3>1 DEF NodeToRun
  <2>4. QED
    BY <2>1, <2>2, <2>3
<1>6. QED
  BY <1>3, <1>4, <1>5

LEMMA FlowJobStep ==
  ASSUME FlowInv, JobNext, UNCHANGED <<req, touched, requests>>
  PROVE  FlowInv'
<1>1. FlowKnown("any")' /\ BoundsInv'
  BY OwnKnown, JobSteps, JobBounds DEF FlowInv, FlowKnown
<1>2. UNCHANGED settings
  BY DEF JobNext, NotRun, Setup, Loop, SearchStep, Agent, Returns, Close, SaveBegin, SaveEnd,
         LateWrite, Crash, OtherFlowEnds, LoopExpand, LoopRun, LoopStuck, SearchRun,
         SearchExpand, SearchStuck, Scored, ScoreRaised, Backpropagate, Generated,
         GenerateRejected, GenerateRaised, Acted, ActRejected, ActRaised, Complete, Fail,
         inJob, GoOn, AgentReturns, AgentRaises
<1>3. Own' = Own /\ Renumbering' = Renumbering
  BY <1>2 DEF Own, Renumbering, Search
<1>4. ReqInv'
  BY <1>2 DEF FlowInv, ReqInv
<1>5. KeptInv'
  <2>1. SUFFICES ASSUME touched \cap Renumbering = {}
                 PROVE  /\ FlowKnown(Own)'
                        /\ req.kind \notin Renumbering => req.tree \in TreesOf(Own)
    BY <1>3 DEF KeptInv
  <2>2. /\ FlowKnown(Own) /\ Own \in Kinds
        /\ req.kind \notin Renumbering => req.tree \in TreesOf(Own)
    BY <2>1, OwnKnown DEF FlowInv, KeptInv
  <2> DEFINE own == Own
  <2>3. PICK kind \in Kinds : kind = own
    BY <2>2
  <2>4. FlowKnown(kind)'
    BY <2>2, <2>3, JobSteps
  <2>5. FlowKnown(Own)'
    BY <1>3, <2>3, <2>4
  <2>6. QED
    BY <2>2, <2>5
<1>6. QED
  BY <1>1, <1>4, <1>5, JobArguments DEF FlowInv

\* A request goes on with the tree it has, beside the job.
LEMMA RequestGoesOn ==
  ASSUME FlowInv,
         UNCHANGED <<settings, flow, file, run, tasks, saving, late, ended, calls, touched>>,
         crashes' \in 0..settings.crashes, ReqInv',
         touched \cap Renumbering = {} /\ req'.kind \notin Renumbering =>
           req'.tree \in TreesOf(Own)
  PROVE  FlowInv'
<1>1. Own' = Own /\ Renumbering' = Renumbering
  BY DEF Own, Renumbering, Search
<1>2. FlowKnown("any")' /\ BoundsInv' /\ NodeArgs' /\ NodeToRun'
  <2>1. FlowKnown("any")'
    BY KnownStays DEF FlowInv
  <2>2. QED
    BY <2>1 DEF FlowInv, BoundsInv, NodeArgs, NodeToRun
<1>3. KeptInv'
  <2>1. SUFFICES ASSUME touched \cap Renumbering = {}
                 PROVE  /\ FlowKnown(Own)'
                        /\ req'.kind \notin Renumbering => req'.tree \in TreesOf(Own)
    BY <1>1 DEF KeptInv, TreesOf
  <2>2. PICK kind : kind = Own
    OBVIOUS
  <2>3. FlowKnown(kind)
    BY <2>1, <2>2 DEF FlowInv, KeptInv
  <2>4. FlowKnown(kind)'
    BY <2>3, KnownStays
  <2>5. FlowKnown(Own)'
    BY <1>1, <2>2, <2>4
  <2>6. QED
    BY <2>1, <2>5
<1>4. QED
  BY <1>2, <1>3 DEF FlowInv

\* A request changes the tree it has read.
LEMMA RequestChanges ==
  ASSUME FlowInv, UNCHANGED <<jobVars, touched, requests>>, NEW t \in Tree, t # <<>>,
         touched \cap Renumbering = {} /\ req.kind \notin Renumbering => t \in TreesOf(Own),
         (req.kind = "start" /\ StartChange(t)) \/ Change(t)
  PROVE  FlowInv'
<1>1. /\ ReqInv /\ TreesOf("any") = Tree /\ crashes \in 0..settings.crashes
      /\ UNCHANGED <<settings, flow, file, run, tasks, saving, late, ended, calls, crashes>>
  BY DEF FlowInv, TreesOf, BoundsInv, jobVars
<1>2. \E u \in Tree, node \in Nat, save \in BOOLEAN :
        /\ Changed(u, save, node)
        /\ node # 0 => req.kind \in {"execute", "reset"}
        /\ ~save => req.kind # "reset"
  <2>1. PICK kind \in Kinds : kind = "any"
    BY OwnKnown
  <2>2. t \in TreesOf(kind) /\ TreesOf(kind) = Tree
    BY <1>1, <2>1
  <2>3. QED
    BY <1>1, <2>1, <2>2, ChangedTrees
<1>3. PICK u \in Tree, node \in Nat, save \in BOOLEAN :
        /\ req' = [req EXCEPT !.tree = IF save THEN u ELSE <<>>, !.node = node,
                              !.pc = IF save THEN "write" ELSE "job"]
        /\ node # 0 => req.kind \in {"execute", "reset"}
        /\ ~save => req.kind # "reset"
  BY <1>2 DEF Changed
<1>4. PICK r \in ReqRecords : r = req
  BY <1>1 DEF ReqInv
<1>5. /\ req' \in ReqRecords /\ req'.kind = req.kind /\ req'.node = node
      /\ req'.tree = (IF save THEN u ELSE <<>>) /\ req'.pc = (IF save THEN "write" ELSE "job")
      /\ req'.tree \in Tree
  <2>1. u \in Trees /\ <<>> \in Trees /\ <<>> \in Tree
    BY DEF Trees, Tree
  <2>2. req' = [r EXCEPT !.tree = IF save THEN u ELSE <<>>, !.node = node,
                         !.pc = IF save THEN "write" ELSE "job"]
    BY <1>3, <1>4
  <2>3. QED
    BY <1>4, <2>1, <2>2 DEF ReqRecords, ReqPlaces
<1>6. ReqInv'
  BY <1>1, <1>3, <1>5 DEF ReqInv
<1>7. ASSUME touched \cap Renumbering = {}, req'.kind \notin Renumbering
      PROVE  req'.tree \in TreesOf(Own)
  <2>1. PICK kind \in Kinds : kind = Own
    BY OwnKnown
  <2>2. t \in TreesOf(kind) /\ <<>> \in TreesOf(kind)
    BY <1>5, <1>7, <2>1, KindsHaveRoots
  <2>3. /\ req.kind # "execute"
        /\ kind = "search" => req.kind \notin {"resume", "reset"}
    BY <1>5, <1>7, <2>1 DEF Renumbering, Own
  <2>4. \E v \in TreesOf(kind), m \in Nat, saved \in BOOLEAN : Changed(v, saved, m)
    BY <1>1, <2>2, <2>3, ChangedTrees
  <2>5. PICK v \in TreesOf(kind), m \in Nat, saved \in BOOLEAN :
          req' = [req EXCEPT !.tree = IF saved THEN v ELSE <<>>, !.node = m,
                             !.pc = IF saved THEN "write" ELSE "job"]
    BY <2>4 DEF Changed
  <2>6. req'.tree = IF saved THEN v ELSE <<>>
    BY <1>4, <2>5 DEF ReqRecords
  <2>7. QED
    BY <2>1, <2>2, <2>5, <2>6
<1>8. QED
  BY <1>1, <1>6, <1>7, RequestGoesOn

\* What a request reads from the file.
LEMMA LoadedForRequest ==
  ASSUME FlowInv, file # <<>>
  PROVE  /\ Load(file) \in Tree /\ Load(file) # <<>>
         /\ touched \cap Renumbering = {} => Load(file) \in TreesOf(Own)
<1>1. file \in TreesOf("any") /\ Own \in Kinds /\ TreesOf("any") = Tree
  BY OwnKnown DEF FlowInv, FlowKnown, TreesOf
<1>2. Load(file) \in Tree /\ Load(file) # <<>>
  BY <1>1, OwnKnown, LoadedInKind
<1>3. ASSUME touched \cap Renumbering = {} PROVE Load(file) \in TreesOf(Own)
  <2>1. file \in TreesOf(Own)
    BY <1>3 DEF FlowInv, KeptInv, FlowKnown
  <2>2. QED
    BY <1>1, <2>1, LoadedInKind
<1>4. QED
  BY <1>2, <1>3

LEMMA IdleKnown ==
  ASSUME req' = Idle, touched' = touched, UNCHANGED settings, ReqInv,
         requests' \in 0..settings.requests
  PROVE  ReqInv' /\ req'.tree \in TreesOf(Own)
<1>1. <<>> \in TreesOf(Own)
  BY OwnKnown, KindsHaveRoots
<1>2. /\ req'.pc = "idle" /\ req'.tree = <<>> /\ req'.node = 0 /\ req' \in ReqRecords
      /\ req'.tree \in Tree
  BY DEF Idle, ReqRecords, ReqPlaces, Requests, Trees, Tree
<1>3. QED
  BY <1>1, <1>2 DEF ReqInv

\* What a request does before it writes.
LEMMA RequestReads ==
  ASSUME FlowInv,
         \/ start_trajectory \/ retry_trajectory \/ resume_trajectory
         \/ \E node \in 0 .. 2 : execute_node(node) \/ reset_node(node)
         \/ Read \/ Status \/ Refused
  PROVE  FlowInv'
<1>1. /\ ReqInv /\ req \in ReqRecords /\ req.tree \in Tree /\ crashes \in 0..settings.crashes
      /\ settings.requests \in Nat /\ Trees = Seq(Node)
  BY SettingsKnown DEF FlowInv, ReqInv, BoundsInv, FlowKnown, RunInv, Trees
<1>2. <<>> \in TreesOf(Own) /\ <<>> \in Tree /\ <<>> \in Trees
  BY OwnKnown, KindsHaveRoots DEF Tree, Trees
<1>3. ASSUME NEW kind \in Requests, NEW node \in Nat, Begin(kind, node),
             node # 0 => kind \in {"execute", "reset"}
      PROVE  FlowInv'
  <2>1. /\ requests < settings.requests /\ requests' = requests + 1
        /\ UNCHANGED <<settings, flow, file, run, tasks, saving, late, ended, calls, crashes,
                       touched>>
        /\ req' = [Idle EXCEPT !.kind = kind, !.node = node,
                               !.pc = IF kind \in {"retry", "resume"} THEN "status" ELSE "read"]
    BY <1>3 DEF Begin, jobVars
  <2>2. /\ req' \in ReqRecords /\ req'.kind = kind /\ req'.tree = <<>>
        /\ req'.pc = (IF kind \in {"retry", "resume"} THEN "status" ELSE "read")
    BY <1>2, <2>1 DEF Idle, ReqRecords, ReqPlaces
  <2>3. requests' \in 0..settings.requests
    BY <1>1, <2>1 DEF ReqInv
  <2>4. ReqInv'
    BY <1>1, <1>2, <1>3, <2>1, <2>2, <2>3 DEF ReqInv
  <2>5. QED
    BY <1>1, <1>2, <2>1, <2>2, <2>4, RequestGoesOn
<1>4. CASE start_trajectory \/ retry_trajectory \/ resume_trajectory
  BY <1>3, <1>4 DEF start_trajectory, retry_trajectory, resume_trajectory, Requests
<1>5. CASE \E node \in 0 .. 2 : execute_node(node) \/ reset_node(node)
  BY <1>3, <1>5 DEF execute_node, reset_node, Requests
<1>6. CASE Read
  <2>1. /\ req.pc = "read" /\ file # <<>> /\ UNCHANGED <<jobVars, touched, requests>>
        /\ \/ req.kind = "start" /\ req' = [req EXCEPT !.pc = "status", !.tree = Load(file)]
           \/ Change(Load(file))
    BY <1>6 DEF Read
  <2>2. PICK t \in Tree : /\ t = Load(file) /\ t # <<>>
                          /\ touched \cap Renumbering = {} => t \in TreesOf(Own)
    BY <2>1, LoadedForRequest
  <2>3. CASE Change(Load(file))
    BY <2>1, <2>2, <2>3, RequestChanges
  <2>4. CASE req.kind = "start" /\ req' = [req EXCEPT !.pc = "status", !.tree = Load(file)]
    <3>1. PICK r \in ReqRecords : r = req
      BY <1>1
    <3>2. req' = [r EXCEPT !.pc = "status", !.tree = t] /\ t \in Trees
      BY <2>2, <2>4, <3>1 DEF Tree, Trees
    <3>3. /\ req' \in ReqRecords /\ req'.kind = "start" /\ req'.tree = t /\ req'.pc = "status"
          /\ req'.node = req.node
      BY <2>4, <3>1, <3>2 DEF ReqRecords, ReqPlaces
    <3>4. UNCHANGED <<settings, flow, file, run, tasks, saving, late, ended, calls, crashes>>
      BY <2>1 DEF jobVars
    <3>5. ReqInv'
      BY <1>1, <2>1, <2>2, <3>3, <3>4 DEF ReqInv
    <3>6. QED
      BY <1>1, <2>1, <2>2, <3>3, <3>4, <3>5, RequestGoesOn
  <2>5. QED
    BY <2>1, <2>3, <2>4
<1>7. CASE Status
  <2>1. /\ req.pc = "status" /\ UNCHANGED <<jobVars, touched, requests>>
        /\ IF req.kind = "start" THEN StartChange(req.tree)
           ELSE req' = [req EXCEPT !.pc = "read"]
    BY <1>7 DEF Status
  <2>2. touched \cap Renumbering = {} /\ req.kind \notin Renumbering =>
          req.tree \in TreesOf(Own)
    BY DEF FlowInv, KeptInv
  <2>3. CASE req.kind = "start"
    <3>1. req.tree # <<>> /\ req.kind \notin Renumbering
      BY <1>1, <2>1, <2>3 DEF ReqInv, Renumbering
    <3>2. PICK t \in Tree : t = req.tree
      BY <1>1
    <3>3. QED
      BY <2>1, <2>2, <2>3, <3>1, <3>2, RequestChanges
  <2>4. CASE req.kind # "start"
    <3>1. PICK r \in ReqRecords : r = req
      BY <1>1
    <3>2. /\ req' \in ReqRecords /\ req'.kind = req.kind /\ req'.tree = req.tree
          /\ req'.pc = "read" /\ req'.node = req.node
      BY <2>1, <2>4, <3>1 DEF ReqRecords, ReqPlaces
    <3>3. UNCHANGED <<settings, flow, file, run, tasks, saving, late, ended, calls, crashes>>
      BY <2>1 DEF jobVars
    <3>4. ReqInv'
      BY <1>1, <2>1, <2>4, <3>2, <3>3 DEF ReqInv
    <3>5. QED
      BY <1>1, <2>1, <2>2, <3>2, <3>3, <3>4, RequestGoesOn
  <2>5. QED
    BY <2>3, <2>4
<1>8. CASE Refused
  <2>1. /\ req' = Idle
        /\ UNCHANGED <<settings, flow, file, run, tasks, saving, late, ended, calls, crashes,
                       touched, requests>>
    BY <1>8 DEF Refused, jobVars
  <2>2. requests' \in 0..settings.requests
    BY <1>1, <2>1 DEF ReqInv
  <2>3. QED
    BY <1>1, <2>1, <2>2, IdleKnown, RequestGoesOn
<1>9. QED
  BY <1>4, <1>5, <1>6, <1>7, <1>8

\* What a request does to the file and the job.
LEMMA RequestWrites ==
  ASSUME FlowInv, Write \/ Flush \/ Start \/ RequestLost \/ StartedElsewhere
  PROVE  FlowInv'
<1>1. /\ ReqInv /\ req \in ReqRecords /\ req.tree \in Tree /\ crashes \in 0..settings.crashes
      /\ settings.requests \in Nat /\ settings.crashes \in Nat /\ BoundsInv
      /\ run \in RunRecords /\ requests \in 0..settings.requests
  BY SettingsKnown DEF FlowInv, ReqInv, BoundsInv, FlowKnown, RunInv
<1>2. PICK r \in ReqRecords : r = req
  BY <1>1
<1>3. ASSUME UNCHANGED <<settings, flow, run, tasks, saving, late, calls, crashes, requests>>,
             Ended("new", <<>>), ReqInv', file' \in Tree,
             req.kind \in touched', touched \subseteq touched',
             req'.kind = req.kind \/ req'.tree = <<>>,
             req'.tree = req.tree \/ req'.tree = <<>>,
             file' = <<>> \/ file' = req.tree
      PROVE  FlowInv'
  <2>1. Own' = Own /\ Renumbering' = Renumbering
    BY <1>3 DEF Own, Renumbering, Search
  <2>2. FlowKnown("any")'
    <3>1. file' \in TreesOf("any") /\ FlowKnown("any")
      BY <1>3 DEF TreesOf, FlowInv
    <3>2. QED
      BY <1>3, <3>1, OwnKnown, FileWritten
  <2>3. BoundsInv' /\ NodeArgs' /\ NodeToRun'
    <3>1. ended'.how = "new"
      BY <1>3 DEF Ended
    <3>2. QED
      BY <1>1, <1>3, <3>1 DEF FlowInv, BoundsInv, NodeArgs, NodeToRun
  <2>4. KeptInv'
    <3>1. SUFFICES ASSUME touched' \cap Renumbering = {}
                   PROVE  FlowKnown(Own)' /\ req'.tree \in TreesOf(Own)
      BY <2>1 DEF KeptInv, TreesOf
    <3>2. PICK kind \in Kinds : kind = Own
      BY OwnKnown
    <3>3. FlowKnown(kind) /\ req.tree \in TreesOf(kind) /\ <<>> \in TreesOf(kind)
      BY <1>3, <3>1, <3>2, KindsHaveRoots DEF FlowInv, KeptInv
    <3>4. file' \in TreesOf(kind) /\ req'.tree \in TreesOf(kind)
      BY <1>3, <3>3
    <3>5. FlowKnown(kind)'
      BY <1>3, <3>3, <3>4, FileWritten
    <3>6. FlowKnown(Own)'
      BY <2>1, <3>2, <3>5
    <3>7. QED
      BY <3>2, <3>4, <3>6
  <2>5. QED
    BY <1>3, <2>2, <2>3, <2>4 DEF FlowInv
<1>4. CASE Write
  <2>1. /\ req.pc = "write" /\ file' = <<>> /\ req' = [r EXCEPT !.pc = "flush"]
        /\ touched' = touched \cup {req.kind} /\ Ended("new", <<>>)
        /\ UNCHANGED <<settings, flow, run, tasks, saving, late, calls, crashes, requests>>
    BY <1>2, <1>4 DEF Write
  <2>2. /\ req' \in ReqRecords /\ req'.kind = req.kind /\ req'.tree = req.tree
        /\ req'.pc = "flush" /\ req'.node = req.node /\ req.kind \in Requests
    BY <1>2, <2>1 DEF ReqRecords, ReqPlaces
  <2>3. ReqInv'
    BY <1>1, <2>1, <2>2 DEF ReqInv
  <2>4. <<>> \in Tree
    BY DEF Tree
  <2>5. QED
    BY <1>3, <2>1, <2>2, <2>3, <2>4
<1>5. CASE Flush
  <2>1. /\ req.pc = "flush" /\ file' = req.tree /\ Ended("new", <<>>)
        /\ req' = IF req.kind = "reset" THEN Idle ELSE [r EXCEPT !.pc = "job", !.tree = <<>>]
        /\ UNCHANGED <<settings, flow, run, tasks, saving, late, calls, crashes, touched,
                       requests>>
    BY <1>2, <1>5 DEF Flush
  <2>2. req'.tree = <<>> /\ ReqInv' /\ (req.kind # "reset" => req'.kind = req.kind)
    <3>1. <<>> \in Tree /\ <<>> \in Trees
      BY DEF Tree, Trees
    <3>2. CASE req.kind = "reset"
      BY <1>1, <2>1, <3>2, IdleKnown DEF Idle
    <3>3. CASE req.kind # "reset"
      <4>1. req' = [r EXCEPT !.pc = "job", !.tree = <<>>]
        BY <2>1, <3>3
      <4>2. /\ req' \in ReqRecords /\ req'.kind = req.kind /\ req'.tree = <<>>
            /\ req'.pc = "job" /\ req'.node = req.node
        BY <1>2, <3>1, <4>1 DEF ReqRecords, ReqPlaces
      <4>3. QED
        BY <1>1, <2>1, <3>1, <3>3, <4>2 DEF ReqInv
    <3>4. QED
      BY <3>2, <3>3
  <2>3. req.kind \in touched
    BY <1>1, <2>1 DEF ReqInv
  <2>4. QED
    BY <1>1, <1>3, <2>1, <2>2, <2>3
<1>6. CASE RequestLost
  <2>1. /\ crashes < settings.crashes /\ crashes' = crashes + 1 /\ req' = Idle
        /\ UNCHANGED <<settings, flow, file, run, tasks, saving, late, ended, calls, touched,
                       requests>>
    BY <1>6 DEF RequestLost
  <2>2. crashes' \in 0..settings.crashes
    BY <1>1, <2>1
  <2>3. requests' \in 0..settings.requests
    BY <1>1, <2>1
  <2>4. QED
    BY <1>1, <2>1, <2>2, <2>3, IdleKnown, RequestGoesOn
<1>7. CASE Start \/ StartedElsewhere
  <2>1. PICK node \in Nat :
          /\ StartJob(node)
          /\ node # 0 => req.kind = "execute"
          /\ UNCHANGED <<settings, flow, file, tasks, saving, late, ended, calls, crashes,
                         requests>>
          /\ touched' = touched \cup (IF node # 0 THEN {req.kind} ELSE {})
          /\ req' = req \/ req' = Idle
    <3>1. CASE Start
      <4>1. req.node \in Nat /\ (req.node # 0 => req.kind = "execute")
        BY <1>1, <3>1 DEF Start, ReqInv, ReqRecords
      <4>2. QED
        BY <3>1, <4>1 DEF Start
    <3>2. CASE StartedElsewhere
      BY <3>2 DEF StartedElsewhere
    <3>3. QED
      BY <1>7, <3>1, <3>2
  <2>2. ReqInv'
    <3>1. touched \subseteq touched' /\ touched' \subseteq Requests
      BY <1>1, <2>1 DEF ReqInv, ReqRecords
    <3>2. CASE req' = req
      BY <1>1, <2>1, <3>1, <3>2 DEF ReqInv
    <3>3. CASE req' = Idle
      <4>1. /\ req'.pc = "idle" /\ req'.tree = <<>> /\ req'.node = 0 /\ req' \in ReqRecords
            /\ req'.tree \in Tree
        BY <3>3 DEF Idle, ReqRecords, ReqPlaces, Requests, Trees, Tree
      <4>2. QED
        BY <1>1, <2>1, <3>1, <4>1 DEF ReqInv
    <3>4. QED
      BY <2>1, <3>2, <3>3
  <2>3. Own' = Own /\ Renumbering' = Renumbering
    BY <2>1 DEF Own, Renumbering, Search
  <2>4. FlowKnown("any")' /\ BoundsInv'
    BY <1>1, <2>1, OwnKnown, StartedJob DEF FlowInv, BoundsInv
  <2>5. NodeArgs' /\ NodeToRun'
    <3>1. run'.arg = node \/ run' = run
      BY <2>1 DEF StartJob, NoRun
    <3>2. node # 0 => "execute" \in touched'
      BY <2>1
    <3>3. ended' = ended /\ touched \subseteq touched'
      BY <2>1
    <3>4. QED
      BY <3>1, <3>2, <3>3 DEF FlowInv, NodeArgs, NodeToRun
  <2>6. KeptInv'
    <3>1. SUFFICES ASSUME touched' \cap Renumbering = {}
                   PROVE  /\ FlowKnown(Own)'
                          /\ req'.kind \notin Renumbering => req'.tree \in TreesOf(Own)
      BY <2>3 DEF KeptInv, TreesOf
    <3>2. PICK kind \in Kinds : kind = Own
      BY OwnKnown
    <3>3. touched \cap Renumbering = {} /\ node = 0
      <4>1. touched \subseteq touched' /\ (node # 0 => "execute" \in touched')
        BY <2>1
      <4>2. "execute" \in Renumbering
        BY DEF Renumbering
      <4>3. QED
        BY <3>1, <4>1, <4>2
    <3>4. FlowKnown(kind) /\ <<>> \in TreesOf(kind)
      BY <3>2, <3>3, KindsHaveRoots DEF FlowInv, KeptInv
    <3>5. FlowKnown(kind)'
      BY <2>1, <3>3, <3>4, StartedJob
    <3>6. FlowKnown(Own)'
      BY <2>3, <3>2, <3>5
    <3>7. req'.kind \notin Renumbering => req'.tree \in TreesOf(Own)
      BY <2>1, <3>2, <3>3, <3>4 DEF Idle, FlowInv, KeptInv
    <3>8. QED
      BY <3>6, <3>7
  <2>7. QED
    BY <2>2, <2>4, <2>5, <2>6 DEF FlowInv
<1>8. QED
  BY <1>4, <1>5, <1>6, <1>7

LEMMA FlowStutters ==
  ASSUME FlowInv, UNCHANGED vars
  PROVE  FlowInv'
<1>1. /\ UNCHANGED <<settings, flow, file, run, tasks, saving, late, ended, calls, touched>>
      /\ UNCHANGED <<crashes, req, requests>>
  BY DEF vars, jobVars
<1>2. ReqInv'
  BY <1>1 DEF FlowInv, ReqInv
<1>3. crashes' \in 0..settings.crashes
  BY <1>1 DEF FlowInv, BoundsInv
<1>4. touched \cap Renumbering = {} /\ req'.kind \notin Renumbering => req'.tree \in TreesOf(Own)
  BY <1>1 DEF FlowInv, KeptInv
<1>5. QED
  BY <1>1, <1>2, <1>3, <1>4, RequestGoesOn

LEMMA FlowInvariant == Spec => []FlowInv
<1>1. Init => FlowInv
  BY FlowInit1
<1>2. FlowInv /\ [Next]_vars => FlowInv'
  <2>1. SUFFICES ASSUME FlowInv, [Next]_vars PROVE FlowInv'
    OBVIOUS
  <2>2. CASE UNCHANGED vars
    BY <2>1, <2>2, FlowStutters
  <2>3. CASE JobNext /\ UNCHANGED <<req, touched, requests>>
    BY <2>1, <2>3, FlowJobStep
  <2>4. CASE Request
    BY <2>1, <2>4, RequestReads, RequestWrites DEF Request
  <2>5. CASE StartedElsewhere
    BY <2>1, <2>5, RequestWrites
  <2>6. QED
    BY <2>1, <2>2, <2>3, <2>4, <2>5 DEF Next
<1>3. QED
  BY <1>1, <1>2, PTL DEF Spec

\* The job and the requests keep to the types of their state: the node at work is one of the
\* tree in memory, and there is such a tree while the job runs, whatever the requests and the
\* job have made of the file in between (FlowManager and run_flow).
THEOREM FlowTyped == Spec => []TypeOK
<1>1. FlowInv => TypeOK
  <2>1. SUFFICES ASSUME FlowInv PROVE TypeOK
    OBVIOUS
  <2>2. /\ RunInv /\ flow \in Tree /\ file \in Tree /\ saving \in Tree /\ late \in Tree
        /\ tasks \in Seq(TaskRecords("any")) /\ Len(tasks) <= MaxTasks
    <3>1. FlowKnown("any") /\ TreesOf("any") = Tree
      BY <2>1 DEF FlowInv, TreesOf
    <3>2. QED
      BY <3>1 DEF FlowKnown
  <2>3. flow \in Trees /\ file \in Trees /\ saving \in Trees /\ late \in Trees
    BY <2>2 DEF Tree, Trees
  <2>4. tasks \in Seq([failed : BOOLEAN, tree : Trees])
    <3> DEFINE R == TaskRecords("any")
               S == [failed : BOOLEAN, tree : Trees]
    <3>1. R \subseteq S /\ tasks \in Seq(R)
      BY <2>2 DEF TaskRecords, TreesOf, Tree, Trees
    <3> HIDE DEF R, S
    <3>2. tasks \in Seq(S)
      BY <3>1
    <3>3. QED
      BY <3>2 DEF S
  <2>5. run.pc \notin {"none", "pending"} => run.cur \in DOMAIN flow
    BY <2>2, TreeParts DEF RunInv, Steps, RunRecords
  <2>6. FlowTypeOK
    <3>1. calls \in 0..settings.calls /\ crashes \in 0..settings.crashes
      BY <2>1 DEF FlowInv, BoundsInv
    <3>2. /\ settings \in Settings
          /\ run \in [pc : Where, cur : Nat, arg : Nat, step : 0..MaxSteps]
          /\ ended \in [how : Outcomes, tree : Trees]
          /\ run.pc \in {"none", "pending"} <=> flow = <<>>
      BY <2>2 DEF RunInv, RunRecords, EndRecords
    <3>3. QED
      BY <2>2, <2>3, <2>4, <2>5, <3>1, <3>2 DEF FlowTypeOK
  <2>7. ReqInv
    BY <2>1 DEF FlowInv
  <2>8. QED
    BY <2>6, <2>7 DEF TypeOK, ReqInv, ReqRecords, ReqPlaces
<1>2. QED
  BY <1>1, FlowInvariant, PTL

\* Where a run of the loop ends, the next one finds a node to work on: the last node is not
\* executed or can be expanded, unless a request has had the job run a node of its own choice
\* (AgenticLoop._run and its RuntimeError).
THEOREM RunFindsNode == Spec => []NodeToRun
<1>1. FlowInv => NodeToRun
  BY DEF FlowInv
<1>2. QED
  BY <1>1, FlowInvariant, PTL

\* A save and a load keep every node of the tree, the one in the file and the one the job has
\* in memory: no two share the id that is their key in the dictionary of
\* _reconstruct_from_list, while no request has numbered a node by the size of a tree in
\* which the clone, or the nodes of a reset, are counted otherwise.
THEOREM NodesReloaded == Spec => []ReloadKeepsNodes
<1>1. FlowInv => ReloadKeepsNodes
  <2>1. SUFFICES ASSUME FlowInv, touched \cap Renumbering = {}, NEW t \in {flow, file} \ {<<>>}
                 PROVE  Len(Load(t)) = Len(t)
    BY DEF ReloadKeepsNodes, Renumbering
  <2>2. t \in TreesOf(Own) /\ t # <<>> /\ Own \in Kinds /\ Own # "any"
    BY <2>1, OwnKnown DEF FlowInv, KeptInv, FlowKnown
  <2>3. QED
    BY <2>2, LoadedInKind
<1>2. QED
  BY <1>1, FlowInvariant, PTL

--------------------------------------------------------------------------------
(* The tree that a run leaves                                                  *)

\* The save tasks are a sequence, whatever trees they hold.
TasksListed == \E S : tasks \in Seq(S)

\* A run that has a tree in memory has not ended.
Running == run.pc \notin {"none", "pending"}

\* Where the tree of a run that failed is: with the last task that waits, or with the one
\* that writes, or in the file.
OnItsWay(t) ==
  IF tasks # <<>> THEN Last(tasks) = SavesFailed(t)
  ELSE IF saving # <<>> THEN saving = t ELSE file = t

\* Nothing is left to write where a finished flow is written.
NothingWaits == tasks = <<>> /\ saving = <<>>

\* A job's record has a place.
RunKnown == DOMAIN run = {"pc", "cur", "arg", "step"}

OutcomeInv ==
  /\ TasksListed /\ RunKnown
  /\ Running => ended.how \in {"new", "running"}
  /\ run.pc = "closing" => NothingWaits
  /\ ended.how = "finished" => NothingWaits /\ late = <<>> /\ file = ended.tree
  /\ ended.how \in {"failed", "again"} => late = <<>> /\ OnItsWay(ended.tree)

\* The last element of a sequence that grows, and of one that loses its first element.
LEMMA LastOfTail ==
  ASSUME NEW S, NEW s \in Seq(S), s # <<>>
  PROVE  /\ Tail(s) \in Seq(S) /\ Head(s) \in S
         /\ IF Tail(s) = <<>> THEN Last(s) = Head(s) ELSE Last(Tail(s)) = Last(s)
<1>1. /\ Len(s) \in Nat \ {0} /\ s = [k \in 1..Len(s) |-> s[k]]
      /\ Tail(s) \in Seq(S) /\ Len(Tail(s)) = Len(s) - 1
      /\ \A k \in 1..Len(s) - 1 : Tail(s)[k] = s[k + 1]
  BY HeadTailProperties
<1>2. Head(s) = s[1] /\ Head(s) \in S
  BY <1>1, HeadTailProperties
<1>3. CASE Tail(s) = <<>>
  <2>1. Len(s) = 1
    BY <1>1, <1>3
  <2>2. QED
    BY <1>1, <1>2, <1>3, <2>1 DEF Last
<1>4. CASE Tail(s) # <<>>
  <2>1. Len(Tail(s)) # 0
    BY <1>1, <1>4, EmptySeq
  <2>2. Last(Tail(s)) = Tail(s)[Len(s) - 1]
    BY <1>1 DEF Last
  <2>3. QED
    BY <1>1, <1>2, <1>4, <2>1, <2>2 DEF Last
<1>5. QED
  BY <1>3, <1>4

\* A run that goes on: what was said about the one before stays as it is, and no task is
\* lost while none may be left.
LEMMA RunGoesOn ==
  ASSUME OutcomeInv, Running, TasksListed', RunKnown', UNCHANGED <<file, saving, late>>,
         \/ UNCHANGED ended
         \/ ended'.how \in {"new", "running"}
         \/ ended'.how \in {"partial", "killed", "cut"} /\ ~Running',
         run'.pc # "closing" \/ UNCHANGED <<tasks, run>> \/ NothingWaits'
  PROVE  OutcomeInv'
  BY DEF OutcomeInv, Running, NothingWaits

\* A step of the agent or of the flow that leaves files and tasks alone.
LEMMA OnlyRunMoves ==
  ASSUME OutcomeInv, Running, RunKnown', run'.pc # "closing",
         UNCHANGED <<tasks, ended>>, UNCHANGED inJob
  PROVE  OutcomeInv'
<1>1. TasksListed' /\ UNCHANGED <<file, saving, late>>
  BY DEF OutcomeInv, TasksListed, inJob
<1>2. QED
  BY <1>1, RunGoesOn

\* A step that has a task made.
LEMMA EmitKeeps ==
  ASSUME OutcomeInv, Running, RunKnown', run'.pc # "closing", Emit,
         UNCHANGED ended, UNCHANGED inJob
  PROVE  OutcomeInv'
<1>1. TasksListed'
  <2>1. PICK S : tasks \in Seq(S)
    BY DEF OutcomeInv, TasksListed
  <2>2. tasks' \in Seq(S \cup {SavesRunning})
    BY <2>1, AppendProperties, SeqMonotonic DEF Emit
  <2>3. QED
    BY <2>2 DEF TasksListed
<1>2. UNCHANGED <<file, saving, late>>
  BY DEF inJob
<1>3. QED
  BY <1>1, <1>2, RunGoesOn

\* A run that fails: the last task that waits is then one that saves its tree.
LEMMA FailKeeps ==
  ASSUME OutcomeInv, NEW t, NEW how \in {"failed", "again"}, Fail(t, how)
  PROVE  OutcomeInv'
<1> DEFINE failed == [t EXCEPT ![Len(t)].error = TRUE]
           new    == [k \in 1 .. Len(tasks) + 1 |->
                       IF k <= Len(tasks) /\ tasks[k].failed THEN tasks[k]
                       ELSE SavesFailed(failed)]
<1>1. /\ tasks' = new /\ Ended(IF late = <<>> THEN how ELSE "cut", failed)
      /\ run' = NoRun /\ UNCHANGED <<file, saving, late>>
  BY DEF Fail
<1>2. PICK S : tasks \in Seq(S)
  BY DEF OutcomeInv, TasksListed
<1>3. PICK n \in Nat : n = Len(tasks)
  BY <1>2
<1> HIDE DEF failed
<1>4. /\ tasks' \in Seq({new[k] : k \in 1..n + 1}) /\ Len(tasks') = n + 1
      /\ tasks'[n + 1] = SavesFailed(failed)
  <2>1. new = [k \in 1..n + 1 |-> new[k]] /\ n + 1 \in Nat
    BY <1>3
  <2> DEFINE R == {new[k] : k \in 1..n + 1}
  <2>2. new \in [1..n + 1 -> R]
    BY <2>1
  <2>3. new[n + 1] = SavesFailed(failed)
    <3>1. n + 1 \in 1 .. Len(tasks) + 1 /\ ~(n + 1 <= Len(tasks))
      BY <1>3
    <3>2. QED
      BY <3>1
  <2> HIDE DEF new
  <2>4. \A k \in 1..n + 1 : new[k] \in R
    OBVIOUS
  <2> HIDE DEF R
  <2>5. new \in Seq(R) /\ Len(new) = n + 1
    BY <2>1, <2>4, SeqMade
  <2>6. QED
    BY <1>1, <2>3, <2>5 DEF R
<1>5. tasks' # <<>> /\ Last(tasks') = SavesFailed(failed) /\ TasksListed'
  BY <1>4 DEF Last, TasksListed
<1>6. /\ run'.pc = "none" /\ RunKnown'
  BY <1>1 DEF NoRun, RunKnown
<1>7. CASE late = <<>>
  <2>1. ended' = [how |-> how, tree |-> failed]
    BY <1>1, <1>7 DEF Ended
  <2>2. ended'.how = how /\ ended'.tree = failed /\ OnItsWay(ended.tree)'
    BY <2>1, <1>5 DEF OnItsWay
  <2>3. QED
    BY <1>1, <1>5, <1>6, <1>7, <2>2 DEF OutcomeInv, Running
<1>8. CASE late # <<>>
  <2>1. ended'.how = "cut"
    BY <1>1, <1>8 DEF Ended
  <2>2. QED
    BY <1>5, <1>6, <2>1 DEF OutcomeInv, Running
<1>9. QED
  BY <1>7, <1>8

\* What the agent does when it has returned or raised.
LEMMA AgentReturnsKeeps ==
  ASSUME OutcomeInv, Running, NEW t, AgentReturns(t)
  PROVE  OutcomeInv'
<1>1. PICK pc \in {"score", "return", "top"} : run' = [run EXCEPT !.step = 0, !.pc = pc]
  BY DEF AgentReturns, NextIteration
<1>2. RunKnown' /\ run'.pc # "closing"
  BY <1>1 DEF OutcomeInv, RunKnown
<1>3. QED
  BY <1>2, OnlyRunMoves DEF AgentReturns

LEMMA AgentRaisesKeeps ==
  ASSUME OutcomeInv, Running, NEW t, NEW rejected, AgentRaises(t, rejected)
  PROVE  OutcomeInv'
<1>1. CASE rejected /\ ~Search
  <2>1. PICK pc \in {"return", "top"} : run' = [run EXCEPT !.step = 0, !.pc = pc]
    BY <1>1 DEF AgentRaises, NextIteration
  <2>2. RunKnown' /\ run'.pc # "closing"
    BY <2>1 DEF OutcomeInv, RunKnown
  <2>3. QED
    BY <1>1, <2>2, OnlyRunMoves DEF AgentRaises
<1>2. CASE ~(rejected /\ ~Search)
  BY <1>2, FailKeeps DEF AgentRaises
<1>3. QED
  BY <1>1, <1>2

\* The steps of the agent: what it is asked for is answered, or not.
LEMMA AgentKeeps ==
  ASSUME OutcomeInv, Agent
  PROVE  OutcomeInv'
<1>1. Running
  BY DEF Agent, Running, Generated, Generating, GenerateRejected, GenerateRaised, Acted,
         ActRejected,
         ActRaised
<1>2. ASSUME NEW t, GoOn(t) PROVE OutcomeInv'
  <2>1. CASE \E u : AgentReturns(u)
    BY <1>1, <2>1, AgentReturnsKeeps
  <2>2. CASE /\ run' = [run EXCEPT !.pc = "act", !.step = 1]
             /\ UNCHANGED <<tasks, ended>> /\ UNCHANGED inJob
    <3>1. RunKnown' /\ run'.pc # "closing"
      BY <2>2 DEF OutcomeInv, RunKnown
    <3>2. QED
      BY <1>1, <2>2, <3>1, OnlyRunMoves
  <2>3. QED
    BY <1>2, <2>1, <2>2 DEF GoOn
<1>3. CASE Generated
  BY <1>2, <1>3 DEF Generated
<1>4. CASE GenerateRejected
  BY <1>2, <1>4 DEF GenerateRejected
<1>5. CASE GenerateRaised
  BY <1>1, <1>5, AgentRaisesKeeps DEF GenerateRaised
<1>6. CASE Acted
  <2>1. CASE \E t : AgentReturns(t)
    BY <1>1, <2>1, AgentReturnsKeeps
  <2>2. CASE /\ run' = [run EXCEPT !.step = @ + 1]
             /\ UNCHANGED <<tasks, ended>> /\ UNCHANGED inJob
    <3>1. RunKnown' /\ run'.pc # "closing"
      BY <1>6, <2>2 DEF OutcomeInv, RunKnown, Acted
    <3>2. QED
      BY <1>1, <2>2, <3>1, OnlyRunMoves
  <2>3. QED
    BY <1>6, <2>1, <2>2 DEF Acted
<1>7. CASE ActRejected
  BY <1>1, <1>7, AgentReturnsKeeps DEF ActRejected
<1>8. CASE ActRaised
  BY <1>1, <1>8, AgentRaisesKeeps DEF ActRaised
<1>9. QED
  BY <1>3, <1>4, <1>5, <1>6, <1>7, <1>8 DEF Agent

\* The steps of a loop and of a search. The node that is to be worked on may be any.
LEMMA RunAgentKnown ==
  ASSUME OutcomeInv, NEW t, NEW i, RunAgent(t, i)
  PROVE  RunKnown' /\ run'.pc # "closing"
<1>1. PICK pc \in {"generate", "act"}, step \in {0, 1} :
        run' = [run EXCEPT !.cur = i, !.step = step, !.pc = pc]
  BY DEF RunAgent
<1>2. QED
  BY <1>1 DEF OutcomeInv, RunKnown

LEMMA LoopKeeps ==
  ASSUME OutcomeInv, Loop
  PROVE  OutcomeInv'
<1>1. Running
  BY DEF Loop, LoopExpand, LoopRun, LoopStuck, GoesOn, Running
<1>2. CASE LoopExpand
  BY <1>1, <1>2, RunAgentKnown, EmitKeeps DEF LoopExpand
<1>3. CASE LoopRun
  BY <1>1, <1>3, RunAgentKnown, OnlyRunMoves DEF LoopRun
<1>4. CASE LoopStuck
  BY <1>4, FailKeeps DEF LoopStuck
<1>5. QED
  BY <1>2, <1>3, <1>4 DEF Loop

LEMMA SearchKeeps ==
  ASSUME OutcomeInv, SearchStep
  PROVE  OutcomeInv'
<1>1. Running
  BY DEF SearchStep, SearchRun, SearchExpand, SearchStuck, Scored, ScoreRaised, Backpropagate,
         GoesOn, Running
<1>2. CASE SearchRun
  BY <1>1, <1>2, RunAgentKnown, OnlyRunMoves DEF SearchRun
<1>3. CASE SearchExpand
  <2>1. \E t, i : RunAgent(t, i)
    BY <1>3 DEF SearchExpand
  <2>2. QED
    BY <1>1, <1>3, <2>1, RunAgentKnown, EmitKeeps DEF SearchExpand
<1>4. CASE SearchStuck
  <2>1. RunKnown' /\ run'.pc # "closing"
    BY <1>4 DEF SearchStuck, OutcomeInv, RunKnown
  <2>2. UNCHANGED ended /\ UNCHANGED inJob /\ (Emit \/ UNCHANGED tasks)
    BY <1>4 DEF SearchStuck
  <2>3. QED
    BY <1>1, <2>1, <2>2, EmitKeeps, OnlyRunMoves
<1>5. CASE Scored
  <2>1. PICK pc \in {"return", "top", "reward"} : run' = [run EXCEPT !.pc = pc]
    BY <1>5 DEF Scored, NextIteration
  <2>2. RunKnown' /\ run'.pc # "closing"
    BY <2>1 DEF OutcomeInv, RunKnown
  <2>3. QED
    BY <1>1, <1>5, <2>2, OnlyRunMoves DEF Scored
<1>6. CASE ScoreRaised
  BY <1>6, FailKeeps DEF ScoreRaised
<1>7. CASE Backpropagate
  <2>1. PICK pc \in {"return", "top"} : run' = [run EXCEPT !.pc = pc]
    BY <1>7 DEF Backpropagate, NextIteration
  <2>2. RunKnown' /\ run'.pc # "closing"
    BY <2>1 DEF OutcomeInv, RunKnown
  <2>3. QED
    BY <1>1, <1>7, <2>2, OnlyRunMoves DEF Backpropagate
<1>8. QED
  BY <1>2, <1>3, <1>4, <1>5, <1>6, <1>7 DEF SearchStep

\* The empty sequence of tasks.
LEMMA NoTasksListed == ASSUME tasks' = <<>> PROVE TasksListed'
<1>1. tasks' \in Seq({})
  BY EmptySeq
<1>2. QED
  BY <1>1 DEF TasksListed

\* The start of a run and its end.
LEMMA SetupKeeps ==
  ASSUME OutcomeInv, Setup
  PROVE  OutcomeInv'
<1>1. CASE \E t : Fail(t, "failed")
  BY <1>1, FailKeeps
<1>2. CASE /\ \E at : run' = [run EXCEPT !.pc = "top", !.cur = at]
           /\ Emit /\ Ended("running", <<>>)
  <2>1. RunKnown' /\ run'.pc = "top"
    BY <1>2 DEF OutcomeInv, RunKnown
  <2>2. ended'.how = "running"
    BY <1>2 DEF Ended
  <2>3. TasksListed'
    <3>1. PICK S : tasks \in Seq(S)
      BY DEF OutcomeInv, TasksListed
    <3>2. tasks' \in Seq(S \cup {SavesRunning})
      BY <1>2, <3>1, AppendProperties, SeqMonotonic DEF Emit
    <3>3. QED
      BY <3>2 DEF TasksListed
  <2>4. QED
    BY <2>1, <2>2, <2>3 DEF OutcomeInv, Running
<1>3. QED
  BY <1>1, <1>2 DEF Setup

LEMMA CompleteKeeps ==
  ASSUME OutcomeInv, Running, Complete
  PROVE  OutcomeInv'
<1>1. /\ NothingWaits' /\ TasksListed'
  BY NoTasksListed DEF Complete, CancelTasks, NothingWaits
<1>2. CASE Finished(flow)
  <2>1. /\ run' = [run EXCEPT !.pc = "closing", !.cur = 1] /\ UNCHANGED ended
    BY <1>2 DEF Complete
  <2>2. run'.pc = "closing" /\ RunKnown'
    BY <2>1 DEF OutcomeInv, RunKnown
  <2>3. QED
    BY <1>1, <2>1, <2>2 DEF OutcomeInv, Running
<1>3. CASE ~Finished(flow)
  <2>1. run' = NoRun /\ ended'.how = "partial"
    BY <1>3 DEF Complete, Ended
  <2>2. run'.pc = "none" /\ RunKnown'
    BY <2>1 DEF NoRun, RunKnown
  <2>3. QED
    BY <1>1, <2>1, <2>2 DEF OutcomeInv, Running
<1>4. QED
  BY <1>2, <1>3

\* What happens to the file and to the tasks.
LEMMA SaveBeginKeeps ==
  ASSUME OutcomeInv, SaveBegin
  PROVE  OutcomeInv'
<1>1. /\ tasks # <<>> /\ saving = <<>> /\ tasks' = Tail(tasks) /\ file' = <<>>
      /\ UNCHANGED <<run, late, ended>>
  BY DEF SaveBegin
<1>2. PICK S : tasks \in Seq(S)
  BY DEF OutcomeInv, TasksListed
<1>3. /\ TasksListed'
      /\ IF tasks' = <<>> THEN Last(tasks) = Head(tasks) ELSE Last(tasks') = Last(tasks)
  BY <1>1, <1>2, LastOfTail DEF TasksListed
<1>4. ended.how # "finished" /\ run.pc # "closing"
  BY <1>1 DEF OutcomeInv, NothingWaits
<1>5. ASSUME NEW t, OnItsWay(t)
      PROVE  OnItsWay(t)'
  <2>1. Last(tasks) = SavesFailed(t)
    BY <1>1, <1>5 DEF OnItsWay
  <2>2. CASE tasks' = <<>>
    <3>1. Head(tasks) = SavesFailed(t)
      BY <1>3, <2>1, <2>2
    <3>2. saving' = t
      BY <3>1 DEF SaveBegin, SavesFailed
    <3>3. QED
      BY <1>1, <2>2, <3>2 DEF OnItsWay
  <2>3. CASE tasks' # <<>>
    BY <1>3, <2>1, <2>3 DEF OnItsWay
  <2>4. QED
    BY <2>2, <2>3
<1>6. ended'.how \in {"failed", "again"} => late' = <<>> /\ OnItsWay(ended.tree)'
  <2> SUFFICES ASSUME ended.how \in {"failed", "again"}
               PROVE  late' = <<>> /\ OnItsWay(ended.tree)'
    BY <1>1
  <2>1. PICK t : t = ended.tree
    OBVIOUS
  <2>2. late' = <<>> /\ OnItsWay(t)
    BY <1>1, <2>1 DEF OutcomeInv
  <2>3. OnItsWay(t)' /\ t = ended'.tree
    BY <1>1, <1>5, <2>1, <2>2
  <2>4. QED
    BY <2>2, <2>3 DEF OnItsWay
<1>7. RunKnown' /\ (Running' <=> Running) /\ run'.pc # "closing"
  BY <1>1, <1>4 DEF OutcomeInv, RunKnown, Running
<1>8. QED
  BY <1>1, <1>3, <1>4, <1>6, <1>7 DEF OutcomeInv

LEMMA SaveEndKeeps ==
  ASSUME OutcomeInv, SaveEnd
  PROVE  OutcomeInv'
<1>1. /\ saving # <<>> /\ file' = saving /\ saving' = <<>>
      /\ UNCHANGED <<run, tasks, late, ended>>
  BY DEF SaveEnd
<1>2. ended.how # "finished" /\ run.pc # "closing"
  BY <1>1 DEF OutcomeInv, NothingWaits
<1>3. QED
  BY <1>1, <1>2 DEF OutcomeInv, TasksListed, RunKnown, Running, OnItsWay

LEMMA LateWriteKeeps ==
  ASSUME OutcomeInv, LateWrite
  PROVE  OutcomeInv'
  BY DEF LateWrite, OutcomeInv, TasksListed, RunKnown, Running, NothingWaits

LEMMA CloseKeeps ==
  ASSUME OutcomeInv, Close
  PROVE  OutcomeInv'
<1>1. /\ file' = flow /\ Ended(IF late = <<>> THEN "finished" ELSE "cut", flow)
      /\ run' = NoRun /\ UNCHANGED <<tasks, saving, late>>
  BY DEF Close
<1>2. run'.pc = "none" /\ RunKnown'
  BY <1>1 DEF NoRun, RunKnown
<1>3. NothingWaits /\ NothingWaits' /\ TasksListed'
  BY <1>1, NoTasksListed DEF Close, OutcomeInv, NothingWaits
<1>4. IF late = <<>> THEN ended' = [how |-> "finished", tree |-> flow] ELSE ended'.how = "cut"
  BY <1>1 DEF Ended
<1>5. QED
  BY <1>1, <1>2, <1>3, <1>4 DEF OutcomeInv, Running

LEMMA CrashKeeps ==
  ASSUME OutcomeInv, Crash
  PROVE  OutcomeInv'
<1>1. /\ run' = NoRun /\ tasks' = <<>> /\ Ended("killed", flow)
  BY DEF Crash
<1>2. run'.pc = "none" /\ RunKnown' /\ TasksListed' /\ ended'.how = "killed"
  BY <1>1, NoTasksListed DEF NoRun, RunKnown, Ended
<1>3. QED
  BY <1>2 DEF OutcomeInv, Running

LEMMA OtherFlowEndsKeeps ==
  ASSUME OutcomeInv, OtherFlowEnds
  PROVE  OutcomeInv'
<1>1. /\ NothingWaits' /\ TasksListed' /\ UNCHANGED run
  BY NoTasksListed DEF OtherFlowEnds, CancelTasks, NothingWaits
<1>2. ended.how # "finished"
  BY DEF OtherFlowEnds, OutcomeInv, NothingWaits
<1>3. IF ended.how \in {"failed", "again"} THEN ended'.how = "cut" ELSE UNCHANGED ended
  BY DEF OtherFlowEnds, Ended
<1>4. QED
  BY <1>1, <1>2, <1>3 DEF OutcomeInv, RunKnown, Running

LEMMA JobKeeps ==
  ASSUME OutcomeInv, JobNext
  PROVE  OutcomeInv'
<1>1. CASE NotRun
  <2>1. /\ run' = NoRun /\ UNCHANGED <<file, tasks, saving, late, ended>>
    BY <1>1 DEF NotRun
  <2>2. run'.pc = "none" /\ RunKnown'
    BY <2>1 DEF NoRun, RunKnown
  <2>3. QED
    BY <2>1, <2>2 DEF OutcomeInv, TasksListed, Running, NothingWaits, OnItsWay
<1>2. CASE Returns
  BY <1>2, CompleteKeeps DEF Returns, Running
<1>3. QED
  BY <1>1, <1>2, SetupKeeps, LoopKeeps, SearchKeeps, AgentKeeps, CloseKeeps, SaveBeginKeeps,
     SaveEndKeeps, LateWriteKeeps, CrashKeeps, OtherFlowEndsKeeps DEF JobNext

\* A request, or another program, has a job made where there is none.
LEMMA StartJobKeeps ==
  ASSUME OutcomeInv, NEW node, StartJob(node),
         UNCHANGED <<file, tasks, saving, late, ended>>
  PROVE  OutcomeInv'
<1>1. RunKnown' /\ (UNCHANGED run \/ run'.pc = "pending")
  BY DEF StartJob, NoRun, OutcomeInv, RunKnown
<1>2. QED
  BY <1>1 DEF OutcomeInv, TasksListed, Running, NothingWaits, OnItsWay

\* A request writes the file: what the last run left is no longer asked for.
LEMMA WriteKeeps ==
  ASSUME OutcomeInv, Ended("new", <<>>), UNCHANGED <<run, tasks, saving, late>>
  PROVE  OutcomeInv'
<1>1. ended'.how = "new"
  BY DEF Ended
<1>2. QED
  BY <1>1 DEF OutcomeInv, TasksListed, RunKnown, Running, NothingWaits

LEMMA OutcomeStays ==
  ASSUME OutcomeInv, UNCHANGED <<file, run, tasks, saving, late, ended>>
  PROVE  OutcomeInv'
  BY DEF OutcomeInv, TasksListed, RunKnown, Running, NothingWaits, OnItsWay

LEMMA RequestKeeps ==
  ASSUME OutcomeInv, Request
  PROVE  OutcomeInv'
<1>1. CASE Write
  BY <1>1, WriteKeeps DEF Write
<1>2. CASE Flush
  BY <1>2, WriteKeeps DEF Flush
<1>3. CASE Start
  BY <1>3, StartJobKeeps DEF Start
<1>4. ASSUME NEW kind, NEW node, Begin(kind, node)
      PROVE  OutcomeInv'
  BY <1>4, OutcomeStays DEF Begin, jobVars
<1>5. CASE Read \/ Status \/ Refused
  BY <1>5, OutcomeStays DEF Read, Status, Refused, jobVars
<1>6. CASE RequestLost
  BY <1>6, OutcomeStays DEF RequestLost
<1>7. QED
  BY <1>1, <1>2, <1>3, <1>4, <1>5, <1>6
     DEF Request, start_trajectory, retry_trajectory, resume_trajectory, execute_node, reset_node

LEMMA OutcomeStep == OutcomeInv /\ [Next]_vars => OutcomeInv'
<1> SUFFICES ASSUME OutcomeInv, [Next]_vars PROVE OutcomeInv'
  OBVIOUS
<1>1. CASE StartedElsewhere
  BY <1>1, StartJobKeeps DEF StartedElsewhere
<1>2. CASE UNCHANGED vars
  BY <1>2, OutcomeStays DEF vars, jobVars
<1>3. QED
  BY <1>1, <1>2, JobKeeps, RequestKeeps DEF Next

\* The tree that a run ended with is the one in the file: what was begun before the end does
\* not come after it (run_flow cancels or keeps the tasks of handle_flow_event).
THEOREM OutcomesAreSaved == Spec => []OutcomeSaved
<1>1. Init => OutcomeInv
  <2> SUFFICES ASSUME Init PROVE OutcomeInv
    OBVIOUS
  <2>1. tasks = <<>> /\ run = NoRun /\ ended.how = "new"
    BY DEF Init, FlowInit
  <2>2. TasksListed
    <3>1. tasks \in Seq({})
      BY <2>1, EmptySeq
    <3>2. QED
      BY <3>1 DEF TasksListed
  <2>3. QED
    BY <2>1, <2>2 DEF OutcomeInv, RunKnown, NoRun, Running
<1>2. OutcomeInv => OutcomeSaved
  BY DEF OutcomeInv, OutcomeSaved, OnItsWay
<1>3. QED
  BY <1>1, <1>2, OutcomeStep, PTL DEF Spec

--------------------------------------------------------------------------------
(* The visits of nodes                                                         *)

\* The node whose visit is due.
Due == IF run.pc = "reward" THEN {run.cur} ELSE {}

\* A request may start the job once, and so may another program after a job was killed.
Working == IF req.pc = "idle" THEN 0 ELSE 1

Restarting == IF run.pc = "pending" \/ ended.how = "killed" THEN 1 ELSE 0

\* The rewards that the visits in memory may lack, and those that the visits of a tree that is
\* stored may: one more, if it was taken while a visit was due.
Lost == crashes + requests - Working

LostStored == IF ended.how = "new" THEN 0 ELSE Lost - Restarting + 1

CountedWithin(t, d) == RewardsEarned(t) /\ VisitsWithin(t, {}, d)

\* The trees that a job may be set up with.
StoredTrees == {<<>>, file, saving, late} \cup {tasks[k].tree : k \in 1..Len(tasks)}

StoredCounted == \A t \in StoredTrees : CountedWithin(t, LostStored)

\* The job works on nodes that have no reward.
RunCounted ==
  run.pc \in Steps =>
    /\ ended.how = "running" /\ RewardsEarned(flow) /\ VisitsWithin(flow, Due, Lost)
    /\ run.pc \in {"generate", "act", "score"} => flow[run.cur].reward = "none"
    /\ run.pc = "score" => Observed(flow[run.cur])
    /\ run.pc = "reward" => flow[run.cur].reward # "none"
    /\ run.pc \in {"score", "reward"} => Search

VisitsInv ==
  /\ req.pc # "idle" => requests > 0
  /\ touched = {} => RunCounted /\ StoredCounted

\* What is known of the state by its types.
VisitsKnown ==
  /\ flow \in Tree /\ file \in Tree /\ saving \in Tree /\ late \in Tree
  /\ tasks \in Seq(TaskRecords("any"))
  /\ run \in RunRecords /\ ended \in EndRecords
  /\ crashes \in Nat /\ requests \in Nat
  /\ run.pc \in {"none", "pending"} <=> flow = <<>>
  /\ run.pc \in Steps => run.cur \in 1..Len(flow)

LEMMA VisitTypes ==
  ASSUME FlowInv
  PROVE  VisitsKnown
<1>1. FlowKnown("any") /\ BoundsInv /\ ReqInv
  BY DEF FlowInv
<1>2. /\ flow \in Tree /\ file \in Tree /\ saving \in Tree /\ late \in Tree
      /\ tasks \in Seq(TaskRecords("any")) /\ RunInv
  BY <1>1 DEF FlowKnown, TreesOf
<1>3. settings.crashes \in Nat /\ settings.requests \in Nat
  BY <1>2, SettingsKnown DEF RunInv
<1>4. crashes \in Nat /\ requests \in Nat
  BY <1>1, <1>3 DEF BoundsInv, ReqInv
<1>5. QED
  BY <1>2, <1>4 DEF RunInv, VisitsKnown

LEMMA LostKnown ==
  ASSUME VisitsKnown
  PROVE  Lost \in Int /\ LostStored \in Int /\ Working \in {0, 1} /\ Restarting \in {0, 1}
  BY DEF VisitsKnown, Lost, LostStored, Working, Restarting

\* While the job works, a stored tree may lack one more than the tree in memory; this stays so
\* when the job ends by itself.
LEMMA LostAtWork ==
  ASSUME VisitsKnown, run.pc \in Steps, ended.how = "running"
  PROVE  LostStored = Lost + 1
<1>1. Restarting = 0 /\ Lost \in Int
  BY LostKnown DEF Restarting, Steps
<1>2. QED
  BY <1>1 DEF LostStored

LEMMA LostAfterWork ==
  ASSUME VisitsKnown, run.pc \in Steps, ended.how = "running", UNCHANGED <<crashes, requests, req>>,
         run'.pc # "pending", ended'.how \notin {"new", "killed"}
  PROVE  Lost' = Lost /\ LostStored' = Lost + 1 /\ LostStored' = LostStored
<1>1. Lost' = Lost
  BY DEF Lost, Working
<1>2. LostStored' = Lost' + 1
  <2>1. Restarting' = 0
    BY DEF Restarting
  <2>2. LostStored' = Lost' - Restarting' + 1
    BY DEF LostStored
  <2>3. Lost' \in Int
    BY <1>1, LostKnown
  <2>4. QED
    BY <2>1, <2>2, <2>3
<1>3. QED
  BY <1>1, <1>2, LostAtWork

\* Stored trees are what they were, or lack as little.
LEMMA StoredStays ==
  ASSUME VisitsKnown, VisitsKnown', StoredCounted, LostStored <= LostStored', NEW u,
         CountedWithin(u, LostStored'), StoredTrees' \subseteq StoredTrees \cup {u}
  PROVE  StoredCounted'
<1> SUFFICES ASSUME NEW t \in StoredTrees'
             PROVE  CountedWithin(t, LostStored')
  BY DEF StoredCounted
<1>1. CASE t = u
  BY <1>1
<1>2. CASE t \in StoredTrees
  <2>1. t \in Seq(Node)
    <3>1. <<>> \in Seq(Node) /\ Tree \subseteq Seq(Node)
      BY DEF Tree
    <3>2. \A k \in 1..Len(tasks) : tasks[k].tree \in Tree
      <4>1. \A r \in TaskRecords("any") : r.tree \in Tree
        BY DEF TaskRecords, TreesOf
      <4>2. \A k \in 1..Len(tasks) : tasks[k] \in TaskRecords("any")
        BY DEF VisitsKnown
      <4>3. QED
        BY <4>1, <4>2
    <3>3. QED
      BY <1>2, <3>1, <3>2 DEF StoredTrees, VisitsKnown
  <2>2. CountedWithin(t, LostStored)
    BY <1>2 DEF StoredCounted
  <2>3. LostStored \in Int /\ LostStored' \in Int
    BY LostKnown DEF VisitsKnown, LostStored, Lost, Working, Restarting
  <2>4. VisitsWithin(t, {}, LostStored')
    BY <2>1, <2>2, <2>3, WithinMore DEF CountedWithin
  <2>5. QED
    BY <2>2, <2>4 DEF CountedWithin
<1>3. QED
  BY <1>1, <1>2

LEMMA EmptyCounted == \A d : CountedWithin(<<>>, d)
  BY DEF CountedWithin, RewardsEarned, VisitsWithin

\* A task that is made, and tasks that are canceled.
LEMMA EmittedTrees ==
  ASSUME VisitsKnown, UNCHANGED tasks \/ Emit, UNCHANGED <<file, saving, late>>
  PROVE  StoredTrees' \subseteq StoredTrees
<1>1. CASE UNCHANGED tasks
  BY <1>1 DEF StoredTrees
<1>2. CASE Emit
  <2>1. tasks' = Append(tasks, SavesRunning) /\ tasks \in Seq(TaskRecords("any"))
    BY <1>2 DEF Emit, VisitsKnown
  <2>2. PICK n \in Nat : n = Len(tasks)
    BY <2>1
  <2>3. /\ Len(tasks') = n + 1 /\ tasks'[n + 1].tree = <<>>
        /\ \A k \in 1..n : tasks'[k] = tasks[k]
    BY <2>1, <2>2 DEF SavesRunning
  <2>4. \A k \in 1..Len(tasks') :
          tasks'[k].tree \in {<<>>} \cup {tasks[l].tree : l \in 1..Len(tasks)}
    BY <2>2, <2>3
  <2>5. QED
    BY <2>4 DEF StoredTrees
<1>3. QED
  BY <1>1, <1>2

LEMMA CanceledTrees ==
  ASSUME VisitsKnown, CancelTasks, file' \in {<<>>, file}
  PROVE  StoredTrees' \subseteq StoredTrees
<1>1. tasks' = <<>> /\ saving' = <<>> /\ late' \in {saving, late}
  BY DEF CancelTasks
<1>2. {tasks'[k].tree : k \in 1..Len(tasks')} = {}
  BY <1>1
<1>3. QED
  BY <1>1, <1>2 DEF StoredTrees

LEMMA FailedTrees ==
  ASSUME VisitsKnown, NEW t, NEW how, Fail(t, how)
  PROVE  StoredTrees' \subseteq StoredTrees \cup {[t EXCEPT ![Len(t)].error = TRUE]}
<1> DEFINE failed == [t EXCEPT ![Len(t)].error = TRUE]
           new    == [k \in 1 .. Len(tasks) + 1 |->
                       IF k <= Len(tasks) /\ tasks[k].failed THEN tasks[k]
                       ELSE SavesFailed(failed)]
<1>1. tasks' = new /\ UNCHANGED <<file, saving, late>>
  BY DEF Fail
<1>2. PICK n \in Nat : n = Len(tasks)
  BY DEF VisitsKnown
<1> HIDE DEF failed
<1>3. DOMAIN tasks' = 1..n + 1
  BY <1>1, <1>2
<1>4. \A k \in 1..n + 1 : tasks'[k].tree \in {failed} \cup {tasks[l].tree : l \in 1..Len(tasks)}
  <2> SUFFICES ASSUME NEW k \in 1..n + 1
               PROVE  tasks'[k].tree \in {failed} \cup {tasks[l].tree : l \in 1..Len(tasks)}
    OBVIOUS
  <2>1. tasks'[k] = IF k <= n /\ tasks[k].failed THEN tasks[k] ELSE SavesFailed(failed)
    BY <1>1, <1>2
  <2>2. SavesFailed(failed).tree = failed
    BY DEF SavesFailed
  <2>3. CASE k <= n /\ tasks[k].failed
    BY <1>2, <2>1, <2>3
  <2>4. CASE ~(k <= n /\ tasks[k].failed)
    BY <2>1, <2>2, <2>4
  <2>5. QED
    BY <2>3, <2>4
<1>5. Len(tasks') = n + 1
  BY <1>3, <1>2
<1>6. {tasks'[k].tree : k \in 1..Len(tasks')}
        \subseteq {failed} \cup {tasks[l].tree : l \in 1..Len(tasks)}
  BY <1>4, <1>5
<1>7. QED
  BY <1>1, <1>6 DEF StoredTrees, failed

\* A node that keeps its reward and its visits, and has no reward it did not earn.
LEMMA NodeWorked ==
  ASSUME NEW t \in Tree, NEW i \in 1..Len(t), NEW n \in Node, n.depth = t[i].depth,
         n.reward = t[i].reward, n.visits = t[i].visits, n.reward # "none" => Observed(n),
         NEW d, CountedWithin(t, d)
  PROVE  LET u == Updated(t, i, n)
         IN u \in Tree /\ Len(u) = Len(t) /\ u[i] = n /\ CountedWithin(u, d)
<1> DEFINE u == Updated(t, i, n)
<1>1. /\ u \in Tree /\ Len(u) = Len(t) /\ u[i] = n
      /\ \A j \in 1..Len(t) : j # i => u[j] = t[j]
  BY NodeChanged
<1> HIDE DEF u
<1>2. \A j \in 1..Len(t) : /\ u[j].depth = t[j].depth /\ u[j].reward = t[j].reward
                           /\ u[j].visits = t[j].visits
  BY <1>1
<1>3. VisitsWithin(u, {}, d)
  BY <1>1, <1>2, WithinSame DEF CountedWithin
<1>4. RewardsEarned(u)
  BY <1>1 DEF CountedWithin, RewardsEarned
<1>5. QED
  BY <1>1, <1>3, <1>4 DEF CountedWithin, u

\* The job at work, with a tree that counts as the one in memory does, goes on.
LEMMA ReturnCounted ==
  ASSUME VisitsKnown, VisitsKnown', StoredCounted, run.pc \in Steps, ended.how = "running",
         UNCHANGED <<req, requests>>, NEW t, Len(t) = Len(flow), CountedWithin(t, Lost),
         t[run.cur].reward = "none", AgentReturns(t)
  PROVE  RunCounted' /\ StoredCounted'
<1>1. flow' = t /\ UNCHANGED <<tasks, ended, file, saving, late, crashes>>
  BY DEF AgentReturns, Backpropagated, inJob
<1>2. /\ run'.cur = run.cur /\ run'.pc \in {"score", "top", "return"}
      /\ run'.pc = "score" => Search /\ Observed(t[run.cur])
  BY DEF AgentReturns, NextIteration, VisitsKnown, RunRecords
<1>3. UNCHANGED settings
  BY DEF AgentReturns, inJob
<1>4. Lost' = Lost /\ LostStored' = LostStored
  BY <1>1, <1>2, LostAfterWork
<1>5. RunCounted'
  BY <1>1, <1>2, <1>3, <1>4 DEF RunCounted, CountedWithin, Due, Search
<1>6. StoredTrees' \subseteq StoredTrees
  BY <1>1 DEF StoredTrees
<1>7. LostStored \in Int
  BY LostKnown
<1>8. StoredCounted'
  BY <1>4, <1>6 DEF StoredCounted
<1>9. QED
  BY <1>5, <1>8

\* A run that fails leaves its tree to the tasks.
LEMMA FailCounted ==
  ASSUME VisitsKnown, VisitsKnown', StoredCounted, run.pc \in Steps, ended.how = "running",
         UNCHANGED <<req, requests>>, NEW t \in Tree, t # <<>>, CountedWithin(t, Lost),
         NEW how \in {"failed", "again"}, Fail(t, how)
  PROVE  RunCounted' /\ StoredCounted'
<1> DEFINE u == [t EXCEPT ![Len(t)].error = TRUE]
           n == [t[Len(t)] EXCEPT !.error = TRUE]
<1>1. run'.pc = "none" /\ ended'.how \in {"failed", "again", "cut"} /\ UNCHANGED crashes
  BY DEF Fail, NoRun, Ended
<1>2. Lost' = Lost /\ LostStored' = Lost + 1 /\ LostStored' = LostStored
  BY <1>1, LostAfterWork
<1>3. Len(t) \in 1..Len(t) /\ t \in Seq(Node) /\ t[Len(t)] \in Node
  BY TreeParts
<1>4. u = Updated(t, Len(t), n) /\ n \in Node /\ n.depth = t[Len(t)].depth
  BY <1>3, MarkedChange
<1>5. /\ n.reward = t[Len(t)].reward /\ n.visits = t[Len(t)].visits
      /\ Observed(n) <=> Observed(t[Len(t)])
  BY <1>3 DEF Node, Observed
<1>6. n.reward # "none" => Observed(n)
  BY <1>3, <1>5 DEF CountedWithin, RewardsEarned
<1>7. StoredTrees' \subseteq StoredTrees \cup {u}
  BY FailedTrees
<1> HIDE DEF u, n
<1>8. u \in Tree /\ CountedWithin(u, Lost)
  BY <1>3, <1>4, <1>5, <1>6, NodeWorked
<1>9. CountedWithin(u, LostStored')
  <2>1. u \in Seq(Node) /\ Lost \in Int /\ Lost + 1 \in Int /\ Lost <= Lost + 1
    BY <1>8, LostKnown DEF Tree
  <2>2. VisitsWithin(u, {}, Lost + 1)
    BY <1>8, <2>1, WithinMore DEF CountedWithin
  <2>3. QED
    BY <1>2, <1>8, <2>2 DEF CountedWithin
<1>10. LostStored <= LostStored'
  BY <1>2, LostKnown
<1>11. StoredCounted'
  BY <1>7, <1>9, <1>10, StoredStays
<1>12. QED
  BY <1>1, <1>11 DEF RunCounted, Steps

LEMMA RaiseCounted ==
  ASSUME VisitsKnown, VisitsKnown', StoredCounted, run.pc \in Steps, ended.how = "running",
         UNCHANGED <<req, requests>>, NEW t \in Tree, t # <<>>, Len(t) = Len(flow),
         CountedWithin(t, Lost), NEW rejected, AgentRaises(t, rejected)
  PROVE  RunCounted' /\ StoredCounted'
<1>1. CASE rejected /\ ~Search
  <2>1. flow' = t /\ UNCHANGED <<tasks, ended, file, saving, late, crashes>>
    BY <1>1 DEF AgentRaises, inJob
  <2>2. run'.pc \in {"top", "return"}
    BY <1>1 DEF AgentRaises, NextIteration, VisitsKnown, RunRecords
  <2>3. Lost' = Lost /\ LostStored' = LostStored
    BY <2>1, <2>2, LostAfterWork
  <2>4. RunCounted'
    BY <2>1, <2>2, <2>3 DEF RunCounted, CountedWithin, Due
  <2>5. StoredTrees' = StoredTrees
    BY <2>1 DEF StoredTrees
  <2>6. QED
    BY <2>3, <2>4, <2>5 DEF StoredCounted
<1>2. CASE ~(rejected /\ ~Search)
  <2>1. Fail(t, "failed")
    BY <1>2 DEF AgentRaises
  <2>2. QED
    BY <2>1, FailCounted
<1>3. QED
  BY <1>1, <1>2

\* What the agent does to a node leaves its reward and its visits.
LEMMA WorkKeepsCounts ==
  ASSUME NEW o \in Node, NEW n \in 0..MaxSteps, NEW b \in BOOLEAN, NEW c \in BOOLEAN,
         NEW e \in BOOLEAN
  PROVE  \A m \in {NodeGenerated(o, n, b), NodeRejected(o, b), NodeRaised(o, b, c),
                   NodeActed(o, n, b, c, e), [o EXCEPT !.error = TRUE, !.terminal = TRUE],
                   [o EXCEPT !.duplicate = TRUE]} :
           m.reward = o.reward /\ m.visits = o.visits /\ m.depth = o.depth
  BY DEF Node, NodeGenerated, NodeRejected, NodeRaised, NodeActed

\* A tree in which the agent has changed the node it works on.
Worked(t) ==
  /\ t \in Tree /\ t # <<>> /\ Len(t) = Len(flow) /\ CountedWithin(t, Lost)
  /\ t[run.cur].reward = "none"

LEMMA WorkedNode ==
  ASSUME VisitsKnown, NEW t, Worked(t), run.pc \in Steps, NEW m \in Node,
         m.depth = t[run.cur].depth, m.reward = t[run.cur].reward,
         m.visits = t[run.cur].visits
  PROVE  Worked(Updated(t, run.cur, m))
<1> DEFINE u == Updated(t, run.cur, m)
<1>1. run.cur \in 1..Len(t) /\ t \in Tree
  BY DEF VisitsKnown, Worked
<1>2. u \in Tree /\ Len(u) = Len(t) /\ u[run.cur] = m /\ CountedWithin(u, Lost)
  BY <1>1, NodeWorked DEF Worked
<1> HIDE DEF u
<1>3. u # <<>>
  BY <1>1, <1>2, SeqParts DEF Tree
<1>4. QED
  BY <1>2, <1>3 DEF Worked, u

\* What the agent does with the tree it has worked on.
AgentGoes(t) ==
  \/ GoOn(t) \/ AgentReturns(t) \/ \E rejected \in BOOLEAN : AgentRaises(t, rejected)
  \/ /\ flow' = t /\ run' = [run EXCEPT !.step = @ + 1]
     /\ UNCHANGED <<tasks, ended>> /\ UNCHANGED inJob

LEMMA AgentWorks ==
  ASSUME FlowInv, RunCounted, Agent
  PROVE  \E t : Worked(t) /\ AgentGoes(t)
<1> DEFINE i == run.cur
           o == flow[i]
<1>1. /\ run.pc \in {"generate", "act"} /\ run.pc \in Steps /\ VisitsKnown
      /\ run \in RunRecords /\ settings \in Settings
  BY VisitTypes
     DEF Agent, Generated, Generating, GenerateRejected, GenerateRaised, Acted, ActRejected,
         ActRaised, Steps, Where, FlowInv, FlowKnown, RunInv
<1>2. Due = {}
  BY <1>1 DEF Due
<1>3. /\ flow \in Tree /\ flow \in Seq(Node) /\ i \in 1..Len(flow) /\ o \in Node
      /\ flow # <<>>
  BY <1>1, TreeParts, SeqParts DEF VisitsKnown, Steps
<1>4. Worked(flow)
  BY <1>1, <1>2, <1>3 DEF RunCounted, Worked, CountedWithin
<1>5. ASSUME NEW m \in Node, m.depth = o.depth, m.reward = o.reward, m.visits = o.visits
      PROVE  Worked(Updated(flow, i, m))
  BY <1>1, <1>4, <1>5, WorkedNode
<1>6. settings.steps \in 0..MaxSteps /\ settings.cost \in Nat /\ MaxSteps \in Nat
  BY <1>1, SettingsKnown, FlowAssumption
<1>7. (settings.cost > 0) \in BOOLEAN /\ Recorded \subseteq BOOLEAN
  BY <1>6 DEF Recorded
<1>8. CASE Generated
  <2>1. PICK n \in 0..settings.steps :
          GoOn([flow EXCEPT ![run.cur].steps = n, ![run.cur].paid = settings.cost > 0])
    BY <1>8 DEF Generated
  <2>2. n \in 0..MaxSteps
    BY <1>6
  <2>3. PICK charged \in BOOLEAN : charged = (settings.cost > 0)
    BY <1>7
  <2> DEFINE u == GeneratedIn(flow, i, n, charged)
             m == NodeGenerated(flow[i], n, charged)
  <2>4. u = Updated(flow, i, m) /\ m \in Node
    BY <1>3, <2>2, GeneratedChange
  <2>5. m.depth = o.depth /\ m.reward = o.reward /\ m.visits = o.visits
    BY <1>3, <2>2, WorkKeepsCounts
  <2>6. GoOn(u)
    BY <2>1, <2>3 DEF GeneratedIn
  <2> HIDE DEF u, m
  <2>7. QED
    BY <1>5, <2>4, <2>5, <2>6 DEF AgentGoes
<1>9. CASE GenerateRejected
  <2>1. PICK charged \in Recorded :
          GoOn([flow EXCEPT ![run.cur].error = TRUE, ![run.cur].paid = @ \/ charged])
    BY <1>9 DEF GenerateRejected
  <2>2. charged \in BOOLEAN /\ 0 \in 0..MaxSteps
    BY <1>6, <1>7
  <2> DEFINE u == RejectedIn(flow, i, charged)
             m == NodeRejected(flow[i], charged)
  <2>4. u = Updated(flow, i, m) /\ m \in Node
    BY <1>3, <2>2, RejectedChange
  <2>5. m.depth = o.depth /\ m.reward = o.reward /\ m.visits = o.visits
    BY <1>3, <2>2, WorkKeepsCounts
  <2>6. GoOn(u)
    BY <2>1 DEF RejectedIn
  <2> HIDE DEF u, m
  <2>7. QED
    BY <1>5, <2>4, <2>5, <2>6 DEF AgentGoes
<1>10. CASE GenerateRaised
  <2>1. PICK what \in {"completion", "none", "other"}, charged \in Recorded :
          AgentRaises([flow EXCEPT ![run.cur].error = TRUE,
                                   ![run.cur].terminal = @ \/ what # "completion",
                                   ![run.cur].paid = @ \/ charged], what = "none")
    BY <1>10 DEF GenerateRaised
  <2>2. PICK terminal \in BOOLEAN : terminal = (what # "completion")
    OBVIOUS
  <2>2a. PICK rejected \in BOOLEAN : rejected = (what = "none")
    OBVIOUS
  <2>3. charged \in BOOLEAN /\ terminal \in BOOLEAN /\ 0 \in 0..MaxSteps
    BY <1>6, <1>7, <2>2
  <2> DEFINE u == RaisedIn(flow, i, terminal, charged)
             m == NodeRaised(flow[i], terminal, charged)
  <2>4. u = Updated(flow, i, m) /\ m \in Node
    BY <1>3, <2>3, RaisedChange
  <2>5. m.depth = o.depth /\ m.reward = o.reward /\ m.visits = o.visits
    BY <1>3, <2>3, WorkKeepsCounts
  <2>6. AgentRaises(u, rejected)
    <3>1. u = [flow EXCEPT ![run.cur].error = TRUE,
                           ![run.cur].terminal = @ \/ what # "completion",
                           ![run.cur].paid = @ \/ charged]
      BY <2>2 DEF RaisedIn
    <3>2. QED
      BY <2>1, <2>2a, <3>1
  <2> HIDE DEF u, m
  <2>7. QED
    BY <1>5, <2>4, <2>5, <2>6 DEF AgentGoes
<1>11. CASE Acted
  <2> DEFINE done == IF flow[i].done > run.step THEN flow[i].done ELSE run.step
  <2>1. PICK fin \in BOOLEAN, terminal \in BOOLEAN :
          LET t == [flow EXCEPT ![i].done = done,
                                ![i].fin  = IF run.step = done THEN fin ELSE @,
                                ![i].terminal = @ \/ fin \/ terminal]
          IN IF t[i].terminal \/ run.step = t[i].steps THEN AgentReturns(t)
             ELSE /\ flow' = t
                  /\ run' = [run EXCEPT !.step = @ + 1]
                  /\ UNCHANGED <<tasks, ended>> /\ UNCHANGED inJob
    BY <1>11 DEF Acted
  <2>2. PICK here \in BOOLEAN : here = (run.step = done)
    OBVIOUS
  <2>3. done \in 0..MaxSteps
    BY <1>1, <1>3, NodeFields DEF RunRecords
  <2> HIDE DEF done
  <2> DEFINE u == ActedIn(flow, i, done, here, fin, terminal)
             m == NodeActed(flow[i], done, here, fin, terminal)
  <2>4. u = Updated(flow, i, m) /\ m \in Node
    BY <1>3, <2>3, ActedChange
  <2>5. m.depth = o.depth /\ m.reward = o.reward /\ m.visits = o.visits
    BY <1>3, <2>3, WorkKeepsCounts
  <2>6. AgentGoes(u)
    BY <2>1, <2>2 DEF ActedIn, AgentGoes
  <2> HIDE DEF u, m
  <2>7. QED
    BY <1>5, <2>4, <2>5, <2>6
<1>12. CASE ActRejected \/ ActRaised
  <2> DEFINE u == [flow EXCEPT ![i].error = TRUE, ![i].terminal = TRUE]
             m == [flow[i] EXCEPT !.error = TRUE, !.terminal = TRUE]
  <2>1. u = Updated(flow, i, m) /\ m \in Node
    BY <1>3, MarkedChange
  <2>2. AgentReturns(u) \/ \E rejected \in BOOLEAN : AgentRaises(u, rejected)
    BY <1>12 DEF ActRejected, ActRaised
  <2>3. 0 \in 0..MaxSteps /\ TRUE \in BOOLEAN
    BY <1>6
  <2>5. m.depth = o.depth /\ m.reward = o.reward /\ m.visits = o.visits
    BY <1>3, <2>3, WorkKeepsCounts
  <2> HIDE DEF u, m
  <2>7. QED
    BY <1>5, <2>1, <2>2, <2>5 DEF AgentGoes
<1>13. QED
  BY <1>8, <1>9, <1>10, <1>11, <1>12 DEF Agent

LEMMA AgentCounted ==
  ASSUME FlowInv, FlowInv', RunCounted, StoredCounted, Agent, UNCHANGED <<req, requests>>
  PROVE  RunCounted' /\ StoredCounted'
<1>1. VisitsKnown /\ run.pc \in Steps \ {"reward"} /\ ended.how = "running"
  BY VisitTypes
     DEF Agent, Generated, Generating, GenerateRejected, GenerateRaised, Acted, ActRejected,
         ActRaised, Steps, Where, RunCounted
<1>2. VisitsKnown'
  BY VisitTypes, PTL
<1>3. PICK t : Worked(t) /\ AgentGoes(t)
  BY AgentWorks
<1>4. run.cur \in 1..Len(t) /\ t \in Seq(Node) /\ t[run.cur] \in Node
  BY <1>1, <1>3, TreeParts DEF VisitsKnown, Worked
<1>5. CASE AgentReturns(t)
  BY <1>1, <1>2, <1>3, <1>5, ReturnCounted DEF Worked
<1>6. CASE \E rejected \in BOOLEAN : AgentRaises(t, rejected)
  BY <1>1, <1>2, <1>3, <1>6, RaiseCounted DEF Worked
<1>7. CASE /\ flow' = t /\ UNCHANGED <<tasks, ended>> /\ UNCHANGED inJob
           /\ run'.cur = run.cur /\ run'.pc \in {"generate", "act"}
  <2>1. UNCHANGED <<file, saving, late, crashes>>
    BY <1>7 DEF inJob
  <2>2. Lost' = Lost /\ LostStored' = LostStored
    BY <1>1, <1>7, <2>1, LostAfterWork
  <2>3. RunCounted'
    BY <1>1, <1>3, <1>7, <2>2 DEF RunCounted, Worked, CountedWithin, Due
  <2>4. StoredTrees' = StoredTrees
    BY <1>7, <2>1 DEF StoredTrees
  <2>5. QED
    BY <2>2, <2>3, <2>4 DEF StoredCounted
<1>8. CASE GoOn(t)
  <2> DEFINE d == [t[run.cur] EXCEPT !.duplicate = TRUE]
             u == [t EXCEPT ![run.cur].duplicate = TRUE]
  <2>1. u = Updated(t, run.cur, d) /\ d \in Node
    BY <1>4, DuplicateChange
  <2>2. /\ d.depth = t[run.cur].depth /\ d.reward = t[run.cur].reward
        /\ d.visits = t[run.cur].visits
    BY <1>4 DEF Node
  <2>3. \/ AgentReturns(u) \/ AgentReturns(t)
        \/ /\ flow' = t /\ run' = [run EXCEPT !.pc = "act", !.step = 1]
           /\ UNCHANGED <<tasks, ended>> /\ UNCHANGED inJob
    BY <1>8 DEF GoOn
  <2> HIDE DEF u, d
  <2>4. Worked(u)
    BY <1>1, <1>3, <2>1, <2>2, WorkedNode
  <2>5. CASE AgentReturns(u)
    BY <1>1, <1>2, <2>4, <2>5, ReturnCounted DEF Worked
  <2>6. CASE /\ flow' = t /\ run' = [run EXCEPT !.pc = "act", !.step = 1]
             /\ UNCHANGED <<tasks, ended>> /\ UNCHANGED inJob
    <3>1. run'.cur = run.cur /\ run'.pc = "act"
      BY <1>1, <2>6 DEF VisitsKnown, RunRecords
    <3>2. QED
      BY <1>7, <2>6, <3>1
  <2>7. QED
    BY <1>5, <2>3, <2>5, <2>6
<1>9. CASE /\ flow' = t /\ run' = [run EXCEPT !.step = @ + 1]
           /\ UNCHANGED <<tasks, ended>> /\ UNCHANGED inJob
  <2>1. run'.cur = run.cur /\ run'.pc = run.pc
    BY <1>1, <1>9 DEF VisitsKnown, RunRecords
  <2>2. run.pc \in {"generate", "act"}
    BY DEF Agent, Generated, Generating, GenerateRejected, GenerateRaised, Acted, ActRejected,
           ActRaised
  <2>3. QED
    BY <1>7, <1>9, <2>1, <2>2
<1>10. QED
  BY <1>3, <1>5, <1>6, <1>8, <1>9 DEF AgentGoes

\* The job is at another step, or its tree another one; what is stored stays.
LEMMA StaysAtWork ==
  ASSUME VisitsKnown, StoredCounted, run.pc \in Steps, ended.how = "running",
         UNCHANGED <<req, requests, ended>>, UNCHANGED inJob, UNCHANGED tasks \/ Emit,
         run'.pc # "pending"
  PROVE  StoredCounted' /\ Lost' = Lost
<1>1. UNCHANGED <<file, saving, late, crashes>>
  BY DEF inJob
<1>2. Lost' = Lost /\ LostStored' = LostStored
  BY <1>1, LostAfterWork
<1>3. StoredTrees' \subseteq StoredTrees
  BY <1>1, EmittedTrees
<1>4. QED
  BY <1>2, <1>3 DEF StoredCounted

LEMMA RunAgentCounted ==
  ASSUME VisitsKnown, StoredCounted, run.pc \in Steps, ended.how = "running",
         UNCHANGED <<req, requests, ended>>, UNCHANGED inJob, UNCHANGED tasks \/ Emit,
         NEW t, NEW i, CountedWithin(t, Lost), t[i].reward = "none", RunAgent(t, i)
  PROVE  RunCounted' /\ StoredCounted'
<1>1. flow' = t /\ run'.cur = i /\ run'.pc \in {"generate", "act"}
  BY DEF RunAgent, VisitsKnown, RunRecords
<1>2. StoredCounted' /\ Lost' = Lost
  BY <1>1, StaysAtWork
<1>3. QED
  BY <1>1, <1>2 DEF RunCounted, CountedWithin, Due

LEMMA GrownCounted ==
  ASSUME NEW t \in Tree, NEW p \in 1..Len(t), NEW n \in Node, n.id = Len(t),
         n.reward = "none", n.visits = 0, NEW d \in Nat, CountedWithin(t, d)
  PROVE  LET u == AddChild(t, p, n)
         IN /\ u \in Tree /\ Len(u) = Len(t) + 1 /\ CountedWithin(u, d)
            /\ u[ChildPosition(t, p)].reward = "none"
<1>1. AddChild(t, p, n) \in Tree
  BY AddedChildInTree
<1>2. VisitsWithin(AddChild(t, p, n), {}, d)
  BY WithinGrown DEF CountedWithin
<1>3. RewardsEarned(AddChild(t, p, n))
  BY EarnedGrown DEF CountedWithin
<1>4. t \in TreesOf("any") /\ "any" \in Kinds /\ "any" # "loop"
  BY DEF TreesOf, Kinds
<1>5. /\ AddChild(t, p, n)[ChildPosition(t, p)] = Child(n, t[p].depth)
      /\ Len(AddChild(t, p, n)) = Len(t) + 1
  BY <1>4, GrownInKind
<1>6. Child(n, t[p].depth).reward = "none"
  BY DEF Child, Node
<1>7. QED
  BY <1>1, <1>2, <1>3, <1>5, <1>6 DEF CountedWithin

LEMMA LostNat ==
  ASSUME VisitsKnown, req.pc # "idle" => requests > 0
  PROVE  Lost \in Nat
  BY DEF VisitsKnown, Lost, Working

LEMMA LostGrows ==
  ASSUME NEW a \in Int, NEW b \in Int, NEW r \in {0, 1}, NEW s \in {0, 1}, a <= b,
         r = 1 \/ s = r \/ b = a + 1
  PROVE  a - r + 1 <= b - s + 1
  OBVIOUS

LEMMA WorkEnds ==
  ASSUME NEW a \in Nat, NEW b \in Nat, NEW r \in Nat, NEW w \in {0, 1}, a <= b
  PROVE  a + r - 1 <= b + r - w /\ b + r - w \in Int
  OBVIOUS

LEMMA NewNodeCounts ==
  ASSUME NEW id \in Nat, NEW max \in Nat
  PROVE  LET n == NewNode(id, 0, max)
         IN n \in Node /\ n.id = id /\ n.reward = "none" /\ n.visits = 0
<1>1. NewNode(id, 0, max) \in Node
  BY NewNodeKnown
<1>2. QED
  BY <1>1 DEF NewNode

LEMMA LoopCounted ==
  ASSUME FlowInv, FlowInv', VisitsInv, RunCounted, StoredCounted, Loop, UNCHANGED <<req, requests>>
  PROVE  RunCounted' /\ StoredCounted'
<1> DEFINE i == run.cur
<1>1. VisitsKnown /\ run.pc = "top" /\ run.pc \in Steps /\ ended.how = "running"
  BY VisitTypes DEF Loop, LoopExpand, LoopRun, LoopStuck, GoesOn, Steps, Where, RunCounted
<1>2. VisitsKnown'
  BY VisitTypes, PTL
<1>3. flow \in Tree /\ i \in 1..Len(flow) /\ flow # <<>> /\ Len(flow) \in Nat
  BY <1>1, TreeParts DEF VisitsKnown, Steps
<1>4. CountedWithin(flow, Lost) /\ Lost \in Nat
  BY <1>1, LostNat DEF RunCounted, Due, CountedWithin, VisitsInv
<1>5. CASE LoopExpand
  <2> DEFINE n == NewNode(Len(flow), 0, 0)
             t == AddChild(flow, i, n)
  <2>1. n \in Node /\ n.id = Len(flow) /\ n.reward = "none" /\ n.visits = 0
    BY <1>3, NewNodeCounts
  <2>2. /\ RunAgent(t, ChildPosition(flow, i)) /\ Emit
        /\ UNCHANGED ended /\ UNCHANGED inJob
    BY <1>5 DEF LoopExpand, CreateNextNode, UniqueId
  <2> HIDE DEF n
  <2>3. CountedWithin(t, Lost) /\ t[ChildPosition(flow, i)].reward = "none"
    BY <1>3, <1>4, <2>1, GrownCounted
  <2> HIDE DEF t, i
  <2>4. QED
    BY <1>1, <2>2, <2>3, RunAgentCounted
<1>6. CASE LoopRun
  <2>1. RunAgent(flow, i) /\ UNCHANGED tasks /\ UNCHANGED ended /\ UNCHANGED inJob
    BY <1>6 DEF LoopRun
  <2>2. ~Observed(flow[i])
    BY <1>6 DEF LoopRun, Executed
  <2>3. flow[i].reward = "none"
    BY <1>3, <1>4, <2>2 DEF CountedWithin, RewardsEarned
  <2> HIDE DEF i
  <2>4. QED
    BY <1>1, <1>4, <2>1, <2>3, RunAgentCounted
<1>7. CASE LoopStuck
  BY <1>1, <1>2, <1>3, <1>4, <1>7, FailCounted DEF LoopStuck
<1>8. QED
  BY <1>5, <1>6, <1>7 DEF Loop

\* What a search expands.
LEMMA ExpandedCounted ==
  ASSUME settings \in Settings, NEW t \in Tree, NEW p \in 1..Len(t), NEW d \in Nat,
         CountedWithin(t, d)
  PROVE  LET u == ExpandNode(t, p)
         IN CountedWithin(u, d) /\ u[ChildPosition(u, p) - 1].reward = "none"
<1> DEFINE S == {u \in Tree : p \in 1..Len(u) /\ CountedWithin(u, d)}
           max == settings.expansions
<1>1. max \in Nat
  BY FlowAssumption
<1>2. Limited(t, p) \in S
  <2>1. PICK o \in Node : o = t[p]
    BY TreeParts
  <2> DEFINE m == [o EXCEPT !.max = IF o.max = 0 THEN max ELSE o.max]
  <2>2. /\ m \in Node /\ m.depth = o.depth /\ m.reward = o.reward /\ m.visits = o.visits
        /\ Observed(m) <=> Observed(o)
    <3>1. o.max \in Nat
      BY NodeFields
    <3>2. m \in Node /\ m.depth = o.depth /\ m.reward = o.reward /\ m.visits = o.visits
      BY <1>1, <3>1 DEF Node
    <3>3. m.steps = o.steps /\ m.done = o.done
      BY DEF Node
    <3>4. QED
      BY <3>2, <3>3 DEF Observed
  <2>3. Limited(t, p) = Updated(t, p, m)
    BY <2>1 DEF Limited, Updated
  <2> HIDE DEF m
  <2>4. m.reward # "none" => Observed(m)
    BY <2>1, <2>2 DEF CountedWithin, RewardsEarned
  <2>5. Updated(t, p, m) \in Tree /\ Len(Updated(t, p, m)) = Len(t)
        /\ CountedWithin(Updated(t, p, m), d)
    BY <2>1, <2>2, <2>4, NodeWorked
  <2>6. QED
    BY <2>3, <2>5
<1>3. ASSUME NEW u \in S
      PROVE  /\ NextOf(u, p) \in S
             /\ NextOf(u, p)[ChildPosition(NextOf(u, p), p) - 1].reward = "none"
  <2> DEFINE n == NewNode(UniqueId(u), 0, max)
             v == AddChild(u, p, n)
  <2>1. /\ u \in Tree /\ p \in 1..Len(u) /\ CountedWithin(u, d)
        /\ u \in Seq(Node) /\ Len(u) \in Nat
    BY TreeParts
  <2>2. n \in Node /\ n.id = Len(u) /\ n.reward = "none" /\ n.visits = 0
    BY <1>1, <2>1, NewNodeCounts DEF UniqueId
  <2>3. v = NextOf(u, p)
    BY DEF NextOf
  <2> HIDE DEF n
  <2>4. /\ v \in Tree /\ Len(v) = Len(u) + 1 /\ CountedWithin(v, d)
        /\ v[ChildPosition(u, p)].reward = "none"
    BY <2>1, <2>2, GrownCounted
  <2>5. ChildPosition(v, p) = ChildPosition(u, p) + 1
    BY <2>1, <2>2, GrownEnd
  <2>6. ChildPosition(u, p) \in Nat
    <3>1. PICK e \in p..Len(u) : ChildPosition(u, p) = e + 1
      BY <2>1, SubtreeIsContiguous
    <3>2. QED
      BY <2>1, <3>1
  <2> HIDE DEF v
  <2>7. ChildPosition(v, p) - 1 = ChildPosition(u, p)
    BY <2>5, <2>6
  <2>8. p \in 1..Len(v)
    BY <2>1, <2>4
  <2>9. QED
    BY <2>3, <2>4, <2>7, <2>8
<1>4. PICK u \in S : ExpandNode(t, p) = NextOf(u, p)
  <2> HIDE DEF S
  <2>1. QED
    BY <1>2, <1>3, ExpandedByOne
<1>5. NextOf(u, p) \in S /\ NextOf(u, p)[ChildPosition(NextOf(u, p), p) - 1].reward = "none"
  BY <1>3
<1>6. QED
  BY <1>4, <1>5

\* The job goes on with a tree of its nodes, at no node that it must not touch.
LEMMA GoesOnCounted ==
  ASSUME VisitsKnown, StoredCounted, run.pc \in Steps, ended.how = "running",
         UNCHANGED <<req, requests, ended>>, UNCHANGED inJob, UNCHANGED tasks \/ Emit,
         run'.pc \in {"top", "return"}, CountedWithin(flow', Lost)
  PROVE  RunCounted' /\ StoredCounted'
<1>1. StoredCounted' /\ Lost' = Lost
  BY StaysAtWork
<1>2. QED
  BY <1>1 DEF RunCounted, CountedWithin, Due

LEMMA SearchRunCounted ==
  ASSUME VisitsKnown, RunCounted, StoredCounted, run.pc = "top", CountedWithin(flow, Lost),
         SearchRun, UNCHANGED <<req, requests>>
  PROVE  RunCounted' /\ StoredCounted'
<1> DEFINE i == run.cur
           first(s) == CHOOSE j \in UnexecutedChildren(flow, s) :
                         \A k \in UnexecutedChildren(flow, s) : j <= k
<1>1. run.pc \in Steps /\ ended.how = "running"
  BY DEF Steps, Where, RunCounted
<1>2. flow \in Tree /\ i \in 1..Len(flow) /\ Len(flow) \in Nat
  BY <1>1, TreeParts DEF VisitsKnown, Steps
<1>3. PICK s \in Selections(flow, i) :
        /\ Executed(flow, s) => UnexecutedChildren(flow, s) # {}
        /\ RunAgent(flow, IF Executed(flow, s) THEN first(s) ELSE s)
  BY DEF SearchRun
<1>4. s \in 1..Len(flow)
  BY <1>2, SelectedKnown
<1>5. UNCHANGED tasks /\ UNCHANGED ended /\ UNCHANGED inJob
  BY DEF SearchRun
<1>6. ASSUME NEW w \in 1..Len(flow), ~Observed(flow[w]), RunAgent(flow, w)
      PROVE  RunCounted' /\ StoredCounted'
  <2>1. flow[w].reward = "none"
    BY <1>6 DEF CountedWithin, RewardsEarned
  <2>2. QED
    BY <1>1, <1>5, <1>6, <2>1, RunAgentCounted
<1>7. CASE Executed(flow, s)
  <2> DEFINE w == first(s)
  <2>1. w \in 2..Len(flow) /\ ~Observed(flow[w])
    BY <1>2, <1>3, <1>4, <1>7, FirstWaiting
  <2>2. RunAgent(flow, w)
    BY <1>3, <1>7
  <2> HIDE DEF w
  <2>3. w \in 1..Len(flow)
    BY <1>2, <2>1
  <2>4. QED
    BY <1>6, <2>1, <2>2, <2>3
<1>8. CASE ~Executed(flow, s)
  <2>1. RunAgent(flow, s) /\ ~Observed(flow[s])
    BY <1>3, <1>8 DEF Executed
  <2>2. QED
    BY <1>4, <1>6, <2>1
<1>9. QED
  BY <1>7, <1>8

LEMMA SearchExpandCounted ==
  ASSUME VisitsKnown, settings \in Settings, RunCounted, StoredCounted, run.pc = "top",
         CountedWithin(flow, Lost), Lost \in Nat, SearchExpand, UNCHANGED <<req, requests>>
  PROVE  RunCounted' /\ StoredCounted'
<1> DEFINE i == run.cur
<1>1. run.pc \in Steps /\ ended.how = "running"
  BY DEF Steps, Where, RunCounted
<1>2. flow \in Tree /\ i \in 1..Len(flow)
  BY <1>1 DEF VisitsKnown, Steps
<1>3. PICK s \in Selections(flow, i) :
        LET t == ExpandNode(flow, s) IN RunAgent(t, ChildPosition(t, s) - 1)
  BY DEF SearchExpand
<1>4. s \in 1..Len(flow)
  BY <1>2, SelectedKnown
<1>5. Emit /\ UNCHANGED ended /\ UNCHANGED inJob
  BY DEF SearchExpand
<1> DEFINE t == ExpandNode(flow, s)
           w == ChildPosition(t, s) - 1
<1>6. CountedWithin(t, Lost) /\ t[w].reward = "none"
  BY <1>2, <1>4, ExpandedCounted
<1>7. RunAgent(t, w)
  BY <1>3
<1> HIDE DEF t, w
<1>8. QED
  BY <1>1, <1>5, <1>6, <1>7, RunAgentCounted

LEMMA ScoredCounted ==
  ASSUME VisitsKnown, RunCounted, StoredCounted, Scored, UNCHANGED <<req, requests>>
  PROVE  RunCounted' /\ StoredCounted'
<1> DEFINE i == run.cur
<1>1. /\ run.pc = "score" /\ run.pc \in Steps /\ ended.how = "running"
      /\ UNCHANGED <<tasks, ended>> /\ UNCHANGED inJob
  BY DEF Scored, RunCounted, Steps, Where
<1>2. /\ flow \in Tree /\ flow \in Seq(Node) /\ i \in 1..Len(flow) /\ flow[i] \in Node
      /\ CountedWithin(flow, Lost) /\ flow[i].reward = "none" /\ Observed(flow[i]) /\ Search
  BY <1>1, TreeParts DEF VisitsKnown, RunCounted, CountedWithin, Due
<1>3. PICK reward \in {"none", "low", "high"} :
        /\ flow' = [flow EXCEPT ![run.cur].reward = reward]
        /\ run' = [run EXCEPT !.pc = IF reward = "none" THEN NextIteration ELSE "reward"]
  BY DEF Scored
<1> DEFINE u == RatedIn(flow, i, reward)
           o == NodeRated(flow[i], reward)
<1>4. reward \in Rewards
  BY DEF Rewards
<1>5. u = Updated(flow, i, o) /\ o \in Node /\ o.depth = flow[i].depth
  BY <1>2, <1>4, RatedChange
<1>6. flow' = u
  BY <1>3 DEF RatedIn
<1>7. o.reward = reward /\ o.visits = flow[i].visits /\ Observed(o)
  <2>1. PICK m \in Node : m = flow[i]
    BY <1>2
  <2>2. /\ o.reward = reward /\ o.visits = m.visits
        /\ o.steps = m.steps /\ o.done = m.done
    BY <2>1 DEF Node, NodeRated
  <2>3. QED
    BY <1>2, <2>1, <2>2 DEF Observed
<1> HIDE DEF u, o
<1>8. CASE reward = "none"
  <2>1. run'.pc \in {"top", "return"}
    BY <1>3, <1>8 DEF NextIteration, VisitsKnown, RunRecords
  <2>2. CountedWithin(u, Lost)
    BY <1>2, <1>5, <1>7, <1>8, NodeWorked
  <2>3. QED
    BY <1>1, <1>6, <2>1, <2>2, GoesOnCounted
<1>9. CASE reward # "none"
  <2>1. run'.pc = "reward" /\ run'.cur = i
    BY <1>3, <1>9 DEF VisitsKnown, RunRecords
  <2>2. /\ u \in Tree /\ Len(u) = Len(flow) /\ u[i] = o
        /\ \A j \in 1..Len(flow) : j # i => u[j] = flow[j]
    BY <1>2, <1>5, NodeChanged
  <2>3. \A j \in 1..Len(flow) : /\ u[j].depth = flow[j].depth /\ u[j].visits = flow[j].visits
                                /\ j # i => u[j].reward = flow[j].reward
    BY <1>5, <1>7, <2>2
  <2>4. VisitsWithin(u, {i}, Lost)
    BY <1>2, <2>2, <2>3, WithinRated DEF CountedWithin
  <2>5. RewardsEarned(u)
    BY <1>2, <1>7, <2>2 DEF CountedWithin, RewardsEarned
  <2>6. StoredCounted' /\ Lost' = Lost
    BY <1>1, <2>1, StaysAtWork
  <2>7. Search'
    BY <1>1, <1>2 DEF inJob, Search
  <2>8. u[i].reward # "none"
    BY <1>7, <1>9, <2>2
  <2> HIDE DEF i
  <2>9. QED
    BY <1>1, <1>6, <2>1, <2>4, <2>5, <2>6, <2>7, <2>8 DEF RunCounted, Due
<1>10. QED
  BY <1>8, <1>9

LEMMA BackpropagateCounted ==
  ASSUME VisitsKnown, RunCounted, StoredCounted, Backpropagate, UNCHANGED <<req, requests>>
  PROVE  RunCounted' /\ StoredCounted'
<1> DEFINE i == run.cur
           u == Visit(flow, i)
<1>1. /\ run.pc = "reward" /\ run.pc \in Steps /\ ended.how = "running"
      /\ UNCHANGED <<tasks, ended>> /\ UNCHANGED inJob
  BY DEF Backpropagate, RunCounted, Steps, Where
<1>2. /\ flow \in Tree /\ flow \in Seq(Node) /\ i \in 1..Len(flow) /\ Lost \in Int
      /\ RewardsEarned(flow) /\ VisitsWithin(flow, {i}, Lost) /\ flow[i].reward # "none"
      /\ Search
  BY <1>1, TreeParts, LostKnown DEF VisitsKnown, RunCounted, Due
<1>3. flow' = u
  BY <1>2 DEF Backpropagate, Backpropagated
<1>4. run'.pc \in {"top", "return"}
  BY DEF Backpropagate, NextIteration, VisitsKnown, RunRecords
<1>5. VisitsWithin(u, {}, Lost)
  BY <1>2, WithinVisited
<1>6. RewardsEarned(u)
  <2>1. /\ Len(u) = Len(flow)
        /\ \A j \in 1..Len(flow) : \A f \in DOMAIN flow[j] \ {"visits"} : u[j][f] = flow[j][f]
    BY <1>2, VisitedTree
  <2> HIDE DEF u
  <2>2. \A j \in 1..Len(flow) : /\ u[j].reward = flow[j].reward /\ u[j].steps = flow[j].steps
                                /\ u[j].done = flow[j].done
    <3>1. \A j \in 1..Len(flow) : flow[j] \in Node
      BY <1>2, TreeParts
    <3>2. \A j \in 1..Len(flow) : {"reward", "steps", "done"} \subseteq DOMAIN flow[j]
      BY <3>1 DEF Node
    <3>3. QED
      BY <2>1, <3>2
  <2>3. QED
    BY <1>2, <2>1, <2>2 DEF RewardsEarned, Observed
<1> HIDE DEF u, i
<1>7. QED
  BY <1>1, <1>3, <1>4, <1>5, <1>6, GoesOnCounted DEF CountedWithin

LEMMA SearchCounted ==
  ASSUME FlowInv, FlowInv', VisitsInv, RunCounted, StoredCounted, SearchStep,
         UNCHANGED <<req, requests>>
  PROVE  RunCounted' /\ StoredCounted'
<1>1. VisitsKnown /\ settings \in Settings
  BY VisitTypes DEF FlowInv, FlowKnown, RunInv
<1>2. VisitsKnown'
  BY VisitTypes, PTL
<1>3. Lost \in Nat
  BY <1>1, LostNat DEF VisitsInv
<1>4. run.pc \in {"top", "score"} => CountedWithin(flow, Lost)
  BY DEF RunCounted, Due, CountedWithin, Steps, Where
<1>5. CASE SearchRun
  BY <1>1, <1>4, <1>5, SearchRunCounted DEF SearchRun, GoesOn
<1>6. CASE SearchExpand
  BY <1>1, <1>3, <1>4, <1>6, SearchExpandCounted DEF SearchExpand, GoesOn
<1>7. CASE SearchStuck
  <2>1. /\ run.pc = "top" /\ run' = [run EXCEPT !.pc = "return"] /\ UNCHANGED <<flow, ended>>
        /\ UNCHANGED inJob /\ (UNCHANGED tasks \/ Emit)
    BY <1>7 DEF SearchStuck, GoesOn
  <2>2. run'.pc = "return" /\ run.pc \in Steps /\ ended.how = "running"
    BY <1>1, <2>1 DEF VisitsKnown, RunRecords, Steps, Where, RunCounted
  <2>3. CountedWithin(flow', Lost)
    BY <1>4, <2>1
  <2>4. QED
    BY <1>1, <2>1, <2>2, <2>3, GoesOnCounted
<1>8. CASE Scored
  BY <1>1, <1>8, ScoredCounted
<1>9. CASE ScoreRaised
  <2>1. Fail(flow, "failed") /\ run.pc = "score"
    BY <1>9 DEF ScoreRaised
  <2>2. run.pc \in Steps /\ ended.how = "running"
    BY <2>1 DEF Steps, Where, RunCounted
  <2>3. flow \in Tree /\ flow # <<>>
    BY <1>1, <2>1 DEF VisitsKnown
  <2>4. QED
    BY <1>1, <1>2, <1>4, <2>1, <2>2, <2>3, FailCounted
<1>10. CASE Backpropagate
  BY <1>1, <1>10, BackpropagateCounted
<1>11. QED
  BY <1>5, <1>6, <1>7, <1>8, <1>9, <1>10 DEF SearchStep

\* The trees that are stored are among those that were.
LEMMA StoredAgain ==
  ASSUME VisitsKnown, VisitsKnown', StoredCounted, LostStored <= LostStored',
         StoredTrees' \subseteq StoredTrees
  PROVE  StoredCounted'
<1>1. CountedWithin(<<>>, LostStored')
  BY EmptyCounted
<1>2. StoredTrees' \subseteq StoredTrees \cup {<<>>}
  OBVIOUS
<1>3. QED
  BY <1>1, <1>2, StoredStays

\* A start reads the rewards and the visits that are in the file.
LEMMA LoadedCounted ==
  ASSUME NEW kind \in {"search", "loop"}, NEW t \in TreesOf(kind), t # <<>>, NEW d,
         CountedWithin(t, d)
  PROVE  Load(t) \in Tree /\ Load(t) # <<>> /\ CountedWithin(Load(t), d)
<1>1. t \in Tree /\ t \in Seq(Node) /\ TreeAt(t, 0) /\ kind \in Kinds /\ kind # "any"
  BY KindsHaveRoots, TreeParts DEF Kinds
<1> DEFINE u == Load(t)
<1>2. u \in Tree /\ u # <<>> /\ Len(u) = Len(t)
  BY <1>1, LoadedInKind, KindsHaveRoots
<1>3. u = [i \in 1..Len(t) |-> Entry(t, i).node]
  BY <1>1, KindsHaveIds, LoadIsTree
<1>4. \A i \in 1..Len(t) : u[i] = Entry(t, i).node
  BY <1>3
<1> HIDE DEF u
<1>5. ASSUME NEW i \in 1..Len(t)
      PROVE  /\ u[i].depth = t[i].depth /\ u[i].reward = t[i].reward
             /\ u[i].visits = t[i].visits /\ (Observed(u[i]) <=> Observed(t[i]))
  <2>1. PICK o \in Node : o = t[i]
    BY <1>1, TreeParts
  <2>2. u[i] = [o EXCEPT !.terminal = o.terminal \/ o.fin]
    BY <1>1, <1>4, <2>1, EntryKnown
  <2>3. QED
    BY <2>1, <2>2 DEF Node, Observed
<1>6. VisitsWithin(u, {}, d)
  BY <1>1, <1>2, <1>5, WithinSame DEF CountedWithin
<1>7. RewardsEarned(u)
  BY <1>2, <1>5 DEF CountedWithin, RewardsEarned
<1>8. QED
  BY <1>2, <1>6, <1>7 DEF CountedWithin, u

LEMMA SetupCounted ==
  ASSUME FlowInv, FlowInv', VisitsInv, touched = {}, RunCounted, StoredCounted, Setup,
         UNCHANGED <<req, requests>>
  PROVE  RunCounted' /\ StoredCounted'
<1> DEFINE t  == Load(file)
           at == IF run.arg # 0 THEN NodeById(t, run.arg) ELSE IF Search THEN 1 ELSE Len(t)
<1>1. VisitsKnown /\ run.pc = "pending" /\ file # <<>> /\ run \in RunRecords /\ run.arg = 0
  BY VisitTypes DEF Setup, FlowInv, NodeArgs, FlowKnown, RunInv
<1>2. VisitsKnown'
  BY VisitTypes, PTL
<1>3. PICK kind \in {"search", "loop"} : kind = Own
  BY DEF Own
<1>4. file \in TreesOf(kind)
  BY <1>3 DEF FlowInv, KeptInv, FlowKnown
<1>5. CountedWithin(file, LostStored)
  BY DEF StoredCounted, StoredTrees
<1>6. t \in Tree /\ t # <<>> /\ CountedWithin(t, LostStored)
  BY <1>1, <1>4, <1>5, LoadedCounted
<1>7. at # 0
  BY <1>1, <1>6, TreeParts
<1>8. /\ flow' = t /\ run' = [run EXCEPT !.pc = "top", !.cur = at] /\ Emit
      /\ Ended("running", <<>>) /\ UNCHANGED <<settings, file, saving, late, crashes>>
  BY <1>7 DEF Setup
<1> HIDE DEF t, at
<1>9. run'.pc = "top" /\ ended'.how = "running"
  BY <1>1, <1>8 DEF RunRecords, Ended
<1>10. Lost \in Nat /\ LostStored \in Int /\ Lost' = Lost
  BY <1>1, <1>8, LostNat, LostKnown DEF VisitsInv, Lost, Working
<1>11. LostStored <= Lost
  <2>1. Restarting = 1
    BY <1>1 DEF Restarting
  <2>2. QED
    BY <1>10, <2>1 DEF LostStored
<1>12. LostStored' = Lost + 1
  <2>1. run'.pc \in Steps
    BY <1>9 DEF Steps, Where
  <2>2. LostStored' = Lost' + 1
    <3>1. Restarting' = 0
      BY <1>9 DEF Restarting
    <3>2. LostStored' = Lost' - Restarting' + 1
      BY <1>9 DEF LostStored
    <3>3. QED
      BY <1>10, <3>1, <3>2
  <2>3. QED
    BY <1>10, <2>2
<1>13. CountedWithin(t, Lost)
  <2>1. t \in Seq(Node)
    BY <1>6 DEF Tree
  <2>2. VisitsWithin(t, {}, Lost)
    BY <1>6, <1>10, <1>11, <2>1, WithinMore DEF CountedWithin
  <2>3. QED
    BY <1>6, <2>2 DEF CountedWithin
<1>14. RunCounted'
  BY <1>8, <1>9, <1>10, <1>13 DEF RunCounted, CountedWithin, Due
<1>15. StoredTrees' \subseteq StoredTrees
  BY <1>1, <1>8, EmittedTrees
<1>16. LostStored <= LostStored'
  BY <1>10, <1>11, <1>12
<1>17. QED
  BY <1>1, <1>2, <1>14, <1>15, <1>16, StoredAgain

\* The tree that a run returns with is the one that is saved when it is finished.
LEMMA ReturnsCounted ==
  ASSUME FlowInv, FlowInv', RunCounted, StoredCounted, Returns \/ Close,
         UNCHANGED <<req, requests>>
  PROVE  RunCounted' /\ StoredCounted'
<1>1. VisitsKnown /\ run \in RunRecords
  BY VisitTypes DEF FlowInv, FlowKnown, RunInv
<1>2. VisitsKnown'
  BY VisitTypes, PTL
<1>3. run.pc \in {"return", "top", "closing"} /\ run.pc \in Steps /\ ended.how = "running"
  BY DEF Returns, Close, RunCounted, Steps, Where
<1>4. CountedWithin(flow, Lost) /\ flow \in Seq(Node) /\ Lost \in Int
  BY <1>1, <1>3, LostKnown DEF RunCounted, Due, CountedWithin, VisitsKnown, Tree
<1>5. CASE Returns
  <2>1. CancelTasks /\ UNCHANGED <<settings, crashes>>
    BY <1>5 DEF Returns, Complete
  <2>2. CASE Finished(flow)
    <3>1. /\ run' = [run EXCEPT !.pc = "closing", !.cur = 1] /\ file' = <<>>
          /\ UNCHANGED <<flow, ended>>
      BY <1>5, <2>2 DEF Returns, Complete
    <3>2. run'.pc = "closing"
      BY <1>1, <3>1 DEF RunRecords
    <3>3. Lost' = Lost /\ LostStored' = LostStored
      BY <1>1, <1>3, <2>1, <3>1, <3>2, LostAfterWork
    <3>4. StoredTrees' \subseteq StoredTrees
      BY <1>1, <2>1, <3>1, CanceledTrees
    <3>5. LostStored \in Int
      BY <1>1, LostKnown
    <3>6. StoredCounted'
      BY <1>1, <1>2, <3>3, <3>4, <3>5, StoredAgain
    <3>7. RunCounted'
      BY <1>3, <1>4, <3>1, <3>2, <3>3 DEF RunCounted, CountedWithin, Due
    <3>8. QED
      BY <3>6, <3>7
  <2>3. CASE ~Finished(flow)
    <3>1. Ended("partial", flow) /\ run' = NoRun /\ file' = file
      BY <1>5, <2>3 DEF Returns, Complete
    <3>2. run'.pc = "none" /\ ended'.how = "partial"
      BY <3>1 DEF Ended, NoRun
    <3>3. LostStored' = LostStored
      BY <1>1, <1>3, <2>1, <3>2, LostAfterWork
    <3>4. StoredTrees' \subseteq StoredTrees
      BY <1>1, <2>1, <3>1, CanceledTrees
    <3>5. LostStored \in Int
      BY <1>1, LostKnown
    <3>6. StoredCounted'
      BY <1>1, <1>2, <3>3, <3>4, <3>5, StoredAgain
    <3>7. QED
      BY <3>2, <3>6 DEF RunCounted, Steps
  <2>4. QED
    BY <2>2, <2>3
<1>6. CASE Close
  <2>1. /\ file' = flow /\ Ended(IF late = <<>> THEN "finished" ELSE "cut", flow)
        /\ run' = NoRun /\ UNCHANGED <<tasks, saving, late, crashes>>
    BY <1>6 DEF Close
  <2>2. run'.pc = "none" /\ ended'.how \in {"finished", "cut"}
    BY <2>1 DEF Ended, NoRun
  <2>3. LostStored' = Lost + 1 /\ LostStored' = LostStored
    BY <1>1, <1>3, <2>1, <2>2, LostAfterWork
  <2>4. StoredTrees' \subseteq StoredTrees \cup {flow}
    BY <2>1 DEF StoredTrees
  <2>5. CountedWithin(flow, LostStored')
    <3>1. Lost + 1 \in Int /\ Lost <= Lost + 1
      BY <1>4
    <3>2. VisitsWithin(flow, {}, Lost + 1)
      BY <1>4, <3>1, WithinMore DEF CountedWithin
    <3>3. QED
      BY <1>4, <2>3, <3>2 DEF CountedWithin
  <2>6. LostStored <= LostStored'
    BY <1>4, <2>3
  <2>7. StoredCounted'
    BY <1>1, <1>2, <2>4, <2>5, <2>6, StoredStays
  <2>8. QED
    BY <2>2, <2>7 DEF RunCounted, Steps
<1>7. QED
  BY <1>5, <1>6

\* A save takes the tree of the run as it is, also while a visit is due.
LEMMA SavedCounted ==
  ASSUME FlowInv, FlowInv', RunCounted, StoredCounted, SaveBegin \/ SaveEnd \/ LateWrite,
         UNCHANGED <<req, requests>>
  PROVE  RunCounted' /\ StoredCounted'
<1>1. VisitsKnown /\ run \in RunRecords
  BY VisitTypes DEF FlowInv, FlowKnown, RunInv
<1>2. VisitsKnown'
  BY VisitTypes, PTL
<1>3. UNCHANGED <<settings, flow, run, ended, crashes>>
  BY DEF SaveBegin, SaveEnd, LateWrite
<1>4. /\ Lost' = Lost /\ LostStored' = LostStored /\ LostStored \in Int /\ Lost \in Int
      /\ Search' = Search
  BY <1>1, <1>3, LostKnown DEF Lost, LostStored, Working, Restarting, Search
<1>5. RunCounted'
  BY <1>3, <1>4 DEF RunCounted, Due
<1>6. CountedWithin(flow, LostStored)
  <2>1. CASE run.pc \in Steps
    <3>1. RewardsEarned(flow) /\ VisitsWithin(flow, Due, Lost) /\ LostStored = Lost + 1
      BY <1>1, <2>1, LostAtWork DEF RunCounted
    <3>2. flow \in Seq(Node) /\ Lost <= Lost + 1 /\ Lost + 1 \in Int
      BY <1>1, <1>4 DEF VisitsKnown, Tree
    <3>3. VisitsWithin(flow, {}, Lost + 1)
      <4>1. CASE run.pc = "reward"
        BY <1>4, <3>1, <3>2, <4>1, WithinUndue DEF Due
      <4>2. CASE run.pc # "reward"
        <5>1. VisitsWithin(flow, {}, Lost)
          BY <3>1, <4>2 DEF Due
        <5>2. QED
          BY <1>4, <3>2, <5>1, WithinMore
      <4>3. QED
        BY <4>1, <4>2
    <3>4. QED
      BY <3>1, <3>3 DEF CountedWithin
  <2>2. CASE run.pc \notin Steps
    <3>1. flow = <<>>
      BY <1>1, <2>2 DEF VisitsKnown, RunRecords, Steps
    <3>2. QED
      BY <3>1, EmptyCounted
  <2>3. QED
    BY <2>1, <2>2
<1>7. StoredTrees' \subseteq StoredTrees \cup {flow}
  <2>1. CASE SaveBegin
    <3>1. /\ tasks \in Seq(TaskRecords("any")) /\ tasks # <<>> /\ tasks' = Tail(tasks)
          /\ saving' \in {Head(tasks).tree, flow} /\ file' = <<>> /\ late' = late
      BY <1>1, <2>1 DEF SaveBegin, VisitsKnown
    <3>2. PICK n \in Nat : n = Len(tasks)
      BY <3>1
    <3>3. /\ n # 0 /\ Head(tasks) = tasks[1] /\ Len(tasks') = n - 1
          /\ \A k \in 1..n - 1 : tasks'[k] = tasks[k + 1]
      BY <3>1, <3>2, HeadTailProperties, SeqParts
    <3>4. \A k \in 1..Len(tasks') : tasks'[k].tree \in {tasks[l].tree : l \in 1..Len(tasks)}
      BY <3>2, <3>3
    <3>5. Head(tasks).tree \in {tasks[l].tree : l \in 1..Len(tasks)}
      BY <3>2, <3>3
    <3>6. QED
      BY <3>1, <3>4, <3>5 DEF StoredTrees
  <2>2. CASE SaveEnd \/ LateWrite
    <3>1. /\ tasks' = tasks /\ file' \in {saving, late} /\ saving' \in {saving, <<>>}
          /\ late' \in {late, <<>>}
      BY <2>2 DEF SaveEnd, LateWrite
    <3>2. QED
      BY <3>1 DEF StoredTrees
  <2>3. QED
    BY <2>1, <2>2
<1>8. CountedWithin(flow, LostStored') /\ LostStored <= LostStored'
  BY <1>4, <1>6
<1>9. QED
  BY <1>1, <1>2, <1>5, <1>7, <1>8, StoredStays

\* A process that dies, and a task that another flow cancels, may each lose a visit.
LEMMA CutCounted ==
  ASSUME FlowInv, FlowInv', VisitsInv, RunCounted, StoredCounted, Crash \/ OtherFlowEnds,
         UNCHANGED <<req, requests>>
  PROVE  RunCounted' /\ StoredCounted'
<1>1. VisitsKnown /\ ended \in EndRecords
  BY VisitTypes DEF FlowInv, FlowKnown, RunInv
<1>2. VisitsKnown'
  BY VisitTypes, PTL
<1>3. crashes' = crashes + 1
  BY DEF Crash, OtherFlowEnds
<1>4. /\ Lost \in Nat /\ LostStored \in Int /\ Restarting \in {0, 1} /\ Lost' = Lost + 1
  BY <1>1, <1>3, LostNat, LostKnown DEF VisitsInv, VisitsKnown, Lost, Working
<1>5. CASE Crash
  <2>1. /\ run' = NoRun /\ flow' = <<>> /\ tasks' = <<>> /\ saving' = <<>> /\ late' = <<>>
        /\ Ended("killed", flow) /\ UNCHANGED <<settings, file>>
    BY <1>5 DEF Crash
  <2>2. run'.pc = "none" /\ ended'.how = "killed"
    BY <2>1 DEF NoRun, Ended
  <2>3. LostStored' = Lost + 1
    <3>1. Restarting' = 1
      BY <2>2 DEF Restarting
    <3>2. LostStored' = Lost' - Restarting' + 1
      BY <2>2 DEF LostStored
    <3>3. QED
      BY <1>4, <3>1, <3>2
  <2>4. LostStored <= LostStored'
    <3>1. LostStored = 0 \/ LostStored = Lost - Restarting + 1
      BY DEF LostStored
    <3>2. QED
      BY <1>4, <2>3, <3>1
  <2>5. StoredTrees' \subseteq StoredTrees
    <3>1. {tasks'[k].tree : k \in 1..Len(tasks')} = {}
      BY <2>1
    <3>2. QED
      BY <2>1, <3>1 DEF StoredTrees
  <2>6. StoredCounted'
    BY <1>1, <1>2, <2>4, <2>5, StoredAgain
  <2>7. QED
    BY <2>2, <2>6 DEF RunCounted, Steps
<1>6. CASE OtherFlowEnds
  <2>1. /\ CancelTasks /\ UNCHANGED <<settings, flow, file, run>>
        /\ \/ ended.how \in {"failed", "again"} /\ Ended("cut", ended.tree)
           \/ UNCHANGED ended
    BY <1>6 DEF OtherFlowEnds
  <2>2. /\ ended'.how = "new" <=> ended.how = "new"
        /\ ended'.how = "killed" <=> ended.how = "killed"
        /\ ended.how = "running" => ended' = ended
    BY <2>1 DEF Ended
  <2>3. LostStored <= LostStored'
    <3>1. Restarting' = Restarting
      BY <2>1, <2>2 DEF Restarting
    <3>2. CASE ended.how = "new"
      BY <2>2, <3>2 DEF LostStored
    <3>3. CASE ended.how # "new"
      <4>1. LostStored = Lost - Restarting + 1 /\ LostStored' = Lost' - Restarting' + 1
        BY <2>2, <3>3 DEF LostStored
      <4>2. QED
        BY <1>4, <3>1, <4>1
    <3>4. QED
      BY <3>2, <3>3
  <2>4. StoredTrees' \subseteq StoredTrees
    BY <1>1, <2>1, CanceledTrees
  <2>5. StoredCounted'
    BY <1>1, <1>2, <2>3, <2>4, StoredAgain
  <2>6. RunCounted'
    <3>1. run.pc \in Steps => VisitsWithin(flow, Due, Lost + 1)
      <4>1. flow \in Seq(Node) /\ Lost \in Int /\ Lost + 1 \in Int /\ Lost <= Lost + 1
        BY <1>1, <1>4 DEF VisitsKnown, Tree
      <4>2. QED
        BY <4>1, WithinMore DEF RunCounted
    <3>2. Due' = Due /\ Search' = Search
      BY <2>1 DEF Due, Search
    <3>3. QED
      BY <1>4, <2>1, <2>2, <3>1, <3>2 DEF RunCounted
  <2>7. QED
    BY <2>5, <2>6
<1>7. QED
  BY <1>5, <1>6

\* Every step of the job.
LEMMA JobCounted ==
  ASSUME FlowInv, FlowInv', VisitsInv, touched = {}, JobNext, UNCHANGED <<req, requests>>
  PROVE  RunCounted' /\ StoredCounted'
<1>1. RunCounted /\ StoredCounted
  BY DEF VisitsInv
<1>2. CASE NotRun
  <2>1. VisitsKnown /\ run \in RunRecords
    BY VisitTypes DEF FlowInv, FlowKnown, RunInv
  <2>2. VisitsKnown'
    BY VisitTypes, PTL
  <2>3. /\ run.pc = "pending" /\ run' = NoRun
        /\ UNCHANGED <<settings, flow, file, tasks, saving, late, ended, crashes>>
    BY <1>2 DEF NotRun
  <2>4. run'.pc = "none"
    BY <2>3 DEF NoRun
  <2>5. LostStored <= LostStored'
    <3>1. /\ Lost' = Lost /\ Lost \in Int /\ Restarting = 1 /\ Restarting' \in {0, 1}
          /\ LostStored \in Int
      BY <2>1, <2>3, LostKnown DEF Lost, Working, Restarting
    <3>2. CASE ended.how = "new"
      BY <2>3, <3>1, <3>2 DEF LostStored
    <3>3. CASE ended.how # "new"
      <4>1. LostStored = Lost - Restarting + 1 /\ LostStored' = Lost' - Restarting' + 1
        BY <2>3, <3>3 DEF LostStored
      <4>2. PICK a \in Int, b \in Int, r \in {0, 1}, q \in {0, 1} :
              a = Lost /\ b = Lost' /\ r = Restarting /\ q = Restarting'
        BY <3>1
      <4>3. /\ a <= b /\ (r = 1 \/ q = r \/ b = a + 1)
            /\ LostStored = a - r + 1 /\ LostStored' = b - q + 1
        BY <3>1, <4>1, <4>2
      <4>4. QED
        BY <4>3, LostGrows
    <3>4. QED
      BY <3>2, <3>3
  <2>6. StoredTrees' \subseteq StoredTrees
    BY <2>3 DEF StoredTrees
  <2>7. StoredCounted'
    BY <1>1, <2>1, <2>2, <2>5, <2>6, StoredAgain
  <2>8. QED
    BY <2>4, <2>7 DEF RunCounted, Steps
<1>3. CASE Setup
  BY <1>1, <1>3, SetupCounted
<1>4. CASE Loop
  BY <1>1, <1>4, LoopCounted
<1>5. CASE SearchStep
  BY <1>1, <1>5, SearchCounted
<1>6. CASE Agent
  BY <1>1, <1>6, AgentCounted
<1>7. CASE Returns \/ Close
  BY <1>1, <1>7, ReturnsCounted
<1>8. CASE SaveBegin \/ SaveEnd \/ LateWrite
  BY <1>1, <1>8, SavedCounted
<1>9. CASE Crash \/ OtherFlowEnds
  BY <1>1, <1>9, CutCounted
<1>10. QED
  BY <1>2, <1>3, <1>4, <1>5, <1>6, <1>7, <1>8, <1>9 DEF JobNext

\* A request that leaves the trees as they are; it may set up a job to start.
LEMMA TreesStay ==
  ASSUME VisitsKnown, VisitsKnown', RunCounted, StoredCounted, Lost <= Lost',
         LostStored <= LostStored',
         UNCHANGED <<settings, flow, file, tasks, saving, late, ended>>,
         UNCHANGED run \/ run'.pc = "pending"
  PROVE  RunCounted' /\ StoredCounted'
<1>1. StoredTrees' \subseteq StoredTrees
  BY DEF StoredTrees
<1>2. StoredCounted'
  BY <1>1, StoredAgain
<1>3. CASE run'.pc = "pending"
  BY <1>2, <1>3 DEF RunCounted, Steps
<1>4. CASE UNCHANGED run
  <2>1. Due' = Due /\ Search' = Search
    BY <1>4 DEF Due, Search
  <2>2. run.pc \in Steps => VisitsWithin(flow, Due, Lost')
    <3>1. flow \in Seq(Node)
      BY DEF VisitsKnown, Tree
    <3>2. Lost \in Int
      BY LostKnown
    <3>3. Lost' \in Int
      BY DEF VisitsKnown, Lost, Working
    <3>4. QED
      BY <3>1, <3>2, <3>3, WithinMore DEF RunCounted
  <2>3. RunCounted'
    BY <1>4, <2>1, <2>2 DEF RunCounted
  <2>4. QED
    BY <1>2, <2>3
<1>5. QED
  BY <1>3, <1>4

LEMMA RequestCounted ==
  ASSUME FlowInv, FlowInv', VisitsInv, Request \/ StartedElsewhere
  PROVE  VisitsInv'
<1>1. VisitsKnown /\ req \in ReqRecords /\ ReqInv
  BY VisitTypes DEF FlowInv, ReqInv
<1>2. VisitsKnown'
  BY VisitTypes, PTL
<1>3. /\ Lost \in Nat /\ LostStored \in Int /\ Restarting \in {0, 1} /\ Working \in {0, 1}
      /\ crashes \in Nat /\ requests \in Nat
  BY <1>1, LostNat, LostKnown DEF VisitsInv, VisitsKnown
<1>4. CASE \/ start_trajectory \/ retry_trajectory \/ resume_trajectory
           \/ \E node \in 0 .. 2 : execute_node(node) \/ reset_node(node)
  <2>1. PICK kind \in Requests, node \in 0..2 : Begin(kind, node)
    BY <1>4 DEF start_trajectory, retry_trajectory, resume_trajectory, execute_node, reset_node,
                Requests
  <2>2. /\ req.pc = "idle" /\ req'.pc # "idle" /\ requests' = requests + 1
        /\ UNCHANGED <<jobVars, touched>>
    BY <2>1 DEF Begin, Idle
  <2>3. /\ UNCHANGED <<settings, flow, file, tasks, saving, late, ended, run, touched>>
        /\ crashes' = crashes
    BY <2>2 DEF jobVars
  <2>4. Lost' = Lost
    BY <1>3, <2>2, <2>3 DEF Lost, Working
  <2>5. LostStored' = LostStored
    BY <2>3, <2>4 DEF LostStored, Restarting
  <2>6. requests' > 0
    BY <1>3, <2>2
  <2>7. touched' = {} => RunCounted' /\ StoredCounted'
    BY <1>1, <1>2, <1>3, <2>3, <2>4, <2>5, TreesStay DEF VisitsInv
  <2>8. QED
    BY <2>6, <2>7 DEF VisitsInv
<1>5. CASE Read \/ Status \/ Refused \/ RequestLost
  <2>1. /\ req.pc # "idle" /\ UNCHANGED <<requests, touched>> /\ crashes' \in {crashes, crashes + 1}
        /\ UNCHANGED <<settings, flow, file, tasks, saving, late, ended, run>>
    BY <1>5 DEF Read, Status, Refused, RequestLost, jobVars
  <2>2. requests' > 0
    BY <2>1 DEF VisitsInv
  <2>3. Working = 1 /\ Working' \in {0, 1}
    BY <2>1 DEF Working
  <2>4. Lost <= Lost' /\ Lost' \in Int
    <3>1. PICK a \in Nat, b \in Nat, r \in Nat, w \in {0, 1} :
            a = crashes /\ b = crashes' /\ r = requests /\ w = Working'
      BY <1>3, <2>1, <2>3
    <3>2. Lost = a + r - 1 /\ Lost' = b + r - w /\ a <= b
      BY <1>3, <2>1, <2>3, <3>1 DEF Lost
    <3>3. QED
      BY <3>2, WorkEnds
  <2>5. LostStored <= LostStored'
    <3>1. Restarting' = Restarting
      BY <2>1 DEF Restarting
    <3>2. CASE ended.how = "new"
      BY <2>1, <3>2 DEF LostStored
    <3>3. CASE ended.how # "new"
      <4>1. LostStored = Lost - Restarting + 1 /\ LostStored' = Lost' - Restarting' + 1
        BY <2>1, <3>3 DEF LostStored
      <4>2. PICK a \in Int, b \in Int, r \in {0, 1}, q \in {0, 1} :
              a = Lost /\ b = Lost' /\ r = Restarting /\ q = Restarting'
        BY <1>3, <2>4, <3>1
      <4>3. /\ a <= b /\ (r = 1 \/ q = r \/ b = a + 1)
            /\ LostStored = a - r + 1 /\ LostStored' = b - q + 1
        BY <1>3, <2>4, <3>1, <4>1, <4>2
      <4>4. QED
        BY <4>3, LostGrows
    <3>4. QED
      BY <3>2, <3>3
  <2>6. touched' = {} => RunCounted' /\ StoredCounted'
    BY <1>1, <1>2, <2>1, <2>4, <2>5, TreesStay DEF VisitsInv
  <2>7. QED
    BY <2>2, <2>6 DEF VisitsInv
<1>6. CASE Write \/ Flush
  <2>1. touched' # {} /\ requests' = requests /\ req.pc # "idle"
    BY <1>1, <1>6 DEF Write, Flush, ReqInv
  <2>2. QED
    BY <2>1 DEF VisitsInv
<1>7. CASE Start
  <2>1. /\ req.pc = "job" /\ StartJob(req.node) /\ req' = Idle /\ touched \subseteq touched'
        /\ UNCHANGED <<settings, flow, file, tasks, saving, late, ended, crashes, requests>>
    BY <1>7 DEF Start
  <2>2. req'.pc = "idle"
    BY <2>1 DEF Idle
  <2>3. UNCHANGED run \/ run'.pc = "pending"
    BY <2>1 DEF StartJob, NoRun
  <2>4. Working = 1 /\ Working' = 0
    BY <2>1, <2>2 DEF Working
  <2>5. Lost' = Lost + 1
    BY <1>3, <2>1, <2>4 DEF Lost
  <2>6. LostStored <= LostStored'
    <3>1. Restarting' \in {0, 1}
      BY DEF Restarting
    <3>2. CASE ended.how = "new"
      BY <2>1, <3>2 DEF LostStored
    <3>3. CASE ended.how # "new"
      <4>1. LostStored = Lost - Restarting + 1 /\ LostStored' = Lost' - Restarting' + 1
        BY <2>1, <3>3 DEF LostStored
      <4>2. PICK a \in Int, b \in Int, r \in {0, 1}, q \in {0, 1} :
              a = Lost /\ b = Lost' /\ r = Restarting /\ q = Restarting'
        BY <1>3, <2>5, <3>1
      <4>3. /\ a <= b /\ (r = 1 \/ q = r \/ b = a + 1)
            /\ LostStored = a - r + 1 /\ LostStored' = b - q + 1
        BY <1>3, <2>5, <3>1, <4>1, <4>2
      <4>4. QED
        BY <4>3, LostGrows
    <3>4. QED
      BY <3>2, <3>3
  <2>7. Lost <= Lost'
    BY <1>3, <2>5
  <2>8. touched' = {} => RunCounted' /\ StoredCounted'
    BY <1>1, <1>2, <2>1, <2>3, <2>6, <2>7, TreesStay DEF VisitsInv
  <2>9. QED
    BY <2>2, <2>8 DEF VisitsInv
<1>8. CASE StartedElsewhere
  <2>1. /\ run.pc = "none" /\ ended.how \in {"new", "killed"} /\ StartJob(0)
        /\ UNCHANGED <<settings, flow, file, tasks, saving, late, ended, crashes, req, touched,
                       requests>>
    BY <1>8 DEF StartedElsewhere
  <2>2. run'.pc = "pending"
    BY <2>1 DEF StartJob, NoRun
  <2>3. Lost' = Lost
    BY <2>1 DEF Lost, Working
  <2>4. LostStored' = LostStored
    <3>1. ended.how = "killed" => Restarting = 1 /\ Restarting' = 1
      BY <2>1 DEF Restarting
    <3>2. QED
      BY <2>1, <2>3, <3>1 DEF LostStored
  <2>5. touched' = {} => RunCounted' /\ StoredCounted'
    BY <1>1, <1>2, <1>3, <2>1, <2>2, <2>3, <2>4, TreesStay DEF VisitsInv
  <2>6. QED
    BY <2>1, <2>5 DEF VisitsInv
<1>9. QED
  BY <1>4, <1>5, <1>6, <1>7, <1>8 DEF Request

LEMMA VisitsStart ==
  ASSUME Init, FlowInv
  PROVE  VisitsInv
<1>1. /\ run = NoRun /\ file = <<Root>> /\ flow = <<>> /\ tasks = <<>> /\ saving = <<>>
      /\ late = <<>> /\ ended = [how |-> "new", tree |-> <<>>] /\ req = Idle
  BY DEF Init, FlowInit
<1>2. run.pc = "none" /\ ended.how = "new" /\ req.pc = "idle" /\ LostStored = 0
  BY <1>1 DEF NoRun, Idle, LostStored
<1>3. CountedWithin(file, 0)
  <2>1. /\ file \in Tree /\ Len(file) = 1 /\ file[1] = Root
    BY <1>1, VisitTypes DEF VisitsKnown
  <2>2. Root.reward = "none" /\ Root.visits = 0
    BY DEF Root, NewNode
  <2>3. RewardsEarned(file)
    BY <2>1, <2>2 DEF RewardsEarned
  <2>4. \A i \in 1..Len(file) : Counted(file, i, {}) = {}
    <3>1. SUFFICES ASSUME NEW i \in 1..Len(file), NEW j \in Counted(file, i, {}) PROVE FALSE
      OBVIOUS
    <3>2. j \in 1..Len(file)
      BY <2>1, <3>1, CountedKnown, TreeParts
    <3>3. file[j].reward # "none"
      BY <3>1 DEF Counted
    <3>4. j = 1
      BY <2>1, <3>2
    <3>5. QED
      BY <2>1, <2>2, <3>3, <3>4
  <2>5. Cardinality({}) = 0
    BY FS_EmptySet
  <2>6. VisitsWithin(file, {}, 0)
    BY <2>1, <2>2, <2>4, <2>5 DEF VisitsWithin
  <2>7. QED
    BY <2>3, <2>6 DEF CountedWithin
<1>4. StoredTrees \subseteq {<<>>, file}
  <2>1. {tasks[k].tree : k \in 1..Len(tasks)} = {}
    BY <1>1
  <2>2. QED
    BY <1>1, <2>1 DEF StoredTrees
<1>5. StoredCounted
  BY <1>2, <1>3, <1>4, EmptyCounted DEF StoredCounted
<1>6. QED
  BY <1>2, <1>5 DEF VisitsInv, RunCounted, Steps

\* The visits of a node, which its selection in a search weighs its rewards by, are the
\* rewards in its subtree: none is counted twice, and each restart of the job or of the
\* process may lose one (SearchTree._backpropagate, and the saves of run_flow that are taken
\* before it).
THEOREM VisitsAlwaysCounted == Spec => []VisitsCounted
<1>1. Init /\ FlowInv => VisitsInv
  BY VisitsStart
<1>2. VisitsInv /\ FlowInv /\ FlowInv' /\ [Next]_vars => VisitsInv'
  <2>1. SUFFICES ASSUME VisitsInv, FlowInv, FlowInv', [Next]_vars PROVE VisitsInv'
    OBVIOUS
  <2>2. CASE UNCHANGED vars
    <3>1. /\ UNCHANGED <<settings, flow, file, run, tasks, saving, late, ended, calls, touched>>
          /\ UNCHANGED <<crashes, req, requests>>
      BY <2>2 DEF vars, jobVars
    <3>2. Lost' = Lost /\ LostStored' = LostStored
      BY <3>1 DEF Lost, LostStored, Working, Restarting
    <3>3. StoredTrees' = StoredTrees /\ Due' = Due /\ Search' = Search
      BY <3>1 DEF StoredTrees, Due, Search
    <3>4. RunCounted' = RunCounted /\ StoredCounted' = StoredCounted
      BY <3>1, <3>2, <3>3 DEF RunCounted, StoredCounted
    <3>5. QED
      BY <2>1, <3>1, <3>4 DEF VisitsInv
  <2>3. CASE JobNext /\ UNCHANGED <<req, touched, requests>>
    <3>1. touched' = {} => RunCounted' /\ StoredCounted'
      BY <2>1, <2>3, JobCounted
    <3>2. QED
      BY <2>1, <2>3, <3>1 DEF VisitsInv
  <2>4. CASE Request \/ StartedElsewhere
    BY <2>1, <2>4, RequestCounted
  <2>5. QED
    BY <2>1, <2>2, <2>3, <2>4 DEF Next
<1>3. VisitsInv /\ FlowInv => VisitsCounted
  <2>1. SUFFICES ASSUME VisitsInv, FlowInv, touched = {}, NEW i \in DOMAIN flow
                 PROVE  LET scored == {j \in {i} \cup Descendants(flow, i) :
                                          flow[j].reward # "none"}
                            due    == IF run.pc = "reward" THEN scored \cap {run.cur} ELSE {}
                            count  == Cardinality(scored \ due)
                        IN /\ flow[i].visits <= count
                           /\ count <= flow[i].visits + crashes + requests
    BY DEF VisitsCounted
  <2> DEFINE scored == {j \in {i} \cup Descendants(flow, i) : flow[j].reward # "none"}
             due == IF run.pc = "reward" THEN scored \cap {run.cur} ELSE {}
  <2>2. VisitsKnown /\ run \in RunRecords
    BY <2>1, VisitTypes DEF FlowInv, FlowKnown, RunInv
  <2>3. flow \in Tree /\ flow \in Seq(Node) /\ DOMAIN flow = 1..Len(flow) /\ i \in 1..Len(flow)
    BY <2>1, <2>2, TreeParts DEF VisitsKnown
  <2>4. run.pc \in Steps
    <3>1. flow # <<>>
      BY <2>1, <2>3
    <3>2. QED
      BY <2>2, <3>1 DEF VisitsKnown, RunRecords, Steps
  <2>5. VisitsWithin(flow, Due, Lost)
    BY <2>1, <2>4 DEF VisitsInv, RunCounted
  <2>6. scored \ due = Counted(flow, i, Due)
    BY DEF Counted, Due
  <2>7. /\ flow[i].visits <= Cardinality(Counted(flow, i, Due))
        /\ Cardinality(Counted(flow, i, Due)) <= flow[i].visits + Lost
    BY <2>3, <2>5 DEF VisitsWithin
  <2>8. flow[i].visits \in Nat /\ Cardinality(Counted(flow, i, Due)) \in Nat
    BY <2>3, CountedKnown
  <2>9. Lost <= crashes + requests /\ Lost \in Int /\ crashes \in Nat /\ requests \in Nat
    BY <2>2 DEF VisitsKnown, Lost, Working
  <2>10. Cardinality(Counted(flow, i, Due)) <= flow[i].visits + crashes + requests
    BY <2>7, <2>8, <2>9
  <2>11. Cardinality(scored \ due) = Cardinality(Counted(flow, i, Due))
    BY <2>6
  <2>12. QED
    BY <2>7, <2>10, <2>11
<1>4. QED
  BY <1>1, <1>2, <1>3, FlowInvariant, PTL DEF Spec

--------------------------------------------------------------------------------
(* What a trajectory keeps                                                     *)

\* A trajectory keeps in storage what it has told: the nodes of its tree, unless a request gave
\* an id away twice, and the tasks of its agent, unless a read or a write failed.
THEOREM SavedIsAlwaysKept == Spec /\ TasksSpec => []SavedIsKept
<1>1. ReloadKeepsNodes /\ TasksAreAsTold => SavedIsKept
  BY DEF SavedIsKept
<1>2. QED
  BY <1>1, NodesReloaded, TasksAlwaysAsTold, PTL

\* What the agent sees of a file is the file (file_context.py): a later context has what was
\* edited in it or in those it was cloned from, and what was viewed, read or edited is
\* visible, a method with its class, where the module it is looked up in is that of the text.
THEOREM FilesAlwaysSeen == FileSpec /\ SpansSpec => []FilesAreSeen
<1>1. FilesInv /\ SpansInv => FilesAreSeen
  BY EditsSeen DEF FilesAreSeen, SpansInv
<1>2. QED
  BY <1>1, FilesInvariant, SpansInvariant, PTL

\* A provider takes what it is sent (message_history.py, completion/base.py): every tool
\* message of a history that was cut to the limit answers a call just before it, every call
\* is answered but those whose steps were not, and so is each call of a completion that asks
\* the model again.
THEOREM RequestsAlwaysAccepted == HistorySpec /\ CompletionSpec => []RequestsAccepted
<1>1. HistoryAccepted /\ CallsAnswered => RequestsAccepted
  BY DEF RequestsAccepted
<1>2. QED
  BY <1>1, HistoriesAreAccepted, CallsAreAnswered, PTL

\* The state of each part of a trajectory is well typed, whatever the others do.
THEOREM TrajectoryTypeCorrect ==
  Spec /\ HistorySpec /\ CompletionSpec /\ FileSpec /\ SpansSpec /\ TasksSpec
    => []TrajectoryTypeOK
<1>1. /\ TypeOK /\ HistoryTypeOK /\ CompletionTypeOK /\ FileTypeOK /\ SpansTypeOK /\ TasksTypeOK
      => TrajectoryTypeOK
  BY DEF TrajectoryTypeOK
<1>2. HistoryInv => HistoryTypeOK
  BY DEF HistoryInv
<1>3. QED
  BY <1>1, <1>2, FlowTyped, HistoryInvariant, CompletionTypeCorrect, FilesTypeCorrect,
     SpansTypeCorrect, TasksTypeCorrect, PTL

================================================================================
