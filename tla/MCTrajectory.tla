------------------------------ MODULE MCTrajectory -----------------------------
(* What a trajectory is made of, each part on small instances: the flow and its *)
(* tree (FlowManager), the messages made of its nodes (MessageHistory), what a  *)
(* model answers to them (Completion), a file in the contexts of the nodes      *)
(* (FileContext), what of it is visible (VisibleSpans) and the tasks of the     *)
(* agent (TaskArtifacts).  The messages depend on what the nodes say, a file on *)
(* what they edit and tasks on what they note, the job and its requests only on *)
(* where they stand: a behaviour is of a single part.  The flows: a loop and a  *)
(* search with one request of any kind, a shorter loop with a crash too, a      *)
(* search with a crash, one with rewards and a request, and the limits on cost, *)
(* finished nodes and reward.                                                   *)
EXTENDS Trajectory

--------------------------------------------------------------------------------
(* The settings of the flows                                                   *)

Loops == [kind |-> "loop", iterations |-> 3, expansions |-> 1, expandRoot |-> FALSE, cost |-> 0,
          minFinished |-> 0, maxFinished |-> 0, threshold |-> FALSE, scores |-> FALSE,
          steps |-> 1, calls |-> 2, crashes |-> 0, requests |-> 1]

Crashing == [Loops EXCEPT !.iterations = 2, !.crashes = 1]

Searches == [Loops EXCEPT !.kind = "search", !.expansions = 2]

Rewarded == [Searches EXCEPT !.scores = TRUE, !.crashes = 1, !.requests = 0]

CutShort == [Rewarded EXCEPT !.expandRoot = TRUE, !.iterations = 4, !.steps = 2, !.crashes = 0,
                             !.maxFinished = 2, !.minFinished = 1, !.threshold = TRUE]

Restarted == [Searches EXCEPT !.scores = TRUE, !.expansions = 1]

Costly == [Crashing EXCEPT !.cost = 1, !.iterations = 4, !.steps = 2, !.requests = 0]

MCSettings == {Loops, Crashing, Searches, Rewarded, CutShort, Restarted, Costly}

--------------------------------------------------------------------------------
(* What a node may do: an observation of four tokens is too long to show       *)

Answered(size) == [answer |-> size]

MCStepLists ==
  {<<>>, <<Answered(1)>>, <<Answered(4)>>, <<Answered(0)>>, <<Answered(1), Answered(4)>>,
   <<Answered(4), Answered(1)>>, <<Answered(1), Answered(0)>>}

--------------------------------------------------------------------------------

(* The file: none, or two lines                                                *)

CONSTANTS lineA, lineB, lineX

MCOriginals == {None, <<lineA, lineB>>}

--------------------------------------------------------------------------------
(* What a file says whose spans are viewed: a class, or no definition          *)

CONSTANTS importSpan, classSpan, initSpan, methodSpan, funcSpan

MCClassOf == [id \in Spans |-> IF id \in {initSpan, methodSpan} THEN classSpan ELSE NoSpan]

Def(id) == <<[span |-> id, says |-> "def"]>>
Old(id) == <<[span |-> id, says |-> "old"]>>
New(id) == <<[span |-> id, says |-> "new"]>>

AClass == Old(importSpan) \o Def(classSpan) \o Def(initSpan) \o Def(methodSpan) \o Old(methodSpan)
Statements == Old(importSpan) \o New(importSpan)

MCRepository == {AClass, Statements}

MCContents == MCRepository \cup
  {AClass \o New(methodSpan),
   Statements \o Def(classSpan) \o Def(methodSpan) \o Old(methodSpan),
   Old(importSpan) \o Def(funcSpan) \o Old(funcSpan) \o Def(classSpan) \o Def(methodSpan)}

--------------------------------------------------------------------------------

VARIABLE part \* the part that moves

MCInit ==
  /\ part \in {"flow", "messages", "completions", "files", "spans", "tasks"}
  /\ Init /\ HistoryInit /\ CompletionInit /\ FileInit /\ SpansInit /\ TasksInit
  /\ part # "flow" => settings = Loops
  /\ part # "completions" => format = [kind |-> "json", checked |-> FALSE]
  /\ part # "files" => storing = "shadow" /\ disk = None
  /\ part # "spans" => repoText = Statements
  /\ part # "tasks" => tasksOf = "task" /\ kept

MCNext ==
  /\ UNCHANGED part
  /\ \/ /\ part = "flow" /\ Next
        /\ UNCHANGED <<trajectory, completionVars, fileVars, spanVars, taskVars>>
     \/ /\ part = "messages" /\ HistoryNext
        /\ UNCHANGED <<vars, completionVars, fileVars, spanVars, taskVars>>
     \/ /\ part = "completions" /\ CompletionNext
        /\ UNCHANGED <<vars, trajectory, fileVars, spanVars, taskVars>>
     \/ /\ part = "files" /\ FileNext
        /\ UNCHANGED <<vars, trajectory, completionVars, spanVars, taskVars>>
     \/ /\ part = "spans" /\ SpansNext
        /\ UNCHANGED <<vars, trajectory, completionVars, fileVars, taskVars>>
     \/ /\ part = "tasks" /\ TasksNext
        /\ UNCHANGED <<vars, trajectory, completionVars, fileVars, spanVars>>

MCSpec ==
  MCInit /\ [][MCNext]_<<part, vars, trajectory, completionVars, fileVars, spanVars, taskVars>>
================================================================================
