------------------------------ MODULE FlowManager ------------------------------
(***************************************************************************)
(* The requests that change a trajectory and start its job                 *)
(* (moatless/flow/manager.py), together with the job itself: both read     *)
(* trajectory.json, change the tree in their own memory and write it back. *)
(***************************************************************************)
EXTENDS FlowRun

VARIABLES
  req,      \* the request at work: what it is, its next step, the tree it has
            \* read and the node it is about (an id), 0 for none
  touched,  \* history: the requests that have changed the saved tree or had the
            \* job run one node
  requests  \* how many, for the bound

vars == <<jobVars, req, touched, requests>>

Requests == {"start", "retry", "resume", "execute", "reset"}

Idle == [kind |-> "start", pc |-> "idle", tree |-> <<>>, node |-> 0]

TypeOK ==
  /\ FlowTypeOK
  /\ req \in [kind : Requests, pc : {"idle", "read", "status", "write", "flush", "job"},
              tree : Trees, node : Nat]
  /\ touched \subseteq Requests /\ requests \in 0..settings.requests

Init ==
  /\ FlowInit
  /\ req = Idle /\ touched = {} /\ requests = 0

--------------------------------------------------------------------------------

\* A request comes in; retry and resume ask for the status of the job before they
\* read the tree, start after it, the others never.
Begin(kind, node) ==
  /\ req.pc = "idle" /\ requests < settings.requests
  /\ req' = [Idle EXCEPT !.kind = kind, !.node = node,
                         !.pc = IF kind \in {"retry", "resume"} THEN "status" ELSE "read"]
  /\ requests' = requests + 1
  /\ UNCHANGED <<jobVars, touched>>

start_trajectory == Begin("start", 0)

retry_trajectory == Begin("retry", 0)

resume_trajectory == Begin("resume", 0)

execute_node(node) == Begin("execute", node)

reset_node(node) == Begin("reset", node)

\* The tree a request has when it is done with what it read, and whether it is
\* to be saved.
Changed(t, save, node) ==
  req' = [req EXCEPT !.tree = IF save THEN t ELSE <<>>, !.node = node,
                     !.pc = IF save THEN "write" ELSE "job"]

StartChange(t) ==
  LET failed == LastNode(t).error
  IN Changed(IF failed THEN ResetNode(t, Len(t), TRUE) ELSE t, failed, 0)

RetryChange(t) ==
  LET grown == ChildrenOf(t, 1) # {}
  IN Changed(IF grown THEN DropChildren(t, 1) ELSE t, grown, 0)

\* A last node that is executed gets a child with the message, numbered after it.
ResumeChange(t) ==
  LET n == LastNode(t)
  IN Changed(IF Executed(t, Len(t))
             THEN AddChild([t EXCEPT ![Len(t)].terminal = FALSE], Len(t),
                           NewNode(n.id + 1, 0, n.max))
             ELSE t, TRUE, 0)

\* A node that is executed is cloned, and the clone is run.  The root has no clone.
ExecuteChange(t) ==
  LET i == NodeById(t, req.node)
      at == ChildPosition(t, ParentOf(t, i))
      copied == CloneNode(t, i)
  IN /\ i # 0
     /\ IF Executed(t, i)
        THEN /\ i # 1
             /\ Changed(ResetNode(copied, at, FALSE), TRUE, copied[at].id)
        ELSE Changed(t, FALSE, req.node)

ResetChange(t) ==
  LET i == NodeById(t, req.node)
  IN i # 0 /\ Changed(ResetNode(t, i, TRUE), TRUE, req.node)

Change(t) ==
  \/ req.kind = "retry" /\ RetryChange(t)
  \/ req.kind = "resume" /\ ResumeChange(t)
  \/ req.kind = "execute" /\ ExecuteChange(t)
  \/ req.kind = "reset" /\ ResetChange(t)

\* The tree is read from the file.
Read ==
  /\ req.pc = "read" /\ file # <<>>
  /\ \/ req.kind = "start" /\ req' = [req EXCEPT !.pc = "status", !.tree = Load(file)]
     \/ Change(Load(file))
  /\ UNCHANGED <<jobVars, touched, requests>>

\* The status of the job: only one that is RUNNING turns the request away.
Status ==
  /\ req.pc = "status" /\ run.pc \in {"none", "pending"}
  /\ IF req.kind = "start" THEN StartChange(req.tree)
     ELSE req' = [req EXCEPT !.pc = "read"]
  /\ UNCHANGED <<jobVars, touched, requests>>

\* The request is answered with an error: an empty file, a node that is not
\* there, a root that cannot be cloned, a job that runs.
Refused ==
  /\ \/ /\ req.pc = "read"
        /\ \/ file = <<>>
           \/ /\ file # <<>> /\ req.kind \in {"execute", "reset"}
              /\ LET i == NodeById(Load(file), req.node)
                 IN i = 0 \/ (req.kind = "execute" /\ i = 1)
     \/ req.pc = "status" /\ run.pc \notin {"none", "pending"}
  /\ req' = Idle
  /\ UNCHANGED <<jobVars, touched, requests>>

\* The file is emptied, then written.
Write ==
  /\ req.pc = "write"
  /\ file' = <<>>
  /\ req' = [req EXCEPT !.pc = "flush"]
  /\ touched' = touched \cup {req.kind}
  /\ Ended("new", <<>>)
  /\ UNCHANGED <<settings, flow, run, tasks, saving, late, calls, crashes, requests>>

Flush ==
  /\ req.pc = "flush"
  /\ file' = req.tree
  /\ req' = IF req.kind = "reset" THEN Idle ELSE [req EXCEPT !.pc = "job", !.tree = <<>>]
  /\ Ended("new", <<>>)
  /\ UNCHANGED <<settings, flow, run, tasks, saving, late, calls, crashes, touched, requests>>

Start ==
  /\ req.pc = "job"
  /\ StartJob(req.node)
  /\ req' = Idle
  /\ touched' = touched \cup (IF req.node # 0 THEN {req.kind} ELSE {})
  /\ UNCHANGED <<settings, flow, file, tasks, saving, late, ended, calls, crashes, requests>>

\* The process that serves the requests dies within one.
RequestLost ==
  /\ req.pc # "idle" /\ crashes < settings.crashes
  /\ crashes' = crashes + 1
  /\ req' = Idle
  /\ UNCHANGED <<settings, flow, file, run, tasks, saving, late, ended, calls, touched, requests>>

Request ==
  \/ start_trajectory \/ retry_trajectory \/ resume_trajectory
  \/ \E node \in 0 .. 2 : execute_node(node) \/ reset_node(node)
  \/ Read \/ Status \/ Refused \/ Write \/ Flush \/ Start \/ RequestLost

\* The job is started by other programs as well, such as an evaluation.
StartedElsewhere ==
  /\ run.pc = "none" /\ ended.how \in {"new", "killed"}
  /\ StartJob(0)
  /\ UNCHANGED <<settings, flow, file, tasks, saving, late, ended, calls, crashes,
                 req, touched, requests>>

Next ==
  \/ JobNext /\ UNCHANGED <<req, touched, requests>>
  \/ Request \/ StartedElsewhere

Spec == Init /\ [][Next]_vars

--------------------------------------------------------------------------------
(* Properties                                                                  *)

\* What the file holds and what the job has in memory survive a save and a load:
\* no two nodes share an id, so that none takes the other's place in the
\* dictionary.  A clone is numbered as the next node will be; in a search the
\* last node is not the one with the highest id, and a reset lowers the count.
ReloadKeepsNodes ==
  touched \cap (IF Search THEN {"execute", "resume", "reset"} ELSE {"execute"}) = {} =>
    \A t \in {flow, file} \ {<<>>} : Len(Load(t)) = Len(t)

\* A run that ended with a finished flow has left its tree in the file, and so
\* has one that failed once its tasks are done, until a request rewrites it:
\* nothing that was begun before the end is written after it.
OutcomeSaved ==
  \/ ended.how = "finished"
  \/ ended.how \in {"failed", "again"} /\ tasks = <<>> /\ saving = <<>>
  => file = ended.tree

\* The visits of a node are the rewards in its subtree, each counted once; the
\* one whose event is still awaited is not counted yet. A save taken then lacks it,
\* and a run that starts from such a save never makes up for it: every restart may
\* lose one, none is ever counted twice.
VisitsCounted ==
  touched = {} => \A i \in DOMAIN flow :
    LET scored == {j \in {i} \cup Descendants(flow, i) : flow[j].reward # "none"}
        due    == IF run.pc = "reward" THEN scored \cap {run.cur} ELSE {}
        count  == Cardinality(scored \ due)
    IN flow[i].visits <= count /\ count <= flow[i].visits + crashes + requests

\* No run fails because it met a node that is executed already and cannot be
\* expanded: where a run ends, the next one finds a node to work on.
NodeToRun == ended.how = "again" => "execute" \in touched

================================================================================
