------------------------------ MODULE DockerRunner ------------------------------
(***************************************************************************)
(* The container runner on Docker (moatless/runner/docker_runner.py).  It  *)
(* keeps no state of its own: the container of a job is found by its name, *)
(* and an operation is a sequence of docker commands, each of which other  *)
(* operations may come before.  A command may fail for no reason of the    *)
(* job's (the engine does not answer); what the operations make of that    *)
(* failure is modelled too.                                                *)
(***************************************************************************)
EXTENDS Integers, JobStatuses

CONSTANTS
  DockerJobs,    \* jobs of one project: the names of their containers
  DockerCallers, \* coroutines and processes that use the runner
  MaxContainers, \* bound on the containers made
  MaxFailures    \* bound on the commands that fail for no reason of the job's

ASSUME DockerAssumption ==
  DockerJobs # {} /\ MaxContainers \in Nat /\ MaxFailures \in Nat

VARIABLES
  container,  \* the container under each name: its number and state
  docker,     \* what each caller is doing
  made,       \* how many containers have been made
  failures,   \* how many commands have failed
  cutOff      \* history: the jobs whose running container a start_job has stopped
              \* that met no other operation on the job

dockerVars == <<container, docker, made, failures, cutOff>>

States == {"none", "created", "running", "exited", "crashed"}

Numbers == 1..MaxContainers

\* The command an operation executes next; "wait": docker run has made the
\* container and starts it.
Commands == {"idle", "exists", "inspect", "clean.exists", "clean.stop", "clean.rm",
             "run", "wait", "list", "stop", "rm"}

DockerTypeOK ==
  /\ container \in [DockerJobs -> [no : 0..MaxContainers, state : States]]
  /\ docker \in [DockerCallers -> [op : {"start", "cancel", "cancel_project"}, at : Commands,
                                   job : DockerJobs, no : 0..MaxContainers, ids : SUBSET Numbers,
                                   met : BOOLEAN]]
  /\ made \in 0..MaxContainers /\ failures \in 0..MaxFailures
  /\ cutOff \subseteq DockerJobs
  /\ \A j \in DockerJobs : container[j].no = 0 <=> container[j].state = "none"

Nothing == [no |-> 0, state |-> "none"]

\* A caller between two operations; the job only fills the field.
DockerIdle == [op |-> "start", at |-> "idle", job |-> CHOOSE j \in DockerJobs : TRUE,
               no |-> 0, ids |-> {}, met |-> FALSE]

DockerInit ==
  /\ container = [j \in DockerJobs |-> Nothing]
  /\ docker = [c \in DockerCallers |-> DockerIdle]
  /\ made = 0 /\ failures = 0
  /\ cutOff = {}

\* _parse_container_status, with the times _get_container_status looks at first:
\* a container that started and has not finished runs.
StatusOf(state) ==
  CASE state = "none" -> ABSENT
    [] state = "created" -> PENDING
    [] state = "running" -> RUNNING
    [] state = "exited" -> COMPLETED
    [] state = "crashed" -> FAILED

State(j) == container[j].state

DockerGoto(c, to) ==
  docker' = [docker EXCEPT ![c] = IF to = "idle" THEN DockerIdle ELSE [@ EXCEPT !.at = to]]

\* The engine fails to execute a command.
DockerFails ==
  failures < MaxFailures /\ failures' = failures + 1

--------------------------------------------------------------------------------

\* (Operations at work on one job at once meet each other: history.)
DockerBegin(c, op, at, j) ==
  /\ docker[c].at = "idle"
  /\ LET meets(d) == /\ d # c /\ docker[d].at # "idle"
                     /\ docker[d].job = j \/ "cancel_project" \in {op, docker[d].op}
         others == {d \in DockerCallers : meets(d)}
     IN docker' = [d \in DockerCallers |->
          IF d = c
          THEN [op |-> op, at |-> at, job |-> j, no |-> 0, ids |-> {}, met |-> others # {}]
          ELSE [docker[d] EXCEPT !.met = @ \/ d \in others]]
  /\ UNCHANGED <<container, made, failures, cutOff>>

start_job(c, j) == DockerBegin(c, "start", "exists", j)

\* cancel_job with a trajectory, and cleanup_job.
cancel_job(c, j) == DockerBegin(c, "cancel", "clean.exists", j)

cancel_project(c, j) == DockerBegin(c, "cancel_project", "list", j)

\* _container_exists: a command that fails reads as a container that is not there.
Exists(c) ==
  /\ docker[c].at = "exists"
  /\ \/ /\ DockerGoto(c, IF State(docker[c].job) = "none" THEN "run" ELSE "inspect")
        /\ UNCHANGED failures
     \/ DockerFails /\ DockerGoto(c, "run")
  /\ UNCHANGED <<container, made, cutOff>>

\* Only a container known to be over or not yet started is removed; a status that
\* could not be read, or of a container that has gone, turns the start away.
Inspect(c) ==
  /\ docker[c].at = "inspect"
  /\ \/ /\ DockerGoto(c, IF StatusOf(State(docker[c].job)) \in {COMPLETED, FAILED, PENDING}
                         THEN "clean.exists" ELSE "idle")
        /\ UNCHANGED failures
     \/ DockerFails /\ DockerGoto(c, "idle")
  /\ UNCHANGED <<container, made, cutOff>>

\* Where an operation goes on after _cleanup_container, whatever that returned.
AfterCleanup(c) == IF docker[c].op = "start" THEN "run" ELSE "idle"

CleanExists(c) ==
  /\ docker[c].at = "clean.exists"
  /\ \/ /\ DockerGoto(c, IF State(docker[c].job) = "none" THEN AfterCleanup(c) ELSE "clean.stop")
        /\ UNCHANGED failures
     \/ DockerFails /\ DockerGoto(c, AfterCleanup(c))
  /\ UNCHANGED <<container, made, cutOff>>

\* docker stop: a running container ends, one that does not run is left.
Stopped(k) == IF k.state = "running" THEN [k EXCEPT !.state = "crashed"] ELSE k

CleanStop(c) ==
  /\ docker[c].at = "clean.stop"
  /\ LET j == docker[c].job IN
     \/ /\ State(j) # "none"
        /\ container' = [container EXCEPT ![j] = Stopped(@)]
        /\ cutOff' = cutOff \cup (IF /\ docker[c].op = "start" /\ ~docker[c].met
                                     /\ State(j) = "running" THEN {j} ELSE {})
        /\ DockerGoto(c, "clean.rm")
        /\ UNCHANGED failures
     \/ /\ State(j) = "none" /\ DockerGoto(c, AfterCleanup(c))
        /\ UNCHANGED <<container, cutOff, failures>>
     \/ /\ DockerFails /\ DockerGoto(c, AfterCleanup(c))
        /\ UNCHANGED <<container, cutOff>>
  /\ UNCHANGED made

\* docker rm refuses a container that runs.
CleanRm(c) ==
  /\ docker[c].at = "clean.rm"
  /\ \/ /\ container' = [container EXCEPT ![docker[c].job] =
                           IF @.state = "running" THEN @ ELSE Nothing]
        /\ UNCHANGED failures
     \/ DockerFails /\ UNCHANGED container
  /\ DockerGoto(c, AfterCleanup(c))
  /\ UNCHANGED <<made, cutOff>>

\* docker run: a container is made if its name is free.
\* (Bound: MaxContainers; another one is refused.)
Run(c) ==
  /\ docker[c].at = "run"
  /\ LET j == docker[c].job IN
     \/ /\ State(j) = "none" /\ made < MaxContainers
        /\ made' = made + 1
        /\ container' = [container EXCEPT ![j] = [no |-> made + 1, state |-> "created"]]
        /\ docker' = [docker EXCEPT ![c].at = "wait", ![c].no = made + 1]
     \/ /\ State(j) # "none" \/ made = MaxContainers
        /\ DockerGoto(c, "idle")
        /\ UNCHANGED <<container, made>>
  /\ UNCHANGED <<failures, cutOff>>

\* docker run starts what it has made, unless it has been removed or the engine
\* fails.
Started(c) ==
  /\ docker[c].at = "wait"
  /\ LET j == docker[c].job
         n == docker[c].no
     IN \/ /\ container[j] = [no |-> n, state |-> "created"]
           /\ container' = [container EXCEPT ![j].state = "running"]
           /\ UNCHANGED failures
        \/ container[j].no # n /\ UNCHANGED <<container, failures>>
        \/ DockerFails /\ UNCHANGED container
  /\ DockerGoto(c, "idle")
  /\ UNCHANGED <<made, cutOff>>

--------------------------------------------------------------------------------
(* cancel_job of a project: docker ps -q lists the containers that run, by      *)
(* number; they are stopped, then removed                                      *)

ProjectList(c) ==
  /\ docker[c].at = "list"
  /\ LET ids == {container[j].no : j \in {k \in DockerJobs : State(k) = "running"}} IN
     \/ /\ ids # {} /\ docker' = [docker EXCEPT ![c].at = "stop", ![c].ids = ids]
        /\ UNCHANGED failures
     \/ ids = {} /\ DockerGoto(c, "idle") /\ UNCHANGED failures
     \/ DockerFails /\ DockerGoto(c, "idle")
  /\ UNCHANGED <<container, made, cutOff>>

ProjectStop(c) ==
  /\ docker[c].at = "stop"
  /\ \/ /\ container' = [j \in DockerJobs |->
                          IF container[j].no \in docker[c].ids THEN Stopped(container[j])
                          ELSE container[j]]
        /\ UNCHANGED failures
     \/ DockerFails /\ UNCHANGED container
  /\ DockerGoto(c, "rm")
  /\ UNCHANGED <<made, cutOff>>

ProjectRm(c) ==
  /\ docker[c].at = "rm"
  /\ \/ /\ container' = [j \in DockerJobs |->
                          IF container[j].no \in docker[c].ids /\ State(j) # "running"
                          THEN Nothing ELSE container[j]]
        /\ UNCHANGED failures
     \/ DockerFails /\ UNCHANGED container
  /\ DockerGoto(c, "idle")
  /\ UNCHANGED <<made, cutOff>>

--------------------------------------------------------------------------------

\* The program in a container ends.
ContainerEnds(j) ==
  /\ State(j) = "running"
  /\ \E state \in {"exited", "crashed"} : container' = [container EXCEPT ![j].state = state]
  /\ UNCHANGED <<docker, made, failures, cutOff>>

DockerCommand(c) ==
  \/ Exists(c) \/ Inspect(c) \/ CleanExists(c) \/ CleanStop(c) \/ CleanRm(c)
  \/ Run(c) \/ Started(c)
  \/ ProjectList(c) \/ ProjectStop(c) \/ ProjectRm(c)

DockerNext ==
  \/ \E c \in DockerCallers :
       \/ DockerCommand(c)
       \/ \E j \in DockerJobs : start_job(c, j) \/ cancel_job(c, j)
       \/ cancel_project(c, docker[c].job)
  \/ \E j \in DockerJobs : ContainerEnds(j)

DockerSpec == DockerInit /\ [][DockerNext]_dockerVars

--------------------------------------------------------------------------------
(* Properties                                                                  *)

\* start_job stops no running container, although a command that fails reads as a
\* missing container and a stop goes by name: only another operation on the same
\* job, between its commands, can have started what it stops.
RunningKept == cutOff = {}
================================================================================
