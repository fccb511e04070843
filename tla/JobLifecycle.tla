------------------------------ MODULE JobLifecycle -----------------------------
(***************************************************************************)
(* What a runner promises to whoever reads the status of its jobs: the     *)
(* abstract specification of BaseRunner (runner/runner.py).  A job is      *)
(* submitted, starts, ends once, and only a new submission revives it.     *)
(***************************************************************************)
EXTENDS JobStatuses

CONSTANT Jobs

VARIABLE status \* get_job_status for each job, ABSENT when there is no such job

TypeOK == status \in [Jobs -> JobStatus \cup {ABSENT}]

Init == status = [j \in Jobs |-> ABSENT]

Move(j, from, to) ==
  /\ status[j] \in from
  /\ status' = [status EXCEPT ![j] = to]

Submit(j) == Move(j, TerminalStates \cup {ABSENT}, PENDING)

Start(j) == Move(j, {PENDING}, RUNNING)

Complete(j) == Move(j, {RUNNING}, COMPLETED)

Fail(j) == Move(j, {PENDING, RUNNING}, FAILED)

\* A job that has just ended may still be overtaken by a cancellation.
Cancel(j) == Move(j, JobStatus, CANCELED)

\* The runner shuts down and forgets its jobs.
Forget == status' = [j \in Jobs |-> ABSENT]

Next ==
  \/ \E j \in Jobs : \/ Submit(j) \/ Start(j) \/ Complete(j)
                     \/ Fail(j) \/ Cancel(j)
  \/ Forget

Spec == Init /\ [][Next]_status

================================================================================
