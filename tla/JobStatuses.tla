------------------------------ MODULE JobStatuses ------------------------------
(***************************************************************************)
(* The statuses a job can have (class JobStatus of runner/runner.py), and  *)
(* the groups of them that the runners test for.                           *)
(***************************************************************************)

PENDING   == "pending"
RUNNING   == "running"
COMPLETED == "completed"
FAILED    == "failed"
CANCELED  == "canceled"
STOPPED   == "stopped"

JobStatus == {PENDING, RUNNING, COMPLETED, FAILED, CANCELED, STOPPED}

\* The list [COMPLETED, FAILED, CANCELED] that every runner calls terminal.
\* STOPPED is not in it.
TerminalStates == {COMPLETED, FAILED, CANCELED}

\* The value that stands for Python's None where a job has no status.
ABSENT == "absent"

================================================================================
