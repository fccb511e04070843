---------------------------- MODULE RedisJobStorage ----------------------------
(***************************************************************************)
(* The job storage the scheduler shares with other processes through Redis *)
(* (moatless/runner/storage/redis.py): the record of each job under its    *)
(* own key, and two kinds of index sets, the jobs of a project and the     *)
(* jobs in a status.  A single Redis command is atomic, an operation is a  *)
(* sequence of them: any command of another client, or the death of the    *)
(* client's process, may come between two commands.                        *)
(***************************************************************************)
EXTENDS JobStatuses

CONSTANTS
  Jobs,   \* job keys; a key names one project, so that one set of keys stands
          \* for the sets of all projects
  Clients, \* coroutines or processes that use the storage
  Written  \* the statuses update_job is called with

ASSUME WrittenAssumption == Written \subseteq JobStatus

VARIABLES
  data,       \* the record of a job, its status here; ABSENT: no such key
  projectSet, \* the members of the project:... sets
  statusSet,  \* the members of each status:... set
  client,     \* the operation each client is in, the next command, what it read
  outOfTurn,  \* history: jobs on which an operation began out of turn
  torn        \* history: jobs on which a client died within an operation

history == <<outOfTurn, torn>>

vars == <<data, projectSet, statusSet, client, outOfTurn, torn>>

\* The command an operation executes next.
Command ==
  {"idle", "add.set", "add.project", "add.status",
   "update.get", "update.srem", "update.sadd", "update.set",
   "remove.get", "remove.project", "remove.status", "remove.del"}

TypeOK ==
  /\ data \in [Jobs -> JobStatus \cup {ABSENT}]
  /\ projectSet \subseteq Jobs
  /\ statusSet \in [JobStatus -> SUBSET Jobs]
  /\ client \in [Clients -> [pc : Command, job : Jobs, new : JobStatus,
                             old : JobStatus \cup {ABSENT}]]
  /\ outOfTurn \subseteq Jobs /\ torn \subseteq Jobs

Init ==
  /\ data = [j \in Jobs |-> ABSENT]
  /\ projectSet = {}
  /\ statusSet = [s \in JobStatus |-> {}]
  /\ client \in [Clients -> [pc : {"idle"}, job : Jobs, new : {PENDING}, old : {ABSENT}]]
  /\ outOfTurn = {} /\ torn = {}

Busy(c) == client[c].pc # "idle"

Free(j) == \A c \in Clients : Busy(c) => client[c].job # j

\* An operation begins.  The storage takes any; `inTurn' says whether this one
\* meets the job as its callers mean it to be, and alone.
Begin(c, pc, j, s, inTurn) ==
  /\ ~Busy(c)
  /\ client' = [client EXCEPT ![c] = [pc |-> pc, job |-> j, new |-> s, old |-> ABSENT]]
  /\ outOfTurn' = outOfTurn \cup (IF inTurn /\ Free(j) THEN {} ELSE {j})
  /\ UNCHANGED <<data, projectSet, statusSet, torn>>

\* What a client that is idle again has read and written is of no account.
Goto(c, from, to) ==
  /\ client[c].pc = from
  /\ client' = [client EXCEPT ![c] =
       IF to = "idle" THEN [@ EXCEPT !.pc = to, !.new = PENDING, !.old = ABSENT]
                      ELSE [@ EXCEPT !.pc = to]]

\* GET of the job's record: the client goes on from what it read.
Get(c, from, found, missing) ==
  /\ client[c].pc = from
  /\ LET read == data[client[c].job] IN
       client' = [client EXCEPT ![c].old = read,
                                ![c].pc  = IF read = ABSENT THEN missing ELSE found[read]]
  /\ UNCHANGED <<data, projectSet, statusSet>>

SetData(c, value) == data' = [data EXCEPT ![client[c].job] = value]

SAdd(c, s) == statusSet' = [statusSet EXCEPT ![s] = @ \cup {client[c].job}]

SRem(c, s) == statusSet' = [statusSet EXCEPT ![s] = @ \ {client[c].job}]

--------------------------------------------------------------------------------
(* add_job                                                                     *)

\* In turn, the scheduler adds a job it has just removed or never saw.
AddJob(c, j) == Begin(c, "add.set", j, PENDING, data[j] = ABSENT)

AddSet(c) ==
  /\ Goto(c, "add.set", "add.project")
  /\ SetData(c, client[c].new)
  /\ UNCHANGED <<projectSet, statusSet>>

AddProject(c) ==
  /\ Goto(c, "add.project", "add.status")
  /\ projectSet' = projectSet \cup {client[c].job}
  /\ UNCHANGED <<data, statusSet>>

\* (Mutant: the job is not entered in the set of its status.)
AddStatus_Skipped(c) ==
  /\ Goto(c, "add.status", "idle")
  /\ UNCHANGED <<data, projectSet, statusSet>>

AddStatus(c) ==
  /\ Goto(c, "add.status", "idle")
  /\ SAdd(c, client[c].new)
  /\ UNCHANGED <<data, projectSet>>

--------------------------------------------------------------------------------
(* update_job: the sets are touched only if the stored status differs          *)

UpdateJob(c, j, s) == Begin(c, "update.get", j, s, data[j] # ABSENT)

\* (Mutant: the client keeps what it wants to write as what it read.)
UpdateGet_Raw(c) ==
  /\ client[c].pc = "update.get"
  /\ client' = [client EXCEPT ![c].pc = "update.srem", ![c].new = data[client[c].job]]
  /\ UNCHANGED <<data, projectSet, statusSet>>

UpdateGet(c) ==
  Get(c, "update.get",
      [s \in JobStatus |-> IF s = client[c].new THEN "update.set" ELSE "update.srem"],
      "update.set")

\* (Mutants: the set of the new status loses the job instead of that of the old
\* one; the old set is left as it is.)
UpdateSRem_New(c) ==
  /\ Goto(c, "update.srem", "update.sadd")
  /\ SRem(c, client[c].new)
  /\ UNCHANGED <<data, projectSet>>

UpdateSRem(c) ==
  /\ Goto(c, "update.srem", "update.sadd")
  /\ SRem(c, client[c].old)
  /\ UNCHANGED <<data, projectSet>>

UpdateSAdd(c) ==
  /\ Goto(c, "update.sadd", "update.set")
  /\ SAdd(c, client[c].new)
  /\ UNCHANGED <<data, projectSet>>

UpdateSet(c) ==
  /\ Goto(c, "update.set", "idle")
  /\ SetData(c, client[c].new)
  /\ UNCHANGED <<projectSet, statusSet>>

--------------------------------------------------------------------------------
(* remove_job                                                                  *)

RemoveJob(c, j) == Begin(c, "remove.get", j, PENDING, TRUE)

RemoveGet(c) ==
  Get(c, "remove.get", [s \in JobStatus |-> "remove.project"], "remove.del")

RemoveProject(c) ==
  /\ Goto(c, "remove.project", "remove.status")
  /\ projectSet' = projectSet \ {client[c].job}
  /\ UNCHANGED <<data, statusSet>>

RemoveStatus(c) ==
  /\ Goto(c, "remove.status", "remove.del")
  /\ SRem(c, client[c].old)
  /\ UNCHANGED <<data, projectSet>>

RemoveDel(c) ==
  /\ Goto(c, "remove.del", "idle")
  /\ SetData(c, ABSENT)
  /\ UNCHANGED <<projectSet, statusSet>>

--------------------------------------------------------------------------------

\* The process of a client dies: what it has not executed yet is never executed.
Crash(c) ==
  /\ Busy(c) /\ Goto(c, client[c].pc, "idle")
  /\ torn' = torn \cup {client[c].job}
  /\ UNCHANGED <<data, projectSet, statusSet, outOfTurn>>

Continue(c) ==
  /\ \/ AddSet(c) \/ AddProject(c) \/ AddStatus(c)
     \/ UpdateGet(c) \/ UpdateSRem(c) \/ UpdateSAdd(c) \/ UpdateSet(c)
     \/ RemoveGet(c) \/ RemoveProject(c) \/ RemoveStatus(c) \/ RemoveDel(c)
  /\ UNCHANGED history

Next == \E c \in Clients :
  \/ Continue(c)
  \/ Crash(c)
  \/ \E j \in Jobs : \/ AddJob(c, j) \/ RemoveJob(c, j)
                     \/ \E s \in Written : UpdateJob(c, j, s)

Spec == Init /\ [][Next]_vars

--------------------------------------------------------------------------------
(* Properties                                                                  *)

\* The sets agree with the record of a job no operation is at work on: the
\* limits of the scheduler count the members of a set (get_running_jobs_count),
\* its loop reads the records (get_jobs).  Only an operation that began out of
\* turn or never ended sets them apart.
SetsAgree ==
  \A j \in Jobs \ (outOfTurn \cup torn) : Free(j) =>
    /\ \A s \in JobStatus : j \in statusSet[s] <=> data[j] = s
    /\ j \in projectSet <=> data[j] # ABSENT

\* What the scheduler counts and lists is sound, even while a job moves: no job is
\* counted in two statuses, so that the total never exceeds the number of jobs, and a
\* project's set only lists jobs that are stored.  A record is written before it is
\* listed and deleted after it is, so that not even a crash leaves a dangling key for
\* get_jobs(project).
ListsAreSound ==
  /\ \A s, r \in JobStatus : s # r =>
       statusSet[s] \cap statusSet[r] \subseteq outOfTurn \cup torn
  /\ \A j \in projectSet \ outOfTurn : data[j] # ABSENT

\* The sets that redis_storage.py keeps beside the records can be relied on: for what
\* is at rest they agree with the records, and even in between they list what there is.
IndexAgrees == SetsAgree /\ ListsAreSound

================================================================================
