----------------------------- MODULE StorageProofs -----------------------------
(***************************************************************************)
(* Theorems about what is stored: the records and index sets of jobs in    *)
(* Redis, for any jobs and clients, the log of events in files or objects, *)
(* for any writers and processes, the working tree that commands and tests *)
(* run in, for any files, patches and test patches, and the copies of      *)
(* repositories, for any callers and instances.  Each invariant says what  *)
(* the parties may assume of each other between two commands: while a job  *)
(* is used in turn, its client alone decides where it is listed; while a   *)
(* line is appended, no other process replaces the log that was read;      *)
(* where the calls of a runtime stand says what its tree is; the numbers   *)
(* of calls say whose a directory is while no lock does.                   *)
(***************************************************************************)
EXTENDS RedisJobStorage, DocumentStorage, LocalRuntime, RepoClones, FiniteSetTheorems,
        SequenceTheorems, TLAPS

--------------------------------------------------------------------------------
(* The jobs in Redis                                                           *)

\* The sets of the statuses list a job as s, and as nothing if that is none.
ListedAs(j, s) == \A r \in JobStatus : j \in statusSet[r] <=> r = s

InTurn(j) == j \notin outOfTurn

AtRest(j) == j \notin outOfTurn \cup torn

\* An operation that met another one on its job is out of turn.
OneAtATime == \A c, d \in Clients :
  c # d /\ Busy(c) /\ Busy(d) /\ client[c].job = client[d].job => ~InTurn(client[c].job)

\* How the sets list the job of an operation, before its next command.
Shown(c) ==
  LET r == client[c]
  IN  IF r.pc \in {"add.set", "add.project", "add.status", "update.sadd", "remove.del"} THEN ABSENT
      ELSE IF r.pc = "update.set" THEN r.new ELSE data[r.job]

InProject(c) ==
  client[c].pc \notin {"add.set", "add.project", "remove.status", "remove.del"}
    /\ (client[c].pc = "remove.get" => data[client[c].job] # ABSENT)

\* What an operation in turn on a job that was at rest knows of it.
WorkGoesOn(c) ==
  LET r == client[c]
  IN  Busy(c) /\ AtRest(r.job) =>
        /\ ListedAs(r.job, Shown(c))
        /\ r.job \in projectSet <=> InProject(c)
        /\ r.pc = "add.set" => data[r.job] = ABSENT
        /\ r.pc \in {"add.project", "add.status"} => data[r.job] = r.new
        /\ r.pc \in {"update.get", "update.srem", "update.sadd", "update.set",
                     "remove.project", "remove.status"} => data[r.job] # ABSENT
        /\ r.pc \in {"update.srem", "update.sadd", "remove.project", "remove.status"} =>
             r.old = data[r.job]
        /\ r.pc = "update.srem" => r.old # r.new

\* Even where an operation on the job was torn, a record is there before the project lists
\* it, and until it no longer does.
StoredFirst ==
  /\ \A j \in projectSet : InTurn(j) => data[j] # ABSENT
  /\ \A c \in Clients : InTurn(client[c].job) =>
       /\ client[c].pc = "add.project" => data[client[c].job] # ABSENT
       /\ client[c].pc \in {"remove.status", "remove.del"} => client[c].job \notin projectSet

IndexInv ==
  /\ TypeOK
  /\ OneAtATime
  /\ \A c \in Clients : WorkGoesOn(c)
  /\ SetsAgree
  /\ StoredFirst

\* A step of client c: nothing is changed of other jobs and of other clients.
OnlyOwnJob(c) ==
  LET j == client[c].job
  IN  /\ Busy(c)
      /\ \A d \in Clients : d # c => client'[d] = client[d]
      /\ client'[c].job = j
      /\ \A i \in Jobs : i # j =>
           /\ data'[i] = data[i]
           /\ i \in projectSet' <=> i \in projectSet
           /\ \A s \in JobStatus : i \in statusSet'[s] <=> i \in statusSet[s]
      /\ outOfTurn' = outOfTurn /\ torn \subseteq torn'

\* A job that is at rest, and that nobody works on, is listed as it is stored.
ListedAsStored(j) == ListedAs(j, data[j]) /\ (j \in projectSet <=> data[j] # ABSENT)

\* What a client leaves of its job.
LeavesInOrder(c) ==
  LET j == client[c].job
  IN  /\ AtRest(j) => IF Busy(c) THEN WorkGoesOn(c) ELSE ListedAsStored(j)
      /\ InTurn(j) => /\ j \in projectSet => data[j] # ABSENT
                      /\ client[c].pc = "add.project" => data[j] # ABSENT
                      /\ client[c].pc \in {"remove.status", "remove.del"} => j \notin projectSet

\* It is enough to look at the job of the client that moves.
LEMMA OwnJobOnly ==
  ASSUME IndexInv, TypeOK', NEW c \in Clients, OnlyOwnJob(c), LeavesInOrder(c)'
  PROVE  IndexInv'
<1>1. PICK j \in Jobs : client[c].job = j /\ client'[c].job = j
  BY DEF IndexInv, TypeOK, OnlyOwnJob
<1>2. \A d \in Clients : d # c /\ Busy(d) /\ client[d].job = j => ~InTurn(j)
  BY <1>1 DEF IndexInv, OneAtATime, OnlyOwnJob
<1>3. \A d \in Clients : d # c => client'[d] = client[d]
  BY DEF OnlyOwnJob
<1>4. \A i \in Jobs : AtRest(i)' => AtRest(i)
  BY DEF OnlyOwnJob, AtRest
<1>5. \A i : InTurn(i)' <=> InTurn(i)
  BY DEF OnlyOwnJob, InTurn
<1>6. \A i \in Jobs : i # j =>
        /\ data'[i] = data[i]
        /\ i \in projectSet' <=> i \in projectSet
        /\ \A s \in JobStatus : i \in statusSet'[s] <=> i \in statusSet[s]
  BY <1>1 DEF OnlyOwnJob
<1>7. \A d \in Clients : client[d].job \in Jobs
  BY DEF IndexInv, TypeOK
<1>8. OneAtATime'
  <2>1. \A d \in Clients : client'[d].job = client[d].job /\ (Busy(d)' => Busy(d))
    BY <1>3 DEF OnlyOwnJob, Busy
  <2>2. QED
    BY <1>5, <2>1 DEF IndexInv, OneAtATime
<1>9. ASSUME NEW d \in Clients PROVE WorkGoesOn(d)'
  <2>1. CASE d = c
    BY <2>1 DEF LeavesInOrder, WorkGoesOn
  <2>2. CASE d # c /\ client[d].job = j
    <3>1. Busy(d)' => ~InTurn(j)'
      BY <1>2, <1>3, <1>5, <2>2 DEF Busy
    <3>2. client'[d].job = j
      BY <1>3, <2>2
    <3>3. QED
      BY <3>1, <3>2, <1>1 DEF WorkGoesOn, AtRest, InTurn
  <2>3. CASE d # c /\ client[d].job # j
    <3> DEFINE i == client[d].job
    <3>1. /\ client'[d] = client[d] /\ data'[i] = data[i]
          /\ i \in projectSet' <=> i \in projectSet
          /\ \A s \in JobStatus : i \in statusSet'[s] <=> i \in statusSet[s]
          /\ AtRest(i)' => AtRest(i)
      BY <1>3, <1>4, <1>6, <1>7, <2>3
    <3>2. WorkGoesOn(d)
      BY DEF IndexInv
    <3>3. Shown(d)' = Shown(d) /\ (InProject(d)' <=> InProject(d))
      BY <3>1 DEF Shown, InProject
    <3>4. QED
      BY <3>1, <3>2, <3>3 DEF WorkGoesOn, ListedAs, Busy
  <2>4. QED
    BY <2>1, <2>2, <2>3
<1>10. SetsAgree'
  <2> SUFFICES ASSUME NEW i \in (Jobs \ (outOfTurn \cup torn))', Free(i)'
               PROVE  ListedAsStored(i)'
    BY DEF SetsAgree, ListedAsStored, ListedAs
  <2>1. CASE i = j
    <3>1. ~Busy(c)' /\ AtRest(j)'
      BY <1>1, <2>1 DEF Free, AtRest
    <3>2. QED
      BY <1>1, <2>1, <3>1 DEF LeavesInOrder
  <2>2. CASE i # j
    <3>1. Free(i)
      <4>1. \A d \in Clients : Busy(d) /\ d # c => client[d].job # i
        BY <1>3 DEF Free, Busy
      <4>2. QED
        BY <1>1, <2>2, <4>1 DEF Free
    <3>2. i \in Jobs \ (outOfTurn \cup torn)
      BY DEF OnlyOwnJob
    <3>3. QED
      BY <1>6, <2>2, <3>1, <3>2 DEF IndexInv, SetsAgree, ListedAsStored, ListedAs
  <2>3. QED
    BY <2>1, <2>2
<1>11. StoredFirst'
  <2>1. ASSUME NEW i \in projectSet', InTurn(i)' PROVE data'[i] # ABSENT
    <3>1. i \in Jobs
      BY DEF TypeOK
    <3>2. CASE i = j
      BY <1>1, <2>1, <3>2 DEF LeavesInOrder
    <3>3. CASE i # j
      BY <1>5, <1>6, <2>1, <3>1, <3>3 DEF IndexInv, StoredFirst
    <3>4. QED
      BY <3>2, <3>3
  <2>2. ASSUME NEW d \in Clients, InTurn(client[d].job)'
        PROVE  /\ client'[d].pc = "add.project" => data'[client'[d].job] # ABSENT
               /\ client'[d].pc \in {"remove.status", "remove.del"} =>
                    client'[d].job \notin projectSet'
    <3>1. CASE d = c
      BY <1>1, <2>2, <3>1 DEF LeavesInOrder
    <3>2. CASE d # c /\ client[d].job = j
      <4>1. client'[d].pc = "idle"
        BY <1>2, <1>3, <1>5, <2>2, <3>2 DEF Busy
      <4>2. QED
        BY <4>1
    <3>3. CASE d # c /\ client[d].job # j
      <4>1. /\ client'[d] = client[d] /\ data'[client[d].job] = data[client[d].job]
            /\ client[d].job \in projectSet' <=> client[d].job \in projectSet
            /\ InTurn(client[d].job)
        BY <1>3, <1>5, <1>6, <1>7, <2>2, <3>3
      <4>2. QED
        BY <4>1 DEF IndexInv, StoredFirst
    <3>4. QED
      BY <3>1, <3>2, <3>3
  <2>3. QED
    BY <2>1, <2>2 DEF StoredFirst
<1>12. QED
  BY <1>8, <1>9, <1>10, <1>11 DEF IndexInv

\* What Goto does to the records of the clients.
LEMMA GotoMoves ==
  ASSUME TypeOK, NEW c \in Clients, NEW from \in Command, NEW to \in Command,
         Goto(c, from, to)
  PROVE  /\ client' \in [Clients -> [pc : Command, job : Jobs, new : JobStatus,
                                     old : JobStatus \cup {ABSENT}]]
         /\ client[c].pc = from
         /\ client'[c].pc = to /\ client'[c].job = client[c].job
         /\ to # "idle" => client'[c].new = client[c].new /\ client'[c].old = client[c].old
         /\ \A d \in Clients : d # c => client'[d] = client[d]
<1>1. client[c] \in [pc : Command, job : Jobs, new : JobStatus, old : JobStatus \cup {ABSENT}]
  BY DEF TypeOK
<1>2. PENDING \in JobStatus
  BY DEF JobStatus
<1>3. CASE to = "idle"
  <2> DEFINE r == [client[c] EXCEPT !.pc = to, !.new = PENDING, !.old = ABSENT]
  <2>1. client' = [client EXCEPT ![c] = r]
    BY <1>3 DEF Goto
  <2>2. /\ r \in [pc : Command, job : Jobs, new : JobStatus, old : JobStatus \cup {ABSENT}]
        /\ r.pc = to /\ r.job = client[c].job
    BY <1>1, <1>2
  <2> HIDE DEF r
  <2>3. QED
    BY <1>3, <2>1, <2>2 DEF Goto, TypeOK
<1>4. CASE to # "idle"
  <2> DEFINE r == [client[c] EXCEPT !.pc = to]
  <2>1. client' = [client EXCEPT ![c] = r]
    BY <1>4 DEF Goto
  <2>2. /\ r \in [pc : Command, job : Jobs, new : JobStatus, old : JobStatus \cup {ABSENT}]
        /\ r.pc = to /\ r.job = client[c].job /\ r.new = client[c].new /\ r.old = client[c].old
    BY <1>1
  <2> HIDE DEF r
  <2>3. QED
    BY <2>1, <2>2 DEF Goto, TypeOK
<1>5. QED
  BY <1>3, <1>4

\* ... and Get.
LEMMA GetMoves ==
  ASSUME TypeOK, NEW c \in Clients, NEW from \in Command, NEW missing \in Command,
         NEW found \in [JobStatus -> Command], Get(c, from, found, missing)
  PROVE  /\ client' \in [Clients -> [pc : Command, job : Jobs, new : JobStatus,
                                     old : JobStatus \cup {ABSENT}]]
         /\ client[c].pc = from
         /\ client'[c].old = data[client[c].job]
         /\ client'[c].pc = IF data[client[c].job] = ABSENT THEN missing
                            ELSE found[data[client[c].job]]
         /\ client'[c].job = client[c].job /\ client'[c].new = client[c].new
         /\ \A d \in Clients : d # c => client'[d] = client[d]
<1> DEFINE read == data[client[c].job]
           pc == IF read = ABSENT THEN missing ELSE found[read]
           r == [client[c] EXCEPT !.old = read, !.pc = pc]
<1>1. client[c] \in [pc : Command, job : Jobs, new : JobStatus, old : JobStatus \cup {ABSENT}]
  BY DEF TypeOK
<1>2. read \in JobStatus \cup {ABSENT} /\ pc \in Command
  BY <1>1 DEF TypeOK
<1>3. client' = [client EXCEPT ![c] = r] /\ client[c].pc = from
  BY DEF Get
<1> HIDE DEF read, pc
<1>4. /\ r \in [pc : Command, job : Jobs, new : JobStatus, old : JobStatus \cup {ABSENT}]
      /\ r.pc = pc /\ r.job = client[c].job /\ r.new = client[c].new /\ r.old = read
  BY <1>1, <1>2
<1> HIDE DEF r
<1>5. /\ client' \in [Clients -> [pc : Command, job : Jobs, new : JobStatus,
                                  old : JobStatus \cup {ABSENT}]]
      /\ client'[c] = r /\ \A d \in Clients : d # c => client'[d] = client[d]
  BY <1>3, <1>4 DEF TypeOK
<1>6. QED
  BY <1>3, <1>4, <1>5 DEF read, pc

\* Where a job is listed, after SADD and SREM.
LEMMA ListsChange ==
  ASSUME TypeOK, NEW c \in Clients, NEW s \in JobStatus \cup {ABSENT}
  PROVE  /\ SAdd(c, s) /\ s # ABSENT =>
              /\ statusSet' \in [JobStatus -> SUBSET Jobs]
              /\ \A i \in Jobs, r \in JobStatus :
                   i \in statusSet'[r] <=> i \in statusSet[r] \/ (i = client[c].job /\ r = s)
         /\ SRem(c, s) =>
              /\ statusSet' \in [JobStatus -> SUBSET Jobs]
              /\ \A i \in Jobs, r \in JobStatus :
                   i \in statusSet'[r] <=> i \in statusSet[r] /\ ~(i = client[c].job /\ r = s)
<1>1. client[c].job \in Jobs /\ statusSet \in [JobStatus -> SUBSET Jobs]
  BY DEF TypeOK
<1>2. CASE SAdd(c, s) /\ s # ABSENT
  <2>1. \A r \in JobStatus : statusSet'[r] = IF r = s THEN statusSet[r] \cup {client[c].job}
                                            ELSE statusSet[r]
    BY <1>1, <1>2 DEF SAdd
  <2>2. statusSet' \in [JobStatus -> SUBSET Jobs]
    BY <1>1, <1>2 DEF SAdd
  <2>3. ABSENT \notin JobStatus
    BY DEF ABSENT, JobStatus, PENDING, RUNNING, COMPLETED, FAILED, CANCELED, STOPPED
  <2>4. CASE SRem(c, s)
    <3>1. statusSet'[s] = statusSet[s] \cup {client[c].job}
      BY <1>2, <2>1
    <3>2. statusSet'[s] = statusSet[s] \ {client[c].job}
      BY <1>1, <1>2, <2>4 DEF SRem
    <3>3. QED
      BY <3>1, <3>2
  <2>5. QED
    BY <2>1, <2>2, <2>4
<1>3. CASE SRem(c, s)
  <2>1. \A r \in JobStatus : statusSet'[r] = IF r = s THEN statusSet[r] \ {client[c].job}
                                            ELSE statusSet[r]
    BY <1>1, <1>3 DEF SRem
  <2>2. statusSet' \in [JobStatus -> SUBSET Jobs]
    BY <1>1, <1>3 DEF SRem
  <2>3. CASE SAdd(c, s) /\ s # ABSENT
    BY <1>2, <2>3
  <2>4. QED
    BY <2>1, <2>2, <2>3
<1>4. QED
  BY <1>2, <1>3

\* ... and what is stored, after SET and DEL.
LEMMA RecordChanges ==
  ASSUME TypeOK, NEW c \in Clients, NEW s \in JobStatus \cup {ABSENT}, SetData(c, s)
  PROVE  /\ data' \in [Jobs -> JobStatus \cup {ABSENT}]
         /\ data'[client[c].job] = s
         /\ \A i \in Jobs : i # client[c].job => data'[i] = data[i]
  BY DEF TypeOK, SetData

\* No status is written ABSENT.
LEMMA AbsentIsNoStatus == ABSENT \notin JobStatus
  BY DEF ABSENT, JobStatus, PENDING, RUNNING, COMPLETED, FAILED, CANCELED, STOPPED

\* add_job's commands.
LEMMA AddSteps ==
  ASSUME IndexInv, NEW c \in Clients, AddSet(c) \/ AddProject(c) \/ AddStatus(c),
         UNCHANGED history
  PROVE  IndexInv'
<1>1. PICK j \in Jobs : client[c].job = j
  BY DEF IndexInv, TypeOK
<1>2. /\ TypeOK /\ client[c].new \in JobStatus /\ UNCHANGED <<outOfTurn, torn>>
      /\ WorkGoesOn(c) /\ (InTurn(j) /\ client[c].pc = "add.project" => data[j] # ABSENT)
  BY <1>1 DEF IndexInv, TypeOK, history, StoredFirst
<1>3. CASE AddSet(c)
  <2>1. Goto(c, "add.set", "add.project") /\ SetData(c, client[c].new)
        /\ UNCHANGED <<projectSet, statusSet>>
    BY <1>3 DEF AddSet
  <2>2. "add.set" \in Command /\ "add.project" \in Command
    BY DEF Command
  <2>3. TypeOK'
    BY <1>2, <2>1, <2>2, GotoMoves, RecordChanges DEF TypeOK
  <2>4. OnlyOwnJob(c)
    BY <1>2, <2>1, <2>2, GotoMoves, RecordChanges DEF OnlyOwnJob, Busy
  <2>5. data'[j] = client'[c].new /\ client'[c].job = j /\ client[c].pc = "add.set"
        /\ client'[c].pc = "add.project" /\ client'[c].new = client[c].new
    BY <1>1, <1>2, <2>1, <2>2, GotoMoves, RecordChanges
  <2>6. LeavesInOrder(c)'
    BY <1>1, <1>2, <2>1, <2>5, AbsentIsNoStatus
      DEF LeavesInOrder, WorkGoesOn, Busy, AtRest, InTurn, Shown, InProject, ListedAs
  <2>7. QED
    BY <2>3, <2>4, <2>6, OwnJobOnly
<1>4. CASE AddProject(c)
  <2>1. /\ Goto(c, "add.project", "add.status") /\ projectSet' = projectSet \cup {j}
        /\ UNCHANGED <<data, statusSet>>
    BY <1>1, <1>4 DEF AddProject
  <2>2. "add.project" \in Command /\ "add.status" \in Command
    BY DEF Command
  <2>3. TypeOK'
    BY <1>2, <2>1, <2>2, GotoMoves DEF TypeOK
  <2>4. OnlyOwnJob(c)
    BY <1>1, <1>2, <2>1, <2>2, GotoMoves DEF OnlyOwnJob, Busy
  <2>5. client'[c].job = j /\ client[c].pc = "add.project" /\ client'[c].pc = "add.status"
        /\ client'[c].new = client[c].new
    BY <1>1, <1>2, <2>1, <2>2, GotoMoves
  <2>6. LeavesInOrder(c)'
    BY <1>1, <1>2, <2>1, <2>5, AbsentIsNoStatus
      DEF LeavesInOrder, WorkGoesOn, Busy, AtRest, InTurn, Shown, InProject, ListedAs
  <2>7. QED
    BY <2>3, <2>4, <2>6, OwnJobOnly
<1>5. CASE AddStatus(c)
  <2>1. /\ Goto(c, "add.status", "idle") /\ SAdd(c, client[c].new)
        /\ UNCHANGED <<data, projectSet>>
    BY <1>5 DEF AddStatus
  <2>2. "add.status" \in Command /\ "idle" \in Command
    BY DEF Command
  <2>l. /\ statusSet' \in [JobStatus -> SUBSET Jobs]
        /\ \A i \in Jobs, r \in JobStatus :
             i \in statusSet'[r] <=> i \in statusSet[r] \/ (i = j /\ r = client[c].new)
    BY <1>1, <1>2, <2>1, ListsChange, AbsentIsNoStatus
  <2>3. TypeOK'
    BY <1>2, <2>1, <2>2, <2>l, GotoMoves DEF TypeOK
  <2>4. OnlyOwnJob(c)
    BY <1>1, <1>2, <2>1, <2>2, <2>l, GotoMoves DEF OnlyOwnJob, Busy
  <2>5. client'[c].job = j /\ client[c].pc = "add.status" /\ client'[c].pc = "idle"
    BY <1>1, <1>2, <2>1, <2>2, GotoMoves
  <2>6. AtRest(j) => ListedAs(j, ABSENT) /\ j \in projectSet /\ data[j] = client[c].new
    BY <1>1, <1>2, <2>5 DEF WorkGoesOn, Busy, Shown, InProject
  <2>7. AtRest(j)' => ListedAsStored(j)'
    BY <1>1, <1>2, <2>1, <2>l, <2>6, AbsentIsNoStatus DEF AtRest, ListedAsStored, ListedAs
  <2>8. LeavesInOrder(c)'
    BY <1>1, <1>2, <2>1, <2>5, <2>7 DEF LeavesInOrder, Busy, InTurn, IndexInv, StoredFirst
  <2>9. QED
    BY <2>3, <2>4, <2>8, OwnJobOnly
<1>6. QED
  BY <1>3, <1>4, <1>5

\* update_job's commands.
LEMMA UpdateSteps ==
  ASSUME IndexInv, NEW c \in Clients,
         UpdateGet(c) \/ UpdateSRem(c) \/ UpdateSAdd(c) \/ UpdateSet(c),
         UNCHANGED history
  PROVE  IndexInv'
<1>1. PICK j \in Jobs : client[c].job = j
  BY DEF IndexInv, TypeOK
<1>2. /\ TypeOK /\ client[c].new \in JobStatus /\ client[c].old \in JobStatus \cup {ABSENT}
      /\ UNCHANGED <<outOfTurn, torn>> /\ WorkGoesOn(c)
      /\ InTurn(j) => /\ j \in projectSet => data[j] # ABSENT
                      /\ client[c].pc \in {"remove.status", "remove.del"} => j \notin projectSet
  BY <1>1 DEF IndexInv, TypeOK, history, StoredFirst
<1>3. CASE UpdateGet(c)
  <2> DEFINE found == [s \in JobStatus |-> IF s = client[c].new THEN "update.set"
                                    ELSE "update.srem"]
  <2>1. Get(c, "update.get", found, "update.set") /\ UNCHANGED <<data, projectSet, statusSet>>
    BY <1>3 DEF UpdateGet, Get
  <2>2. "update.get" \in Command /\ "update.set" \in Command /\ found \in [JobStatus -> Command]
    BY DEF Command
  <2>3. data[j] \in JobStatus \cup {ABSENT}
    BY <1>2 DEF TypeOK
  <2> HIDE DEF found
  <2>4. /\ client[c].pc = "update.get" /\ client'[c].job = j
        /\ client'[c].new = client[c].new /\ client'[c].old = data[j]
        /\ client'[c].pc = IF data[j] = ABSENT THEN "update.set" ELSE found[data[j]]
    BY <1>1, <1>2, <2>1, <2>2, GetMoves
  <2>5. TypeOK'
    BY <1>2, <2>1, <2>2, GetMoves DEF TypeOK
  <2>6. OnlyOwnJob(c)
    BY <1>1, <1>2, <2>1, <2>2, <2>4, GetMoves DEF OnlyOwnJob, Busy
  <2>7. client'[c].pc = IF data[j] = ABSENT THEN "update.set" ELSE IF data[j] = client[c].new
                              THEN "update.set" ELSE "update.srem"
    BY <2>3, <2>4 DEF found
  <2>8. LeavesInOrder(c)'
    BY <1>1, <1>2, <2>1, <2>3, <2>4, <2>7, AbsentIsNoStatus
      DEF LeavesInOrder, WorkGoesOn, Busy, AtRest, InTurn, Shown, InProject, ListedAs
  <2>9. QED
    BY <2>5, <2>6, <2>8, OwnJobOnly
<1>4. CASE UpdateSRem(c)
  <2>1. /\ Goto(c, "update.srem", "update.sadd")
        /\ SRem(c, client[c].old) /\ UNCHANGED <<data, projectSet>>
    BY <1>1, <1>4 DEF UpdateSRem
  <2>2. "update.srem" \in Command /\ "update.sadd" \in Command
    BY DEF Command
  <2>3. /\ statusSet' \in [JobStatus -> SUBSET Jobs]
        /\ \A i \in Jobs, r \in JobStatus :
             i \in statusSet'[r] <=> i \in statusSet[r] /\ ~(i = j /\ r = client[c].old)
    BY <1>1, <1>2, <2>1, ListsChange
  <2>4. /\ client[c].pc = "update.srem" /\ client'[c].pc = "update.sadd" /\ client'[c].job = j
        /\ client'[c].new = client[c].new /\ client'[c].old = client[c].old
    BY <1>1, <1>2, <2>1, <2>2, GotoMoves
  <2>5. TypeOK'
    BY <1>1, <1>2, <2>1, <2>2, <2>3, GotoMoves DEF TypeOK
  <2>6. OnlyOwnJob(c)
    BY <1>1, <1>2, <2>1, <2>2, <2>3, <2>4, GotoMoves DEF OnlyOwnJob, Busy
  <2>7. LeavesInOrder(c)'
    BY <1>1, <1>2, <2>1, <2>3, <2>4, AbsentIsNoStatus
      DEF LeavesInOrder, WorkGoesOn, Busy, AtRest, InTurn, Shown, InProject, ListedAs
  <2>8. QED
    BY <2>5, <2>6, <2>7, OwnJobOnly
<1>5. CASE UpdateSAdd(c)
  <2>1. /\ Goto(c, "update.sadd", "update.set")
        /\ SAdd(c, client[c].new) /\ UNCHANGED <<data, projectSet>>
    BY <1>1, <1>5 DEF UpdateSAdd
  <2>2. "update.sadd" \in Command /\ "update.set" \in Command
    BY DEF Command
  <2>3. /\ statusSet' \in [JobStatus -> SUBSET Jobs]
        /\ \A i \in Jobs, r \in JobStatus :
             i \in statusSet'[r] <=> i \in statusSet[r] \/ (i = j /\ r = client[c].new)
    BY <1>1, <1>2, <2>1, ListsChange, AbsentIsNoStatus
  <2>4. /\ client[c].pc = "update.sadd" /\ client'[c].pc = "update.set" /\ client'[c].job = j
        /\ client'[c].new = client[c].new /\ client'[c].old = client[c].old
    BY <1>1, <1>2, <2>1, <2>2, GotoMoves
  <2>5. TypeOK'
    BY <1>1, <1>2, <2>1, <2>2, <2>3, GotoMoves DEF TypeOK
  <2>6. OnlyOwnJob(c)
    BY <1>1, <1>2, <2>1, <2>2, <2>3, <2>4, GotoMoves DEF OnlyOwnJob, Busy
  <2>7. LeavesInOrder(c)'
    BY <1>1, <1>2, <2>1, <2>3, <2>4, AbsentIsNoStatus
      DEF LeavesInOrder, WorkGoesOn, Busy, AtRest, InTurn, Shown, InProject, ListedAs
  <2>8. QED
    BY <2>5, <2>6, <2>7, OwnJobOnly
<1>6. CASE UpdateSet(c)
  <2>1. /\ Goto(c, "update.set", "idle")
        /\ SetData(c, client[c].new) /\ UNCHANGED <<projectSet, statusSet>>
    BY <1>1, <1>6 DEF UpdateSet
  <2>2. "update.set" \in Command /\ "idle" \in Command
    BY DEF Command
  <2>3. /\ data' \in [Jobs -> JobStatus \cup {ABSENT}]
        /\ data'[j] = client[c].new /\ \A i \in Jobs : i # j => data'[i] = data[i]
    BY <1>1, <1>2, <2>1, RecordChanges
  <2>4. /\ client[c].pc = "update.set" /\ client'[c].pc = "idle" /\ client'[c].job = j
    BY <1>1, <1>2, <2>1, <2>2, GotoMoves
  <2>5. TypeOK'
    BY <1>1, <1>2, <2>1, <2>2, <2>3, GotoMoves DEF TypeOK
  <2>6. OnlyOwnJob(c)
    BY <1>1, <1>2, <2>1, <2>2, <2>3, <2>4, GotoMoves DEF OnlyOwnJob, Busy
  <2>7. LeavesInOrder(c)'
    BY <1>1, <1>2, <2>1, <2>3, <2>4, AbsentIsNoStatus
      DEF LeavesInOrder, WorkGoesOn, Busy, AtRest, InTurn, Shown, InProject, ListedAs,
          ListedAsStored
  <2>8. QED
    BY <2>5, <2>6, <2>7, OwnJobOnly
<1>7. QED
  BY <1>3, <1>4, <1>5, <1>6

\* remove_job's commands.
LEMMA RemoveSteps ==
  ASSUME IndexInv, NEW c \in Clients,
         RemoveGet(c) \/ RemoveProject(c) \/ RemoveStatus(c) \/ RemoveDel(c),
         UNCHANGED history
  PROVE  IndexInv'
<1>1. PICK j \in Jobs : client[c].job = j
  BY DEF IndexInv, TypeOK
<1>2. /\ TypeOK /\ client[c].new \in JobStatus /\ client[c].old \in JobStatus \cup {ABSENT}
      /\ UNCHANGED <<outOfTurn, torn>> /\ WorkGoesOn(c)
      /\ InTurn(j) => /\ j \in projectSet => data[j] # ABSENT
                      /\ client[c].pc \in {"remove.status", "remove.del"} => j \notin projectSet
  BY <1>1 DEF IndexInv, TypeOK, history, StoredFirst
<1>3. CASE RemoveGet(c)
  <2> DEFINE found == [s \in JobStatus |-> "remove.project"]
  <2>1. Get(c, "remove.get", found, "remove.del") /\ UNCHANGED <<data, projectSet, statusSet>>
    BY <1>3 DEF RemoveGet, Get
  <2>2. "remove.get" \in Command /\ "remove.del" \in Command /\ found \in [JobStatus -> Command]
    BY DEF Command
  <2>3. data[j] \in JobStatus \cup {ABSENT}
    BY <1>2 DEF TypeOK
  <2> HIDE DEF found
  <2>4. /\ client[c].pc = "remove.get" /\ client'[c].job = j
        /\ client'[c].new = client[c].new /\ client'[c].old = data[j]
        /\ client'[c].pc = IF data[j] = ABSENT THEN "remove.del" ELSE found[data[j]]
    BY <1>1, <1>2, <2>1, <2>2, GetMoves
  <2>5. TypeOK'
    BY <1>2, <2>1, <2>2, GetMoves DEF TypeOK
  <2>6. OnlyOwnJob(c)
    BY <1>1, <1>2, <2>1, <2>2, <2>4, GetMoves DEF OnlyOwnJob, Busy
  <2>7. client'[c].pc = IF data[j] = ABSENT THEN "remove.del" ELSE "remove.project"
    BY <2>3, <2>4 DEF found
  <2>8. LeavesInOrder(c)'
    BY <1>1, <1>2, <2>1, <2>3, <2>4, <2>7, AbsentIsNoStatus
      DEF LeavesInOrder, WorkGoesOn, Busy, AtRest, InTurn, Shown, InProject, ListedAs
  <2>9. QED
    BY <2>5, <2>6, <2>8, OwnJobOnly
<1>4. CASE RemoveProject(c)
  <2>1. /\ Goto(c, "remove.project", "remove.status")
        /\ projectSet' = projectSet \ {j} /\ UNCHANGED <<data, statusSet>>
    BY <1>1, <1>4 DEF RemoveProject
  <2>2. "remove.project" \in Command /\ "remove.status" \in Command
    BY DEF Command
  <2>3. projectSet' \subseteq projectSet
    BY <1>1, <1>2, <2>1, GotoMoves
  <2>4. /\ client[c].pc = "remove.project" /\ client'[c].pc = "remove.status" /\ client'[c].job = j
        /\ client'[c].new = client[c].new /\ client'[c].old = client[c].old
    BY <1>1, <1>2, <2>1, <2>2, GotoMoves
  <2>5. TypeOK'
    BY <1>1, <1>2, <2>1, <2>2, <2>3, GotoMoves DEF TypeOK
  <2>6. OnlyOwnJob(c)
    BY <1>1, <1>2, <2>1, <2>2, <2>3, <2>4, GotoMoves DEF OnlyOwnJob, Busy
  <2>7. LeavesInOrder(c)'
    BY <1>1, <1>2, <2>1, <2>3, <2>4, AbsentIsNoStatus
      DEF LeavesInOrder, WorkGoesOn, Busy, AtRest, InTurn, Shown, InProject, ListedAs
  <2>8. QED
    BY <2>5, <2>6, <2>7, OwnJobOnly
<1>5. CASE RemoveStatus(c)
  <2>1. /\ Goto(c, "remove.status", "remove.del")
        /\ SRem(c, client[c].old) /\ UNCHANGED <<data, projectSet>>
    BY <1>1, <1>5 DEF RemoveStatus
  <2>2. "remove.status" \in Command /\ "remove.del" \in Command
    BY DEF Command
  <2>3. /\ statusSet' \in [JobStatus -> SUBSET Jobs]
        /\ \A i \in Jobs, r \in JobStatus :
             i \in statusSet'[r] <=> i \in statusSet[r] /\ ~(i = j /\ r = client[c].old)
    BY <1>1, <1>2, <2>1, ListsChange
  <2>4. /\ client[c].pc = "remove.status" /\ client'[c].pc = "remove.del" /\ client'[c].job = j
        /\ client'[c].new = client[c].new /\ client'[c].old = client[c].old
    BY <1>1, <1>2, <2>1, <2>2, GotoMoves
  <2>5. TypeOK'
    BY <1>1, <1>2, <2>1, <2>2, <2>3, GotoMoves DEF TypeOK
  <2>6. OnlyOwnJob(c)
    BY <1>1, <1>2, <2>1, <2>2, <2>3, <2>4, GotoMoves DEF OnlyOwnJob, Busy
  <2>7. LeavesInOrder(c)'
    BY <1>1, <1>2, <2>1, <2>3, <2>4, AbsentIsNoStatus
      DEF LeavesInOrder, WorkGoesOn, Busy, AtRest, InTurn, Shown, InProject, ListedAs
  <2>8. QED
    BY <2>5, <2>6, <2>7, OwnJobOnly
<1>6. CASE RemoveDel(c)
  <2>1. /\ Goto(c, "remove.del", "idle")
        /\ SetData(c, ABSENT) /\ UNCHANGED <<projectSet, statusSet>>
    BY <1>1, <1>6 DEF RemoveDel
  <2>2. "remove.del" \in Command /\ "idle" \in Command
    BY DEF Command
  <2>3. /\ data' \in [Jobs -> JobStatus \cup {ABSENT}]
        /\ data'[j] = ABSENT /\ \A i \in Jobs : i # j => data'[i] = data[i]
    BY <1>1, <1>2, <2>1, RecordChanges
  <2>4. /\ client[c].pc = "remove.del" /\ client'[c].pc = "idle" /\ client'[c].job = j
    BY <1>1, <1>2, <2>1, <2>2, GotoMoves
  <2>5. TypeOK'
    BY <1>1, <1>2, <2>1, <2>2, <2>3, GotoMoves DEF TypeOK
  <2>6. OnlyOwnJob(c)
    BY <1>1, <1>2, <2>1, <2>2, <2>3, <2>4, GotoMoves DEF OnlyOwnJob, Busy
  <2>7. LeavesInOrder(c)'
    BY <1>1, <1>2, <2>1, <2>3, <2>4, AbsentIsNoStatus
      DEF LeavesInOrder, WorkGoesOn, Busy, AtRest, InTurn, Shown, InProject, ListedAs,
          ListedAsStored
  <2>8. QED
    BY <2>5, <2>6, <2>7, OwnJobOnly
<1>7. QED
  BY <1>3, <1>4, <1>5, <1>6

\* A client dies between two commands: its job is no longer at rest.
LEMMA CrashStep ==
  ASSUME IndexInv, NEW c \in Clients, Crash(c)
  PROVE  IndexInv'
<1>1. PICK j \in Jobs : client[c].job = j
  BY DEF IndexInv, TypeOK
<1>2. /\ TypeOK /\ Goto(c, client[c].pc, "idle") /\ Busy(c) /\ torn' = torn \cup {j}
      /\ UNCHANGED <<data, projectSet, statusSet, outOfTurn>>
  BY <1>1 DEF IndexInv, Crash
<1>3. client[c].pc \in Command /\ "idle" \in Command
  BY <1>2 DEF TypeOK, Command
<1>4. TypeOK'
  BY <1>2, <1>3, GotoMoves DEF TypeOK
<1>5. client'[c].job = j /\ client'[c].pc = "idle"
  BY <1>1, <1>2, <1>3, GotoMoves
<1>6. OnlyOwnJob(c)
  BY <1>1, <1>2, <1>3, <1>5, GotoMoves DEF OnlyOwnJob
<1>7. LeavesInOrder(c)'
  BY <1>1, <1>2, <1>5 DEF LeavesInOrder, AtRest, InTurn, IndexInv, StoredFirst
<1>8. QED
  BY <1>4, <1>6, <1>7, OwnJobOnly

\* An operation begins, in turn only if nobody is at work on its job.
LEMMA BeginStep ==
  ASSUME IndexInv, NEW c \in Clients, NEW j \in Jobs, NEW s \in JobStatus, NEW inTurn,
         NEW pc, Begin(c, pc, j, s, inTurn),
         \/ pc = "add.set" /\ (inTurn <=> data[j] = ABSENT)
         \/ pc = "update.get" /\ (inTurn <=> data[j] # ABSENT)
         \/ pc = "remove.get"
  PROVE  IndexInv'
<1>1. /\ TypeOK /\ pc \in Command /\ pc # "idle"
      /\ UNCHANGED <<data, projectSet, statusSet, torn>>
  BY DEF IndexInv, Begin, Command
<1>2. client'[c] = [pc |-> pc, job |-> j, new |-> s, old |-> ABSENT]
      /\ \A d \in Clients : d # c => client'[d] = client[d]
  BY <1>1 DEF Begin, TypeOK
<1>3. outOfTurn \subseteq outOfTurn' /\ outOfTurn' \subseteq outOfTurn \cup {j}
      /\ (InTurn(j)' => inTurn /\ Free(j))
  BY DEF Begin, InTurn
<1>4. TypeOK'
  <2>1. [pc |-> pc, job |-> j, new |-> s, old |-> ABSENT]
          \in [pc : Command, job : Jobs, new : JobStatus, old : JobStatus \cup {ABSENT}]
    BY <1>1
  <2>2. client' \in [Clients -> [pc : Command, job : Jobs, new : JobStatus,
                                old : JobStatus \cup {ABSENT}]]
    BY <1>1, <2>1 DEF Begin, TypeOK
  <2>3. QED
    BY <1>1, <1>3, <2>2 DEF TypeOK
<1>5. OneAtATime'
  <2> SUFFICES ASSUME NEW d \in Clients, NEW e \in Clients, d # e, Busy(d)', Busy(e)',
                      client'[d].job = client'[e].job, InTurn(client[d].job)'
               PROVE  FALSE
    BY DEF OneAtATime
  <2>1. CASE d # c /\ e # c
    BY <1>2, <1>3, <2>1 DEF IndexInv, OneAtATime, Busy, InTurn
  <2>2. ASSUME NEW x \in {d, e}, x # c, client'[x].job = j PROVE FALSE
    BY <1>2, <1>3, <2>2 DEF Free, Busy
  <2>3. QED
    BY <1>2, <2>1, <2>2
<1>6. ASSUME NEW d \in Clients PROVE WorkGoesOn(d)'
  <2>1. CASE d = c
    <3> SUFFICES ASSUME AtRest(j)' PROVE WorkGoesOn(c)'
      BY <1>2, <2>1 DEF WorkGoesOn
    <3>1. inTurn /\ Free(j) /\ AtRest(j)
      BY <1>1, <1>3 DEF AtRest, InTurn
    <3>2. ListedAsStored(j)
      BY <3>1 DEF IndexInv, SetsAgree, ListedAsStored, ListedAs, AtRest
    <3>3. QED
      BY <1>1, <1>2, <3>1, <3>2
        DEF WorkGoesOn, ListedAsStored, ListedAs, Shown, InProject, Busy
  <2>2. CASE d # c
    <3>1. client'[d] = client[d] /\ WorkGoesOn(d)
          /\ (AtRest(client[d].job)' => AtRest(client[d].job))
      BY <1>1, <1>2, <1>3, <2>2 DEF IndexInv, AtRest
    <3>2. QED
      BY <1>1, <3>1 DEF WorkGoesOn, Shown, InProject, ListedAs, Busy
  <2>3. QED
    BY <2>1, <2>2
<1>7. SetsAgree'
  <2>1. \A i \in Jobs : AtRest(i)' /\ Free(i)' => AtRest(i) /\ Free(i)
    <3>1. \A d \in Clients : Busy(d) => Busy(d)' /\ client'[d].job = client[d].job
      BY <1>2 DEF Begin, Busy
    <3>2. QED
      BY <1>1, <1>3, <3>1 DEF AtRest, Free
  <2>2. QED
    BY <1>1, <2>1 DEF IndexInv, SetsAgree, AtRest
<1>8. StoredFirst'
  <2>1. \A i : InTurn(i)' => InTurn(i)
    BY <1>3 DEF InTurn
  <2>2. QED
    BY <1>1, <1>2, <2>1 DEF IndexInv, StoredFirst
<1>9. QED
  BY <1>4, <1>5, <1>6, <1>7, <1>8 DEF IndexInv

\* At first no job is stored, nor listed.
LEMMA IndexStarts == Init => IndexInv
<1> SUFFICES ASSUME Init PROVE IndexInv
  OBVIOUS
<1>1. TypeOK /\ \A c \in Clients : client[c].pc = "idle"
  BY DEF Init, TypeOK, Command, JobStatus
<1>2. QED
  BY <1>1, AbsentIsNoStatus
    DEF Init, IndexInv, OneAtATime, WorkGoesOn, SetsAgree, StoredFirst, Busy

\* Every command, of any client, keeps the invariant.
LEMMA IndexNext == IndexInv /\ [Next]_vars => IndexInv'
<1> SUFFICES ASSUME IndexInv, [Next]_vars PROVE IndexInv'
  OBVIOUS
<1>1. ASSUME NEW c \in Clients, Continue(c) PROVE IndexInv'
  BY <1>1, AddSteps, UpdateSteps, RemoveSteps DEF Continue
<1>2. ASSUME NEW c \in Clients, Crash(c) PROVE IndexInv'
  BY <1>2, CrashStep
<1>3. ASSUME NEW c \in Clients, NEW j \in Jobs, AddJob(c, j) PROVE IndexInv'
  <2>1. Begin(c, "add.set", j, PENDING, data[j] = ABSENT) /\ PENDING \in JobStatus
    BY <1>3 DEF AddJob, JobStatus
  <2>2. QED
    BY <2>1, BeginStep
<1>4. ASSUME NEW c \in Clients, NEW j \in Jobs, RemoveJob(c, j) PROVE IndexInv'
  <2>1. Begin(c, "remove.get", j, PENDING, TRUE) /\ PENDING \in JobStatus
    BY <1>4 DEF RemoveJob, JobStatus
  <2>2. QED
    BY <2>1, BeginStep
<1>5. ASSUME NEW c \in Clients, NEW j \in Jobs, NEW s \in Written, UpdateJob(c, j, s)
      PROVE  IndexInv'
  <2>1. Begin(c, "update.get", j, s, data[j] # ABSENT) /\ s \in JobStatus
    BY <1>5, WrittenAssumption DEF UpdateJob
  <2>2. QED
    BY <2>1, BeginStep
<1>6. CASE UNCHANGED vars
  BY <1>6 DEF vars, IndexInv, TypeOK, OneAtATime, WorkGoesOn, SetsAgree, StoredFirst, Busy, Free,
              InTurn, AtRest, Shown, InProject, ListedAs
<1>7. QED
  BY <1>1, <1>2, <1>3, <1>4, <1>5, <1>6 DEF Next

\* The sets that the scheduler counts and lists agree with the records of all jobs at rest,
\* and list none of them twice or before it is stored, however the commands of any number
\* of clients interleave and whichever of them die, but for the jobs that two operations
\* met at.
THEOREM IndexesAlwaysAgree == Spec => []IndexAgrees
<1>1. Init => IndexInv
  BY IndexStarts
<1>2. IndexInv /\ [Next]_vars => IndexInv'
  BY IndexNext
<1>3. IndexInv => IndexAgrees
  <2> SUFFICES ASSUME IndexInv PROVE ListsAreSound
    BY DEF IndexInv, IndexAgrees
  <2>1. \A j \in projectSet \ outOfTurn : data[j] # ABSENT
    BY DEF IndexInv, StoredFirst, InTurn
  <2>2. ASSUME NEW s \in JobStatus, NEW r \in JobStatus, s # r, NEW j \in statusSet[s],
               j \in statusSet[r], AtRest(j)
        PROVE  FALSE
    <3>1. j \in Jobs
      BY DEF IndexInv, TypeOK
    <3>2. CASE Free(j)
      BY <2>2, <3>1, <3>2 DEF IndexInv, SetsAgree, AtRest
    <3>3. CASE ~Free(j)
      <4>1. PICK c \in Clients : Busy(c) /\ client[c].job = j
        BY <3>3 DEF Free
      <4>2. ListedAs(j, Shown(c))
        BY <2>2, <4>1 DEF IndexInv, WorkGoesOn
      <4>3. QED
        BY <2>2, <4>2 DEF ListedAs
    <3>4. QED
      BY <3>2, <3>3
  <2>3. QED
    BY <2>1, <2>2 DEF ListsAreSound, AtRest
<1>4. QED
  BY <1>1, <1>2, <1>3, PTL DEF Spec

--------------------------------------------------------------------------------
(* The log of events                                                           *)

Lines == LinesOf(log)

Appending(c) == access[c].at \in {"append", "put"}

\* What an access under way is: a write has a place within its document, an append its
\* own line.
AccessesKnown == \A c \in Writers :
  LET r == access[c]
  IN  /\ r.at \in {"opened", "unlinked"} => r.length \in Lengths /\ r.place < r.length
      /\ r.at = "opened" => document \in Seq(Piece)
      /\ r.at = "put" => backend = "objects"
      /\ Appending(c) => /\ r.line \in 1..accesses
                         /\ busLock[ProcessOf[c]] = c
                         /\ ProcessOf[c] \in appenders
                         /\ \A d \in Writers : d # c /\ Appending(d) => access[d].line # r.line

\* Where appends cannot meet: in a file, or in an object of a single process.
AppendsInTurn == backend = "files" \/ \E p : appenders \subseteq {p}

\* The log has what was appended, each line once, and nothing of the appends under way; what
\* was read of it is still what there is.
LogIsWhole ==
  /\ \A i \in DOMAIN Lines : Lines[i] \in 1..accesses
  /\ \A i, k \in DOMAIN Lines : Lines[i] = Lines[k] => i = k
  /\ \A l \in appended : \E i \in DOMAIN Lines : Lines[i] = l
  /\ \A c \in Writers :
       /\ Appending(c) => \A i \in DOMAIN Lines : Lines[i] # access[c].line
       /\ access[c].at = "put" => access[c].seen = Lines

StorageInv ==
  /\ StorageTypeOK
  /\ document = NoFile \/ document \in Seq(Piece)
  /\ IsFiniteSet(appenders)
  /\ AccessesKnown
  /\ AppendsInTurn => LogIsWhole

\* The records of the accesses.
Accesses == [Writers -> [at : {"idle", "opened", "unlinked", "append", "put"},
                         line : 0..MaxAccesses, length : Lengths \cup {0}, place : Nat,
                         seen : Seq(1..MaxAccesses)]]

\* What the invariant says of the log stays, if neither the log nor an append changes.
LEMMA WritesSpareTheLog ==
  ASSUME StorageInv, NEW record, StorageTypeOK',
         document' = NoFile \/ document' \in Seq(Piece),
         UNCHANGED <<backend, log, busLock, appended, appenders>>,
         accesses' \in {accesses, accesses + 1},
         access' = [c \in Writers |-> record[c]],
         \A c \in Writers :
           \/ record[c] = access[c] /\ (access[c].at = "opened" => document' \in Seq(Piece))
           \/ /\ record[c].at \in {"idle", "opened", "unlinked"}
              /\ access[c].at \in {"idle", "opened", "unlinked"}
              /\ record[c].at \in {"opened", "unlinked"} =>
                   record[c].length \in Lengths /\ record[c].place < record[c].length
              /\ record[c].at = "opened" => document' \in Seq(Piece)
  PROVE  StorageInv'
<1>1. \A c \in Writers : Appending(c)' => Appending(c) /\ access'[c] = access[c]
  BY DEF Appending
<1>2. accesses \in Nat /\ accesses' \in Nat /\ accesses <= accesses'
  BY StorageAssumption DEF StorageInv, StorageTypeOK
<1>3. 1..accesses \subseteq 1..accesses'
  BY <1>2
<1>4. AccessesKnown'
  <2> SUFFICES ASSUME NEW c \in Writers
               PROVE  /\ access'[c].at \in {"opened", "unlinked"} =>
                           access'[c].length \in Lengths /\ access'[c].place < access'[c].length
                      /\ access'[c].at = "opened" => document' \in Seq(Piece)
                      /\ access'[c].at = "put" => backend' = "objects"
                      /\ Appending(c)' =>
                           /\ access'[c].line \in 1..accesses'
                           /\ busLock'[ProcessOf[c]] = c
                           /\ ProcessOf[c] \in appenders'
                           /\ \A d \in Writers :
                                d # c /\ Appending(d)' => access'[d].line # access'[c].line
    BY DEF AccessesKnown, Piece, Hole
  <2>1. /\ access[c].at \in {"opened", "unlinked"} =>
             access[c].length \in Lengths /\ access[c].place < access[c].length
        /\ access[c].at = "put" => backend = "objects"
        /\ Appending(c) => /\ access[c].line \in 1..accesses
                           /\ busLock[ProcessOf[c]] = c
                           /\ ProcessOf[c] \in appenders
                           /\ \A d \in Writers : d # c /\ Appending(d) =>
                                access[d].line # access[c].line
    BY DEF StorageInv, AccessesKnown
  <2>2. access'[c] = record[c]
    OBVIOUS
  <2>3. CASE record[c] = access[c] /\ (access[c].at = "opened" => document' \in Seq(Piece))
    BY <1>1, <1>3, <2>1, <2>2, <2>3
  <2>4. CASE record[c] # access[c]
    BY <2>2, <2>4 DEF Appending
  <2>5. QED
    BY <2>3, <2>4, <2>2 DEF Appending
<1>5. AppendsInTurn' => LogIsWhole'
  <2> SUFFICES ASSUME AppendsInTurn' PROVE LogIsWhole'
    OBVIOUS
  <2>1. LogIsWhole /\ Lines' = Lines
    BY DEF AppendsInTurn, StorageInv, Lines, LinesOf
  <2>2. \A c \in Writers : access'[c].at = "put" => access[c].at = "put" /\ access'[c] = access[c]
    BY <1>1 DEF Appending
  <2>3. QED
    BY <1>1, <1>3, <2>1, <2>2 DEF LogIsWhole
<1>6. QED
  BY <1>4, <1>5 DEF StorageInv

\* What is written of a document is made of pieces.
LEMMA DocumentsAreOfPieces ==
  /\ \A n \in Lengths : Dumped(n) \in Seq(Piece)
  /\ \A text \in Seq(Piece), i \in Nat \ {0}, piece \in Piece :
       Overlaid(text, i, piece) \in Seq(Piece)
  /\ \A text \in Seq(Piece) : \A i \in DOMAIN text : text[i] \in Piece
<1>1. ASSUME NEW n \in Lengths PROVE Dumped(n) \in Seq(Piece)
  <2>1. n \in Nat
    BY StorageAssumption
  <2>2. \A i \in 1..n : [length |-> n, place |-> i] \in Piece
    <3>1. [length : {n}, place : 1..n] \subseteq Piece
      BY DEF Piece
    <3>2. QED
      BY <3>1
  <2>3. QED
    BY <2>1, <2>2 DEF Dumped
<1>2. ASSUME NEW text \in Seq(Piece), NEW i \in Nat \ {0}, NEW piece \in Piece
      PROVE  Overlaid(text, i, piece) \in Seq(Piece)
  <2> DEFINE m == IF i > Len(text) THEN i ELSE Len(text)
  <2>1. m \in Nat
    OBVIOUS
  <2>2. \A k \in 1..m :
          (IF k = i THEN piece ELSE IF k <= Len(text) THEN text[k] ELSE Hole) \in Piece
    <3>1. Hole \in Piece
      BY DEF Piece
    <3>2. \A k \in 1..Len(text) : text[k] \in Piece
      OBVIOUS
    <3> HIDE DEF m
    <3>3. QED
      BY <2>1, <3>1, <3>2
  <2> HIDE DEF m
  <2>3. QED
    BY <2>1, <2>2 DEF Overlaid, m
<1>3. QED
  BY <1>1, <1>2

\* The fields of an access.
LEMMA AccessFields ==
  ASSUME StorageTypeOK, NEW c \in Writers
  PROVE  /\ access[c].at \in {"idle", "opened", "unlinked", "append", "put"}
         /\ access[c].line \in 0..MaxAccesses /\ access[c].length \in Lengths \cup {0}
         /\ access[c].place \in Nat /\ access[c].seen \in Seq(1..MaxAccesses)
         /\ access[c] \in [at : {"idle", "opened", "unlinked", "append", "put"},
                           line : 0..MaxAccesses, length : Lengths \cup {0}, place : Nat,
                           seen : Seq(1..MaxAccesses)]
  BY DEF StorageTypeOK

\* A call that has not begun.
LEMMA NoAccessType ==
  /\ NoAccess \in [at : {"idle", "opened", "unlinked", "append", "put"},
                   line : 0..MaxAccesses, length : Lengths \cup {0}, place : Nat,
                   seen : Seq(1..MaxAccesses)]
  /\ NoAccess.at = "idle"
<1>1. 0 \in 0..MaxAccesses /\ << >> \in Seq(1..MaxAccesses)
  BY StorageAssumption
<1>2. QED
  BY <1>1 DEF NoAccess

\* A new call counts.
LEMMA NewAccessCounts ==
  ASSUME StorageTypeOK, NEW c \in Writers, NewAccess(c)
  PROVE  /\ accesses' = accesses + 1 /\ accesses' \in 0..MaxAccesses
         /\ accesses' \in 1..MaxAccesses /\ access[c].at = "idle"
  BY StorageAssumption DEF StorageTypeOK, NewAccess, AccessAt

\* write opens a file.
LEMMA OpenToWriteStep ==
  ASSUME StorageInv, NEW c \in Writers, OpenToWrite(c)
  PROVE  StorageInv'
<1>1. /\ StorageTypeOK /\ accesses' = accesses + 1 /\ accesses' \in 0..MaxAccesses
      /\ access[c].at = "idle"
  BY NewAccessCounts DEF StorageInv, OpenToWrite
<1>2. PICK n \in Lengths : AccessMoves(c, [NoAccess EXCEPT !.at = "opened", !.length = n])
  BY DEF OpenToWrite
<1> DEFINE r == [NoAccess EXCEPT !.at = "opened", !.length = n]
<1>3. /\ r \in [at : {"idle", "opened", "unlinked", "append", "put"},
                line : 0..MaxAccesses, length : Lengths \cup {0}, place : Nat,
                seen : Seq(1..MaxAccesses)]
      /\ r.at = "opened" /\ r.length = n /\ r.place = 0
  BY NoAccessType DEF NoAccess
<1>4. access' = [access EXCEPT ![c] = r]
  BY <1>2 DEF AccessMoves
<1> HIDE DEF r
<1>5. document' = << >> /\ UNCHANGED <<backend, log, busLock, kills, appended, appenders>>
  BY DEF OpenToWrite, storageHistory
<1>6. << >> \in Seq(Piece)
  OBVIOUS
<1>7. StorageTypeOK'
  <2>1. access' \in Accesses
    BY <1>1, <1>3, <1>4 DEF StorageTypeOK, Accesses
  <2>2. QED
    BY <1>1, <1>5, <2>1 DEF StorageTypeOK, Accesses
<1> DEFINE record == [d \in Writers |-> IF d = c THEN r ELSE access[d]]
<1>8. access' = [d \in Writers |-> record[d]]
  BY <1>1, <1>4 DEF StorageTypeOK
<1>9. n \in Nat \ {0}
  BY StorageAssumption
<1>10. \A d \in Writers :
         \/ record[d] = access[d] /\ (access[d].at = "opened" => document' \in Seq(Piece))
         \/ /\ record[d].at \in {"idle", "opened", "unlinked"}
            /\ access[d].at \in {"idle", "opened", "unlinked"}
            /\ record[d].at \in {"opened", "unlinked"} =>
                 record[d].length \in Lengths /\ record[d].place < record[d].length
            /\ record[d].at = "opened" => document' \in Seq(Piece)
  BY <1>1, <1>3, <1>5, <1>6, <1>9
<1> HIDE DEF record
<1>11. QED
  BY <1>1, <1>5, <1>6, <1>7, <1>8, <1>10, WritesSpareTheLog

\* A piece of a document is written.
LEMMA WritePieceStep ==
  ASSUME StorageInv, NEW c \in Writers, WritePiece(c)
  PROVE  StorageInv'
<1> DEFINE place == access[c].place + 1
           r == IF place = access[c].length THEN NoAccess
                ELSE [access[c] EXCEPT !.place = place]
           piece == [length |-> access[c].length, place |-> place]
<1>1. /\ StorageTypeOK /\ access[c].at \in {"opened", "unlinked"}
      /\ access[c].length \in Lengths /\ access[c].place < access[c].length
      /\ access[c].place \in Nat /\ access[c].length \in Nat
      /\ access[c].at = "opened" => document \in Seq(Piece)
  <2>1. access[c].at \in {"opened", "unlinked"} /\ StorageTypeOK
    BY DEF WritePiece, StorageInv
  <2>2. QED
    BY <2>1, AccessFields, StorageAssumption DEF StorageInv, AccessesKnown
<1>2. place \in Nat \ {0} /\ place \in 1..access[c].length
  BY <1>1
<1>3. piece \in Piece
  <2>1. [length : {access[c].length}, place : 1..access[c].length] \subseteq Piece
    BY <1>1 DEF Piece
  <2>2. QED
    BY <1>2, <2>1
<1>4. UNCHANGED <<backend, log, busLock, accesses, kills, appended, appenders>>
  BY DEF WritePiece, storageHistory
<1>5. access' = [access EXCEPT ![c] = r]
  BY DEF WritePiece, AccessEnds, AccessMoves
<1>6. /\ access[c].at = "unlinked" => document' = document
      /\ access[c].at # "unlinked" => document' = Overlaid(document, place, piece)
  BY DEF WritePiece
<1>7. /\ r \in [at : {"idle", "opened", "unlinked", "append", "put"},
                line : 0..MaxAccesses, length : Lengths \cup {0}, place : Nat,
                seen : Seq(1..MaxAccesses)]
      /\ r.at \in {"idle", access[c].at}
      /\ r.at # "idle" => r.length = access[c].length /\ r.place = place /\ place < access[c].length
  <2>1. CASE place = access[c].length
    BY <2>1, NoAccessType
  <2>2. CASE place # access[c].length
    <3>1. place < access[c].length
      BY <1>1, <2>2
    <3>2. r = [access[c] EXCEPT !.place = place]
      BY <2>2
    <3>3. QED
      BY <1>1, <1>2, <3>1, <3>2, AccessFields
  <2>3. QED
    BY <2>1, <2>2
<1> HIDE DEF r, piece, place
<1>8. /\ access[c].at = "opened" => document' \in Seq(Piece)
      /\ document \in Seq(Piece) => document' \in Seq(Piece)
      /\ document' = NoFile \/ document' \in Seq(Piece)
  <2>1. document = NoFile \/ document \in Seq(Piece)
    BY DEF StorageInv
  <2>2. document \in Seq(Piece) => Overlaid(document, place, piece) \in Seq(Piece)
    BY <1>2, <1>3, DocumentsAreOfPieces
  <2>3. QED
    BY <1>1, <1>6, <2>1, <2>2
<1>9. StorageTypeOK'
  <2>1. access' \in Accesses
    BY <1>1, <1>5, <1>7 DEF StorageTypeOK, Accesses
  <2>2. document' = NoFile \/ \A i \in DOMAIN document' : document'[i] \in Piece
    BY <1>8, DocumentsAreOfPieces
  <2>3. QED
    BY <1>1, <1>4, <2>1, <2>2 DEF StorageTypeOK, Accesses, Piece, Hole
<1> DEFINE record == [d \in Writers |-> IF d = c THEN r ELSE access[d]]
<1>10. access' = [d \in Writers |-> record[d]]
  BY <1>1, <1>5 DEF StorageTypeOK
<1>11. \A d \in Writers : access[d].at = "opened" => document' \in Seq(Piece)
  BY <1>8 DEF StorageInv, AccessesKnown
<1>12. \A d \in Writers :
         \/ record[d] = access[d] /\ (access[d].at = "opened" => document' \in Seq(Piece))
         \/ /\ record[d].at \in {"idle", "opened", "unlinked"}
            /\ access[d].at \in {"idle", "opened", "unlinked"}
            /\ record[d].at \in {"opened", "unlinked"} =>
                 record[d].length \in Lengths /\ record[d].place < record[d].length
            /\ record[d].at = "opened" => document' \in Seq(Piece)
  BY <1>1, <1>7, <1>11
<1> HIDE DEF record
<1>13. QED
  BY <1>1, <1>4, <1>8, <1>9, <1>10, <1>12, WritesSpareTheLog

\* An object is replaced.
LEMMA WriteObjectStep ==
  ASSUME StorageInv, NEW c \in Writers, WriteObject(c)
  PROVE  StorageInv'
<1>1. /\ StorageTypeOK /\ accesses' = accesses + 1 /\ accesses' \in 0..MaxAccesses
  BY NewAccessCounts DEF StorageInv, WriteObject
<1>2. document' \in Seq(Piece)
  BY DocumentsAreOfPieces DEF WriteObject
<1>3. UNCHANGED <<backend, log, access, busLock, kills, appended, appenders>>
  BY DEF WriteObject, storageHistory
<1>4. StorageTypeOK'
  BY <1>1, <1>2, <1>3, DocumentsAreOfPieces DEF StorageTypeOK, Piece, Hole
<1>5. access' = [d \in Writers |-> access[d]]
  BY <1>1, <1>3 DEF StorageTypeOK
<1>6. QED
  BY <1>1, <1>2, <1>3, <1>4, <1>5, WritesSpareTheLog

\* A document is deleted, from under those that write it.
LEMMA DeleteDocumentStep ==
  ASSUME StorageInv, NEW c \in Writers, DeleteDocument(c)
  PROVE  StorageInv'
<1> DEFINE record == [d \in Writers |-> IF AccessAt(d, "opened")
                                        THEN [access[d] EXCEPT !.at = "unlinked"]
                                        ELSE access[d]]
<1>1. /\ StorageTypeOK /\ accesses' = accesses + 1 /\ accesses' \in 0..MaxAccesses
      /\ document' = NoFile /\ access' = record
      /\ UNCHANGED <<backend, log, busLock, kills, appended, appenders>>
  BY NewAccessCounts DEF StorageInv, DeleteDocument, storageHistory
<1>2. \A d \in Writers :
        \/ record[d] = access[d] /\ access[d].at # "opened"
        \/ /\ record[d] \in [at : {"idle", "opened", "unlinked", "append", "put"},
                             line : 0..MaxAccesses, length : Lengths \cup {0}, place : Nat,
                             seen : Seq(1..MaxAccesses)]
           /\ record[d].at = "unlinked" /\ access[d].at = "opened"
           /\ record[d].length = access[d].length /\ record[d].place = access[d].place
  BY <1>1, AccessFields DEF AccessAt
<1>3. record \in Accesses
  <2>1. \A d \in Writers : record[d] \in [at : {"idle", "opened", "unlinked", "append", "put"},
                             line : 0..MaxAccesses, length : Lengths \cup {0}, place : Nat,
                             seen : Seq(1..MaxAccesses)]
    BY <1>1, <1>2, AccessFields
  <2>2. record = [d \in Writers |-> record[d]]
    OBVIOUS
  <2> HIDE DEF record
  <2>3. QED
    BY <2>1, <2>2 DEF Accesses
<1>4. StorageTypeOK'
  BY <1>1, <1>3 DEF StorageTypeOK, Accesses
<1>5. access' = [d \in Writers |-> record[d]]
  BY <1>1
<1> HIDE DEF record
<1>6. \A d \in Writers : access[d].at = "opened" =>
        access[d].length \in Lengths /\ access[d].place < access[d].length
  BY DEF StorageInv, AccessesKnown
<1>7. \A d \in Writers :
        \/ record[d] = access[d] /\ (access[d].at = "opened" => document' \in Seq(Piece))
        \/ /\ record[d].at \in {"idle", "opened", "unlinked"}
           /\ access[d].at \in {"idle", "opened", "unlinked"}
           /\ record[d].at \in {"opened", "unlinked"} =>
                record[d].length \in Lengths /\ record[d].place < record[d].length
           /\ record[d].at = "opened" => document' \in Seq(Piece)
  BY <1>2, <1>6
<1>8. QED
  BY <1>1, <1>4, <1>5, <1>7, WritesSpareTheLog

\* An append begins: its line is new, and the lock of its process was free.
LEMMA BeginAppendStep ==
  ASSUME StorageInv, NEW c \in Writers, BeginAppend(c)
  PROVE  StorageInv'
<1> DEFINE r == [NoAccess EXCEPT !.at = "append", !.line = accesses + 1]
           p == ProcessOf[c]
<1>1. /\ StorageTypeOK /\ accesses' = accesses + 1 /\ accesses' \in 0..MaxAccesses
      /\ accesses + 1 \in 1..MaxAccesses /\ access[c].at = "idle" /\ accesses \in Nat
  BY NewAccessCounts DEF StorageInv, BeginAppend, StorageTypeOK
<1>2. /\ busLock[p] = "free" /\ busLock' = [busLock EXCEPT ![p] = c]
      /\ access' = [access EXCEPT ![c] = r] /\ appenders' = appenders \cup {p}
      /\ UNCHANGED <<backend, document, log, kills, appended>>
  BY DEF BeginAppend, AccessMoves
<1>3. /\ r \in [at : {"idle", "opened", "unlinked", "append", "put"},
                line : 0..MaxAccesses, length : Lengths \cup {0}, place : Nat,
                seen : Seq(1..MaxAccesses)]
      /\ r.at = "append" /\ r.line = accesses + 1
  BY <1>1, NoAccessType DEF NoAccess
<1> HIDE DEF r
<1>4. p \in ServerProcesses
  BY DEF ServerProcesses
<1>5. StorageTypeOK'
  <2>1. access' \in Accesses
    BY <1>1, <1>2, <1>3 DEF StorageTypeOK, Accesses
  <2>2. /\ busLock' \in [ServerProcesses -> Writers \cup {"free"}]
        /\ appenders' \subseteq ServerProcesses
    BY <1>1, <1>2, <1>4 DEF StorageTypeOK
  <2>3. QED
    BY <1>1, <1>2, <2>1, <2>2 DEF StorageTypeOK, Accesses, Piece, Hole, ServerProcesses
<1>6. /\ access'[c] = r /\ \A d \in Writers : d # c => access'[d] = access[d]
      /\ busLock'[p] = c /\ \A q \in ServerProcesses : q # p => busLock'[q] = busLock[q]
  BY <1>1, <1>2, <1>4 DEF StorageTypeOK
<1>7. IsFiniteSet(appenders')
  BY <1>2, FS_AddElement DEF StorageInv
<1>8. \A d \in Writers : Appending(d) =>
        /\ access[d].line \in 1..accesses /\ busLock[ProcessOf[d]] = d
        /\ ProcessOf[d] \in appenders /\ ProcessOf[d] # p
        /\ \A e \in Writers : e # d /\ Appending(e) => access[e].line # access[d].line
  BY <1>2, StorageAssumption DEF StorageInv, AccessesKnown
<1>9. \A d \in Writers : ProcessOf[d] \in ServerProcesses
  BY DEF ServerProcesses
<1>10. \A d \in Writers : Appending(d)' <=> d = c \/ Appending(d)
  BY <1>3, <1>6 DEF Appending
<1>11. AccessesKnown'
  <2> SUFFICES ASSUME NEW d \in Writers
               PROVE  /\ access'[d].at \in {"opened", "unlinked"} =>
                           access'[d].length \in Lengths /\ access'[d].place < access'[d].length
                      /\ access'[d].at = "opened" => document' \in Seq(Piece)
                      /\ access'[d].at = "put" => backend' = "objects"
                      /\ Appending(d)' =>
                           /\ access'[d].line \in 1..accesses'
                           /\ busLock'[ProcessOf[d]] = d
                           /\ ProcessOf[d] \in appenders'
                           /\ \A e \in Writers :
                                e # d /\ Appending(e)' => access'[e].line # access'[d].line
    BY DEF AccessesKnown, Piece, Hole
  <2>1. /\ access[d].at \in {"opened", "unlinked"} =>
             access[d].length \in Lengths /\ access[d].place < access[d].length
        /\ access[d].at = "opened" => document \in Seq(Piece)
        /\ access[d].at = "put" => backend = "objects"
    BY DEF StorageInv, AccessesKnown
  <2>2. \A e \in Writers : Appending(e) => access[e].line # accesses + 1
    <3>1. \A l \in 1..accesses : l # accesses + 1
      BY <1>1
    <3>2. QED
      BY <1>8, <3>1
  <2>3. 1..accesses \subseteq 1..accesses' /\ accesses + 1 \in 1..accesses'
    BY <1>1
  <2>4. CASE d = c
    <3>1. busLock'[ProcessOf[c]] = c /\ ProcessOf[c] \in appenders'
      BY <1>2, <1>6
    <3>2. \A e \in Writers : e # c /\ Appending(e)' => access'[e].line # access'[c].line
      BY <1>3, <1>6, <1>10, <2>2
    <3>3. QED
      BY <1>3, <1>6, <2>3, <2>4, <3>1, <3>2
  <2>5. CASE d # c
    <3>1. access'[d] = access[d] /\ (Appending(d)' <=> Appending(d))
      BY <1>6, <1>10, <2>5
    <3>2. ASSUME Appending(d)
          PROVE  /\ busLock'[ProcessOf[d]] = d /\ ProcessOf[d] \in appenders'
                 /\ access'[d].line \in 1..accesses'
      BY <1>2, <1>6, <1>8, <1>9, <2>3, <3>1, <3>2
    <3>3. ASSUME Appending(d), NEW e \in Writers, e # d, Appending(e)'
          PROVE  access'[e].line # access'[d].line
      <4>1. CASE e = c
        BY <1>3, <1>6, <2>2, <3>1, <3>3, <4>1
      <4>2. CASE e # c
        BY <1>6, <1>8, <1>10, <3>1, <3>3, <4>2
      <4>3. QED
        BY <4>1, <4>2
    <3>4. QED
      BY <1>2, <2>1, <3>1, <3>2, <3>3
  <2>6. QED
    BY <2>4, <2>5
<1>12. AppendsInTurn' => LogIsWhole'
  <2> SUFFICES ASSUME AppendsInTurn' PROVE LogIsWhole'
    OBVIOUS
  <2>1. LogIsWhole /\ Lines' = Lines /\ appended' = appended
    BY <1>2 DEF AppendsInTurn, StorageInv, Lines, LinesOf
  <2>2. 1..accesses \subseteq 1..accesses'
    BY <1>1
  <2>3. \A i \in DOMAIN Lines : Lines[i] # accesses + 1
    BY <1>1, <2>1 DEF LogIsWhole
  <2>4. ASSUME NEW d \in Writers
        PROVE  /\ Appending(d)' => \A i \in DOMAIN Lines : Lines[i] # access'[d].line
               /\ access'[d].at = "put" => access'[d].seen = Lines
    <3>1. CASE d = c
      BY <1>3, <1>6, <2>3, <3>1
    <3>2. CASE d # c
      BY <1>6, <1>10, <2>1, <3>2 DEF LogIsWhole
    <3>3. QED
      BY <3>1, <3>2
  <2>5. QED
    BY <2>1, <2>2, <2>4 DEF LogIsWhole
<1>13. QED
  BY <1>2, <1>5, <1>7, <1>11, <1>12 DEF StorageInv, Piece, Hole

\* An append ends: its lock is free, and what it leaves is its line at the end of a log that
\* was whole.
LEMMA AppendReturns ==
  ASSUME StorageInv, NEW c \in Writers, Appending(c), NEW text \in Seq(1..MaxAccesses),
         AppendsInTurn => text = Lines,
         AppendsInTurn => \A d \in Writers : d # c => access[d].at # "put",
         log' = Append(text, access[c].line), Saved(c),
         UNCHANGED <<backend, document, accesses, kills, appenders>>
  PROVE  StorageInv'
<1> DEFINE p == ProcessOf[c]
           l == access[c].line
<1>1. /\ StorageTypeOK /\ l \in 1..accesses /\ busLock[p] = c /\ p \in appenders
      /\ accesses \in Nat /\ accesses <= MaxAccesses /\ l \in 1..MaxAccesses
  <2>1. StorageTypeOK /\ l \in 1..accesses /\ busLock[p] = c /\ p \in appenders
    BY DEF StorageInv, AccessesKnown
  <2>2. accesses \in Nat /\ accesses <= MaxAccesses
    BY <2>1, StorageAssumption DEF StorageTypeOK
  <2>3. l \in 1..MaxAccesses
    BY <2>1, <2>2, StorageAssumption
  <2>4. QED
    BY <2>1, <2>2, <2>3
<1>2. /\ appended' = appended \cup {l} /\ busLock' = [busLock EXCEPT ![p] = "free"]
      /\ access' = [access EXCEPT ![c] = NoAccess]
  BY DEF Saved, AccessEnds, AccessMoves
<1>3. log' \in Seq(1..MaxAccesses)
  BY <1>1
<1>4. \A d \in Writers : ProcessOf[d] \in ServerProcesses
  BY DEF ServerProcesses
<1>5. StorageTypeOK'
  <2>1. access' \in Accesses
    BY <1>1, <1>2, NoAccessType DEF StorageTypeOK, Accesses
  <2>2. busLock' \in [ServerProcesses -> Writers \cup {"free"}]
    BY <1>1, <1>2, <1>4 DEF StorageTypeOK
  <2>3. appended' \subseteq 1..MaxAccesses
    BY <1>1, <1>2 DEF StorageTypeOK
  <2>4. QED
    BY <1>1, <1>3, <2>1, <2>2, <2>3 DEF StorageTypeOK, Accesses, Piece, Hole, ServerProcesses
<1>6. /\ access'[c] = NoAccess /\ \A d \in Writers : d # c => access'[d] = access[d]
      /\ \A q \in ServerProcesses : q # p => busLock'[q] = busLock[q]
  BY <1>1, <1>2, <1>4 DEF StorageTypeOK
<1>7. \A d \in Writers : Appending(d)' <=> d # c /\ Appending(d)
  BY <1>6, NoAccessType DEF Appending
<1>8. \A d \in Writers : Appending(d) =>
        /\ access[d].line \in 1..accesses /\ busLock[ProcessOf[d]] = d
        /\ ProcessOf[d] \in appenders
        /\ \A e \in Writers : e # d /\ Appending(e) => access[e].line # access[d].line
  BY DEF StorageInv, AccessesKnown
<1>9. AccessesKnown'
  <2> SUFFICES ASSUME NEW d \in Writers
               PROVE  /\ access'[d].at \in {"opened", "unlinked"} =>
                           access'[d].length \in Lengths /\ access'[d].place < access'[d].length
                      /\ access'[d].at = "opened" => document' \in Seq(Piece)
                      /\ access'[d].at = "put" => backend' = "objects"
                      /\ Appending(d)' =>
                           /\ access'[d].line \in 1..accesses'
                           /\ busLock'[ProcessOf[d]] = d
                           /\ ProcessOf[d] \in appenders'
                           /\ \A e \in Writers :
                                e # d /\ Appending(e)' => access'[e].line # access'[d].line
    BY DEF AccessesKnown, Piece, Hole
  <2>1. CASE d = c
    BY <1>6, <1>7, <2>1, NoAccessType
  <2>2. CASE d # c
    <3>1. access'[d] = access[d] /\ (Appending(d)' <=> Appending(d))
      BY <1>6, <1>7, <2>2
    <3>2. /\ access[d].at \in {"opened", "unlinked"} =>
               access[d].length \in Lengths /\ access[d].place < access[d].length
          /\ access[d].at = "opened" => document \in Seq(Piece)
          /\ access[d].at = "put" => backend = "objects"
      BY DEF StorageInv, AccessesKnown
    <3>3. Appending(d) => ProcessOf[d] # p
      BY <1>1, <1>8, <2>2
    <3>4. Appending(d) => busLock'[ProcessOf[d]] = d
      BY <1>4, <1>6, <1>8, <3>3
    <3>5. \A e \in Writers : Appending(d) /\ e # d /\ Appending(e)' =>
            access'[e].line # access'[d].line
      BY <1>6, <1>7, <1>8, <3>1
    <3>6. QED
      BY <1>8, <3>1, <3>2, <3>4, <3>5
  <2>3. QED
    BY <2>1, <2>2
<1>10. AppendsInTurn' => LogIsWhole'
  <2> SUFFICES ASSUME AppendsInTurn' PROVE LogIsWhole'
    OBVIOUS
  <2>1. AppendsInTurn /\ LogIsWhole
    BY DEF AppendsInTurn, StorageInv
  <2>2. log' # NoFile
    BY <1>3, StorageAssumption
  <2>3. Lines' = Append(Lines, l) /\ Lines \in Seq(1..MaxAccesses)
    BY <2>1, <2>2 DEF Lines, LinesOf
  <2> HIDE DEF l
  <2>4. /\ DOMAIN Lines = 1..Len(Lines) /\ Len(Lines) \in Nat
        /\ DOMAIN Lines' = 1..(Len(Lines) + 1)
        /\ Lines'[Len(Lines) + 1] = l
        /\ \A i \in 1..Len(Lines) : Lines'[i] = Lines[i]
    BY <1>1, <2>3, AppendProperties
  <2>5. \A i \in 1..(Len(Lines) + 1) : i = Len(Lines) + 1 \/ i \in 1..Len(Lines)
    BY <2>4
  <2>6. \A i \in DOMAIN Lines : Lines[i] \in 1..accesses /\ Lines[i] # l
    BY <2>1 DEF LogIsWhole, l
  <2>7. \A i \in DOMAIN Lines' : Lines'[i] \in 1..accesses
    BY <1>1, <2>4, <2>5, <2>6
  <2>8. \A i, k \in DOMAIN Lines' : Lines'[i] = Lines'[k] => i = k
    <3>1. \A i, k \in DOMAIN Lines : Lines[i] = Lines[k] => i = k
      BY <2>1 DEF LogIsWhole
    <3>2. QED
      BY <2>4, <2>5, <2>6, <3>1
  <2>9. \A m \in appended' : \E i \in DOMAIN Lines' : Lines'[i] = m
    <3>1. Len(Lines) + 1 \in DOMAIN Lines' /\ DOMAIN Lines \subseteq DOMAIN Lines'
      BY <2>4
    <3>2. \A m \in appended : \E i \in DOMAIN Lines : Lines[i] = m
      BY <2>1 DEF LogIsWhole
    <3>3. \A m \in appended' : m \in appended \/ m = l
      BY <1>2 DEF l
    <3>4. QED
      BY <2>4, <3>1, <3>2, <3>3
  <2>10. ASSUME NEW d \in Writers
         PROVE  /\ Appending(d)' => \A i \in DOMAIN Lines' : Lines'[i] # access'[d].line
                /\ access'[d].at # "put"
    <3>1. CASE d = c
      BY <1>6, <1>7, <3>1, NoAccessType
    <3>2. CASE d # c
      <4>1. access'[d] = access[d] /\ access[d].at # "put"
        BY <1>6, <2>1, <3>2
      <4>2. Appending(d) => access[d].line # l /\ \A i \in DOMAIN Lines : Lines[i] # access[d].line
        BY <1>8, <2>1, <3>2 DEF LogIsWhole, l
      <4>3. QED
        BY <1>7, <2>4, <2>5, <4>1, <4>2
    <3>3. QED
      BY <3>1, <3>2
  <2>11. QED
    BY <2>7, <2>8, <2>9, <2>10 DEF LogIsWhole
<1>11. QED
  BY <1>5, <1>9, <1>10 DEF StorageInv, Piece, Hole

\* Two writers that append, of which one has read an object, are of different processes.
LEMMA AppendsOfAProcess ==
  ASSUME StorageInv, AppendsInTurn, backend = "objects", NEW c \in Writers, NEW d \in Writers,
         Appending(c), Appending(d)
  PROVE  c = d
<1>1. PICK p : appenders \subseteq {p}
  BY DEF AppendsInTurn
<1>2. ProcessOf[c] = p /\ ProcessOf[d] = p
  BY <1>1 DEF StorageInv, AccessesKnown
<1>3. QED
  BY <1>2 DEF StorageInv, AccessesKnown

\* A line at the end of a file, and an object with one more line.
LEMMA AppendSteps ==
  ASSUME StorageInv, NEW c \in Writers, AppendLine(c) \/ PutLog(c)
  PROVE  StorageInv'
<1>1. CASE AppendLine(c)
  <2>1. Lines \in Seq(1..MaxAccesses)
    <3>1. << >> \in Seq(1..MaxAccesses)
      OBVIOUS
    <3>2. QED
      BY <3>1 DEF StorageInv, StorageTypeOK, Lines, LinesOf
  <2>2. /\ Appending(c) /\ log' = Append(Lines, access[c].line) /\ Saved(c) /\ backend = "files"
        /\ UNCHANGED <<backend, document, accesses, kills, appenders>>
    BY <1>1 DEF AppendLine, AccessAt, Appending, Lines
  <2>3. \A d \in Writers : access[d].at # "put"
    BY <2>2 DEF StorageInv, AccessesKnown
  <2>4. QED
    BY <2>1, <2>2, <2>3, AppendReturns
<1>2. CASE PutLog(c)
  <2>1. /\ access[c].at = "put" /\ log' = Append(access[c].seen, access[c].line) /\ Saved(c)
        /\ UNCHANGED <<backend, document, accesses, kills, appenders>>
    BY <1>2 DEF PutLog, AccessAt
  <2>2. Appending(c) /\ access[c].seen \in Seq(1..MaxAccesses) /\ backend = "objects"
    BY <2>1, AccessFields DEF Appending, StorageInv, AccessesKnown
  <2>3. AppendsInTurn => access[c].seen = Lines
    BY <2>1 DEF StorageInv, LogIsWhole
  <2>4. AppendsInTurn => \A d \in Writers : d # c => access[d].at # "put"
    <3>1. \A d \in Writers : access[d].at = "put" => Appending(d)
      BY DEF Appending
    <3>2. QED
      BY <2>2, <3>1, AppendsOfAProcess
  <2>5. QED
    BY <2>1, <2>2, <2>3, <2>4, AppendReturns
<1>3. QED
  BY <1>1, <1>2

\* What is said of an access and of the log stays said of those accesses that go on, when
\* some of them are forgotten.
LEMMA AccessesForgotten ==
  ASSUME StorageInv, StorageTypeOK',
         \A c \in Writers : access'[c] = access[c] \/ access'[c] = NoAccess,
         \A c \in Writers : access'[c] # NoAccess =>
           busLock'[ProcessOf[c]] = busLock[ProcessOf[c]],
         UNCHANGED <<backend, document, log, accesses, appended, appenders>>
  PROVE  StorageInv'
<1>1. \A c \in Writers : access'[c].at # "idle" => access'[c] = access[c] /\ access'[c] # NoAccess
  BY NoAccessType
<1>2. \A c \in Writers : Appending(c)' => Appending(c) /\ access'[c] = access[c]
                                        /\ busLock'[ProcessOf[c]] = busLock[ProcessOf[c]]
  BY <1>1 DEF Appending
<1>3. AccessesKnown'
  <2> SUFFICES ASSUME NEW d \in Writers
               PROVE  /\ access'[d].at \in {"opened", "unlinked"} =>
                           access'[d].length \in Lengths /\ access'[d].place < access'[d].length
                      /\ access'[d].at = "opened" => document' \in Seq(Piece)
                      /\ access'[d].at = "put" => backend' = "objects"
                      /\ Appending(d)' =>
                           /\ access'[d].line \in 1..accesses'
                           /\ busLock'[ProcessOf[d]] = d
                           /\ ProcessOf[d] \in appenders'
                           /\ \A e \in Writers :
                                e # d /\ Appending(e)' => access'[e].line # access'[d].line
    BY DEF AccessesKnown, Piece, Hole
  <2>1. /\ access[d].at \in {"opened", "unlinked"} =>
             access[d].length \in Lengths /\ access[d].place < access[d].length
        /\ access[d].at = "opened" => document \in Seq(Piece)
        /\ access[d].at = "put" => backend = "objects"
        /\ Appending(d) => /\ access[d].line \in 1..accesses /\ busLock[ProcessOf[d]] = d
                           /\ ProcessOf[d] \in appenders
                           /\ \A e \in Writers :
                                e # d /\ Appending(e) => access[e].line # access[d].line
    BY DEF StorageInv, AccessesKnown
  <2>2. access'[d].at \in {"opened", "unlinked", "put"} => access'[d] = access[d]
    BY <1>1
  <2>3. QED
    BY <1>2, <2>1, <2>2
<1>4. AppendsInTurn' => LogIsWhole'
  <2> SUFFICES ASSUME AppendsInTurn' PROVE LogIsWhole'
    OBVIOUS
  <2>1. LogIsWhole /\ Lines' = Lines
    BY DEF AppendsInTurn, StorageInv, Lines, LinesOf
  <2>2. QED
    BY <1>1, <1>2, <2>1 DEF LogIsWhole
<1>5. QED
  BY <1>3, <1>4 DEF StorageInv, Piece, Hole

\* An append reads the object that it will replace.
LEMMA ReadLogStep ==
  ASSUME StorageInv, NEW c \in Writers, ReadLog(c)
  PROVE  StorageInv'
<1> DEFINE r == [access[c] EXCEPT !.at = "put", !.seen = Lines]
<1>1. /\ StorageTypeOK /\ access[c].at = "append" /\ backend = "objects"
      /\ access' = [access EXCEPT ![c] = r]
      /\ UNCHANGED <<backend, document, log, busLock, accesses, kills, appended, appenders>>
  BY DEF StorageInv, ReadLog, AccessAt, AccessMoves, storageHistory, Lines
<1>2. Lines \in Seq(1..MaxAccesses)
  <2>1. << >> \in Seq(1..MaxAccesses)
    OBVIOUS
  <2>2. QED
    BY <1>1, <2>1 DEF StorageTypeOK, Lines, LinesOf
<1>3. /\ r \in [at : {"idle", "opened", "unlinked", "append", "put"},
                line : 0..MaxAccesses, length : Lengths \cup {0}, place : Nat,
                seen : Seq(1..MaxAccesses)]
      /\ r.at = "put" /\ r.line = access[c].line /\ r.seen = Lines
  BY <1>1, <1>2, AccessFields
<1> HIDE DEF r
<1>4. StorageTypeOK'
  <2>1. access' \in Accesses
    BY <1>1, <1>3 DEF StorageTypeOK, Accesses
  <2>2. QED
    BY <1>1, <2>1 DEF StorageTypeOK, Accesses, Piece, Hole, ServerProcesses
<1>5. access'[c] = r /\ \A d \in Writers : d # c => access'[d] = access[d]
  BY <1>1 DEF StorageTypeOK
<1>6. \A d \in Writers : (Appending(d)' <=> Appending(d)) /\ access'[d].line = access[d].line
  BY <1>1, <1>3, <1>5 DEF Appending
<1>7. AccessesKnown'
  <2>1. \A d \in Writers : access'[d].at \in {"opened", "unlinked"} => access'[d] = access[d]
    BY <1>3, <1>5
  <2>2. \A d \in Writers :
          /\ access[d].at \in {"opened", "unlinked"} =>
               access[d].length \in Lengths /\ access[d].place < access[d].length
          /\ access[d].at = "opened" => document \in Seq(Piece)
          /\ Appending(d) => /\ access[d].line \in 1..accesses /\ busLock[ProcessOf[d]] = d
                             /\ ProcessOf[d] \in appenders
                             /\ \A e \in Writers :
                                  e # d /\ Appending(e) => access[e].line # access[d].line
    BY DEF StorageInv, AccessesKnown
  <2>3. QED
    BY <1>1, <1>6, <2>1, <2>2 DEF AccessesKnown, Piece, Hole
<1>8. AppendsInTurn' => LogIsWhole'
  <2> SUFFICES ASSUME AppendsInTurn' PROVE LogIsWhole'
    OBVIOUS
  <2>1. LogIsWhole /\ Lines' = Lines
    BY <1>1 DEF AppendsInTurn, StorageInv, Lines, LinesOf
  <2>2. \A d \in Writers : access'[d].at = "put" => access'[d].seen = Lines
    BY <1>3, <1>5, <2>1 DEF LogIsWhole
  <2>3. QED
    BY <1>1, <1>6, <2>1, <2>2 DEF LogIsWhole
<1>9. QED
  BY <1>1, <1>4, <1>7, <1>8 DEF StorageInv, Piece, Hole

\* A process is killed, with the accesses of all its writers and the lock of its bus.
LEMMA ProcessKilledStep ==
  ASSUME StorageInv, NEW p \in ServerProcesses, ProcessKilled(p)
  PROVE  StorageInv'
<1>1. /\ StorageTypeOK /\ kills' = kills + 1 /\ kills < MaxKills
      /\ access' = [c \in Writers |-> IF ProcessOf[c] = p THEN NoAccess ELSE access[c]]
      /\ busLock' = [busLock EXCEPT ![p] = "free"]
      /\ UNCHANGED <<backend, document, log, accesses, appended, appenders>>
  BY DEF StorageInv, ProcessKilled, storageHistory
<1>2. StorageTypeOK'
  <2>1. access' \in Accesses
    BY <1>1, NoAccessType DEF StorageTypeOK, Accesses
  <2>2. busLock' \in [ServerProcesses -> Writers \cup {"free"}]
    BY <1>1 DEF StorageTypeOK
  <2>3. kills' \in 0..MaxKills
    BY <1>1, StorageAssumption DEF StorageTypeOK
  <2>4. QED
    BY <1>1, <2>1, <2>2, <2>3 DEF StorageTypeOK, Accesses, Piece, Hole, ServerProcesses
<1>3. \A c \in Writers : ProcessOf[c] # p => busLock'[ProcessOf[c]] = busLock[ProcessOf[c]]
  BY <1>1 DEF StorageTypeOK, ServerProcesses
<1>4. QED
  BY <1>1, <1>2, <1>3, AccessesForgotten

\* At first nothing is stored, and nobody accesses it.
LEMMA StorageStarts == StorageInit => StorageInv
<1> SUFFICES ASSUME StorageInit PROVE StorageInv
  OBVIOUS
<1>1. access \in Accesses /\ \A c \in Writers : access[c] = NoAccess
  BY NoAccessType DEF StorageInit, Accesses
<1>2. StorageTypeOK
  <2>1. 0 \in 0..MaxAccesses /\ 0 \in 0..MaxKills
    BY StorageAssumption
  <2>2. QED
    BY <1>1, <2>1 DEF StorageInit, StorageTypeOK, Accesses
<1>3. IsFiniteSet(appenders)
  BY FS_EmptySet DEF StorageInit
<1>4. AccessesKnown /\ \A c \in Writers : ~Appending(c) /\ access[c].at # "put"
  BY <1>1, NoAccessType DEF AccessesKnown, Appending
<1>5. LogIsWhole
  <2>1. Lines = << >> /\ appended = {}
    BY DEF StorageInit, Lines, LinesOf
  <2>2. QED
    BY <1>4, <2>1 DEF LogIsWhole
<1>6. QED
  BY <1>2, <1>3, <1>4, <1>5 DEF StorageInit, StorageInv

\* Every step between two awaits keeps the invariant.
LEMMA StorageStep == StorageInv /\ [StorageNext]_storageVars => StorageInv'
<1> SUFFICES ASSUME StorageInv, [StorageNext]_storageVars PROVE StorageInv'
  OBVIOUS
<1>1. ASSUME NEW c \in Writers,
             OpenToWrite(c) \/ WritePiece(c) \/ WriteObject(c) \/ DeleteDocument(c)
      PROVE  StorageInv'
  BY <1>1, OpenToWriteStep, WritePieceStep, WriteObjectStep, DeleteDocumentStep
<1>2. ASSUME NEW c \in Writers, BeginAppend(c) \/ AppendLine(c) \/ ReadLog(c) \/ PutLog(c)
      PROVE  StorageInv'
  BY <1>2, BeginAppendStep, AppendSteps, ReadLogStep
<1>3. ASSUME NEW p \in ServerProcesses, ProcessKilled(p) PROVE StorageInv'
  BY <1>3, ProcessKilledStep
<1>4. CASE UNCHANGED storageVars
  <2>1. /\ UNCHANGED <<backend, document, log, accesses, appended, appenders>>
        /\ UNCHANGED <<access, busLock, kills>>
    BY <1>4 DEF storageVars
  <2>2. StorageTypeOK'
    BY <2>1 DEF StorageInv, StorageTypeOK, Piece, Hole, ServerProcesses
  <2>3. QED
    BY <2>1, <2>2, AccessesForgotten
<1>5. QED
  BY <1>1, <1>2, <1>3, <1>4 DEF StorageNext

\* The storage is well typed: what is written of a document or of the log is what some call
\* writes.
THEOREM StorageTypeCorrect == StorageSpec => []StorageTypeOK
<1>1. StorageInv => StorageTypeOK
  BY DEF StorageInv
<1>2. QED
  BY <1>1, StorageStarts, StorageStep, PTL DEF StorageSpec

\* An event whose saving has returned is a line of the log, once, whichever coroutines of
\* whichever processes append at the same time and are killed meanwhile; on objects, as long
\* as one process only appends.
THEOREM AppendsAlwaysKept == StorageSpec => []AppendsKept
<1>1. ASSUME StorageInv PROVE AppendsKept
  <2> SUFFICES ASSUME backend = "files" \/ Cardinality(appenders) <= 1, NEW l \in appended
               PROVE  Occurrences(l) = 1
    BY DEF AppendsKept
  <2>1. AppendsInTurn
    <3>1. CASE backend = "files"
      BY <3>1 DEF AppendsInTurn
    <3>2. CASE Cardinality(appenders) <= 1
      <4>1. IsFiniteSet(appenders) /\ Cardinality(appenders) \in Nat
        BY <1>1, FS_CardinalityType DEF StorageInv
      <4>2. CASE Cardinality(appenders) = 0
        BY <4>1, <4>2, FS_EmptySet DEF AppendsInTurn
      <4>3. CASE Cardinality(appenders) = 1
        <5>1. \E p : appenders = {p}
          BY <4>1, <4>3, FS_Singleton
        <5>2. QED
          BY <5>1 DEF AppendsInTurn
      <4>4. QED
        BY <3>2, <4>1, <4>2, <4>3
    <3>3. QED
      BY <3>1, <3>2
  <2>2. LogIsWhole
    BY <1>1, <2>1 DEF StorageInv
  <2>3. PICK i \in DOMAIN Lines : Lines[i] = l
    BY <2>2 DEF LogIsWhole
  <2>4. Lines = log
    BY <2>3 DEF Lines, LinesOf
  <2>5. {k \in DOMAIN Lines : log[k] = l} = {i}
    BY <2>2, <2>3, <2>4 DEF LogIsWhole
  <2>6. Cardinality({i}) = 1
    BY FS_Singleton
  <2>7. QED
    BY <2>5, <2>6 DEF Occurrences, Lines
<1>2. StorageInv => AppendsKept
  BY <1>1
<1>3. QED
  BY <1>2, StorageStarts, StorageStep, PTL DEF StorageSpec

--------------------------------------------------------------------------------
(* The working tree                                                            *)

Places == {"idle", "wait", "apply", "inspect", "patch", "inspect again", "command", "reset"}

Calls == [op : {"none", "execute", "evaluate", "tests"}, patch : Patches \cup {NoPatch},
          at : Places, tests : 0..MaxTestFiles, todo : SUBSET Files]

\* What a call is: it has a patch where it puts one in or takes it out.
CallKnown ==
  /\ call \in Calls
  /\ call.at = "idle" => call = NoCall
  /\ call.at \in {"apply", "inspect", "patch", "inspect again", "reset"} => call.patch # NoPatch
  /\ call.op = "evaluate" => call.patch # NoPatch
  /\ call.todo \cap Protected = {}

\* The first tree is that of the base commit, but for what the image has prepared.
BaseTree(t) ==
  /\ t = [f \in Files |-> t[f]]
  /\ \A f \in Files : IF f \notin Tracked THEN t[f] = "none"
                      ELSE t[f] = "base" \/ (t[f] = "prepared" /\ f \in Protected)

\* Where a call stands, the tree is the first one, that one with the patch in, or the first
\* one but for the files that are still to be reset.
TreeIsExpected ==
  /\ call.at \in {"idle", "wait", "apply"} => tree = pristine
  /\ call.at = "command" /\ call.patch = NoPatch => tree = pristine
  /\ call.at \in {"inspect", "patch", "inspect again", "command"} /\ call.patch # NoPatch =>
       tree = GitApplied(pristine, Hunk) /\ ~Lasting(Hunk)
  /\ call.at = "reset" => \A f \in Files \ call.todo : tree[f] = pristine[f]

RuntimeInv ==
  /\ RuntimeTypeOK
  /\ CallKnown
  /\ testPatch \in TestPatches
  /\ BaseTree(pristine)
  /\ ~spoiled => TreeIsExpected

\* The versions that patches and test patches make of files are versions.
LEMMA VersionsMade ==
  ASSUME NEW p \in Patches
  PROVE  /\ DOMAIN Hunks[p] \subseteq Files
         /\ \A f \in DOMAIN Hunks[p] : Hunks[p][f].to \in Versions /\ Hunks[p][f].from \in Versions
         /\ \A f \in DOMAIN testPatch : testPatch[f].to \in Versions
<1>1. DOMAIN Hunks[p] \subseteq Files
  BY RuntimeAssumption
<1>2. VersionsIn(Hunks[p]) \subseteq Versions /\ VersionsIn(testPatch) \subseteq Versions
  BY DEF Versions
<1>3. \A f \in DOMAIN Hunks[p] :
        Hunks[p][f].to \in VersionsIn(Hunks[p]) /\ Hunks[p][f].from \in VersionsIn(Hunks[p])
  BY DEF VersionsIn
<1>4. \A f \in DOMAIN testPatch : testPatch[f].to \in VersionsIn(testPatch)
  BY DEF VersionsIn
<1>5. QED
  BY <1>1, <1>2, <1>3, <1>4

\* What the parts of the invariant come to after a step.
LEMMA RuntimeKept ==
  ASSUME RuntimeInv, CallKnown', tree' \in [Files -> Versions], install' \in {"running", "over"},
         temp' => call'.at \in {"inspect", "patch", "inspect again"},
         spoiled' \in BOOLEAN, UNCHANGED <<testPatch, pristine>>,
         ~spoiled' => TreeIsExpected'
  PROVE  RuntimeInv'
<1>1. Versions' = Versions
  BY DEF Versions, VersionsIn
<1>2. /\ call'.at \in Places /\ call'.todo \subseteq Files /\ call'.tests \in 0..MaxTestFiles
  BY DEF CallKnown, Calls
<1>3. RuntimeTypeOK'
  BY <1>1, <1>2 DEF RuntimeTypeOK, Places
<1>4. BaseTree(pristine)' /\ (testPatch \in TestPatches)'
  BY DEF RuntimeInv, BaseTree
<1>5. QED
  BY <1>3, <1>4 DEF RuntimeInv

\* A call that is over.
LEMMA CallOver ==
  ASSUME Over
  PROVE  CallKnown' /\ call' = NoCall /\ call'.at = "idle" /\ call'.patch = NoPatch
  BY RuntimeAssumption DEF Over, NoCall, CallKnown, Calls, Places

\* A call that goes on.
LEMMA CallReaches ==
  ASSUME CallKnown, NEW place \in Places \ {"idle"}, Reach(place), call.at # "idle",
         place \in {"apply", "inspect", "patch", "inspect again", "reset"} => call.patch # NoPatch
  PROVE  /\ CallKnown'
         /\ call'.at = place /\ call'.patch = call.patch /\ call'.op = call.op
         /\ call'.todo = call.todo
<1> DEFINE r == [call EXCEPT !.at = place]
<1>1. call \in Calls /\ call.todo \cap Protected = {} 
      /\ (call.op = "evaluate" => call.patch # NoPatch)
  BY DEF CallKnown
<1>2. /\ r \in Calls /\ r.at = place /\ r.patch = call.patch /\ r.op = call.op
      /\ r.todo = call.todo
  BY <1>1 DEF Calls
<1>3. call' = r
  BY DEF Reach
<1> HIDE DEF r
<1>4. QED
  BY <1>1, <1>2, <1>3 DEF CallKnown

\* A call that leaves, with the files to reset that its patch has changed.
LEMMA CallLeaves ==
  ASSUME CallKnown, Leave, call.at # "idle"
  PROVE  /\ CallKnown'
         /\ call.patch = NoPatch => call' = NoCall /\ call'.at = "idle"
         /\ call.patch # NoPatch => /\ call'.at = "reset" /\ call'.patch = call.patch
                                    /\ call'.todo = ModifiedFiles(call.patch)
<1>1. CASE call.patch = NoPatch
  <2>1. Over
    BY <1>1 DEF Leave
  <2>2. QED
    BY <1>1, <2>1, CallOver
<1>2. CASE call.patch # NoPatch
  <2> DEFINE m == ModifiedFiles(call.patch)
             r == [call EXCEPT !.at = "reset", !.todo = m]
  <2>1. call \in Calls /\ (call.op = "evaluate" => call.patch # NoPatch) /\ call.patch \in Patches
    BY <1>2 DEF CallKnown, Calls
  <2>2. m \in SUBSET Files /\ m \cap Protected = {}
    BY <2>1, RuntimeAssumption DEF ModifiedFiles
  <2> HIDE DEF m
  <2>3. /\ r \in Calls /\ r.at = "reset" /\ r.patch = call.patch /\ r.op = call.op
        /\ r.todo = m
    BY <2>1, <2>2 DEF Calls, Places
  <2>4. call' = r
    BY <1>2 DEF Leave, m
  <2> HIDE DEF r
  <2>5. QED
    BY <1>2, <2>1, <2>2, <2>3, <2>4 DEF CallKnown, m
<1>3. QED
  BY <1>1, <1>2

\* A patch that adds no file and leaves those alone that are nobody's to reset changes what
\* will be reset, and no other file.
LEMMA PatchIsReset ==
  ASSUME RuntimeInv, NEW p \in Patches, ~Lasting(Hunks[p]), NEW f \in Files,
         f \notin ModifiedFiles(p)
  PROVE  f \notin DOMAIN Hunks[p] /\ GitApplied(pristine, Hunks[p])[f] = pristine[f]
<1>1. p # NoPatch
  BY RuntimeAssumption
<1>2. f \notin DOMAIN Hunks[p]
  BY <1>1 DEF ModifiedFiles, Lasting
<1>3. QED
  BY <1>2 DEF GitApplied, With

\* A call begins in the tree that there is.
LEMMA BeginCallStep ==
  ASSUME RuntimeInv, NEW op \in {"execute", "evaluate", "tests"}, NEW p \in Patches \cup {NoPatch},
         NEW n \in 1..MaxTestFiles, BeginCall(op, p, n)
  PROVE  RuntimeInv'
<1> DEFINE at == IF install = "running" THEN "wait" ELSE IF p = NoPatch THEN "command" ELSE "apply"
           r == [op |-> op, patch |-> p, tests |-> n, todo |-> {}, at |-> at]
<1>1. /\ call = NoCall /\ call' = r /\ (op = "evaluate" => p # NoPatch)
      /\ UNCHANGED <<tree, rejects, temp, hidden, testPatch, install, applied, pristine, spoiled>>
  BY DEF BeginCall
<1>2. at \in {"wait", "command", "apply"} /\ (at = "apply" => p # NoPatch)
      /\ (at = "command" => p = NoPatch)
  OBVIOUS
<1> HIDE DEF at
<1>n. n \in 0..MaxTestFiles
  BY RuntimeAssumption
<1>a. at \in Places
  BY <1>2 DEF Places
<1>3. r \in Calls /\ r.at = at /\ r.patch = p /\ r.todo = {} /\ r.op = op
  BY <1>n, <1>a DEF Calls
<1> HIDE DEF r
<1>4. CallKnown'
  BY <1>1, <1>2, <1>3 DEF CallKnown
<1>5. call.at = "idle"
  BY <1>1 DEF NoCall
<1>6. ~temp
  BY <1>5 DEF RuntimeInv, RuntimeTypeOK
<1>7. ~spoiled => TreeIsExpected'
  BY <1>1, <1>2, <1>3, <1>5 DEF RuntimeInv, TreeIsExpected
<1>8. QED
  BY <1>1, <1>4, <1>6, <1>7, RuntimeKept DEF RuntimeInv, RuntimeTypeOK

\* The installation ends, and the call that waits for it with it or goes on.
LEMMA InstallEndsStep ==
  ASSUME RuntimeInv, NEW raises \in BOOLEAN, InstallEnds(raises)
  PROVE  RuntimeInv'
<1>1. /\ install' = "over"
      /\ UNCHANGED <<tree, rejects, temp, hidden, testPatch, applied, pristine, spoiled>>
  BY DEF InstallEnds
<1>2. CASE UNCHANGED call
  <2>1. CallKnown' /\ (~spoiled => TreeIsExpected')
    BY <1>1, <1>2 DEF RuntimeInv, CallKnown, TreeIsExpected, Hunk
  <2>2. QED
    BY <1>1, <1>2, <2>1, RuntimeKept DEF RuntimeInv, RuntimeTypeOK
<1>3. CASE call.at = "wait"
  <2>1. ~temp /\ (~spoiled => tree = pristine) /\ CallKnown
    BY <1>3 DEF RuntimeInv, RuntimeTypeOK, TreeIsExpected
  <2>2. CASE Over
    <3>1. CallKnown' /\ (~spoiled => TreeIsExpected')
      BY <1>1, <2>1, <2>2, CallOver DEF TreeIsExpected
    <3>2. QED
      BY <1>1, <2>1, <3>1, RuntimeKept DEF RuntimeInv, RuntimeTypeOK
  <2>3. CASE Reach(IF call.patch = NoPatch THEN "command" ELSE "apply")
    <3>1. PICK place \in {"command", "apply"} :
             Reach(place) /\ place = IF call.patch = NoPatch THEN "command" ELSE "apply"
      BY <2>3
    <3>2. CallKnown' /\ call'.at = place /\ call'.patch = call.patch
      BY <1>3, <2>1, <3>1, CallReaches DEF Places
    <3>3. ~spoiled => TreeIsExpected'
      BY <1>1, <2>1, <3>1, <3>2 DEF TreeIsExpected
    <3>4. QED
      BY <1>1, <2>1, <3>2, <3>3, RuntimeKept DEF RuntimeInv, RuntimeTypeOK
  <2>4. QED
    BY <1>3, <2>2, <2>3 DEF InstallEnds
<1>4. QED
  BY <1>2, <1>3 DEF InstallEnds

\* git apply puts the patch into the first tree.
LEMMA ApplyPatchStep ==
  ASSUME RuntimeInv, ApplyPatch
  PROVE  RuntimeInv'
<1>1. /\ call.at = "apply" /\ tree' = GitApplied(tree, Hunk)
      /\ spoiled' = (spoiled \/ Lasting(Hunk)) /\ Reach("inspect")
      /\ UNCHANGED <<rejects, hidden, testPatch, install, applied, pristine>>
  BY DEF ApplyPatch
<1>2. /\ CallKnown /\ call.patch # NoPatch /\ call.patch \in Patches
      /\ tree \in [Files -> Versions] /\ install \in {"running", "over"} /\ spoiled \in BOOLEAN
  BY <1>1 DEF RuntimeInv, RuntimeTypeOK, CallKnown, Calls
<1>3. CallKnown' /\ call'.at = "inspect" /\ call'.patch = call.patch
  BY <1>1, <1>2, CallReaches DEF Places
<1>4. /\ DOMAIN Hunk \subseteq Files /\ \A f \in DOMAIN Hunk : Hunk[f].to \in Versions
  BY <1>2, VersionsMade DEF Hunk
<1>5. tree' \in [Files -> Versions]
  BY <1>1, <1>2, <1>4 DEF GitApplied, With
<1>6. ~spoiled' => TreeIsExpected'
  <2> SUFFICES ASSUME ~spoiled'
               PROVE  TreeIsExpected'
    OBVIOUS
  <2>1. tree = pristine /\ ~Lasting(Hunk)
    BY <1>1 DEF RuntimeInv, TreeIsExpected
  <2>2. Hunk' = Hunk
    BY <1>3 DEF Hunk
  <2>3. tree' = GitApplied(pristine, Hunk)' /\ ~Lasting(Hunk)'
    BY <1>1, <2>1, <2>2 DEF GitApplied, Matches, With, Lasting
  <2>4. QED
    BY <1>2, <1>3, <2>3 DEF TreeIsExpected
<1>7. spoiled' \in BOOLEAN
  BY <1>1, <1>2 DEF Lasting
<1>8. QED
  BY <1>1, <1>2, <1>3, <1>5, <1>6, <1>7, RuntimeKept

\* A call that gives up its tree leaves it as it is, and is not the last to know it.
LEMMA ConcludeStep ==
  ASSUME RuntimeInv, NEW ok \in BOOLEAN, Conclude(ok), call.at \in {"inspect", "inspect again"},
         UNCHANGED <<tree, rejects, hidden, testPatch, install, pristine>>
  PROVE  RuntimeInv'
<1>1. /\ CallKnown /\ call.patch # NoPatch /\ tree \in [Files -> Versions]
      /\ install \in {"running", "over"} /\ spoiled \in BOOLEAN
  BY DEF RuntimeInv, RuntimeTypeOK, CallKnown
<1>2. temp' = FALSE
  BY DEF Conclude
<1>3. CASE Reach("command") /\ UNCHANGED spoiled
  <2>1. CallKnown' /\ call'.at = "command" /\ call'.patch = call.patch
    BY <1>1, <1>3, CallReaches DEF Places
  <2>2. ~spoiled' => TreeIsExpected'
    <3> SUFFICES ASSUME ~spoiled'
                 PROVE  TreeIsExpected'
      OBVIOUS
    <3>1. tree = GitApplied(pristine, Hunk) /\ ~Lasting(Hunk)
      BY <1>1, <1>3 DEF RuntimeInv, TreeIsExpected
    <3>2. Hunk' = Hunk
      BY <2>1 DEF Hunk
    <3>3. tree' = GitApplied(pristine, Hunk)' /\ ~Lasting(Hunk)'
      BY <3>1, <3>2 DEF GitApplied, Matches, With, Lasting
    <3>4. QED
      BY <1>1, <2>1, <3>3 DEF TreeIsExpected
  <2>3. QED
    BY <1>1, <1>2, <1>3, <2>1, <2>2, RuntimeKept
<1>4. CASE Over /\ spoiled' = TRUE
  BY <1>1, <1>2, <1>4, CallOver, RuntimeKept
<1>5. QED
  BY <1>3, <1>4 DEF Conclude

\* What is seen of the tree decides, and changes nothing.
LEMMA InspectTreeStep ==
  ASSUME RuntimeInv, InspectTree \/ InspectAgain
  PROVE  RuntimeInv'
<1>1. /\ call.at \in {"inspect", "inspect again"}
      /\ UNCHANGED <<tree, rejects, hidden, testPatch, install, pristine>>
  BY DEF InspectTree, InspectAgain
<1>2. ASSUME NEW ok, ok \in BOOLEAN, Conclude(ok)
      PROVE  RuntimeInv'
  BY <1>1, <1>2, ConcludeStep
<1>3. CASE Conclude(FilesExist)
  BY <1>2, <1>3 DEF FilesExist
<1>4. CASE Conclude(LooksChanged /\ FilesExist)
  BY <1>2, <1>4 DEF FilesExist, LooksChanged
<1>5. CASE Reach("patch") /\ UNCHANGED <<applied, temp, spoiled>>
  <2>1. /\ CallKnown /\ call.patch # NoPatch /\ tree \in [Files -> Versions]
        /\ install \in {"running", "over"} /\ spoiled \in BOOLEAN
    BY <1>1 DEF RuntimeInv, RuntimeTypeOK, CallKnown
  <2>2. CallKnown' /\ call'.at = "patch" /\ call'.patch = call.patch
    BY <1>1, <1>5, <2>1, CallReaches DEF Places
  <2>3. ~spoiled' => TreeIsExpected'
    <3> SUFFICES ASSUME ~spoiled'
                 PROVE  TreeIsExpected'
      OBVIOUS
    <3>1. tree = GitApplied(pristine, Hunk) /\ ~Lasting(Hunk)
      BY <1>1, <1>5, <2>1 DEF RuntimeInv, TreeIsExpected
    <3>2. Hunk' = Hunk
      BY <2>2 DEF Hunk
    <3>3. tree' = GitApplied(pristine, Hunk)' /\ ~Lasting(Hunk)'
      BY <1>1, <3>1, <3>2 DEF GitApplied, Matches, With, Lasting
    <3>4. QED
      BY <2>1, <2>2, <3>3 DEF TreeIsExpected
  <2>4. QED
    BY <1>1, <1>5, <2>1, <2>2, <2>3, RuntimeKept
<1>6. QED
  BY <1>3, <1>4, <1>5 DEF InspectTree, InspectAgain

\* Where patch(1) neither rejects nor takes out anything, it does what git apply does.
LEMMA PatchedLikeGit ==
  ASSUME NEW t, DOMAIN t = Files, NEW hunks, DOMAIN hunks \subseteq Files,
         Rejected(GitApplied(t, hunks), hunks) = {}, TakenOut(GitApplied(t, hunks), hunks) = {}
  PROVE  BatchPatched(GitApplied(t, hunks), hunks) = GitApplied(t, hunks)
<1> DEFINE g == GitApplied(t, hunks)
<1>1. \A f \in DOMAIN hunks : g[f] = hunks[f].from
  BY DEF Rejected, TakenOut
<1>2. CASE Matches(t, hunks)
  <2>1. g = With(t, hunks)
    BY <1>2 DEF GitApplied
  <2>2. \A f \in DOMAIN hunks : g[f] = hunks[f].to
    BY <2>1 DEF With
  <2>3. BatchPatched(g, hunks) = [f \in Files |-> g[f]]
    BY <1>1, <2>2 DEF BatchPatched
  <2>4. QED
    BY <2>1, <2>3 DEF With
<1>3. CASE ~Matches(t, hunks)
  <2>1. g = t
    BY <1>3 DEF GitApplied
  <2>2. QED
    BY <1>1, <1>3, <2>1 DEF Matches
<1>4. QED
  BY <1>2, <1>3

\* patch(1) puts in what is not there yet.
LEMMA PatchCommandStep ==
  ASSUME RuntimeInv, PatchCommand
  PROVE  RuntimeInv'
<1>1. /\ call.at = "patch" /\ tree' = BatchPatched(tree, Hunk)
      /\ UNCHANGED <<hidden, testPatch, install, pristine>>
  BY DEF PatchCommand
<1>2. /\ CallKnown /\ call.patch # NoPatch /\ call.patch \in Patches
      /\ tree \in [Files -> Versions] /\ install \in {"running", "over"} /\ spoiled \in BOOLEAN
      /\ DOMAIN pristine = Files
  BY <1>1 DEF RuntimeInv, RuntimeTypeOK, CallKnown, Calls, BaseTree
<1>3. /\ DOMAIN Hunk \subseteq Files
      /\ \A f \in DOMAIN Hunk : Hunk[f].to \in Versions /\ Hunk[f].from \in Versions
  BY <1>2, VersionsMade DEF Hunk
<1>4. tree' \in [Files -> Versions]
  BY <1>1, <1>2, <1>3 DEF BatchPatched
<1>5. CASE Rejected(tree, Hunk) = {}
  <2>1. /\ Reach("inspect again") /\ temp' = temp
        /\ spoiled' = (spoiled \/ TakenOut(tree, Hunk) # {})
    BY <1>5 DEF PatchCommand
  <2>2. CallKnown' /\ call'.at = "inspect again" /\ call'.patch = call.patch
    BY <1>1, <1>2, <2>1, CallReaches DEF Places
  <2>3. ~spoiled' => TreeIsExpected'
    <3> SUFFICES ASSUME ~spoiled'
                 PROVE  TreeIsExpected'
      OBVIOUS
    <3>1. tree = GitApplied(pristine, Hunk) /\ ~Lasting(Hunk) /\ TakenOut(tree, Hunk) = {}
      BY <1>1, <1>2, <2>1 DEF RuntimeInv, TreeIsExpected
    <3>2. Hunk' = Hunk
      BY <2>2 DEF Hunk
    <3>3. PICK hunks : hunks = Hunk
      OBVIOUS
    <3>4. tree' = GitApplied(pristine, hunks)
      BY <1>1, <1>2, <1>3, <1>5, <3>1, <3>3, PatchedLikeGit
    <3>5. tree' = GitApplied(pristine, Hunk)' /\ ~Lasting(Hunk)'
      BY <1>1, <3>1, <3>2, <3>3, <3>4 DEF GitApplied, Matches, With, Lasting
    <3>6. QED
      BY <1>2, <2>2, <3>5 DEF TreeIsExpected
  <2>4. QED
    BY <1>1, <1>2, <1>4, <2>1, <2>2, <2>3, RuntimeKept
<1>6. CASE Rejected(tree, Hunk) # {}
  <2>1. /\ temp' = FALSE /\ spoiled' = TRUE
        /\ IF call.op = "execute" THEN Reach("command") ELSE Over
    BY <1>6 DEF PatchCommand
  <2>2. CallKnown'
    BY <1>1, <1>2, <2>1, CallReaches, CallOver DEF Places
  <2>3. QED
    BY <1>1, <1>2, <1>4, <2>1, <2>2, RuntimeKept
<1>7. QED
  BY <1>5, <1>6

\* A call that leaves its tree with nothing of its patch outside the files to reset.
LEMMA LeavesExpected ==
  ASSUME RuntimeInv, Leave, call.at # "idle", DOMAIN tree' = Files,
         UNCHANGED <<testPatch, pristine>>, ~spoiled,
         call.patch = NoPatch => tree' = pristine,
         call.patch # NoPatch =>
           \A f \in Files \ ModifiedFiles(call.patch) : tree'[f] = pristine[f]
  PROVE  TreeIsExpected'
<1>1. CallKnown
  BY DEF RuntimeInv
<1>2. CASE call.patch = NoPatch
  <2>1. call' = NoCall /\ call'.at = "idle"
    BY <1>1, <1>2, CallLeaves
  <2>2. QED
    BY <1>2, <2>1 DEF TreeIsExpected
<1>3. CASE call.patch # NoPatch
  <2>1. call'.at = "reset" /\ call'.todo = ModifiedFiles(call.patch)
    BY <1>1, <1>3, CallLeaves
  <2>2. QED
    BY <1>3, <2>1 DEF TreeIsExpected
<1>4. QED
  BY <1>2, <1>3

\* A command or a test run changes no file, and the last of a call is followed by the reset.
LEMMA RunCommandStep ==
  ASSUME RuntimeInv, RunCommand
  PROVE  RuntimeInv'
<1>1. /\ call.at = "command"
      /\ UNCHANGED <<tree, rejects, temp, hidden, testPatch, install, applied, pristine, spoiled>>
  BY DEF RunCommand
<1>2. /\ CallKnown /\ tree \in [Files -> Versions] /\ DOMAIN tree = Files
      /\ install \in {"running", "over"} /\ spoiled \in BOOLEAN /\ ~temp
  BY <1>1 DEF RuntimeInv, RuntimeTypeOK
<1>3. CASE call.tests > 1 /\ call' = [call EXCEPT !.tests = @ - 1]
  <2>1. call \in Calls /\ call.tests - 1 \in 0..MaxTestFiles
    <3>1. call \in Calls /\ call.tests \in 0..MaxTestFiles
      BY <1>2 DEF CallKnown, Calls
    <3>2. MaxTestFiles \in Nat
      BY RuntimeAssumption
    <3>3. QED
      BY <1>3, <3>1, <3>2
  <2>2. /\ call' \in Calls /\ call'.at = "command" /\ call'.patch = call.patch
        /\ call'.op = call.op /\ call'.todo = call.todo
    BY <1>1, <1>3, <2>1 DEF Calls
  <2>3. CallKnown'
    BY <1>2, <2>2 DEF CallKnown
  <2>4. ~spoiled' => TreeIsExpected'
    <3>1. Hunk' = Hunk
      BY <2>2 DEF Hunk
    <3>2. GitApplied(pristine, Hunk)' = GitApplied(pristine, Hunk) /\ Lasting(Hunk)' = Lasting(Hunk)
      BY <1>1, <3>1 DEF GitApplied, Matches, With, Lasting
    <3>3. QED
      BY <1>1, <2>2, <3>2 DEF RuntimeInv, TreeIsExpected
  <2>5. QED
    BY <1>1, <1>2, <2>3, <2>4, RuntimeKept
<1>4. CASE Leave
  <2>1. CallKnown'
    BY <1>1, <1>2, <1>4, CallLeaves
  <2>2. ASSUME ~spoiled
        PROVE  TreeIsExpected'
    <3>1. /\ call.patch = NoPatch => tree = pristine
          /\ call.patch # NoPatch => /\ tree = GitApplied(pristine, Hunk) /\ ~Lasting(Hunk)
                                     /\ call.patch \in Patches
      BY <1>1, <1>2, <2>2 DEF RuntimeInv, TreeIsExpected, CallKnown, Calls
    <3>2. call.patch # NoPatch =>
            \A f \in Files \ ModifiedFiles(call.patch) : tree[f] = pristine[f]
      BY <3>1, PatchIsReset DEF Hunk
    <3>3. QED
      BY <1>1, <1>2, <1>4, <2>2, <3>1, <3>2, LeavesExpected
  <2>3. QED
    BY <1>1, <1>2, <2>1, <2>2, RuntimeKept
<1>5. QED
  BY <1>3, <1>4 DEF RunCommand

\* What an evaluation does to the tree, if its test patch adds no file and leaves the
\* protected ones alone: its tests have the version of the base commit, as before.
LEMMA TestsPutBack ==
  ASSUME RuntimeInv, ~Lasting(testPatch), NEW f \in Files
  PROVE  LET tested == GitApplied(CheckedOut(tree, OldTests), testPatch)
         IN  CheckedOut(tested, OldTests)[f] = IF f \in OldTests THEN pristine[f] ELSE tree[f]
<1>1. OldTests = DOMAIN testPatch
  BY DEF OldTests, Lasting
<1>2. CASE f \in OldTests
  <2>1. f \in DOMAIN testPatch /\ testPatch[f].from # "none" /\ f \notin Protected
    BY <1>1, <1>2 DEF OldTests, Lasting
  <2>2. testPatch[f].from = IF f \in Tracked THEN "base" ELSE "none"
    BY <2>1, RuntimeAssumption DEF RuntimeInv
  <2>3. pristine[f] = "base"
    BY <2>1, <2>2 DEF RuntimeInv, BaseTree
  <2>4. QED
    BY <1>2, <2>3 DEF CheckedOut
<1>3. CASE f \notin OldTests
  <2>1. CheckedOut(tree, OldTests)[f] = tree[f]
    BY <1>3 DEF CheckedOut
  <2>2. GitApplied(CheckedOut(tree, OldTests), testPatch)[f] = tree[f]
    BY <1>1, <1>3, <2>1 DEF GitApplied, With
  <2>3. QED
    BY <1>3, <2>2 DEF CheckedOut
<1>4. QED
  BY <1>2, <1>3

\* An evaluation puts its tests in and back, and the reset follows.
LEMMA EvaluateStep ==
  ASSUME RuntimeInv, Evaluate
  PROVE  RuntimeInv'
<1> DEFINE tested == GitApplied(CheckedOut(tree, OldTests), testPatch)
<1>1. /\ call.at = "command" /\ call.op = "evaluate" /\ tree' = CheckedOut(tested, OldTests)
      /\ spoiled' = (spoiled \/ Lasting(testPatch)) /\ Leave
      /\ UNCHANGED <<rejects, temp, hidden, testPatch, install, applied, pristine>>
  BY DEF Evaluate
<1>2. /\ CallKnown /\ call.patch # NoPatch /\ call.patch \in Patches
      /\ tree \in [Files -> Versions] /\ install \in {"running", "over"} /\ spoiled \in BOOLEAN
      /\ ~temp
  BY <1>1 DEF RuntimeInv, RuntimeTypeOK, CallKnown, Calls
<1>3. \A f \in DOMAIN testPatch : testPatch[f].to \in Versions
  BY <1>2, VersionsMade
<1>4. "base" \in Versions
  BY DEF Versions
<1>5. CheckedOut(tree, OldTests) \in [Files -> Versions]
  BY <1>2, <1>4 DEF CheckedOut
<1>6. tested \in [Files -> Versions]
  BY <1>3, <1>5 DEF GitApplied, With
<1>7. tree' \in [Files -> Versions] /\ DOMAIN tree' = Files
  BY <1>1, <1>4, <1>6 DEF CheckedOut
<1>8. CallKnown'
  BY <1>1, <1>2, CallLeaves
<1>9. ASSUME ~spoiled'
      PROVE  TreeIsExpected'
  <2>1. ~spoiled /\ ~Lasting(testPatch)
    BY <1>1, <1>9
  <2>2. tree = GitApplied(pristine, Hunk) /\ ~Lasting(Hunk)
    BY <1>1, <1>2, <2>1 DEF RuntimeInv, TreeIsExpected
  <2>3. ASSUME NEW f \in Files \ ModifiedFiles(call.patch)
        PROVE  tree'[f] = pristine[f]
    <3>1. tree[f] = pristine[f]
      BY <1>2, <2>2, PatchIsReset DEF Hunk
    <3>2. tree'[f] = IF f \in OldTests THEN pristine[f] ELSE tree[f]
      BY <1>1, <2>1, TestsPutBack
    <3>3. QED
      BY <3>1, <3>2
  <2>4. QED
    BY <1>1, <1>2, <1>7, <2>1, <2>3, LeavesExpected
<1>10. spoiled' \in BOOLEAN
  BY <1>1, <1>2 DEF Lasting
<1>11. QED
  BY <1>1, <1>2, <1>7, <1>8, <1>9, <1>10, RuntimeKept

\* A file is put to what it is in the first tree, and nothing else is changed that is not.
LEMMA ResetFileStep ==
  ASSUME RuntimeInv, NEW f \in Files, ResetFile(f)
  PROVE  RuntimeInv'
<1>1. /\ call.at = "reset" /\ f \in call.todo /\ call' = [call EXCEPT !.todo = @ \ {f}]
      /\ UNCHANGED <<temp, hidden, testPatch, install, applied, pristine, spoiled>>
  BY DEF ResetFile
<1>2. /\ CallKnown /\ call \in Calls /\ call.patch # NoPatch
      /\ tree \in [Files -> Versions] /\ install \in {"running", "over"} /\ spoiled \in BOOLEAN
      /\ ~temp /\ BaseTree(pristine)
  BY <1>1 DEF RuntimeInv, RuntimeTypeOK, CallKnown
<1>3. /\ call' \in Calls /\ call'.at = "reset" /\ call'.patch = call.patch
      /\ call'.op = call.op /\ call'.todo = call.todo \ {f}
  BY <1>1, <1>2 DEF Calls
<1>4. CallKnown'
  BY <1>2, <1>3 DEF CallKnown
<1>5. "base" \in Versions /\ "none" \in Versions
  BY DEF Versions
<1>6. /\ tree' \in [Files -> Versions]
      /\ \A g \in Files : g # f => tree'[g] = tree[g] \/ tree'[g] = pristine[g]
      /\ tree'[f] = pristine[f]
  <2>1. CASE f \in Tracked
    <3>1. tree' = [g \in Files |-> IF g \in {f} THEN "base" ELSE tree[g]]
      BY <2>1 DEF ResetFile, CheckedOut
    <3>2. pristine[f] = "base"
      BY <1>1, <1>2, <2>1 DEF CallKnown, BaseTree
    <3>3. QED
      BY <1>2, <1>5, <3>1, <3>2
  <2>2. CASE f \notin Tracked
    <3>1. PICK gone \in SUBSET (Files \ Tracked) :
             f \in gone /\ tree' = [g \in Files |-> IF g \in gone THEN "none" ELSE tree[g]]
      BY <2>2 DEF ResetFile
    <3>2. \A g \in gone : pristine[g] = "none"
      BY <1>2 DEF BaseTree
    <3>3. QED
      BY <1>2, <1>5, <3>1, <3>2
  <2>3. QED
    BY <2>1, <2>2
<1>7. ~spoiled' => TreeIsExpected'
  <2> SUFFICES ASSUME ~spoiled'
               PROVE  TreeIsExpected'
    OBVIOUS
  <2>1. \A g \in Files \ call.todo : tree[g] = pristine[g]
    BY <1>1 DEF RuntimeInv, TreeIsExpected
  <2>2. \A g \in Files \ call'.todo : tree'[g] = pristine'[g]
    BY <1>1, <1>3, <1>6, <2>1
  <2>3. QED
    BY <1>3, <2>2 DEF TreeIsExpected
<1>8. QED
  BY <1>1, <1>2, <1>4, <1>6, <1>7, RuntimeKept

\* Once every file is reset, the tree is the first one.
LEMMA ResetEndsStep ==
  ASSUME RuntimeInv, ResetEnds
  PROVE  RuntimeInv'
<1>1. /\ call.at = "reset" /\ call.todo = {} /\ Over
      /\ UNCHANGED <<tree, rejects, temp, hidden, testPatch, install, applied, pristine, spoiled>>
  BY DEF ResetEnds
<1>2. /\ tree \in [Files -> Versions] /\ install \in {"running", "over"} /\ spoiled \in BOOLEAN
      /\ ~temp /\ BaseTree(pristine)
  BY <1>1 DEF RuntimeInv, RuntimeTypeOK
<1>3. CallKnown' /\ call' = NoCall /\ call'.at = "idle" /\ call'.patch = NoPatch
  BY <1>1, CallOver
<1>4. ASSUME ~spoiled'
      PROVE  TreeIsExpected'
  <2>1. \A f \in Files : tree[f] = pristine[f]
    BY <1>1, <1>4 DEF RuntimeInv, TreeIsExpected
  <2>2. pristine = [f \in Files |-> pristine[f]]
    BY <1>2 DEF BaseTree
  <2>3. tree = pristine
    BY <1>2, <2>1, <2>2
  <2>4. QED
    BY <1>1, <1>3, <2>3 DEF TreeIsExpected
<1>5. QED
  BY <1>1, <1>2, <1>3, <1>4, RuntimeKept

\* What is cut short before its reset is reset by execute alone; the others spoil the tree.
LEMMA CutShortStep ==
  ASSUME RuntimeInv, CutShort
  PROVE  RuntimeInv'
<1>1. /\ call.at \notin {"idle", "wait"} /\ temp' = FALSE
      /\ spoiled' = (spoiled \/ call.op # "execute" \/ call.at = "reset")
      /\ UNCHANGED <<tree, rejects, hidden, testPatch, install, applied, pristine>>
  BY DEF CutShort
<1>2. /\ CallKnown /\ tree \in [Files -> Versions] /\ DOMAIN tree = Files
      /\ install \in {"running", "over"} /\ spoiled \in BOOLEAN
  BY DEF RuntimeInv, RuntimeTypeOK
<1>3. CASE ResetsAfterError /\ call.at # "reset"
  <2>1. Leave /\ call.patch # NoPatch /\ call.patch \in Patches
    BY <1>2, <1>3 DEF CutShort, ResetsAfterError, CallKnown, Calls
  <2>2. CallKnown'
    BY <1>1, <1>2, <2>1, CallLeaves
  <2>3. ASSUME ~spoiled'
        PROVE  TreeIsExpected'
    <3>1. ~spoiled /\ call.at \in {"apply", "inspect", "patch", "inspect again", "command"}
      BY <1>1, <1>2, <1>3, <2>3 DEF CallKnown, Calls, Places
    <3>2. tree = pristine \/ (tree = GitApplied(pristine, Hunk) /\ ~Lasting(Hunk))
      BY <2>1, <3>1 DEF RuntimeInv, TreeIsExpected
    <3>3. \A f \in Files \ ModifiedFiles(call.patch) : tree'[f] = pristine[f]
      BY <1>1, <2>1, <3>2, PatchIsReset DEF Hunk
    <3>4. QED
      BY <1>1, <1>2, <2>1, <3>1, <3>3, LeavesExpected
  <2>4. QED
    BY <1>1, <1>2, <2>2, <2>3, RuntimeKept
<1>4. CASE ~(ResetsAfterError /\ call.at # "reset")
  <2>1. Over
    BY <1>4 DEF CutShort
  <2>2. CallKnown' /\ call' = NoCall /\ call'.at = "idle" /\ call'.patch = NoPatch
    BY <2>1, CallOver
  <2>3. ASSUME ~spoiled'
        PROVE  TreeIsExpected'
    <3>1. ~spoiled /\ call.op = "execute" /\ call.at # "reset"
      BY <1>1, <2>3
    <3>2. call.patch = NoPatch
      BY <1>4, <3>1 DEF ResetsAfterError
    <3>3. call.at = "command"
      BY <1>1, <1>2, <3>1, <3>2 DEF CallKnown, Calls, Places
    <3>4. tree = pristine
      BY <3>1, <3>2, <3>3 DEF RuntimeInv, TreeIsExpected
    <3>5. QED
      BY <1>1, <2>2, <3>4 DEF TreeIsExpected
  <2>4. QED
    BY <1>1, <1>2, <2>2, <2>3, RuntimeKept
<1>5. QED
  BY <1>3, <1>4

\* A call that has only waited leaves the tree as it was.
LEMMA CanceledWaitingStep ==
  ASSUME RuntimeInv, CanceledWaiting
  PROVE  RuntimeInv'
<1>1. /\ call.at = "wait" /\ Over /\ install' = "over"
      /\ UNCHANGED <<tree, rejects, temp, hidden, testPatch, applied, pristine, spoiled>>
  BY DEF CanceledWaiting
<1>2. /\ tree \in [Files -> Versions] /\ spoiled \in BOOLEAN /\ ~temp
      /\ (~spoiled => tree = pristine)
  BY <1>1 DEF RuntimeInv, RuntimeTypeOK, TreeIsExpected
<1>3. CallKnown' /\ call' = NoCall /\ call'.at = "idle" /\ call'.patch = NoPatch
  BY <1>1, CallOver
<1>4. ~spoiled' => TreeIsExpected'
  BY <1>1, <1>2, <1>3 DEF TreeIsExpected
<1>5. QED
  BY <1>1, <1>2, <1>3, <1>4, RuntimeKept

\* Steps that leave the call and its tree alone.
LEMMA NewEnvironmentStep ==
  ASSUME RuntimeInv, NewEnvironment \/ UNCHANGED runtimeVars
  PROVE  RuntimeInv'
<1>1. /\ UNCHANGED <<tree, temp, testPatch, call, pristine, spoiled>>
      /\ install' \in {"running", "over"}
  BY DEF NewEnvironment, runtimeVars, RuntimeInv, RuntimeTypeOK
<1>2. CallKnown'
  BY <1>1 DEF RuntimeInv, CallKnown
<1>3. /\ tree \in [Files -> Versions] /\ spoiled \in BOOLEAN
      /\ temp => call.at \in {"inspect", "patch", "inspect again"}
  BY DEF RuntimeInv, RuntimeTypeOK
<1>4. Hunk' = Hunk
  BY <1>1 DEF Hunk
<1>5. GitApplied(pristine, Hunk)' = GitApplied(pristine, Hunk) /\ Lasting(Hunk)' = Lasting(Hunk)
  BY <1>1, <1>4 DEF GitApplied, Matches, With, Lasting
<1>6. ~spoiled' => TreeIsExpected'
  BY <1>1, <1>5 DEF RuntimeInv, TreeIsExpected
<1>7. QED
  BY <1>1, <1>2, <1>3, <1>6, RuntimeKept

\* Every step of a runtime keeps the invariant.
LEMMA RuntimeStep ==
  ASSUME RuntimeInv, [RuntimeNext]_runtimeVars
  PROVE  RuntimeInv'
<1>1. ASSUME NEW op \in {"execute", "evaluate"}, NEW p \in Patches \cup {NoPatch},
             BeginCall(op, p, 1)
      PROVE  RuntimeInv'
  <2>1. 1 \in 1..MaxTestFiles
    BY RuntimeAssumption
  <2>2. QED
    BY <1>1, <2>1, BeginCallStep
<1>2. ASSUME NEW p \in Patches \cup {NoPatch}, NEW n \in 1..MaxTestFiles,
             BeginCall("tests", p, n)
      PROVE  RuntimeInv'
  BY <1>2, BeginCallStep
<1>3. ASSUME NEW raises \in BOOLEAN, InstallEnds(raises)
      PROVE  RuntimeInv'
  BY <1>3, InstallEndsStep
<1>4. CASE ApplyPatch \/ InspectTree \/ PatchCommand \/ InspectAgain
  BY <1>4, ApplyPatchStep, InspectTreeStep, PatchCommandStep
<1>5. CASE RunCommand \/ Evaluate
  BY <1>5, RunCommandStep, EvaluateStep
<1>6. ASSUME NEW f \in Files, ResetFile(f)
      PROVE  RuntimeInv'
  BY <1>6, ResetFileStep
<1>7. CASE ResetEnds \/ CutShort \/ CanceledWaiting \/ NewEnvironment \/ UNCHANGED runtimeVars
  BY <1>7, ResetEndsStep, CutShortStep, CanceledWaitingStep, NewEnvironmentStep
<1>8. QED
  BY <1>1, <1>2, <1>3, <1>4, <1>5, <1>6, <1>7 DEF RuntimeNext

\* A runtime begins in the first tree, with no call under way.
LEMMA RuntimeStarts ==
  ASSUME RuntimeInit
  PROVE  RuntimeInv
<1>1. PICK prepared \in SUBSET Protected :
         tree = [f \in Files |-> IF f \in prepared THEN "prepared"
                                 ELSE IF f \in Tracked THEN "base" ELSE "none"]
  BY DEF RuntimeInit
<1>2. /\ temp = FALSE /\ testPatch \in TestPatches /\ install \in {"running", "over"}
      /\ call = NoCall /\ pristine = tree /\ spoiled = FALSE
  BY DEF RuntimeInit
<1>3. {"base", "none", "prepared"} \subseteq Versions
  BY DEF Versions
<1>4. CallKnown
  <2>1. MaxTestFiles \in Nat
    BY RuntimeAssumption
  <2>2. NoCall \in Calls
    BY <2>1 DEF NoCall, Calls, Places
  <2>3. QED
    BY <1>2, <2>2 DEF CallKnown, NoCall
<1>5. tree \in [Files -> Versions]
  BY <1>1, <1>3
<1>6. RuntimeTypeOK
  <2>1. /\ call.at \in Places /\ call.todo \subseteq Files /\ call.tests \in 0..MaxTestFiles
    BY <1>4 DEF CallKnown, Calls
  <2>2. QED
    BY <1>2, <1>5, <2>1 DEF RuntimeTypeOK, Places
<1>7. BaseTree(pristine)
  <2>1. Protected \subseteq Tracked
    BY RuntimeAssumption
  <2>2. QED
    BY <1>1, <1>2, <2>1 DEF BaseTree
<1>8. TreeIsExpected
  BY <1>2 DEF TreeIsExpected, NoCall
<1>9. QED
  BY <1>2, <1>4, <1>6, <1>7, <1>8 DEF RuntimeInv

\* The tests that the evaluation puts in match the tree that it finds.
LEMMA TestsMatch ==
  ASSUME RuntimeInv, ~spoiled, call.at = "command", call.op = "evaluate"
  PROVE  Matches(CheckedOut(tree, OldTests), testPatch)
<1>1. /\ call.patch # NoPatch /\ call.patch \in Patches /\ testPatch \in TestPatches
      /\ BaseTree(pristine) /\ tree = GitApplied(pristine, Hunk) /\ ~Lasting(Hunk)
  BY DEF RuntimeInv, CallKnown, Calls, TreeIsExpected
<1>2. SUFFICES ASSUME NEW f \in DOMAIN testPatch
               PROVE  CheckedOut(tree, OldTests)[f] = testPatch[f].from
  BY DEF Matches
<1>3. f \in Files /\ testPatch[f].from = IF f \in Tracked THEN "base" ELSE "none"
  BY <1>1, RuntimeAssumption
<1>4. CASE f \in OldTests
  BY <1>3, <1>4 DEF CheckedOut, OldTests
<1>5. CASE f \notin OldTests
  <2>1. testPatch[f].from = "none" /\ f \notin Tracked /\ pristine[f] = "none"
    BY <1>1, <1>3, <1>5 DEF OldTests, BaseTree
  <2>2. tree[f] = "none"
    <3>1. CASE Matches(pristine, Hunk)
      <4>1. f \notin DOMAIN Hunk
        BY <1>1, <2>1, <3>1 DEF Matches, Lasting
      <4>2. QED
        BY <1>1, <1>3, <2>1, <3>1, <4>1 DEF GitApplied, With
    <3>2. QED
      BY <1>1, <2>1, <3>1 DEF GitApplied
  <2>3. QED
    BY <1>3, <1>5, <2>1, <2>2 DEF CheckedOut
<1>6. QED
  BY <1>4, <1>5

\* Theorem: the runtime's variables keep their types, whatever files, patches and test
\* patches there are.
THEOREM RuntimeTypeCorrect == RuntimeSpec => []RuntimeTypeOK
<1>1. RuntimeInv => RuntimeTypeOK
  BY DEF RuntimeInv
<1>2. QED
  BY <1>1, RuntimeStarts, RuntimeStep, PTL DEF RuntimeSpec

\* Theorem: for any files, patches and test patches, each call of a runtime works on the first
\* tree with its own patch and no other, an evaluation can put its tests in, and nothing of a
\* call remains for the next, but in the ways that spoiled records.
THEOREM CallsAlwaysSeparate == RuntimeSpec => []CallsAreSeparate
<1>1. RuntimeInv => CallsAreSeparate
  <2> SUFFICES ASSUME RuntimeInv, ~spoiled
               PROVE  /\ call = NoCall => tree = pristine
                      /\ call.at = "command" =>
                           tree = IF call.patch = NoPatch THEN pristine
                                  ELSE GitApplied(pristine, Hunk)
                      /\ call.at = "command" /\ call.op = "evaluate" =>
                           Matches(CheckedOut(tree, OldTests), testPatch)
    BY DEF CallsAreSeparate
  <2>1. TreeIsExpected
    BY DEF RuntimeInv
  <2>2. call = NoCall => tree = pristine
    BY <2>1 DEF TreeIsExpected, NoCall
  <2>3. call.at = "command" =>
          tree = IF call.patch = NoPatch THEN pristine ELSE GitApplied(pristine, Hunk)
    BY <2>1 DEF TreeIsExpected
  <2>4. QED
    BY <2>2, <2>3, TestsMatch
<1>2. QED
  BY <1>1, RuntimeStarts, RuntimeStep, PTL DEF RuntimeSpec

--------------------------------------------------------------------------------
(* The repositories of instances                                               *)

CallPlaces ==
  {"find", "verify", "shared", "shared again", "fetch shared", "lock", "copy", "copy again",
   "verify again", "clone shared", "clone", "clone all", "fetch", "second try", "check out",
   "check out found", "open"}

\* Where a call awaits git.
ClonePlaces == {"clone shared", "clone", "clone all"}

Directories == [call : Nat, has : {"nothing", "tip", "all"}, head : {"none", "tip", "base"}]

Creators ==
  [at : CallPlaces \cup {"idle", "has"}, style : {"async", "local", "network"},
   instance : Instances \cup {Absent}, call : Nat, tries : Nat,
   head : {"none", "tip", "base"}, has : {"nothing", "tip", "all"}, unfinished : BOOLEAN]

Gits == [by : RepoCallers, call : Nat, path : Paths, from : {Absent, Shared}, has : {"tip", "all"}]

ReposTyped ==
  /\ dirs \in [Paths -> Directories \cup {Absent}]
  /\ gits \subseteq Gits
  /\ creator \in [RepoCallers -> Creators]
  /\ locked \in RepoCallers \cup {Absent}
  /\ creates \in Nat /\ faults \in 0..MaxFaults
  /\ returned \subseteq 1..creates

\* The calls under way are for an instance, differ from each other and have not returned.
CallsDiffer ==
  \A c \in RepoCallers : creator[c].at \in CallPlaces =>
    /\ creator[c].instance \in Instances
    /\ creator[c].call \in 1..creates /\ creator[c].call \notin returned
    /\ \A d \in RepoCallers :
         creator[d].at \in CallPlaces /\ creator[d].call = creator[c].call => d = c

\* A clone that git makes is that of a call which awaits it, or which nobody hears of again.
GitsAreAwaited ==
  \A g \in gits :
    /\ g.call \in 1..creates /\ g.call \notin returned
    /\ g.path = Shared => g.from = Absent /\ g.has = "all"
    /\ \A h \in gits : h.call = g.call => h = g
    /\ \A c \in RepoCallers :
         creator[c].at \in CallPlaces /\ creator[c].call = g.call =>
           /\ c = g.by /\ creator[c].at \in ClonePlaces
           /\ g.path = IF creator[c].at = "clone shared" THEN Shared ELSE creator[c].instance

\* A directory is what the call that made it has left: the base commit is checked out once
\* the call has returned, and a call makes none before it has looked for the copy.
DirsAreOf(p) ==
  /\ dirs[p].call \in 1..creates
  /\ p \in Instances /\ dirs[p].call \in returned => dirs[p].head = "base"
  /\ \A c \in RepoCallers :
       creator[c].at \in CallPlaces /\ creator[c].call = dirs[p].call =>
         creator[c].at \notin {"find", "verify"} /\ p \in {Shared, creator[c].instance}

\* Unless a process was killed, git is at work where the shared clone is not whole.
SharedIsWhole ==
  \/ killed \/ dirs[Shared] = Absent \/ dirs[Shared].has = "all"
  \/ \E g \in gits : g.path = Shared /\ dirs[Shared].call = g.call

HandedOut(c) ==
  creator[c].at = "has" =>
    creator[c].has = "all" /\ (creator[c].head = "base" \/ creator[c].unfinished)

RepoInv ==
  /\ ReposTyped
  /\ CallsDiffer
  /\ GitsAreAwaited
  /\ \A p \in Paths : dirs[p] # Absent => DirsAreOf(p)
  /\ SharedIsWhole
  /\ \A c \in RepoCallers : HandedOut(c)

\* What a step leaves of a directory: nothing, all of it, or the directory of the same call,
\* which has another commit checked out than the base only as long as the call goes on.
DirKept(p) ==
  \/ dirs'[p] = Absent
  \/ dirs'[p] = dirs[p]
  \/ /\ dirs[p] # Absent /\ dirs'[p].call = dirs[p].call
     /\ dirs'[p].head \in {dirs[p].head, "base"} \/ dirs[p].call \notin returned

\* A call that goes on where it awaits nothing, or is over.
Moved(c) ==
  /\ creator[c].at \in CallPlaces
  /\ \/ creator'[c].at = "idle"
     \/ /\ creator'[c].at \in CallPlaces \ (ClonePlaces \cup {"find"})
        /\ creator'[c].at = "verify" => creator[c].at = "find"
        /\ creator'[c].call = creator[c].call /\ creator'[c].instance = creator[c].instance
        /\ \A g \in gits' : g.call # creator[c].call

\* Steps that begin no call and no clone and hand nothing out keep the invariant.
LEMMA ReposKept ==
  ASSUME RepoInv, ReposTyped', UNCHANGED <<creates, returned>>, gits' \subseteq gits,
         \A c \in RepoCallers : creator'[c] = creator[c] \/ Moved(c),
         \A p \in Paths : DirKept(p),
         SharedIsWhole'
  PROVE  RepoInv'
<1>1. \A c \in RepoCallers :
        creator'[c].at \in CallPlaces =>
          /\ creator[c].at \in CallPlaces
          /\ creator'[c].call = creator[c].call /\ creator'[c].instance = creator[c].instance
  BY DEF Moved, CallPlaces
<1>2. CallsDiffer'
  BY <1>1 DEF RepoInv, CallsDiffer
<1>3. GitsAreAwaited'
  <2> SUFFICES ASSUME NEW g \in gits'
               PROVE  /\ g.call \in 1..creates /\ g.call \notin returned
                      /\ g.path = Shared => g.from = Absent /\ g.has = "all"
                      /\ \A h \in gits' : h.call = g.call => h = g
                      /\ \A c \in RepoCallers :
                           creator'[c].at \in CallPlaces /\ creator'[c].call = g.call =>
                             /\ c = g.by /\ creator'[c].at \in ClonePlaces
                             /\ g.path = IF creator'[c].at = "clone shared" THEN Shared
                                         ELSE creator'[c].instance
    BY DEF GitsAreAwaited
  <2>1. g \in gits
    OBVIOUS
  <2>2. /\ g.call \in 1..creates /\ g.call \notin returned
        /\ g.path = Shared => g.from = Absent /\ g.has = "all"
        /\ \A h \in gits' : h.call = g.call => h = g
    BY <2>1 DEF RepoInv, GitsAreAwaited
  <2>3. ASSUME NEW c \in RepoCallers, creator'[c].at \in CallPlaces, creator'[c].call = g.call
        PROVE  creator'[c] = creator[c]
    BY <1>1, <2>3 DEF Moved, CallPlaces
  <2>4. \A c \in RepoCallers :
          creator'[c].at \in CallPlaces /\ creator'[c].call = g.call =>
            /\ c = g.by /\ creator'[c].at \in ClonePlaces
            /\ g.path = IF creator'[c].at = "clone shared" THEN Shared
                        ELSE creator'[c].instance
    <3> SUFFICES ASSUME NEW c \in RepoCallers, creator'[c].at \in CallPlaces,
                        creator'[c].call = g.call
                 PROVE  /\ c = g.by /\ creator'[c].at \in ClonePlaces
                        /\ g.path = IF creator'[c].at = "clone shared" THEN Shared
                                    ELSE creator'[c].instance
      OBVIOUS
    <3>1. creator'[c] = creator[c]
      BY <2>3
    <3>2. creator[c].at \in CallPlaces /\ creator[c].call = g.call
      BY <3>1
    <3>3. /\ c = g.by /\ creator[c].at \in ClonePlaces
          /\ g.path = IF creator[c].at = "clone shared" THEN Shared ELSE creator[c].instance
      BY <2>1, <3>2 DEF RepoInv, GitsAreAwaited
    <3>4. QED
      BY <3>1, <3>3
  <2>5. QED
    BY <2>2, <2>4
<1>4. ASSUME NEW p \in Paths, dirs'[p] # Absent
      PROVE  DirsAreOf(p)'
  <2>1. /\ dirs[p] # Absent /\ dirs'[p].call = dirs[p].call
        /\ dirs'[p].head \in {dirs[p].head, "base"} \/ dirs[p].call \notin returned
    BY <1>4 DEF DirKept
  <2>2. DirsAreOf(p)
    BY <2>1 DEF RepoInv
  <2>3. \A c \in RepoCallers :
          creator'[c].at \in CallPlaces /\ creator'[c].call = dirs'[p].call =>
            creator'[c].at \notin {"find", "verify"} /\ p \in {Shared, creator'[c].instance}
    BY <1>1, <2>1, <2>2 DEF DirsAreOf, Moved, CallPlaces
  <2>4. QED
    BY <2>1, <2>2, <2>3 DEF DirsAreOf
<1>5. \A c \in RepoCallers : HandedOut(c)'
  BY DEF RepoInv, HandedOut, Moved, CallPlaces
<1>6. QED
  BY <1>2, <1>3, <1>4, <1>5 DEF RepoInv

\* Nothing that git makes is that of a call which awaits no clone.
LEMMA NoneAwaited ==
  ASSUME RepoInv, NEW c \in RepoCallers, creator[c].at \in CallPlaces \ ClonePlaces
  PROVE  \A g \in gits : g.call # creator[c].call
  BY DEF RepoInv, GitsAreAwaited

\* The shared clone stays whole where nothing but a whole one takes its place, and git goes on
\* with it.
LEMMA SharedStays ==
  ASSUME RepoInv, killed => killed',
         dirs'[Shared] \in {Absent, dirs[Shared]} \/ dirs'[Shared].has = "all",
         \A g \in gits : g.path = Shared => g \in gits'
  PROVE  SharedIsWhole'
  BY DEF RepoInv, SharedIsWhole

\* What a call is where it is under way, and where it goes.
LEMMA CallGoes ==
  ASSUME RepoInv, NEW c \in RepoCallers, creator[c].at \in CallPlaces,
         NEW at \in CallPlaces \ {"find"}, Goes(c, at)
  PROVE  /\ creator' \in [RepoCallers -> Creators]
         /\ creator'[c].at = at
         /\ creator'[c].call = creator[c].call /\ creator'[c].instance = creator[c].instance
         /\ \A d \in RepoCallers \ {c} : creator'[d] = creator[d]
<1> DEFINE r == [creator[c] EXCEPT !.at = at]
<1>1. creator \in [RepoCallers -> Creators] /\ creator[c] \in Creators
  BY DEF RepoInv, ReposTyped
<1>2. r \in Creators /\ r.at = at /\ r.call = creator[c].call /\ r.instance = creator[c].instance
  BY <1>1 DEF Creators
<1>3. creator' = [creator EXCEPT ![c] = r]
  BY DEF Goes
<1> HIDE DEF r
<1>4. QED
  BY <1>1, <1>2, <1>3

\* A call that is over.
LEMMA CallFails ==
  ASSUME RepoInv, NEW c \in RepoCallers, Fails(c)
  PROVE  /\ creator' \in [RepoCallers -> Creators] /\ creator'[c].at = "idle"
         /\ \A d \in RepoCallers \ {c} : creator'[d] = creator[d]
<1>1. creator \in [RepoCallers -> Creators]
  BY DEF RepoInv, ReposTyped
<1>2. Uncalled \in Creators /\ Uncalled.at = "idle"
  BY DEF Uncalled, Creators
<1>3. creator' = [creator EXCEPT ![c] = Uncalled]
  BY DEF Fails
<1>4. QED
  BY <1>1, <1>2, <1>3

\* A fault is counted, if it was one.
LEMMA FaultsCounted ==
  ASSUME RepoInv, Fault \/ faults' = faults
  PROVE  faults' \in 0..MaxFaults
  BY RepoAssumption DEF RepoInv, ReposTyped, Fault

\* What giving up comes to.
LEMMA CallGivesUp ==
  ASSUME RepoInv, NEW c \in RepoCallers, creator[c].at \in CallPlaces, NEW at,
         NEW left \in [Paths -> Directories \cup {Absent}], GivesUp(c, at, left)
  PROVE  /\ creator' \in [RepoCallers -> Creators] /\ locked' \in RepoCallers \cup {Absent}
         /\ dirs' \in [Paths -> Directories \cup {Absent}]
         /\ \A p \in Paths : dirs'[p] \in {Absent, left[p]}
         /\ \A d \in RepoCallers \ {c} : creator'[d] = creator[d]
         /\ \/ creator'[c].at = "idle"
            \/ /\ creator'[c].at = "second try" /\ at = "clone"
               /\ creator[c].style # "async"
               /\ creator'[c].call = creator[c].call
               /\ creator'[c].instance = creator[c].instance
<1> DEFINE path == IF at = "clone shared" THEN Shared ELSE creator[c].instance
<1>1. path \in Paths
  BY DEF RepoInv, CallsDiffer, Paths
<1>2. dirs' = [left EXCEPT ![path] = Absent] \/ dirs' = left
  BY DEF GivesUp
<1> HIDE DEF path
<1>3. /\ dirs' \in [Paths -> Directories \cup {Absent}]
      /\ \A p \in Paths : dirs'[p] \in {Absent, left[p]}
  BY <1>1, <1>2
<1>4. locked' \in RepoCallers \cup {Absent}
  BY DEF GivesUp, RepoInv, ReposTyped
<1>5. CASE at = "clone" /\ creator[c].style # "async"
  <2>1. Goes(c, "second try")
    BY <1>5 DEF GivesUp
  <2>2. QED
    BY <1>3, <1>4, <1>5, <2>1, CallGoes DEF CallPlaces
<1>6. CASE ~(at = "clone" /\ creator[c].style # "async")
  <2>1. Fails(c)
    BY <1>6 DEF GivesUp
  <2>2. QED
    BY <1>3, <1>4, <2>1, CallFails
<1>7. QED
  BY <1>5, <1>6

\* A call that gives up or fails, or goes on where it awaits nothing.
LEMMA CallMoves ==
  ASSUME RepoInv, NEW c \in RepoCallers, creator[c].at \in CallPlaces,
         creator' \in [RepoCallers -> Creators],
         \A d \in RepoCallers \ {c} : creator'[d] = creator[d],
         \/ creator'[c].at = "idle"
         \/ /\ creator'[c].at \in CallPlaces \ (ClonePlaces \cup {"find"})
            /\ creator'[c].at = "verify" => creator[c].at = "find"
            /\ creator'[c].call = creator[c].call /\ creator'[c].instance = creator[c].instance
            /\ \A g \in gits' : g.call # creator[c].call,
         dirs' \in [Paths -> Directories \cup {Absent}], locked' \in RepoCallers \cup {Absent},
         Fault \/ faults' = faults, UNCHANGED <<creates, returned>>, gits' \subseteq gits,
         \A p \in Paths : DirKept(p),
         SharedIsWhole'
  PROVE  RepoInv'
<1>1. ReposTyped'
  <2>1. faults' \in 0..MaxFaults
    BY FaultsCounted
  <2>2. QED
    BY <2>1 DEF RepoInv, ReposTyped
<1>2. \A d \in RepoCallers : creator'[d] = creator[d] \/ Moved(d)
  BY DEF Moved
<1>3. QED
  BY <1>1, <1>2, ReposKept

\* A call that takes one more look, or fails, and changes nothing else.
LEMMA CallOnlyMoves ==
  ASSUME RepoInv, NEW c \in RepoCallers, creator[c].at \in CallPlaces \ ClonePlaces,
         \/ Fails(c)
         \/ \E at \in CallPlaces \ (ClonePlaces \cup {"find"}) :
              Goes(c, at) /\ (at = "verify" => creator[c].at = "find"),
         UNCHANGED <<dirs, gits, locked, creates, returned, killed>>,
         Fault \/ faults' = faults
  PROVE  RepoInv'
<1>1. \A g \in gits : g.call # creator[c].call
  BY NoneAwaited
<1>2. /\ dirs' \in [Paths -> Directories \cup {Absent}] /\ locked' \in RepoCallers \cup {Absent}
      /\ gits' \subseteq gits
  BY DEF RepoInv, ReposTyped
<1>3. \A p \in Paths : DirKept(p)
  BY DEF DirKept
<1>4. SharedIsWhole'
  BY SharedStays
<1>5. CASE Fails(c)
  <2>1. /\ creator' \in [RepoCallers -> Creators] /\ creator'[c].at = "idle"
        /\ \A d \in RepoCallers \ {c} : creator'[d] = creator[d]
    BY <1>5, CallFails
  <2>2. QED
    BY <1>2, <1>3, <1>4, <2>1, CallMoves
<1>6. ASSUME NEW at \in CallPlaces \ (ClonePlaces \cup {"find"}), Goes(c, at),
             at = "verify" => creator[c].at = "find"
      PROVE  RepoInv'
  <2>1. /\ creator' \in [RepoCallers -> Creators] /\ creator'[c].at = at
        /\ creator'[c].call = creator[c].call /\ creator'[c].instance = creator[c].instance
        /\ \A d \in RepoCallers \ {c} : creator'[d] = creator[d]
    BY <1>6, CallGoes
  <2>2. QED
    BY <1>1, <1>2, <1>3, <1>4, <1>6, <2>1, CallMoves
<1>7. QED
  BY <1>5, <1>6

\* A call that gives up where it has no clone under way, what is left being there.
LEMMA CallOnlyGivesUp ==
  ASSUME RepoInv, NEW c \in RepoCallers, creator[c].at \in CallPlaces \ ClonePlaces, NEW at,
         GivesUp(c, at, dirs), UNCHANGED <<gits, creates, returned, killed>>,
         Fault \/ faults' = faults
  PROVE  RepoInv'
<1>1. \A g \in gits : g.call # creator[c].call
  BY NoneAwaited
<1>2. dirs \in [Paths -> Directories \cup {Absent}]
  BY DEF RepoInv, ReposTyped
<1>3. /\ creator' \in [RepoCallers -> Creators] /\ locked' \in RepoCallers \cup {Absent}
      /\ dirs' \in [Paths -> Directories \cup {Absent}]
      /\ \A p \in Paths : dirs'[p] \in {Absent, dirs[p]}
      /\ \A d \in RepoCallers \ {c} : creator'[d] = creator[d]
      /\ \/ creator'[c].at = "idle"
         \/ /\ creator'[c].at = "second try"
            /\ creator'[c].call = creator[c].call /\ creator'[c].instance = creator[c].instance
  BY <1>2, CallGivesUp
<1>4. \A p \in Paths : DirKept(p)
  BY <1>3 DEF DirKept
<1>5. SharedIsWhole'
  BY <1>3, SharedStays DEF Paths
<1>6. gits' \subseteq gits
  OBVIOUS
<1>7. "second try" \in CallPlaces \ (ClonePlaces \cup {"find"})
  BY DEF CallPlaces, ClonePlaces
<1>8. QED
  BY <1>1, <1>3, <1>4, <1>5, <1>6, <1>7, CallMoves

\* git begins to clone where nothing is, for a call that has awaited no clone.
LEMMA CloneBegins ==
  ASSUME RepoInv, NEW c \in RepoCallers,
         creator[c].at \in CallPlaces \ (ClonePlaces \cup {"find", "verify"}),
         NEW at \in ClonePlaces, NEW path \in Paths, NEW from \in {Absent, Shared},
         NEW has \in {"tip", "all"},
         path = IF at = "clone shared" THEN Shared ELSE creator[c].instance,
         path = Shared => from = Absent /\ has = "all",
         dirs[path] = Absent, BeginClone(c, at, path, from, has),
         UNCHANGED <<creates, returned, killed, faults>>
  PROVE  RepoInv'
<1>m. PICK me : me = creator[c].call
  OBVIOUS
<1> DEFINE new == [call |-> me, has |-> "nothing", head |-> "none"]
           g == [by |-> c, call |-> me, path |-> path, from |-> from, has |-> has]
<1>1. /\ dirs' = [dirs EXCEPT ![path] = new] /\ gits' = gits \cup {g} /\ Goes(c, at)
      /\ locked' = IF at = "clone shared" /\ creator[c].style = "local" THEN c ELSE locked
  BY <1>m DEF BeginClone
<1>2. /\ ReposTyped /\ me \in 1..creates /\ me \notin returned /\ creates \in Nat
      /\ creator[c].instance \in Instances
      /\ \A d \in RepoCallers :
           creator[d].at \in CallPlaces /\ creator[d].call = me => d = c
      /\ \A h \in gits : h.call # me
  BY <1>m, NoneAwaited DEF RepoInv, CallsDiffer, ReposTyped
<1>n. me \in Nat
  BY <1>m DEF RepoInv, ReposTyped, Creators
<1>3. /\ creator' \in [RepoCallers -> Creators] /\ creator'[c].at = at
      /\ creator'[c].call = me /\ creator'[c].instance = creator[c].instance
      /\ \A d \in RepoCallers \ {c} : creator'[d] = creator[d]
  BY <1>m, <1>1, CallGoes DEF ClonePlaces, CallPlaces
<1>4. new \in Directories /\ new.call = me
  BY <1>n DEF Directories
<1>5. g \in Gits /\ g.call = me /\ g.by = c /\ g.path = path /\ g.from = from /\ g.has = has
  BY <1>n DEF Gits
<1> HIDE DEF new, g
<1>6. dirs'[path] = new /\ \A p \in Paths : p # path => dirs'[p] = dirs[p]
  BY <1>1, <1>2 DEF ReposTyped
<1>7. ReposTyped'
  BY <1>1, <1>2, <1>3, <1>4, <1>5 DEF ReposTyped
<1>8. at \in CallPlaces /\ at \notin {"find", "verify", "has"}
  BY DEF ClonePlaces, CallPlaces
<1>9. \A d \in RepoCallers :
        creator'[d].at \in CallPlaces =>
          /\ creator[d].at \in CallPlaces /\ creator'[d].call = creator[d].call
          /\ creator'[d].instance = creator[d].instance
  BY <1>m, <1>3
<1>10. CallsDiffer'
  BY <1>9 DEF RepoInv, CallsDiffer
<1>11. GitsAreAwaited'
  <2>1. ASSUME NEW h \in gits, NEW d \in RepoCallers,
               creator'[d].at \in CallPlaces, creator'[d].call = h.call
        PROVE  /\ d = h.by /\ creator'[d].at \in ClonePlaces
               /\ h.path = IF creator'[d].at = "clone shared" THEN Shared
                           ELSE creator'[d].instance
    <3>1. d # c
      BY <1>2, <1>3, <2>1
    <3>2. creator'[d] = creator[d]
      BY <1>3, <3>1
    <3>3. creator[d].at \in CallPlaces /\ creator[d].call = h.call
      BY <2>1, <3>2
    <3>4. /\ d = h.by /\ creator[d].at \in ClonePlaces
          /\ h.path = IF creator[d].at = "clone shared" THEN Shared ELSE creator[d].instance
      BY <3>3 DEF RepoInv, GitsAreAwaited
    <3>5. QED
      BY <3>2, <3>4
  <2>2. ASSUME NEW d \in RepoCallers, creator'[d].at \in CallPlaces, creator'[d].call = me
        PROVE  d = c
    BY <1>2, <1>9, <2>2
  <2>3. ASSUME NEW h \in gits
        PROVE  /\ h.call \in 1..creates /\ h.call \notin returned
               /\ h.path = Shared => h.from = Absent /\ h.has = "all"
               /\ \A k \in gits' : k.call = h.call => k = h
    <3>1. /\ h.call \in 1..creates /\ h.call \notin returned
          /\ h.path = Shared => h.from = Absent /\ h.has = "all"
          /\ \A k \in gits : k.call = h.call => k = h
      BY DEF RepoInv, GitsAreAwaited
    <3>2. h.call # me
      BY <1>2
    <3>3. QED
      BY <1>1, <1>5, <3>1, <3>2
  <2>4. /\ g.call \in 1..creates /\ g.call \notin returned
        /\ g.path = Shared => g.from = Absent /\ g.has = "all"
        /\ \A k \in gits' : k.call = g.call => k = g
    BY <1>1, <1>2, <1>5
  <2>5. g.path = IF creator'[c].at = "clone shared" THEN Shared ELSE creator'[c].instance
    BY <1>3, <1>5
  <2>6. ASSUME NEW d \in RepoCallers, creator'[d].at \in CallPlaces, creator'[d].call = g.call
        PROVE  /\ d = g.by /\ creator'[d].at \in ClonePlaces
               /\ g.path = IF creator'[d].at = "clone shared" THEN Shared
                           ELSE creator'[d].instance
    <3>1. d = c
      BY <1>5, <2>2, <2>6
    <3>2. QED
      BY <1>3, <1>5, <2>5, <3>1
  <2>7. ASSUME NEW h \in gits'
        PROVE  h = g \/ h \in gits
    BY <1>1
  <2>8. SUFFICES ASSUME NEW h \in gits'
                 PROVE  /\ h.call \in 1..creates /\ h.call \notin returned
                        /\ h.path = Shared => h.from = Absent /\ h.has = "all"
                        /\ \A k \in gits' : k.call = h.call => k = h
                        /\ \A d \in RepoCallers :
                             creator'[d].at \in CallPlaces /\ creator'[d].call = h.call =>
                               /\ d = h.by /\ creator'[d].at \in ClonePlaces
                               /\ h.path = IF creator'[d].at = "clone shared" THEN Shared
                                           ELSE creator'[d].instance
    BY DEF GitsAreAwaited
  <2>9. CASE h = g
    BY <2>4, <2>6, <2>9
  <2>10. CASE h \in gits
    BY <2>1, <2>3, <2>10
  <2>11. QED
    BY <2>7, <2>9, <2>10
<1>12. ASSUME NEW p \in Paths, dirs'[p] # Absent
       PROVE  DirsAreOf(p)'
  <2>1. CASE p = path
    <3>1. dirs'[p].call = me
      BY <1>4, <1>6, <2>1
    <3>2. ASSUME NEW d \in RepoCallers, creator'[d].at \in CallPlaces, creator'[d].call = me
          PROVE  creator'[d].at \notin {"find", "verify"} /\ p \in {Shared, creator'[d].instance}
      <4>1. d = c
        BY <1>2, <1>9, <3>2
      <4>2. QED
        BY <1>3, <1>8, <2>1, <4>1
    <3>3. QED
      BY <1>2, <3>1, <3>2 DEF DirsAreOf
  <2>2. CASE p # path
    <3>1. dirs'[p] = dirs[p] /\ DirsAreOf(p)
      BY <1>6, <1>12, <2>2 DEF RepoInv
    <3>2. ASSUME NEW d \in RepoCallers, creator'[d].at \in CallPlaces,
                 creator'[d].call = dirs[p].call
          PROVE  creator'[d].at \notin {"find", "verify"} /\ p \in {Shared, creator'[d].instance}
      BY <1>3, <1>8, <1>9, <3>1, <3>2 DEF DirsAreOf
    <3>3. QED
      BY <3>1, <3>2 DEF DirsAreOf
  <2>3. QED
    BY <2>1, <2>2
<1>13. SharedIsWhole'
  <2>1. CASE path = Shared
    BY <1>1, <1>4, <1>5, <1>6, <2>1 DEF SharedIsWhole
  <2>2. CASE path # Shared
    BY <1>1, <1>6, <2>2, SharedStays DEF Paths
  <2>3. QED
    BY <2>1, <2>2
<1>14. \A d \in RepoCallers : HandedOut(d)'
  BY <1>3, <1>8 DEF RepoInv, HandedOut
<1>15. QED
  BY <1>7, <1>10, <1>11, <1>12, <1>13, <1>14 DEF RepoInv

\* git clone, which refuses where a directory is.
LEMMA CloneBeginsOrFails ==
  ASSUME RepoInv, NEW c \in RepoCallers,
         creator[c].at \in CallPlaces \ (ClonePlaces \cup {"find", "verify"}),
         NEW at \in ClonePlaces, NEW path \in Paths, NEW from \in {Absent, Shared},
         NEW has \in {"tip", "all"},
         path = IF at = "clone shared" THEN Shared ELSE creator[c].instance,
         path = Shared => from = Absent /\ has = "all",
         BeginClone(c, at, path, from, has),
         UNCHANGED <<creates, returned, killed, faults>>
  PROVE  RepoInv'
<1>1. CASE dirs[path] # Absent
  <2>1. GivesUp(c, at, dirs) /\ UNCHANGED gits
    BY <1>1 DEF BeginClone
  <2>2. QED
    BY <2>1, CallOnlyGivesUp
<1>2. CASE dirs[path] = Absent
  BY <1>2, CloneBegins
<1>3. QED
  BY <1>1, <1>2

\* A repository is handed out: what it has is the base commit, and that is checked out unless
\* the call that made the copy has not returned.
LEMMA RepositoryHandedOut ==
  ASSUME RepoInv, NEW c \in RepoCallers, creator[c].at \in CallPlaces \ ClonePlaces,
         NEW directory \in Directories, HandOut(c, directory),
         directory.has = "all",
         directory.head = "base" \/ directory.call \notin returned \cup {creator[c].call},
         dirs' \in [Paths -> Directories \cup {Absent}],
         \A p \in Paths : dirs'[p] # Absent =>
           /\ dirs[p] # Absent /\ dirs'[p].call = dirs[p].call
           /\ dirs'[p].head \in {dirs[p].head, "base"}
           /\ p \in Instances /\ dirs[p].call = creator[c].call => dirs'[p].head = "base",
         UNCHANGED <<gits, locked, creates, killed>>, Fault \/ faults' = faults,
         SharedIsWhole'
  PROVE  RepoInv'
<1>m. PICK me : me = creator[c].call
  OBVIOUS
<1>1. /\ ReposTyped /\ me \in 1..creates
      /\ \A d \in RepoCallers : creator[d].at \in CallPlaces /\ creator[d].call = me => d = c
      /\ \A g \in gits : g.call # me
  BY <1>m, NoneAwaited DEF RepoInv, CallsDiffer
<1> DEFINE r == [Uncalled EXCEPT !.at = "has", !.head = directory.head, !.has = directory.has,
                                 !.unfinished = directory.call \notin returned \cup {me}]
<1>2. creator' = [creator EXCEPT ![c] = r] /\ returned' = returned \cup {me}
  BY <1>m DEF HandOut
<1>3. /\ r \in Creators /\ r.at = "has" /\ r.has = "all"
      /\ r.head = "base" \/ r.unfinished
  BY <1>m DEF Uncalled, Creators, Directories
<1> HIDE DEF r
<1>4. /\ creator' \in [RepoCallers -> Creators] /\ creator'[c] = r
      /\ \A d \in RepoCallers \ {c} : creator'[d] = creator[d]
  BY <1>1, <1>2, <1>3 DEF ReposTyped
<1>5. ReposTyped'
  <2>1. faults' \in 0..MaxFaults
    BY FaultsCounted
  <2>2. returned' \subseteq 1..creates
    BY <1>1, <1>2 DEF ReposTyped
  <2>3. QED
    BY <1>1, <1>4, <2>1, <2>2 DEF ReposTyped
<1>6. \A d \in RepoCallers :
        creator'[d].at \in CallPlaces =>
          d # c /\ creator'[d] = creator[d] /\ creator[d].at \in CallPlaces
          /\ creator[d].call # me
  BY <1>1, <1>3, <1>4 DEF CallPlaces
<1>7. CallsDiffer'
  <2> SUFFICES ASSUME NEW d \in RepoCallers, creator'[d].at \in CallPlaces
               PROVE  /\ creator'[d].instance \in Instances
                      /\ creator'[d].call \in 1..creates /\ creator'[d].call \notin returned'
                      /\ \A e \in RepoCallers :
                           creator'[e].at \in CallPlaces /\ creator'[e].call = creator'[d].call
                             => e = d
    BY DEF CallsDiffer
  <2>1. creator'[d] = creator[d] /\ creator[d].at \in CallPlaces /\ creator[d].call # me
    BY <1>6
  <2>2. QED
    BY <1>2, <1>6, <2>1 DEF RepoInv, CallsDiffer
<1>8. GitsAreAwaited'
  <2> SUFFICES ASSUME NEW g \in gits
               PROVE  /\ g.call \in 1..creates /\ g.call \notin returned'
                      /\ g.path = Shared => g.from = Absent /\ g.has = "all"
                      /\ \A h \in gits : h.call = g.call => h = g
                      /\ \A d \in RepoCallers :
                           creator'[d].at \in CallPlaces /\ creator'[d].call = g.call =>
                             /\ d = g.by /\ creator'[d].at \in ClonePlaces
                             /\ g.path = IF creator'[d].at = "clone shared" THEN Shared
                                         ELSE creator'[d].instance
    BY DEF GitsAreAwaited
  <2>1. /\ g.call \in 1..creates /\ g.call \notin returned
        /\ g.path = Shared => g.from = Absent /\ g.has = "all"
        /\ \A h \in gits : h.call = g.call => h = g
    BY DEF RepoInv, GitsAreAwaited
  <2>2. ASSUME NEW d \in RepoCallers, creator'[d].at \in CallPlaces, creator'[d].call = g.call
        PROVE  /\ d = g.by /\ creator'[d].at \in ClonePlaces
               /\ g.path = IF creator'[d].at = "clone shared" THEN Shared
                           ELSE creator'[d].instance
    <3>1. creator'[d] = creator[d]
      BY <1>6, <2>2
    <3>2. creator[d].at \in CallPlaces /\ creator[d].call = g.call
      BY <2>2, <3>1
    <3>3. /\ d = g.by /\ creator[d].at \in ClonePlaces
          /\ g.path = IF creator[d].at = "clone shared" THEN Shared ELSE creator[d].instance
      BY <3>2 DEF RepoInv, GitsAreAwaited
    <3>4. QED
      BY <3>1, <3>3
  <2>3. g.call \notin returned'
    BY <1>1, <1>2, <2>1
  <2>4. QED
    BY <2>1, <2>2, <2>3
<1>9. ASSUME NEW p \in Paths, dirs'[p] # Absent
      PROVE  DirsAreOf(p)'
  <2>1. DirsAreOf(p) /\ dirs'[p].call = dirs[p].call
    BY <1>9 DEF RepoInv
  <2>2. p \in Instances /\ dirs[p].call \in returned' => dirs'[p].head = "base"
    BY <1>m, <1>2, <1>9, <2>1 DEF DirsAreOf
  <2>3. \A d \in RepoCallers :
          creator'[d].at \in CallPlaces /\ creator'[d].call = dirs[p].call =>
            creator'[d].at \notin {"find", "verify"} /\ p \in {Shared, creator'[d].instance}
    BY <1>6, <2>1 DEF DirsAreOf
  <2>4. QED
    BY <2>1, <2>2, <2>3 DEF DirsAreOf
<1>10. \A d \in RepoCallers : HandedOut(d)'
  BY <1>3, <1>4 DEF RepoInv, HandedOut
<1>11. QED
  BY <1>5, <1>7, <1>8, <1>9, <1>10 DEF RepoInv

\* A new call has a number that nothing has.
LEMMA CallCreateStep ==
  ASSUME RepoInv, NEW c \in RepoCallers, NEW i \in Instances,
         NEW style \in {"async", "local", "network"}, CallCreate(c, i, style)
  PROVE  RepoInv'
<1>m. PICK me : me = creates + 1
  OBVIOUS
<1> DEFINE r == [Uncalled EXCEPT !.at = "find", !.style = style, !.instance = i, !.call = me]
<1>1. /\ creates' = me /\ creator' = [creator EXCEPT ![c] = r]
      /\ UNCHANGED <<dirs, gits, locked, returned, killed, faults>>
  BY <1>m DEF CallCreate
<1>2. ReposTyped /\ creates \in Nat /\ me \in Nat
  BY <1>m DEF RepoInv, ReposTyped
<1>3. r \in Creators /\ r.at = "find" /\ r.instance = i /\ r.call = me
  BY <1>2 DEF Uncalled, Creators, CallPlaces
<1> HIDE DEF r
<1>4. /\ creator' \in [RepoCallers -> Creators] /\ creator'[c] = r
      /\ \A d \in RepoCallers \ {c} : creator'[d] = creator[d]
  BY <1>1, <1>2, <1>3 DEF ReposTyped
<1>5. 1..creates \subseteq 1..me /\ me \in 1..me /\ me \notin 1..creates
  BY <1>m, <1>2
<1>6. ReposTyped'
  BY <1>1, <1>2, <1>4, <1>5 DEF ReposTyped
<1>7. \A d \in RepoCallers :
        creator[d].at \in CallPlaces => creator[d].call \in 1..creates
  BY DEF RepoInv, CallsDiffer
<1>8. CallsDiffer'
  <2> SUFFICES ASSUME NEW d \in RepoCallers, creator'[d].at \in CallPlaces
               PROVE  /\ creator'[d].instance \in Instances
                      /\ creator'[d].call \in 1..me /\ creator'[d].call \notin returned
                      /\ \A e \in RepoCallers :
                           creator'[e].at \in CallPlaces /\ creator'[e].call = creator'[d].call
                             => e = d
    BY <1>1 DEF CallsDiffer
  <2>1. CASE d = c
    BY <1>2, <1>3, <1>4, <1>5, <1>7, <2>1 DEF ReposTyped
  <2>2. CASE d # c
    <3>1. creator'[d] = creator[d]
      BY <1>4, <2>2
    <3>2. /\ creator[d].instance \in Instances
          /\ creator[d].call \in 1..creates /\ creator[d].call \notin returned
          /\ \A e \in RepoCallers :
               creator[e].at \in CallPlaces /\ creator[e].call = creator[d].call => e = d
      BY <3>1 DEF RepoInv, CallsDiffer
    <3>3. QED
      BY <1>3, <1>4, <1>5, <3>1, <3>2
  <2>3. QED
    BY <2>1, <2>2
<1>9. GitsAreAwaited'
  <2> SUFFICES ASSUME NEW g \in gits
               PROVE  /\ g.call \in 1..me /\ g.call \notin returned
                      /\ g.path = Shared => g.from = Absent /\ g.has = "all"
                      /\ \A h \in gits : h.call = g.call => h = g
                      /\ \A d \in RepoCallers :
                           creator'[d].at \in CallPlaces /\ creator'[d].call = g.call =>
                             /\ d = g.by /\ creator'[d].at \in ClonePlaces
                             /\ g.path = IF creator'[d].at = "clone shared" THEN Shared
                                         ELSE creator'[d].instance
    BY <1>1 DEF GitsAreAwaited
  <2>1. /\ g.call \in 1..creates /\ g.call \notin returned
        /\ g.path = Shared => g.from = Absent /\ g.has = "all"
        /\ \A h \in gits : h.call = g.call => h = g
    BY DEF RepoInv, GitsAreAwaited
  <2>2. ASSUME NEW d \in RepoCallers, creator'[d].at \in CallPlaces, creator'[d].call = g.call
        PROVE  /\ d = g.by /\ creator'[d].at \in ClonePlaces
               /\ g.path = IF creator'[d].at = "clone shared" THEN Shared
                           ELSE creator'[d].instance
    <3>1. d # c
      BY <1>3, <1>4, <1>5, <2>1, <2>2
    <3>2. creator'[d] = creator[d]
      BY <1>4, <3>1
    <3>3. creator[d].at \in CallPlaces /\ creator[d].call = g.call
      BY <2>2, <3>2
    <3>4. /\ d = g.by /\ creator[d].at \in ClonePlaces
          /\ g.path = IF creator[d].at = "clone shared" THEN Shared ELSE creator[d].instance
      BY <3>3 DEF RepoInv, GitsAreAwaited
    <3>5. QED
      BY <3>2, <3>4
  <2>3. QED
    BY <1>5, <2>1, <2>2
<1>10. ASSUME NEW p \in Paths, dirs'[p] # Absent
       PROVE  DirsAreOf(p)'
  <2>1. dirs'[p] = dirs[p] /\ DirsAreOf(p)
    BY <1>1, <1>10 DEF RepoInv
  <2>2. ASSUME NEW d \in RepoCallers, creator'[d].at \in CallPlaces,
               creator'[d].call = dirs[p].call
        PROVE  creator'[d].at \notin {"find", "verify"} /\ p \in {Shared, creator'[d].instance}
    <3>1. d # c
      BY <1>3, <1>4, <1>5, <2>1, <2>2 DEF DirsAreOf
    <3>2. QED
      BY <1>4, <2>1, <2>2, <3>1 DEF DirsAreOf
  <2>3. QED
    BY <1>1, <1>5, <2>1, <2>2 DEF DirsAreOf
<1>11. SharedIsWhole'
  BY <1>1, SharedStays
<1>12. \A d \in RepoCallers : HandedOut(d)'
  BY <1>3, <1>4 DEF RepoInv, HandedOut
<1>13. QED
  BY <1>6, <1>8, <1>9, <1>10, <1>11, <1>12 DEF RepoInv

\* A copy is looked for.
LEMMA FindCopyStep ==
  ASSUME RepoInv, NEW c \in RepoCallers, FindCopy(c)
  PROVE  RepoInv'
<1>1. PICK at \in {"shared", "lock", "copy", "verify"} : Goes(c, at)
  BY DEF FindCopy, Source
<1>2. /\ creator[c].at = "find"
      /\ UNCHANGED <<dirs, gits, locked, creates, returned, killed, faults>>
  BY DEF FindCopy
<1>3. /\ creator[c].at \in CallPlaces \ ClonePlaces
      /\ at \in CallPlaces \ (ClonePlaces \cup {"find"})
  BY <1>1, <1>2 DEF CallPlaces, ClonePlaces
<1>4. QED
  BY <1>1, <1>2, <1>3, CallOnlyMoves

\* A copy is removed, and the call goes on.
LEMMA CopyRemoved ==
  ASSUME RepoInv, NEW c \in RepoCallers, creator[c].at \in CallPlaces \ ClonePlaces,
         dirs' = Removed(creator[c].instance),
         NEW at \in CallPlaces \ (ClonePlaces \cup {"find", "verify"}), Goes(c, at),
         UNCHANGED <<gits, locked, creates, returned, killed>>, Fault \/ faults' = faults
  PROVE  RepoInv'
<1>1. ReposTyped /\ creator[c].instance \in Instances
  BY DEF RepoInv, CallsDiffer
<1>2. /\ dirs' \in [Paths -> Directories \cup {Absent}]
      /\ \A p \in Paths : dirs'[p] \in {Absent, dirs[p]}
  BY <1>1 DEF ReposTyped, Removed
<1>3. \A p \in Paths : DirKept(p)
  BY <1>2 DEF DirKept
<1>4. SharedIsWhole'
  BY <1>2, SharedStays DEF Paths
<1>5. /\ creator' \in [RepoCallers -> Creators] /\ creator'[c].at = at
      /\ creator'[c].call = creator[c].call /\ creator'[c].instance = creator[c].instance
      /\ \A d \in RepoCallers \ {c} : creator'[d] = creator[d]
  BY CallGoes
<1>6. (\A g \in gits : g.call # creator[c].call) /\ gits' \subseteq gits
      /\ locked' \in RepoCallers \cup {Absent}
  BY <1>1, NoneAwaited DEF ReposTyped
<1>7. QED
  BY <1>2, <1>3, <1>4, <1>5, <1>6, CallMoves

\* A copy that is found is handed out if it has the base commit, and removed otherwise.
LEMMA VerifyCopyStep ==
  ASSUME RepoInv, NEW c \in RepoCallers, VerifyCopy(c)
  PROVE  RepoInv'
<1>i. PICK i : i = creator[c].instance
  OBVIOUS
<1>1. /\ creator[c].at = "verify" /\ UNCHANGED <<gits, locked, creates, killed>>
  BY DEF VerifyCopy
<1>2. creator[c].at \in CallPlaces \ ClonePlaces
  BY <1>1 DEF CallPlaces, ClonePlaces
<1>3. ReposTyped /\ i \in Instances /\ i \in Paths
  BY <1>i, <1>2 DEF RepoInv, CallsDiffer, Paths
<1>4. CASE HasBase(i) /\ HandOut(c, dirs[i]) /\ UNCHANGED <<dirs, faults>>
  <2>1. dirs[i] # Absent /\ dirs[i] \in Directories /\ dirs[i].has = "all"
    BY <1>3, <1>4 DEF HasBase, ReposTyped
  <2>2. \A p \in Paths : dirs[p] # Absent => dirs[p].call # creator[c].call
    BY <1>1, <1>2 DEF RepoInv, DirsAreOf
  <2>3. dirs[i].head = "base" \/ dirs[i].call \notin returned \cup {creator[c].call}
    BY <1>3, <2>1, <2>2 DEF RepoInv, DirsAreOf
  <2>4. SharedIsWhole'
    BY <1>1, <1>4, SharedStays
  <2>5. dirs' \in [Paths -> Directories \cup {Absent}]
    BY <1>3, <1>4 DEF ReposTyped
  <2>6. \A p \in Paths : dirs'[p] # Absent =>
           /\ dirs[p] # Absent /\ dirs'[p].call = dirs[p].call
           /\ dirs'[p].head \in {dirs[p].head, "base"}
           /\ p \in Instances /\ dirs[p].call = creator[c].call => dirs'[p].head = "base"
    BY <1>4, <2>2
  <2>7. QED
    BY <1>1, <1>2, <1>4, <2>1, <2>3, <2>4, <2>5, <2>6, RepositoryHandedOut
<1>5. CASE /\ FailsUnless(HasBase(i)) /\ dirs' = Removed(i) /\ Goes(c, Source(creator[c].style))
           /\ UNCHANGED returned
  <2>1. PICK at \in {"shared", "lock", "copy"} : Goes(c, at)
    BY <1>5 DEF Source
  <2>2. at \in CallPlaces \ (ClonePlaces \cup {"find", "verify"})
    BY <2>1 DEF CallPlaces, ClonePlaces
  <2>3. Fault \/ faults' = faults
    BY <1>5 DEF FailsUnless
  <2>4. dirs' = Removed(creator[c].instance)
    BY <1>i, <1>5
  <2>5. QED
    BY <1>1, <1>2, <1>5, <2>1, <2>2, <2>3, <2>4, CopyRemoved
<1>6. CASE Fails(c) /\ UNCHANGED <<dirs, faults, returned>>
  BY <1>1, <1>2, <1>6, CallOnlyMoves
<1>7. QED
  BY <1>i, <1>4, <1>5, <1>6 DEF VerifyCopy

\* A copy that was found after all: likewise.
LEMMA VerifyAgainStep ==
  ASSUME RepoInv, NEW c \in RepoCallers, VerifyAgain(c)
  PROVE  RepoInv'
<1>1. creator[c].at = "verify again" /\ UNCHANGED <<gits, locked, creates, returned, killed>>
  BY DEF VerifyAgain
<1>2. /\ creator[c].at \in CallPlaces \ ClonePlaces
      /\ "check out found" \in CallPlaces \ (ClonePlaces \cup {"find", "verify"})
      /\ "copy again" \in CallPlaces \ (ClonePlaces \cup {"find", "verify"})
  BY <1>1 DEF CallPlaces, ClonePlaces
<1>3. CASE Goes(c, "check out found") /\ UNCHANGED <<dirs, faults>>
  BY <1>1, <1>2, <1>3, CallOnlyMoves
<1>4. CASE /\ FailsUnless(HasBase(creator[c].instance))
           /\ dirs' = Removed(creator[c].instance) /\ Goes(c, "copy again")
  <2>1. Fault \/ faults' = faults
    BY <1>4 DEF FailsUnless
  <2>2. QED
    BY <1>1, <1>2, <1>4, <2>1, CopyRemoved
<1>5. QED
  BY <1>3, <1>4 DEF VerifyAgain

\* Steps that look for the shared clone, or begin to make it.
LEMMA SharedStep ==
  ASSUME RepoInv, NEW c \in RepoCallers,
         FindShared(c) \/ LockShared(c) \/ CloneSharedAgain(c)
  PROVE  RepoInv'
<1>1. /\ creator[c].at \in {"shared", "lock", "shared again"}
      /\ UNCHANGED <<creates, returned, killed, faults>>
  BY DEF FindShared, LockShared, CloneSharedAgain
<1>2. creator[c].at \in CallPlaces \ (ClonePlaces \cup {"find", "verify"})
  BY <1>1 DEF CallPlaces, ClonePlaces
<1>3. CASE BeginClone(c, "clone shared", Shared, Absent, "all")
  <2>1. "clone shared" \in ClonePlaces /\ Shared \in Paths
    BY DEF ClonePlaces, Paths
  <2>2. QED
    BY <1>1, <1>2, <1>3, <2>1, CloneBeginsOrFails
<1>4. CASE \E at \in {"fetch shared", "copy"} : Goes(c, at) /\ UNCHANGED <<dirs, gits, locked>>
  <2>1. PICK at \in {"fetch shared", "copy"} : Goes(c, at)
    BY <1>4
  <2>2. at \in CallPlaces \ (ClonePlaces \cup {"find"}) /\ at # "verify"
    BY <2>1 DEF CallPlaces, ClonePlaces
  <2>3. QED
    BY <1>1, <1>2, <1>4, <2>1, <2>2, CallOnlyMoves
<1>5. QED
  BY <1>3, <1>4 DEF FindShared, LockShared, CloneSharedAgain

\* Steps that look for the copy of the instance, or begin to make it.
LEMMA CloneCopyStep ==
  ASSUME RepoInv, NEW c \in RepoCallers, CloneCopy(c) \/ SecondTry(c)
  PROVE  RepoInv'
<1>1. /\ creator[c].at \in {"copy", "copy again", "second try"}
      /\ UNCHANGED <<creates, returned, killed, faults>>
  BY DEF CloneCopy, SecondTry
<1>2. creator[c].at \in CallPlaces \ (ClonePlaces \cup {"find", "verify"})
  BY <1>1 DEF CallPlaces, ClonePlaces
<1>3. /\ creator[c].instance \in Paths /\ creator[c].instance # Shared
      /\ From(c) \in {Absent, Shared}
  BY <1>2, RepoAssumption DEF RepoInv, CallsDiffer, Paths, From
<1>4. ASSUME NEW at \in {"clone", "clone all"}, NEW has \in {"tip", "all"},
             BeginClone(c, at, creator[c].instance, From(c), has)
      PROVE  RepoInv'
  <2>1. at \in ClonePlaces /\ at # "clone shared"
    BY <1>4 DEF ClonePlaces
  <2>2. QED
    BY <1>1, <1>2, <1>3, <1>4, <2>1, CloneBeginsOrFails
<1>5. CASE \E at \in {"verify again", "check out found"} :
             Goes(c, at) /\ UNCHANGED <<dirs, gits, locked>>
  <2>1. PICK at \in {"verify again", "check out found"} : Goes(c, at)
    BY <1>5
  <2>2. at \in CallPlaces \ (ClonePlaces \cup {"find"}) /\ at # "verify"
    BY <2>1 DEF CallPlaces, ClonePlaces
  <2>3. QED
    BY <1>1, <1>2, <1>5, <2>1, <2>2, CallOnlyMoves
<1>6. QED
  BY <1>4, <1>5 DEF CloneCopy, SecondTry

\* The fetch makes the shared clone whole, or it is removed.
LEMMA FetchSharedStep ==
  ASSUME RepoInv, NEW c \in RepoCallers, FetchShared(c)
  PROVE  RepoInv'
<1>1. creator[c].at = "fetch shared" /\ UNCHANGED <<gits, locked, creates, returned, killed>>
  BY DEF FetchShared
<1>2. /\ creator[c].at \in CallPlaces \ ClonePlaces
      /\ "copy" \in CallPlaces \ (ClonePlaces \cup {"find"})
  BY <1>1 DEF CallPlaces, ClonePlaces
<1>3. ReposTyped /\ (\A g \in gits : g.call # creator[c].call) /\ gits' \subseteq gits
      /\ locked' \in RepoCallers \cup {Absent} /\ Shared \in Paths
  BY <1>1, <1>2, NoneAwaited DEF RepoInv, ReposTyped, Paths
<1>4. CASE /\ dirs[Shared] # Absent /\ dirs' = [dirs EXCEPT ![Shared].has = "all"]
           /\ Goes(c, "copy") /\ UNCHANGED faults
  <2> DEFINE whole == [dirs[Shared] EXCEPT !.has = "all"]
  <2>1. dirs[Shared] \in Directories
    BY <1>3, <1>4 DEF ReposTyped
  <2>2. /\ whole \in Directories /\ whole.call = dirs[Shared].call
        /\ whole.head = dirs[Shared].head /\ whole.has = "all"
    BY <2>1 DEF Directories
  <2>3. dirs' = [dirs EXCEPT ![Shared] = whole]
    BY <1>4
  <2> HIDE DEF whole
  <2>4. /\ dirs' \in [Paths -> Directories \cup {Absent}] /\ dirs'[Shared] = whole
        /\ \A p \in Paths : p # Shared => dirs'[p] = dirs[p]
    BY <1>3, <2>2, <2>3 DEF ReposTyped
  <2>5. \A p \in Paths : DirKept(p)
    BY <1>4, <2>2, <2>4 DEF DirKept
  <2>6. SharedIsWhole'
    BY <1>1, <2>2, <2>4, SharedStays
  <2>7. /\ creator' \in [RepoCallers -> Creators] /\ creator'[c].at = "copy"
        /\ creator'[c].call = creator[c].call /\ creator'[c].instance = creator[c].instance
        /\ \A d \in RepoCallers \ {c} : creator'[d] = creator[d]
    BY <1>2, <1>4, CallGoes
  <2>8. QED
    BY <1>1, <1>2, <1>3, <1>4, <2>4, <2>5, <2>6, <2>7, CallMoves
<1>5. CASE FailsUnless(HasBase(Shared)) /\ dirs' = Removed(Shared) /\ Fails(c)
  <2>1. /\ dirs' \in [Paths -> Directories \cup {Absent}]
        /\ \A p \in Paths : dirs'[p] \in {Absent, dirs[p]}
    BY <1>3, <1>5 DEF ReposTyped, Removed
  <2>2. \A p \in Paths : DirKept(p)
    BY <2>1 DEF DirKept
  <2>3. SharedIsWhole'
    BY <1>1, <1>3, <2>1, SharedStays
  <2>4. /\ creator' \in [RepoCallers -> Creators] /\ creator'[c].at = "idle"
        /\ \A d \in RepoCallers \ {c} : creator'[d] = creator[d]
    BY <1>5, CallFails
  <2>5. Fault \/ faults' = faults
    BY <1>5 DEF FailsUnless
  <2>6. QED
    BY <1>1, <1>2, <1>3, <2>1, <2>2, <2>3, <2>4, <2>5, CallMoves
<1>6. QED
  BY <1>4, <1>5 DEF FetchShared

\* A command of a call fails: it is over, or gives up.
LEMMA CommandFailsStep ==
  ASSUME RepoInv, NEW c \in RepoCallers, creator[c].at \in CallPlaces \ ClonePlaces,
         CommandFails(c), UNCHANGED <<gits, creates, returned, killed>>, Fault \/ faults' = faults
  PROVE  RepoInv'
<1>1. CASE Fails(c) /\ UNCHANGED <<dirs, locked>>
  BY <1>1, CallOnlyMoves
<1>2. CASE GivesUp(c, "clone", dirs)
  BY <1>2, CallOnlyGivesUp
<1>3. QED
  BY <1>1, <1>2 DEF CommandFails

\* What a copy has, or has checked out, becomes the base commit.
LEMMA CopyChanged ==
  ASSUME RepoInv, NEW i \in Instances, dirs[i] # Absent,
         \/ dirs' = [dirs EXCEPT ![i].has = "all"]
         \/ dirs' = [dirs EXCEPT ![i].head = "base"]
  PROVE  /\ dirs' \in [Paths -> Directories \cup {Absent}]
         /\ \A p \in Paths : p # i => dirs'[p] = dirs[p]
         /\ dirs'[i].call = dirs[i].call /\ dirs'[i].head \in {dirs[i].head, "base"}
         /\ dirs' = [dirs EXCEPT ![i].head = "base"] => dirs'[i].head = "base"
         /\ \A p \in Paths : DirKept(p)
         /\ dirs'[Shared] = dirs[Shared]
<1>1. i \in Paths /\ Shared \in Paths /\ i # Shared
      /\ dirs \in [Paths -> Directories \cup {Absent}] /\ dirs[i] \in Directories
  BY RepoAssumption DEF Paths, RepoInv, ReposTyped
<1>2. PICK d \in Directories : /\ dirs' = [dirs EXCEPT ![i] = d]
                               /\ d.call = dirs[i].call /\ d.head \in {dirs[i].head, "base"}
                               /\ dirs' = [dirs EXCEPT ![i].head = "base"] => d.head = "base"
  <2>1. CASE dirs' = [dirs EXCEPT ![i].head = "base"]
    <3> DEFINE d == [dirs[i] EXCEPT !.head = "base"]
    <3>1. d \in Directories /\ d.call = dirs[i].call /\ d.head = "base"
      BY <1>1 DEF Directories
    <3>2. dirs' = [dirs EXCEPT ![i] = d]
      BY <2>1
    <3> HIDE DEF d
    <3>3. QED
      BY <3>1, <3>2
  <2>2. CASE dirs' # [dirs EXCEPT ![i].head = "base"]
    <3> DEFINE d == [dirs[i] EXCEPT !.has = "all"]
    <3>1. d \in Directories /\ d.call = dirs[i].call /\ d.head = dirs[i].head
      BY <1>1 DEF Directories
    <3>2. dirs' = [dirs EXCEPT ![i] = d]
      BY <2>2
    <3> HIDE DEF d
    <3>3. QED
      BY <2>2, <3>1, <3>2
  <2>3. QED
    BY <2>1, <2>2
<1>3. /\ dirs' \in [Paths -> Directories \cup {Absent}] /\ dirs'[i] = d
      /\ \A p \in Paths : p # i => dirs'[p] = dirs[p]
  BY <1>1, <1>2
<1>4. QED
  BY <1>1, <1>2, <1>3 DEF DirKept

\* The commit is fetched, or checked out, or the command fails.
LEMMA FetchBaseStep ==
  ASSUME RepoInv, NEW c \in RepoCallers, FetchBase(c) \/ CheckOut(c)
  PROVE  RepoInv'
<1>i. PICK i : i = creator[c].instance
  OBVIOUS
<1>1. /\ creator[c].at \in {"fetch", "check out", "check out found"}
      /\ UNCHANGED <<gits, creates, returned, killed>>
  BY DEF FetchBase, CheckOut
<1>2. creator[c].at \in CallPlaces \ ClonePlaces
  BY <1>1 DEF CallPlaces, ClonePlaces
<1>3. ReposTyped /\ i \in Instances /\ (\A g \in gits : g.call # creator[c].call)
      /\ gits' \subseteq gits
  BY <1>i, <1>1, <1>2, NoneAwaited DEF RepoInv, CallsDiffer
<1>4. ASSUME NEW at \in {"check out", "open"}, Goes(c, at), dirs[i] # Absent,
             \/ dirs' = [dirs EXCEPT ![i].has = "all"]
             \/ dirs' = [dirs EXCEPT ![i].head = "base"],
             UNCHANGED <<locked, faults>>
      PROVE  RepoInv'
  <2>1. /\ dirs' \in [Paths -> Directories \cup {Absent}]
        /\ \A p \in Paths : DirKept(p)
        /\ dirs'[Shared] = dirs[Shared]
    BY <1>3, <1>4, CopyChanged
  <2>2. SharedIsWhole'
    BY <1>1, <2>1, SharedStays
  <2>3. at \in CallPlaces \ (ClonePlaces \cup {"find", "verify"})
    BY <1>4 DEF CallPlaces, ClonePlaces
  <2>4. /\ creator' \in [RepoCallers -> Creators] /\ creator'[c].at = at
        /\ creator'[c].call = creator[c].call /\ creator'[c].instance = creator[c].instance
        /\ \A d \in RepoCallers \ {c} : creator'[d] = creator[d]
    BY <1>2, <1>4, <2>3, CallGoes
  <2>5. locked' \in RepoCallers \cup {Absent}
    BY <1>3, <1>4 DEF ReposTyped
  <2>6. QED
    BY <1>1, <1>2, <1>3, <1>4, <2>1, <2>2, <2>3, <2>4, <2>5, CallMoves
<1>5. CASE FetchBase(c)
  <2> DEFINE ok == /\ dirs[i] # Absent /\ dirs[i].has # "nothing"
                   /\ From(c) = Shared => HasBase(Shared)
  <2>1. \/ /\ ok /\ dirs' = [dirs EXCEPT ![i].has = "all"] /\ Goes(c, "check out")
           /\ UNCHANGED <<locked, faults>>
        \/ FailsUnless(ok) /\ CommandFails(c)
    BY <1>i, <1>5 DEF FetchBase
  <2>2. CASE /\ ok /\ dirs' = [dirs EXCEPT ![i].has = "all"] /\ Goes(c, "check out")
             /\ UNCHANGED <<locked, faults>>
    BY <1>4, <2>2
  <2>3. CASE FailsUnless(ok) /\ CommandFails(c)
    <3>1. Fault \/ faults' = faults
      BY <2>3 DEF FailsUnless
    <3>2. QED
      BY <1>1, <1>2, <2>3, <3>1, CommandFailsStep
  <2>4. QED
    BY <2>1, <2>2, <2>3
<1>6. CASE CheckOut(c)
  <2>1. CASE /\ HasBase(i) /\ dirs' = [dirs EXCEPT ![i].head = "base"] /\ Goes(c, "open")
             /\ UNCHANGED <<locked, faults>>
    BY <1>4, <2>1 DEF HasBase
  <2>2. CASE FailsUnless(HasBase(i)) /\ CommandFails(c)
    <3>1. Fault \/ faults' = faults
      BY <2>2 DEF FailsUnless
    <3>2. QED
      BY <1>1, <1>2, <2>2, <3>1, CommandFailsStep
  <2>3. CASE FailsUnless(HasBase(i)) /\ Fails(c) /\ UNCHANGED <<dirs, locked>>
    <3>1. Fault \/ faults' = faults
      BY <2>3 DEF FailsUnless
    <3>2. QED
      BY <1>1, <1>2, <2>3, <3>1, CallOnlyMoves
  <2>4. QED
    BY <1>i, <1>6, <2>1, <2>2, <2>3 DEF CheckOut
<1>7. QED
  BY <1>5, <1>6

\* The commit is checked out once more, and the repository handed out.
LEMMA OpenCopyStep ==
  ASSUME RepoInv, NEW c \in RepoCallers, OpenCopy(c)
  PROVE  RepoInv'
<1>i. PICK i : i = creator[c].instance
  OBVIOUS
<1>1. creator[c].at = "open" /\ UNCHANGED <<gits, creates, killed>>
  BY DEF OpenCopy
<1>2. creator[c].at \in CallPlaces \ ClonePlaces
  BY <1>1 DEF CallPlaces, ClonePlaces
<1>3. ReposTyped /\ i \in Instances /\ i \in Paths
  BY <1>i, <1>2 DEF RepoInv, CallsDiffer, Paths
<1>4. CASE /\ HasBase(i) /\ HandOut(c, [dirs[i] EXCEPT !.head = "base"])
           /\ dirs' = [dirs EXCEPT ![i].head = "base"] /\ UNCHANGED <<locked, faults>>
  <2>1. dirs[i] # Absent /\ dirs[i] \in Directories /\ dirs[i].has = "all"
    BY <1>3, <1>4 DEF HasBase, ReposTyped
  <2>2. PICK d \in Directories :
           d = [dirs[i] EXCEPT !.head = "base"] /\ d.head = "base" /\ d.has = "all"
    <3> DEFINE d == [dirs[i] EXCEPT !.head = "base"]
    <3>1. d \in Directories /\ d.head = "base" /\ d.has = "all"
      BY <2>1 DEF Directories
    <3>2. d = [dirs[i] EXCEPT !.head = "base"]
      OBVIOUS
    <3> HIDE DEF d
    <3>3. QED
      BY <3>1, <3>2
  <2>3. /\ dirs' \in [Paths -> Directories \cup {Absent}]
        /\ \A p \in Paths : p # i => dirs'[p] = dirs[p]
        /\ dirs'[i].call = dirs[i].call /\ dirs'[i].head = "base"
        /\ dirs'[Shared] = dirs[Shared]
    BY <1>3, <1>4, <2>1, CopyChanged
  <2>4. \A p \in Paths : dirs[p] # Absent /\ dirs[p].call = creator[c].call => p \in {Shared, i}
    BY <1>i, <1>2 DEF RepoInv, DirsAreOf
  <2>5. Shared \notin Instances
    BY RepoAssumption
  <2>6. \A p \in Paths : dirs'[p] # Absent =>
           /\ dirs[p] # Absent /\ dirs'[p].call = dirs[p].call
           /\ dirs'[p].head \in {dirs[p].head, "base"}
           /\ p \in Instances /\ dirs[p].call = creator[c].call => dirs'[p].head = "base"
    BY <2>1, <2>3, <2>4, <2>5
  <2>7. SharedIsWhole'
    BY <1>1, <2>3, SharedStays
  <2>8. QED
    BY <1>1, <1>2, <1>4, <2>2, <2>3, <2>6, <2>7, RepositoryHandedOut
<1>5. CASE FailsUnless(HasBase(i)) /\ GivesUp(c, "clone all", dirs) /\ UNCHANGED returned
  <2>1. Fault \/ faults' = faults
    BY <1>5 DEF FailsUnless
  <2>2. QED
    BY <1>1, <1>2, <1>5, <2>1, CallOnlyGivesUp
<1>6. QED
  BY <1>i, <1>4, <1>5 DEF OpenCopy

\* A call that runs out of time gives up; its clone ends with it, but for the shared one.
LEMMA TimeOutStep ==
  ASSUME RepoInv, NEW c \in RepoCallers, TimeOut(c)
  PROVE  RepoInv'
<1>1. /\ creator[c].style = "async" /\ creator[c].at \in {"clone shared", "clone"} /\ Fault
      /\ gits' = IF creator[c].at = "clone" THEN {g \in gits : ~AwaitedBy(g, c)} ELSE gits
      /\ GivesUp(c, creator[c].at, dirs)
      /\ UNCHANGED <<creates, returned, killed>>
  BY DEF TimeOut
<1>2. creator[c].at \in CallPlaces /\ dirs \in [Paths -> Directories \cup {Absent}]
      /\ gits' \subseteq gits /\ Shared \in Paths
  BY <1>1 DEF CallPlaces, RepoInv, ReposTyped, Paths
<1>3. /\ creator' \in [RepoCallers -> Creators] /\ locked' \in RepoCallers \cup {Absent}
      /\ dirs' \in [Paths -> Directories \cup {Absent}]
      /\ \A p \in Paths : dirs'[p] \in {Absent, dirs[p]}
      /\ \A d \in RepoCallers \ {c} : creator'[d] = creator[d]
      /\ creator'[c].at = "idle"
  BY <1>1, <1>2, CallGivesUp
<1>4. \A p \in Paths : DirKept(p)
  BY <1>3 DEF DirKept
<1>5. ASSUME NEW g \in gits, g.path = Shared
      PROVE  g \in gits'
  <2>1. ~(creator[c].at = "clone" /\ creator[c].call = g.call)
    BY <1>2, <1>5, RepoAssumption DEF RepoInv, GitsAreAwaited, CallsDiffer
  <2>2. QED
    BY <1>1, <2>1 DEF AwaitedBy
<1>6. SharedIsWhole'
  BY <1>1, <1>2, <1>3, <1>5, SharedStays
<1>7. QED
  BY <1>1, <1>2, <1>3, <1>4, <1>6, CallMoves

\* A process that is killed takes its call along.
LEMMA KillCallerStep ==
  ASSUME RepoInv, NEW c \in RepoCallers, KillCaller(c)
  PROVE  RepoInv'
<1>1. /\ creator[c].at \notin {"idle", "has"} /\ Fault
      /\ creator' = [creator EXCEPT ![c] = Uncalled]
      /\ gits' \subseteq gits /\ killed' = TRUE
      /\ locked' \in {Absent, locked}
      /\ UNCHANGED <<dirs, creates, returned>>
  BY DEF KillCaller
<1>2. creator[c].at \in CallPlaces /\ ReposTyped
  BY <1>1 DEF RepoInv, ReposTyped, Creators
<1>3. /\ creator' \in [RepoCallers -> Creators] /\ creator'[c].at = "idle"
      /\ \A d \in RepoCallers \ {c} : creator'[d] = creator[d]
  BY <1>1, CallFails DEF Fails
<1>4. /\ dirs' \in [Paths -> Directories \cup {Absent}] /\ locked' \in RepoCallers \cup {Absent}
      /\ \A p \in Paths : DirKept(p)
      /\ SharedIsWhole'
  BY <1>1, <1>2 DEF ReposTyped, DirKept, SharedIsWhole
<1>5. QED
  BY <1>1, <1>2, <1>3, <1>4, CallMoves

\* A clone that ends makes its directory what it was to become, and its call goes on.
LEMMA GitEndsStep ==
  ASSUME RepoInv, NEW g \in gits, GitEnds(g)
  PROVE  RepoInv'
<1> DEFINE has == IF Clonable(g) THEN g.has ELSE "nothing"
           head == IF Clonable(g) THEN "tip" ELSE "none"
           d == [dirs[g.path] EXCEPT !.has = has, !.head = head]
<1>1. /\ Own(g) /\ dirs' = [dirs EXCEPT ![g.path].has = has, ![g.path].head = head]
      /\ gits' = gits \ {g} /\ UNCHANGED <<creates, returned, killed, faults>>
  BY DEF GitEnds
<1>2. /\ ReposTyped /\ g \in Gits /\ g.path \in Paths /\ g.by \in RepoCallers
      /\ g.has \in {"tip", "all"} /\ g.call \notin returned
      /\ g.path = Shared => g.from = Absent /\ g.has = "all"
      /\ \A h \in gits : h.call = g.call => h = g
  BY DEF RepoInv, ReposTyped, GitsAreAwaited, Gits
<1>3. dirs[g.path] \in Directories /\ dirs[g.path] # Absent /\ dirs[g.path].call = g.call
  BY <1>1, <1>2 DEF Own, ReposTyped
<1>4. has \in {"nothing", "tip", "all"} /\ head \in {"none", "tip"}
  BY <1>2
<1>5. g.path = Shared => has = "all"
  BY <1>1, <1>2, RepoAssumption DEF Clonable
<1>6. dirs' = [dirs EXCEPT ![g.path] = d]
  BY <1>1
<1> HIDE DEF has, head
<1>7. d \in Directories /\ d.call = g.call /\ d.has = has
  BY <1>3, <1>4 DEF Directories
<1> HIDE DEF d
<1>8. /\ dirs' \in [Paths -> Directories \cup {Absent}] /\ dirs'[g.path] = d
      /\ \A p \in Paths : p # g.path => dirs'[p] = dirs[p]
  BY <1>2, <1>6, <1>7 DEF ReposTyped
<1>9. \A p \in Paths : DirKept(p)
  BY <1>2, <1>3, <1>7, <1>8 DEF DirKept
<1>10. SharedIsWhole'
  <2>1. CASE g.path = Shared
    BY <1>5, <1>7, <1>8, <2>1 DEF SharedIsWhole
  <2>2. CASE g.path # Shared
    BY <1>1, <1>8, <2>2, SharedStays DEF Paths
  <2>3. QED
    BY <2>1, <2>2
<1>11. gits' \subseteq gits /\ \A h \in gits' : h.call # g.call
  BY <1>1, <1>2
<1>12. CASE AwaitedBy(g, g.by)
  <2> DEFINE c == g.by
             r == [creator[c] EXCEPT !.at = AfterClone(creator[c]), !.tries = 0]
  <2>1. /\ creator[c].at \in ClonePlaces /\ creator[c].call = g.call
        /\ creator' = [creator EXCEPT ![c] = r]
        /\ locked' \in {Absent, locked}
    BY <1>12 DEF AwaitedBy, GitEnds, ClonePlaces
  <2>2. creator[c].at \in CallPlaces /\ creator[c] \in Creators
    BY <1>2, <2>1 DEF ClonePlaces, CallPlaces, ReposTyped
  <2>3. AfterClone(creator[c]) \in CallPlaces \ (ClonePlaces \cup {"find", "verify"})
    BY DEF AfterClone, CallPlaces, ClonePlaces
  <2>4. /\ r \in Creators /\ r.at \in CallPlaces \ (ClonePlaces \cup {"find", "verify"})
        /\ r.call = g.call /\ r.instance = creator[c].instance
    BY <2>1, <2>2, <2>3 DEF Creators
  <2> HIDE DEF r
  <2>5. /\ creator' \in [RepoCallers -> Creators] /\ creator'[c] = r
        /\ \A e \in RepoCallers \ {c} : creator'[e] = creator[e]
    BY <1>2, <2>1, <2>4 DEF ReposTyped
  <2>6. locked' \in RepoCallers \cup {Absent}
    BY <1>2, <2>1 DEF ReposTyped
  <2>7. QED
    BY <1>1, <1>2, <1>8, <1>9, <1>10, <1>11, <2>1, <2>2, <2>4, <2>5, <2>6, CallMoves
<1>13. CASE ~AwaitedBy(g, g.by)
  <2>1. UNCHANGED <<creator, locked>>
    BY <1>13 DEF GitEnds
  <2>2. ReposTyped'
    BY <1>1, <1>2, <1>8, <2>1 DEF ReposTyped
  <2>3. QED
    BY <1>1, <1>9, <1>10, <1>11, <2>1, <2>2, ReposKept
<1>14. QED
  BY <1>12, <1>13

\* The number after a number.
LEMMA CountsOn == \A k \in Nat : k + 1 \in Nat
  OBVIOUS

\* A clone that fails takes its directory along, and its call tries again or gives up.
LEMMA GitFailsStep ==
  ASSUME RepoInv, NEW g \in gits, GitFails(g)
  PROVE  RepoInv'
<1>1. PICK left : left = IF Own(g) THEN Removed(g.path) ELSE dirs
  OBVIOUS
<1>2. /\ Fault \/ faults' = faults
      /\ gits' = gits \ {g} /\ UNCHANGED <<creates, returned, killed>>
      /\ IF AwaitedBy(g, g.by)
         THEN GivesUp(g.by, creator[g.by].at, left) \/ TriesAgain(g.by, left)
         ELSE dirs' = left /\ UNCHANGED <<creator, locked>>
  BY <1>1 DEF GitFails, FailsUnless
<1>3. /\ ReposTyped /\ g.path \in Paths /\ g.by \in RepoCallers /\ Shared \in Paths
      /\ \A h \in gits : h.call = g.call => h = g
  BY DEF RepoInv, ReposTyped, GitsAreAwaited, Gits, Paths
<1>4. /\ left \in [Paths -> Directories \cup {Absent}]
      /\ \A p \in Paths : left[p] \in {Absent, dirs[p]}
      /\ Own(g) => left[g.path] = Absent
  BY <1>1, <1>3 DEF Removed, ReposTyped
<1>5. gits' \subseteq gits /\ \A h \in gits' : h.call # g.call
  BY <1>2, <1>3
<1>6. ASSUME dirs' \in [Paths -> Directories \cup {Absent}],
             \A p \in Paths : dirs'[p] \in {Absent, left[p]}
      PROVE  (\A p \in Paths : DirKept(p)) /\ SharedIsWhole'
  <2>1. \A p \in Paths : dirs'[p] \in {Absent, dirs[p]}
    BY <1>4, <1>6
  <2>2. \A p \in Paths : DirKept(p)
    BY <2>1 DEF DirKept
  <2>3. CASE g.path = Shared /\ Own(g)
    <3>1. dirs'[Shared] = Absent
      BY <1>3, <1>4, <1>6, <2>3
    <3>2. QED
      BY <2>2, <3>1 DEF SharedIsWhole
  <2>4. CASE ~(g.path = Shared /\ Own(g)) /\ dirs'[Shared] = dirs[Shared]
    <3>1. SharedIsWhole
      BY DEF RepoInv
    <3>2. \A h \in gits : h.path = Shared /\ dirs[Shared] # Absent /\ dirs[Shared].call = h.call
                            => h \in gits'
      BY <1>2, <2>4 DEF Own
    <3>3. QED
      BY <1>2, <2>2, <2>4, <3>1, <3>2 DEF SharedIsWhole
  <2>5. CASE dirs'[Shared] = Absent
    BY <2>2, <2>5 DEF SharedIsWhole
  <2>6. SharedIsWhole'
    BY <1>3, <2>1, <2>3, <2>4, <2>5
  <2>7. QED
    BY <2>2, <2>6
<1>7. CASE AwaitedBy(g, g.by)
  <2>c. PICK c \in RepoCallers : c = g.by
    BY <1>3
  <2>1. /\ creator[c].at \in ClonePlaces /\ creator[c].at \in CallPlaces
        /\ creator[c].call = g.call /\ creator[c] \in Creators
    BY <1>3, <1>7, <2>c DEF AwaitedBy, ClonePlaces, CallPlaces, ReposTyped
  <2>2. CASE GivesUp(c, creator[c].at, left)
    <3>1. /\ creator' \in [RepoCallers -> Creators] /\ locked' \in RepoCallers \cup {Absent}
          /\ dirs' \in [Paths -> Directories \cup {Absent}]
          /\ \A p \in Paths : dirs'[p] \in {Absent, left[p]}
          /\ \A d \in RepoCallers \ {c} : creator'[d] = creator[d]
          /\ \/ creator'[c].at = "idle"
             \/ /\ creator'[c].at = "second try"
                /\ creator'[c].call = creator[c].call
                /\ creator'[c].instance = creator[c].instance
      BY <1>4, <2>1, <2>2, CallGivesUp
    <3>2. "second try" \in CallPlaces \ (ClonePlaces \cup {"find"})
      BY DEF CallPlaces, ClonePlaces
    <3>3. QED
      BY <1>2, <1>5, <1>6, <2>1, <3>1, <3>2, CallMoves
  <2>3. CASE TriesAgain(c, left)
    <3>a. PICK at \in {"copy again", "shared again"} :
             at = IF creator[c].at = "clone" THEN "copy again" ELSE "shared again"
      OBVIOUS
    <3>b. PICK again \in Nat : again = creator[c].tries + 1
      <4>1. PICK k \in Nat : k = creator[c].tries
        BY <2>1 DEF Creators
      <4>2. k + 1 \in Nat
        BY CountsOn
      <4>3. QED
        BY <4>1, <4>2
    <3> DEFINE r == [creator[c] EXCEPT !.tries = again, !.at = at]
    <3>1. /\ creator' = [creator EXCEPT ![c] = r] /\ dirs' = left /\ locked' = locked
      BY <2>3, <3>a, <3>b DEF TriesAgain
    <3>2. /\ r \in Creators /\ r.at \in CallPlaces \ (ClonePlaces \cup {"find", "verify"})
          /\ r.call = creator[c].call /\ r.instance = creator[c].instance
      BY <2>1 DEF Creators, CallPlaces, ClonePlaces
    <3> HIDE DEF r
    <3>3. /\ creator' \in [RepoCallers -> Creators] /\ creator'[c] = r
          /\ \A d \in RepoCallers \ {c} : creator'[d] = creator[d]
      BY <1>3, <3>1, <3>2 DEF ReposTyped
    <3>4. /\ dirs' \in [Paths -> Directories \cup {Absent}]
          /\ \A p \in Paths : dirs'[p] \in {Absent, left[p]}
          /\ locked' \in RepoCallers \cup {Absent}
      BY <1>3, <1>4, <3>1 DEF ReposTyped
    <3>5. QED
      BY <1>2, <1>5, <1>6, <2>1, <3>2, <3>3, <3>4, CallMoves
  <2>4. QED
    BY <1>2, <1>7, <2>c, <2>2, <2>3
<1>8. CASE ~AwaitedBy(g, g.by)
  <2>1. dirs' = left /\ UNCHANGED <<creator, locked>>
    BY <1>2, <1>8
  <2>2. (\A p \in Paths : DirKept(p)) /\ SharedIsWhole'
    BY <1>4, <1>6, <2>1
  <2>3. ReposTyped'
    <3>1. faults' \in 0..MaxFaults
      BY <1>2, FaultsCounted
    <3>2. QED
      BY <1>2, <1>3, <1>4, <1>5, <2>1, <3>1 DEF ReposTyped
  <2>4. QED
    BY <1>2, <1>5, <2>1, <2>2, <2>3, ReposKept
<1>9. QED
  BY <1>7, <1>8

\* Every step of a caller or of git keeps the invariant.
LEMMA RepoStep ==
  ASSUME RepoInv, [RepoNext]_repoVars
  PROVE  RepoInv'
<1>1. ASSUME NEW c \in RepoCallers, NEW i \in Instances,
             NEW style \in {"async", "local", "network"},
             CallCreate(c, i, style)
      PROVE  RepoInv'
  BY <1>1, CallCreateStep
<1>2. ASSUME NEW c \in RepoCallers,
             \/ FindCopy(c) \/ VerifyCopy(c) \/ TimeOut(c)
             \/ FindShared(c) \/ FetchShared(c) \/ LockShared(c) \/ CloneSharedAgain(c)
             \/ CloneCopy(c) \/ VerifyAgain(c) \/ FetchBase(c) \/ SecondTry(c) \/ CheckOut(c)
             \/ OpenCopy(c) \/ KillCaller(c)
      PROVE  RepoInv'
  BY <1>2, FindCopyStep, VerifyCopyStep, TimeOutStep, SharedStep, FetchSharedStep, CloneCopyStep,
     VerifyAgainStep, FetchBaseStep, OpenCopyStep, KillCallerStep
<1>3. ASSUME NEW g \in gits, GitEnds(g) \/ GitFails(g)
      PROVE  RepoInv'
  BY <1>3, GitEndsStep, GitFailsStep
<1>4. CASE UNCHANGED repoVars
  <2>1. UNCHANGED <<dirs, gits, locked, creator, creates, returned, killed, faults>>
    BY <1>4 DEF repoVars
  <2>2. ReposTyped' /\ SharedIsWhole' /\ \A p \in Paths : DirKept(p)
    BY <2>1 DEF RepoInv, ReposTyped, SharedIsWhole, DirKept
  <2>3. QED
    BY <2>1, <2>2, ReposKept
<1>5. QED
  BY <1>1, <1>2, <1>3, <1>4 DEF RepoNext

\* Nothing is there at first, and nobody calls.
LEMMA RepoStarts ==
  ASSUME RepoInit
  PROVE  RepoInv
<1>1. /\ dirs = [p \in Paths |-> Absent] /\ gits = {} /\ locked = Absent
      /\ creator = [c \in RepoCallers |-> Uncalled]
      /\ creates = 0 /\ returned = {} /\ faults = 0
  BY DEF RepoInit
<1>2. Uncalled \in Creators /\ Uncalled.at = "idle"
  BY DEF Uncalled, Creators
<1>3. ReposTyped
  BY <1>1, <1>2, RepoAssumption DEF ReposTyped
<1>4. \A c \in RepoCallers : creator[c].at = "idle"
  BY <1>1, <1>2
<1>5. CallsDiffer /\ GitsAreAwaited /\ \A c \in RepoCallers : HandedOut(c)
  BY <1>1, <1>4 DEF CallsDiffer, GitsAreAwaited, HandedOut, CallPlaces
<1>6. SharedIsWhole
  BY <1>1 DEF SharedIsWhole, Paths
<1>7. QED
  BY <1>1, <1>3, <1>5, <1>6 DEF RepoInv

\* Theorem: the variables of RepoClones keep their types, for any callers, instances and
\* faults.
THEOREM RepoTypeCorrect == RepoSpec => []RepoTypeOK
<1>1. RepoInv => RepoTypeOK
  BY DEF RepoInv, ReposTyped, DirsAreOf, RepoTypeOK, Directories
<1>2. QED
  BY <1>1, RepoStarts, RepoStep, PTL DEF RepoSpec

\* Theorem: for any callers, instances, faults and kills, a repository that is handed out has
\* the base commit, which is checked out unless the copy was found unfinished, and a shared
\* clone that is left is whole unless a process was killed.
THEOREM RepositoriesAreReady == RepoSpec => []RepositoryIsReady
<1>1. RepoInv => RepositoryIsReady
  <2> SUFFICES ASSUME RepoInv
               PROVE  RepositoryIsReady
    OBVIOUS
  <2>1. \A c \in RepoCallers :
          creator[c].at = "has" =>
            creator[c].has = "all" /\ (creator[c].head = "base" \/ creator[c].unfinished)
    BY DEF RepoInv, HandedOut
  <2>2. gits = {} /\ ~killed => dirs[Shared] = Absent \/ HasBase(Shared)
    BY DEF RepoInv, SharedIsWhole, HasBase
  <2>3. QED
    BY <2>1, <2>2 DEF RepositoryIsReady
<1>2. QED
  BY <1>1, RepoStarts, RepoStep, PTL DEF RepoSpec

================================================================================
