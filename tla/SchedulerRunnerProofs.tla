-------------------------- MODULE SchedulerRunnerProofs -------------------------
(***************************************************************************)
(* Theorems about SchedulerRunner, for any jobs, clients, projects and     *)
(* limits: it is well typed whatever interleaves and whatever fails, and   *)
(* as long as operations do not overlap and the engine obeys, the records, *)
(* the sets and the containers agree and the limits are kept.              *)
(***************************************************************************)
EXTENDS SchedulerRunner, SequenceTheorems, FiniteSetTheorems, TLAPS

\* What an operation was told of the jobs it has yet to go through.
ToldOf(op) == IF op = "start_pending" THEN {PENDING} ELSE Listed(op)

\* Its copies of the records are what is stored, one for each job.
CopiesHold(r, st) ==
  /\ \A i \in 1..Len(r.rest) :
       /\ st[r.rest[i].job] = r.rest[i].status
       /\ r.rest[i].status \in ToldOf(r.op)
       /\ \A k \in 1..Len(r.rest) : i # k => r.rest[i].job # r.rest[k].job
  /\ \A i \in 1..Len(r.pending) :
       /\ st[r.pending[i].job] = PENDING
       /\ r.pending[i].status = PENDING
       /\ \A k \in 1..Len(r.pending) : i # k => r.pending[i].job # r.pending[k].job
  /\ r.pending # << >> => r.op = "positions"
  /\ r.rest # << >> => r.op \notin {"start_job", "get_job_status"}

Starts(r) == r.at = "update" /\ r.op \in {"start_job", "start_pending"}

\* What each place of an operation says of the record and of the container of
\* the job it is at.
PlaceFits(r, st, co) ==
  /\ IF r.at \in {"idle", "list"} THEN r.rest = << >> /\ r.pending = << >>
     ELSE \A i \in 1..Len(r.rest) : r.rest[i].job # r.job
  /\ r.at = "list" => r.op \notin {"start_job", "get_job_status", "start_pending"}
  /\ r.at \in {"ask", "exists"} => st[r.job] = r.status
  /\ r.at = "exists" => r.op \in {"cancel_job", "cleanup"}
  /\ r.at = "add" => r.op = "start_job" /\ st[r.job] = ABSENT /\ co[r.job] # "running"
  /\ r.at \in {"count", "count_project", "run"} =>
       r.op \in {"start_job", "start_pending"} /\ st[r.job] = PENDING
  /\ r.at = "delete" =>
       /\ r.op \in {"cancel_job", "cleanup", "reset_jobs", "sync", "get_job_status"}
       /\ st[r.job] # ABSENT
       /\ r.op \in {"sync", "get_job_status"} => r.status = COMPLETED
  /\ Starts(r) => r.status = RUNNING /\ st[r.job] = PENDING
  /\ r.at = "update" /\ ~Starts(r) =>
       /\ r.status # RUNNING /\ co[r.job] # "running"
       /\ st[r.job] # ABSENT
       /\ r.op = "positions" => r.status = PENDING /\ st[r.job] = PENDING
  /\ r.at = "remove" => r.op # "positions" /\ co[r.job] # "running"

\* The limits leave room for one more job, of any project and of that of j.
RoomInTotal(run) == WithinLimit(Cardinality(run), MaxTotal)

RoomInProject(j, run) == WithinLimit(Cardinality(run \cap SameProject(j)), MaxPerProject)

\* What has been counted still holds.
RoomIsLeft(r, run) ==
  /\ r.at \in {"count_project", "run"} \/ Starts(r) => RoomInTotal(run)
  /\ r.at = "run" \/ Starts(r) => RoomInProject(r.job, run)

\* The loop does the parts of an iteration, and begins with the first.
LoopRepeats(r) ==
  /\ r.op \in {"sync", "cleanup", "positions", "start_pending"}
  /\ r.at = "idle" => r.op = "sync"

OneAtATime == \A a, b \in Actors : ~At(a, "idle") /\ ~At(b, "idle") => a = b

ActorsFit == \A a \in Actors :
  /\ CopiesHold(actor[a], stored)
  /\ PlaceFits(actor[a], stored, container)
  /\ RoomIsLeft(actor[a], running)
  /\ a = Loop => LoopRepeats(actor[a])

\* A job is up without being recorded as RUNNING only while it is being started.
SetsAgree == \A j \in Jobs :
  /\ container[j] = "running" =>
       stored[j] = RUNNING \/ \E a \in Actors : Starts(actor[a]) /\ actor[a].job = j
  /\ j \in running <=> stored[j] = RUNNING
  /\ j \in inProject <=> stored[j] # ABSENT

CountedWithin ==
  /\ MaxTotal # 0 => Cardinality(running) <= MaxTotal
  /\ MaxPerProject # 0 =>
       \A j \in Jobs : Cardinality(running \cap SameProject(j)) <= MaxPerProject

IInv == TypeOK /\ OneAtATime /\ ActorsFit /\ SetsAgree /\ CountedWithin

--------------------------------------------------------------------------------
(* Types of what the actions are built from                                    *)

\* The first copy of a list and those that follow it.
LEMMA HeadOfList ==
  ASSUME NEW l \in Seq(Snapshot), l # << >>
  PROVE  /\ Head(l) = l[1]
         /\ l[1] \in Snapshot
         /\ Tail(l) \in Seq(Snapshot)
         /\ Len(l) \in Nat \ {0}
         /\ Len(Tail(l)) = Len(l) - 1
         /\ \A i \in 1..Len(Tail(l)) : Tail(l)[i] = l[i + 1] /\ i + 1 \in 1..Len(l)
<1>1. Len(l) \in Nat \ {0} /\ Head(l) = l[1]
  BY EmptySeq
<1>2. l[1] \in Snapshot
  BY <1>1, ElementOfSeq
<1>3. QED
  BY <1>1, <1>2, HeadTailProperties

\* An actor between two operations has a record.
LEMMA RestType ==
  ASSUME NEW op \in Operation, NEW j \in Jobs
  PROVE  Rest(op, j) \in ActorRecord
BY DEF Rest, ActorRecord, Place, JobStatus

\* The first call for a job is a place of an operation.
LEMMA FirstCallType ==
  ASSUME NEW op \in Operation, NEW s \in JobStatus
  PROVE  FirstCall(op, s) \in Place
BY DEF FirstCall, Place

\* Going on with the next job of a list, with the next part of an iteration, or
\* with either, keeps an actor's record well typed.
LEMMA TakeNextType ==
  ASSUME NEW r \in ActorRecord, r.rest # << >>
  PROVE  TakeNext(r) \in ActorRecord
<1>1. r.rest \in Seq(Snapshot)
  BY DEF ActorRecord
<1>2. Head(r.rest) \in Snapshot /\ Tail(r.rest) \in Seq(Snapshot)
  BY <1>1, HeadOfList
<1>3. FirstCall(r.op, Head(r.rest).status) \in Place
  BY <1>2, FirstCallType DEF ActorRecord, Snapshot
<1>4. QED
  BY <1>2, <1>3 DEF TakeNext, ActorRecord, Snapshot

\* The part that follows the last job of a list begins with a well-typed record.
LEMMA NextPartType ==
  ASSUME NEW r \in ActorRecord
  PROVE  NextPart(r) \in ActorRecord
<1>1. Rest("sync", r.job) \in ActorRecord /\ Rest(r.op, r.job) \in ActorRecord
  BY RestType DEF ActorRecord, Operation
<1>2. [r EXCEPT !.op = "cleanup", !.at = "list"] \in ActorRecord
  BY DEF ActorRecord, Operation, Place
<1>3. [r EXCEPT !.op = "positions", !.at = "list"] \in ActorRecord
  BY DEF ActorRecord, Operation, Place
<1>4. QED
  BY <1>1, <1>2, <1>3 DEF NextPart

\* So does whatever an actor goes on with.
LEMMA ProceedType ==
  ASSUME NEW r \in ActorRecord
  PROVE  Proceed(r) \in ActorRecord
<1>1. CASE r.rest # << >>
  BY <1>1, TakeNextType DEF Proceed
<1>2. CASE r.rest = << >> /\ r.op = "positions" /\ r.pending = << >>
  BY <1>2, RestType DEF Proceed, ActorRecord, Operation
<1>3. CASE r.rest = << >> /\ r.op = "positions" /\ r.pending # << >>
  <2> DEFINE u == [r EXCEPT !.op = "start_pending", !.rest = r.pending, !.pending = << >>]
  <2>1. << >> \in Seq(Snapshot)
    BY EmptySeq
  <2>2. u \in ActorRecord
    BY <2>1 DEF ActorRecord, Operation
  <2>3. u.rest # << >>
    BY <1>3 DEF ActorRecord
  <2>4. QED
    BY <1>3, <2>2, <2>3, TakeNextType DEF Proceed
<1>4. CASE r.rest = << >> /\ r.op # "positions"
  BY <1>4, NextPartType DEF Proceed
<1>5. QED
  BY <1>1, <1>2, <1>3, <1>4

\* The copies that get_jobs gives: well typed, as stored, in the statuses asked
\* for, one of each job.
LEMMA RecordsType ==
  ASSUME TypeOK, NEW jobs \in SUBSET Jobs, NEW statuses \in SUBSET JobStatus,
         NEW sorted \in BOOLEAN, NEW l \in Records(jobs, statuses, sorted)
  PROVE  /\ l \in Seq(Snapshot)
         /\ \A i \in 1..Len(l) :
              /\ stored[l[i].job] = l[i].status
              /\ l[i].status \in statuses
              /\ \A k \in 1..Len(l) : i # k => l[i].job # l[k].job
<1> DEFINE chosen == {j \in jobs : stored[j] \in statuses}
           n == Cardinality(chosen)
<1>1. n \in Nat
  <2>1. IsFiniteSet(chosen)
    BY ConstantsAssumption, FS_Subset
  <2>2. QED
    BY <2>1, FS_CardinalityType
<1>2. PICK s \in [1..n -> chosen] :
        /\ \A i, k \in DOMAIN s : i < k => s[i] # s[k]
        /\ l = [i \in DOMAIN s |-> [job |-> s[i], status |-> stored[s[i]]]]
  BY DEF Records
<1>3. \A i \in 1..n : s[i] \in Jobs /\ stored[s[i]] \in statuses
  BY <1>2
<1> HIDE DEF n, chosen
<1>4. l = [i \in 1..n |-> [job |-> s[i], status |-> stored[s[i]]]]
  BY <1>2
<1>5. l \in [1..n -> Snapshot]
  BY <1>3, <1>4 DEF Snapshot
<1>6. l \in Seq(Snapshot) /\ Len(l) = n
  BY <1>1, <1>5, SeqDef
<1>7. \A i, k \in 1..n : i # k => s[i] # s[k]
  <2> SUFFICES ASSUME NEW i \in 1..n, NEW k \in 1..n, i # k PROVE s[i] # s[k]
    OBVIOUS
  <2>1. i < k \/ k < i
    BY <1>1
  <2>2. QED
    BY <1>2, <2>1
<1>8. QED
  BY <1>3, <1>4, <1>6, <1>7

\* The jobs and the statuses that an operation goes through.
LEMMA ScopeType ==
  ASSUME NEW r, NEW jobs \in Scope(r)
  PROVE  jobs \in SUBSET Jobs
BY DEF Scope, SameProject

\* The statuses an operation asks for are statuses.
LEMMA ListedType ==
  ASSUME NEW op
  PROVE  Listed(op) \in SUBSET JobStatus
BY DEF Listed, JobStatus

\* What becomes of an actor's record keeps the actors well typed.
LEMMA BecomeType ==
  ASSUME TypeOK, NEW a \in Actors, NEW r \in ActorRecord, Become(a, r)
  PROVE  actor' \in [Actors -> ActorRecord]
BY DEF TypeOK, Become

\* Moving on to another call keeps the actors well typed.
LEMMA GoToType ==
  ASSUME TypeOK, NEW a \in Actors, NEW place \in Place, GoTo(a, place)
  PROVE  actor' \in [Actors -> ActorRecord]
<1>1. [actor[a] EXCEPT !.at = place] \in ActorRecord
  BY DEF TypeOK, ActorRecord
<1>2. QED
  BY <1>1, BecomeType DEF GoTo

\* Being done with a job keeps the actors well typed.
LEMMA DoneType ==
  ASSUME TypeOK, NEW a \in Actors, Done(a)
  PROVE  actor' \in [Actors -> ActorRecord]
<1>1. Proceed(actor[a]) \in ActorRecord
  BY ProceedType DEF TypeOK
<1>2. QED
  BY <1>1, BecomeType DEF Done

\* Another place and another status leave an actor's record well typed.
LEMMA MovedType ==
  ASSUME NEW r \in ActorRecord, NEW place \in Place, NEW s \in JobStatus
  PROVE  [r EXCEPT !.status = s, !.at = place] \in ActorRecord
BY DEF ActorRecord

\* Each call of the storage keeps the records, their order and the sets well typed.
StorageType ==
  /\ stored \in [Jobs -> JobStatus \cup {ABSENT}]
  /\ older \subseteq Jobs \X Jobs
  /\ running \subseteq Jobs /\ inProject \subseteq Jobs

\* The calls of the storage keep the records and the sets well typed.
LEMMA StorageCallType ==
  ASSUME TypeOK, NEW j \in Jobs, NEW s \in JobStatus,
         StoredUpdate(j, s) \/ StoredRemove(j) \/ StoredAdd(j)
  PROVE  StorageType'
<1>1. CASE StoredUpdate(j, s)
  BY <1>1 DEF TypeOK, StorageType, StoredUpdate
<1>2. CASE StoredRemove(j)
  BY <1>2 DEF TypeOK, StorageType, StoredRemove
<1>3. CASE StoredAdd(j)
  BY <1>3 DEF TypeOK, StorageType, StoredAdd, JobStatus
<1>4. QED
  BY <1>1, <1>2, <1>3

\* A step without a call of the storage keeps them too.
LEMMA StorageUnchangedType ==
  ASSUME TypeOK, StorageUnchanged
  PROVE  StorageType'
BY DEF TypeOK, StorageType, StorageUnchanged

\* What the runner reports of a container is a status or none, and RUNNING only
\* of a container that is up; it knows nothing only of one that is not.
LEMMA ReportedValues ==
  ASSUME NEW c \in ContainerState
  PROVE  /\ ReportedStatus[c] \in JobStatus \cup {ABSENT}
         /\ ReportedStatus[c] = RUNNING <=> c = "running"
BY DEF ContainerState, ReportedStatus, JobStatus, ABSENT, RUNNING, PENDING, COMPLETED,
       FAILED, CANCELED, STOPPED

\* The runner answers with a status or with none.
LEMMA RunnerStatusType ==
  ASSUME TypeOK, NEW j \in Jobs
  PROVE  RunnerStatus(j) \subseteq JobStatus \cup {ABSENT}
<1>1. container[j] \in ContainerState
  BY DEF TypeOK
<1>2. QED
  BY <1>1, ReportedValues DEF RunnerStatus

\* What a record becomes after an answer is a status.
LEMMA SyncedStatusType ==
  ASSUME NEW known \in JobStatus, NEW s \in JobStatus \cup {ABSENT}
  PROVE  SyncedStatus(known, s) \in JobStatus
BY DEF SyncedStatus, JobStatus

\* What follows a deletion is a well-typed record.
LEMMA AfterDeleteType ==
  ASSUME NEW r \in ActorRecord
  PROVE  AfterDelete(r) \in ActorRecord
BY DEF AfterDelete, ActorRecord, Place, JobStatus

--------------------------------------------------------------------------------
(* Type correctness                                                            *)

\* The scheduler starts well typed.
LEMMA InitType == Init => TypeOK
<1> SUFFICES ASSUME Init PROVE TypeOK
  OBVIOUS
<1>1. PICK j \in Jobs : actor = [a \in Actors |->
                          Rest(IF a = Loop THEN "sync" ELSE "start_job", j)]
  BY DEF Init
<1>2. Rest("sync", j) \in ActorRecord /\ Rest("start_job", j) \in ActorRecord
  BY RestType DEF Operation
<1>3. actor \in [Actors -> ActorRecord]
  BY <1>1, <1>2
<1>4. requests \in 0..MaxRequests
  BY ConstantsAssumption DEF Init
<1>5. QED
  BY <1>3, <1>4 DEF Init, TypeOK, ContainerState

\* A request that begins and an iteration that begins keep the state well typed.
LEMMA CallType ==
  ASSUME TypeOK, NEW c \in Clients, Call(c)
  PROVE  TypeOK'
<1>1. PICK op \in Operation, j \in Jobs, place \in Place : Request(c, op, j, place)
  BY DEF Call, Operation, Place
<1>2. [Rest(op, j) EXCEPT !.at = place] \in ActorRecord
  BY RestType DEF ActorRecord
<1>3. actor' \in [Actors -> ActorRecord]
  BY <1>1, <1>2, BecomeType DEF Request, Actors
<1>4. requests' \in 0..MaxRequests
  BY <1>1, ConstantsAssumption DEF Request, TypeOK
<1>5. StorageType' /\ container' \in [Jobs -> ContainerState]
  BY <1>1, StorageUnchangedType DEF Request, TypeOK
<1>6. QED
  BY <1>3, <1>4, <1>5 DEF TypeOK, StorageType

\* An iteration that begins keeps the types.
LEMMA IterateType == TypeOK /\ Iterate => TypeOK'
<1> SUFFICES ASSUME TypeOK, Iterate PROVE TypeOK'
  OBVIOUS
<1>1. "list" \in Place /\ Loop \in Actors
  BY DEF Place, Actors
<1>2. actor' \in [Actors -> ActorRecord]
  BY <1>1, GoToType DEF Iterate
<1>3. StorageType'
  BY StorageUnchangedType DEF Iterate
<1>4. QED
  BY <1>2, <1>3 DEF Iterate, TypeOK, StorageType

\* The end of a container keeps the state well typed.
LEMMA ContainerEndsType ==
  ASSUME TypeOK, NEW j \in Jobs, ContainerEnds(j)
  PROVE  TypeOK'
BY DEF TypeOK, ContainerEnds, ContainerState, StorageUnchanged

\* A step of an actor that leaves the storage and the containers alone keeps the
\* state well typed: all it writes is its own record.
LEMMA ActorStepType ==
  ASSUME TypeOK, NEW a \in Actors,
         List(a) \/ Get(a) \/ AskBeforeStart(a) \/ CountTotal(a) \/ CountProject(a)
           \/ AskStatus(a) \/ Reread(a) \/ AskExists(a)
  PROVE  TypeOK'
<1>1. StorageType' /\ UNCHANGED <<container, requests>>
  BY StorageUnchangedType
     DEF List, Get, AskBeforeStart, CountTotal, CountProject, AskStatus, Reread, AskExists
<1>2. {"add", "remove", "ask", "exists", "count_project", "run", "reread", "delete", "update"}
        \subseteq Place
  BY DEF Place
<1>3. actor[a] \in ActorRecord /\ actor[a].job \in Jobs /\ actor[a].status \in JobStatus
  BY DEF TypeOK, ActorRecord
<1> SUFFICES actor' \in [Actors -> ActorRecord]
  BY <1>1 DEF TypeOK, StorageType
<1>4. CASE List(a)
  <2>1. PICK jobs \in Scope(actor[a]) :
          \E l \in Records(jobs, Listed(actor[a].op), actor[a].op = "positions") :
            Become(a, Proceed([actor[a] EXCEPT !.rest = l,
                        !.pending = IF actor[a].op = "positions" THEN l ELSE << >>]))
    BY <1>4 DEF List
  <2>2. PICK l \in Records(jobs, Listed(actor[a].op), actor[a].op = "positions") :
          Become(a, Proceed([actor[a] EXCEPT !.rest = l,
                      !.pending = IF actor[a].op = "positions" THEN l ELSE << >>]))
    BY <2>1
  <2>3. jobs \in SUBSET Jobs /\ Listed(actor[a].op) \in SUBSET JobStatus
    BY ScopeType, ListedType
  <2>4. l \in Seq(Snapshot) /\ << >> \in Seq(Snapshot)
    BY <2>2, <2>3, RecordsType, EmptySeq
  <2>5. [actor[a] EXCEPT !.rest = l, !.pending = IF actor[a].op = "positions" THEN l ELSE << >>]
          \in ActorRecord
    BY <1>3, <2>4 DEF ActorRecord
  <2>6. QED
    BY <2>2, <2>5, ProceedType, BecomeType
<1>5. CASE Get(a)
  <2>1. CASE Done(a)
    BY <2>1, DoneType
  <2>2. CASE GoTo(a, "add")
    BY <1>2, <2>2, GoToType
  <2>3. ASSUME NEW place \in Place, stored[actor[a].job] # ABSENT,
               Become(a, [actor[a] EXCEPT !.status = stored[actor[a].job], !.at = place])
        PROVE  actor' \in [Actors -> ActorRecord]
    <3>1. stored[actor[a].job] \in JobStatus
      BY <1>3, <2>3 DEF TypeOK
    <3>2. QED
      BY <1>3, <2>3, <3>1, MovedType, BecomeType
  <2>4. QED
    BY <1>2, <1>5, <2>1, <2>2, <2>3 DEF Get, TypeOK, JobStatus, ABSENT, PENDING, RUNNING,
       COMPLETED, FAILED, CANCELED, STOPPED
<1>6. CASE AskBeforeStart(a)
  BY <1>2, <1>6, DoneType, GoToType DEF AskBeforeStart
<1>7. CASE CountTotal(a)
  BY <1>2, <1>7, DoneType, GoToType DEF CountTotal
<1>8. CASE CountProject(a)
  BY <1>2, <1>8, DoneType, GoToType DEF CountProject
<1>9. CASE AskStatus(a)
  <2>1. PICK s \in RunnerStatus(actor[a].job) :
          LET r   == actor[a]
              new == SyncedStatus(r.status, s)
          IN  IF new = r.status
                THEN IF r.op = "sync" THEN Done(a) ELSE GoTo(a, "reread")
                ELSE Become(a, [r EXCEPT !.status = new,
                                  !.at = IF new = COMPLETED THEN "delete" ELSE "update"])
    BY <1>9 DEF AskStatus
  <2> DEFINE new == SyncedStatus(actor[a].status, s)
  <2>2. new \in JobStatus
    BY <1>3, RunnerStatusType, SyncedStatusType
  <2> HIDE DEF new
  <2>3. CASE Done(a) \/ GoTo(a, "reread")
    BY <1>2, <2>3, DoneType, GoToType
  <2>4. CASE Become(a, [actor[a] EXCEPT !.status = new,
                          !.at = IF new = COMPLETED THEN "delete" ELSE "update"])
    BY <1>2, <1>3, <2>2, <2>4, MovedType, BecomeType
  <2>5. QED
    BY <2>1, <2>3, <2>4 DEF new
<1>10. CASE Reread(a)
  BY <1>10, DoneType DEF Reread
<1>11. CASE AskExists(a)
  BY <1>2, <1>3, <1>11, GoToType, AfterDeleteType, BecomeType DEF AskExists
<1>12. QED
  BY <1>4, <1>5, <1>6, <1>7, <1>8, <1>9, <1>10, <1>11

\* A step of an actor that calls the storage keeps the state well typed.
LEMMA StorageStepType ==
  ASSUME TypeOK, NEW a \in Actors, Add(a) \/ Update(a) \/ RemoveRecord(a)
  PROVE  TypeOK'
<1>1. actor[a] \in ActorRecord /\ actor[a].job \in Jobs /\ actor[a].status \in JobStatus
  BY DEF TypeOK, ActorRecord
<1>2. {"add", "count", "remove", "reread"} \subseteq Place /\ PENDING \in JobStatus
  BY DEF Place, JobStatus
<1>3. StorageType' /\ UNCHANGED <<container, requests>>
  BY <1>1, StorageCallType DEF Add, Update, RemoveRecord
<1>4. actor' \in [Actors -> ActorRecord]
  <2>1. CASE Add(a)
    <3>1. [actor[a] EXCEPT !.at = "count", !.status = PENDING] \in ActorRecord
      BY <1>1, <1>2 DEF ActorRecord
    <3>2. QED
      BY <2>1, <3>1, BecomeType DEF Add
  <2>2. CASE Update(a)
    BY <1>2, <2>2, DoneType, GoToType DEF Update
  <2>3. CASE RemoveRecord(a)
    BY <1>2, <2>3, DoneType, GoToType DEF RemoveRecord
  <2>4. QED
    BY <2>1, <2>2, <2>3
<1>5. QED
  BY <1>3, <1>4 DEF TypeOK, StorageType

\* A step of an actor that starts or deletes a container keeps the state well
\* typed.
LEMMA ContainerStepType ==
  ASSUME TypeOK, NEW a \in Actors, RunContainer(a) \/ DeleteContainer(a)
  PROVE  TypeOK'
<1>1. actor[a] \in ActorRecord /\ actor[a].job \in Jobs /\ actor[a].status \in JobStatus
  BY DEF TypeOK, ActorRecord
<1>2. StorageType' /\ UNCHANGED requests
  BY StorageUnchangedType DEF RunContainer, DeleteContainer
<1>3. CASE DeleteContainer(a)
  <2>1. container' \in [Jobs -> ContainerState]
    BY <1>3 DEF DeleteContainer, RunnerCancel, TypeOK, ContainerState
  <2>2. actor' \in [Actors -> ActorRecord]
    BY <1>1, <1>3, AfterDeleteType, BecomeType DEF DeleteContainer
  <2>3. QED
    BY <1>2, <2>1, <2>2 DEF TypeOK, StorageType
<1>4. CASE RunContainer(a)
  <2>1. "update" \in Place /\ RUNNING \in JobStatus /\ FAILED \in JobStatus
    BY DEF Place, JobStatus
  <2>2. \A s \in {RUNNING, FAILED} :
          [actor[a] EXCEPT !.at = "update", !.status = s] \in ActorRecord
    BY <1>1, <2>1 DEF ActorRecord
  <2>3. actor' \in [Actors -> ActorRecord]
    BY <1>4, <2>2, DoneType, BecomeType DEF RunContainer, RunFails
  <2>4. container' \in [Jobs -> ContainerState]
    BY <1>4 DEF RunContainer, RunFails, TypeOK, ContainerState
  <2>5. QED
    BY <1>2, <2>3, <2>4 DEF TypeOK, StorageType
<1>5. QED
  BY <1>3, <1>4

\* Every step keeps the types.
LEMMA NextType == TypeOK /\ [Next]_vars => TypeOK'
<1> SUFFICES ASSUME TypeOK, [Next]_vars PROVE TypeOK'
  OBVIOUS
<1>1. CASE Iterate
  BY <1>1, IterateType
<1>2. ASSUME NEW a \in Actors, GoOn(a) PROVE TypeOK'
  BY <1>2, ActorStepType, StorageStepType, ContainerStepType DEF GoOn
<1>3. ASSUME NEW c \in Clients, Call(c) PROVE TypeOK'
  BY <1>3, CallType
<1>4. ASSUME NEW j \in Jobs, ContainerEnds(j) PROVE TypeOK'
  BY <1>4, ContainerEndsType
<1>5. CASE UNCHANGED vars
  BY <1>5 DEF TypeOK, vars
<1>6. QED
  BY <1>1, <1>2, <1>3, <1>4, <1>5 DEF Next

\* Every reachable state of the scheduler is well typed, whatever interleaves and
\* whatever the container engine does: in particular an actor's copies are of
\* jobs, in statuses a stored record has.
THEOREM SchedulerTypeCorrect == Spec => []TypeOK
<1>1. Init => TypeOK
  BY InitType
<1>2. TypeOK /\ [Next]_vars => TypeOK'
  BY NextType
<1>3. QED
  BY <1>1, <1>2, PTL DEF Spec

--------------------------------------------------------------------------------
(* Operations that do not overlap, on an engine that obeys                     *)

\* An actor between two operations knows nothing that could become wrong.
LEMMA IdleFits ==
  ASSUME NEW r \in ActorRecord, r.at = "idle", r.rest = << >>, r.pending = << >>,
         NEW st, NEW co, NEW run
  PROVE  CopiesHold(r, st) /\ PlaceFits(r, st, co) /\ RoomIsLeft(r, run) /\ ~Starts(r)
<1>1. Len(r.rest) = 0 /\ Len(r.pending) = 0
  OBVIOUS
<1>2. QED
  BY <1>1 DEF CopiesHold, PlaceFits, RoomIsLeft, Starts

\* What an actor holds of the jobs it has yet to go through does not depend on
\* where it is with the current one.
LEMMA CopiesKept ==
  ASSUME NEW r, NEW u, NEW st, CopiesHold(r, st),
         u.rest = r.rest, u.pending = r.pending, u.op = r.op
  PROVE  CopiesHold(u, st)
BY DEF CopiesHold

\* The copies of the other jobs stay right when the record of the current one
\* changes.
LEMMA CopiesOfOthers ==
  ASSUME NEW r \in ActorRecord, NEW st \in [Jobs -> JobStatus \cup {ABSENT}],
         NEW s, CopiesHold(r, st), r.op = "positions" => st[r.job] = s,
         \A i \in 1..Len(r.rest) : r.rest[i].job # r.job
  PROVE  CopiesHold(r, [st EXCEPT ![r.job] = s])
<1> DEFINE new == [st EXCEPT ![r.job] = s]
<1>1. r.job \in Jobs /\ r.rest \in Seq(Snapshot) /\ r.pending \in Seq(Snapshot)
  BY DEF ActorRecord
<1>2. \A i \in 1..Len(r.rest) : r.rest[i].job \in Jobs
  <2>1. \A i \in 1..Len(r.rest) : r.rest[i] \in Snapshot
    BY <1>1, ElementOfSeq
  <2>2. QED
    BY <2>1 DEF Snapshot
<1>3. \A i \in 1..Len(r.rest) : new[r.rest[i].job] = st[r.rest[i].job]
  BY <1>2
<1>4. CASE r.op = "positions"
  <2>1. new = st
    BY <1>1, <1>4
  <2>2. QED
    BY <2>1
<1>5. CASE r.op # "positions"
  <2>1. r.pending = << >>
    BY <1>5 DEF CopiesHold
  <2>2. Len(r.pending) = 0
    BY <2>1
  <2> HIDE DEF new
  <2>3. CopiesHold(r, new)
    BY <1>3, <2>1, <2>2 DEF CopiesHold
  <2>4. QED
    BY <2>3 DEF new
<1>6. QED
  BY <1>4, <1>5

\* The next job of a list is taken up at a place that fits what is stored.
LEMMA TakeNextFits ==
  ASSUME NEW r \in ActorRecord, NEW st \in [Jobs -> JobStatus \cup {ABSENT}],
         NEW co \in [Jobs -> ContainerState], NEW run,
         \A j \in Jobs : co[j] = "running" => st[j] = RUNNING,
         CopiesHold(r, st), r.rest # << >>
  PROVE  /\ CopiesHold(TakeNext(r), st)
         /\ PlaceFits(TakeNext(r), st, co)
         /\ RoomIsLeft(TakeNext(r), run)
         /\ ~Starts(TakeNext(r))
<1> DEFINE u == TakeNext(r)
           h == r.rest[1]
<1>1. /\ r.rest \in Seq(Snapshot) /\ Head(r.rest) = h /\ h \in Snapshot
      /\ Len(r.rest) \in Nat \ {0} /\ Len(Tail(r.rest)) = Len(r.rest) - 1
      /\ \A i \in 1..Len(Tail(r.rest)) : Tail(r.rest)[i] = r.rest[i + 1] /\ i + 1 \in 1..Len(r.rest)
  <2>1. r.rest \in Seq(Snapshot)
    BY DEF ActorRecord
  <2>2. QED
    BY <2>1, HeadOfList
<1>2. /\ u.op = r.op /\ u.pending = r.pending /\ u.rest = Tail(r.rest)
      /\ u.job = h.job /\ u.status = h.status /\ u.at = FirstCall(r.op, h.status)
  BY <1>1 DEF TakeNext, ActorRecord
<1>3. 1 \in 1..Len(r.rest)
  BY <1>1
<1>4. /\ st[h.job] = h.status /\ h.status \in ToldOf(r.op)
      /\ \A k \in 1..Len(r.rest) : 1 # k => h.job # r.rest[k].job
  BY <1>3 DEF CopiesHold
<1>5. CopiesHold(u, st)
  <2> HIDE DEF u
  <2>1. ASSUME NEW i \in 1..Len(u.rest)
        PROVE  /\ st[u.rest[i].job] = u.rest[i].status
               /\ u.rest[i].status \in ToldOf(u.op)
               /\ \A k \in 1..Len(u.rest) : i # k => u.rest[i].job # u.rest[k].job
    <3>1. i \in Int /\ i + 1 \in 1..Len(r.rest) /\ u.rest[i] = r.rest[i + 1]
      BY <1>1, <1>2
    <3>2. \A k \in 1..Len(u.rest) : k \in Int /\ k + 1 \in 1..Len(r.rest) /\ u.rest[k] = r.rest[k + 1]
      BY <1>1, <1>2
    <3>3. \A k \in 1..Len(u.rest) : i # k => i + 1 # k + 1
      BY <3>1, <3>2
    <3>4. QED
      BY <1>2, <3>1, <3>2, <3>3 DEF CopiesHold
  <2>2. u.rest # << >> => u.op \notin {"start_job", "get_job_status"}
    BY <1>2 DEF CopiesHold
  <2>3. QED
    BY <1>2, <2>1, <2>2 DEF CopiesHold
<1>6. \A i \in 1..Len(u.rest) : u.rest[i].job # u.job
  <2> HIDE DEF u
  <2> SUFFICES ASSUME NEW i \in 1..Len(u.rest) PROVE u.rest[i].job # u.job
    OBVIOUS
  <2>1. i + 1 \in 1..Len(r.rest) /\ i + 1 # 1 /\ u.rest[i] = r.rest[i + 1]
    BY <1>1, <1>2
  <2>2. QED
    BY <1>2, <1>4, <2>1
<1>7. h.job \in Jobs /\ h.status \in JobStatus
  BY <1>1 DEF Snapshot
<1>8. st[u.job] = u.status /\ (co[u.job] = "running" => u.status = RUNNING)
  BY <1>2, <1>4, <1>7
<1>9. u.op \in Operation /\ u.op \notin {"start_job", "get_job_status"}
  BY <1>2 DEF ActorRecord, CopiesHold
<1>10. u.at = FirstCall(u.op, u.status) /\ u.status \in ToldOf(u.op) /\ u.status # ABSENT
  BY <1>2, <1>4, <1>7 DEF JobStatus, ABSENT, PENDING, RUNNING, COMPLETED, FAILED, CANCELED, STOPPED
<1> HIDE DEF u
<1>11. PlaceFits(u, st, co) /\ RoomIsLeft(u, run) /\ ~Starts(u)
  BY <1>6, <1>8, <1>9, <1>10 DEF PlaceFits, RoomIsLeft, Starts, FirstCall, ToldOf, Listed,
     Operation, PENDING, RUNNING, COMPLETED, CANCELED
<1>12. QED
  BY <1>5, <1>11 DEF u

\* Whatever follows, the next job, the next part or the end, the actor is where
\* what is stored lets it be.
LEMMA ProceedFits ==
  ASSUME NEW r \in ActorRecord, NEW st \in [Jobs -> JobStatus \cup {ABSENT}],
         NEW co \in [Jobs -> ContainerState], NEW run,
         \A j \in Jobs : co[j] = "running" => st[j] = RUNNING,
         CopiesHold(r, st)
  PROVE  /\ CopiesHold(Proceed(r), st)
         /\ PlaceFits(Proceed(r), st, co)
         /\ RoomIsLeft(Proceed(r), run)
         /\ ~Starts(Proceed(r))
<1>1. CASE r.rest # << >>
  BY <1>1, TakeNextFits DEF Proceed
<1>2. ASSUME NEW op \in Operation
      PROVE  /\ CopiesHold(Rest(op, r.job), st)
             /\ PlaceFits(Rest(op, r.job), st, co)
             /\ RoomIsLeft(Rest(op, r.job), run)
             /\ ~Starts(Rest(op, r.job))
  <2>1. Rest(op, r.job) \in ActorRecord
    BY RestType DEF ActorRecord
  <2>2. QED
    BY <2>1, IdleFits DEF Rest
<1>3. CASE r.rest = << >> /\ r.op = "positions" /\ r.pending = << >>
  BY <1>2, <1>3 DEF Proceed, Operation
<1>4. CASE r.rest = << >> /\ r.op = "positions" /\ r.pending # << >>
  <2> DEFINE u == [r EXCEPT !.op = "start_pending", !.rest = r.pending, !.pending = << >>]
  <2>1. << >> \in Seq(Snapshot)
    BY EmptySeq
  <2>2. u \in ActorRecord
    BY <2>1 DEF ActorRecord, Operation
  <2>3. u.op = "start_pending" /\ u.rest = r.pending /\ u.pending = << >>
    BY DEF ActorRecord
  <2>4. CopiesHold(u, st)
    <3>1. Len(u.pending) = 0
      BY <2>3
    <3> HIDE DEF u
    <3>2. QED
      BY <2>3, <3>1 DEF CopiesHold, ToldOf
  <2>5. Proceed(r) = TakeNext(u)
    BY <1>4 DEF Proceed
  <2> HIDE DEF u
  <2>6. QED
    BY <1>4, <2>2, <2>3, <2>4, <2>5, TakeNextFits
<1>5. CASE r.rest = << >> /\ r.op # "positions"
  <2>1. r.pending = << >>
    BY <1>5 DEF CopiesHold
  <2>2. ASSUME NEW op \in {"cleanup", "positions"}
        PROVE  LET u == [r EXCEPT !.op = op, !.at = "list"]
               IN  /\ CopiesHold(u, st) /\ PlaceFits(u, st, co)
                   /\ RoomIsLeft(u, run) /\ ~Starts(u)
    <3> DEFINE u == [r EXCEPT !.op = op, !.at = "list"]
    <3>1. u.op = op /\ u.at = "list" /\ u.rest = << >> /\ u.pending = << >>
      BY <1>5, <2>1 DEF ActorRecord
    <3> HIDE DEF u
    <3>2. Len(u.rest) = 0 /\ Len(u.pending) = 0
      BY <3>1
    <3>3. CopiesHold(u, st) /\ PlaceFits(u, st, co) /\ RoomIsLeft(u, run) /\ ~Starts(u)
      BY <3>1, <3>2 DEF CopiesHold, PlaceFits, RoomIsLeft, Starts
    <3>4. QED
      BY <3>3 DEF u
  <2>3. Proceed(r) = NextPart(r)
    BY <1>5 DEF Proceed
  <2>4. CASE r.op = "sync"
    BY <2>2, <2>3, <2>4 DEF NextPart
  <2>5. CASE r.op = "cleanup"
    BY <2>2, <2>3, <2>5 DEF NextPart
  <2>6. CASE r.op = "start_pending"
    BY <1>2, <2>3, <2>6 DEF NextPart, Operation
  <2>7. CASE r.op \notin {"sync", "cleanup", "start_pending"}
    <3>1. NextPart(r) = Rest(r.op, r.job) /\ r.op \in Operation
      BY <2>7 DEF NextPart, ActorRecord
    <3>2. QED
      BY <1>2, <2>3, <3>1
  <2>8. QED
    BY <2>4, <2>5, <2>6, <2>7
<1>6. QED
  BY <1>1, <1>3, <1>4, <1>5

\* The loop goes from a part of its iteration to the next.
LEMMA ProceedRepeats ==
  ASSUME NEW r \in ActorRecord, LoopRepeats(r)
  PROVE  LoopRepeats(Proceed(r))
<1>1. ASSUME NEW u \in ActorRecord, u.op \in {"sync", "cleanup", "positions", "start_pending"}
      PROVE  LoopRepeats(TakeNext(u))
  BY <1>1 DEF TakeNext, LoopRepeats, FirstCall, ActorRecord
<1>2. CASE r.rest # << >>
  BY <1>1, <1>2 DEF Proceed, LoopRepeats
<1>3. LoopRepeats(Rest("sync", r.job))
  BY DEF LoopRepeats, Rest
<1>4. CASE r.rest = << >> /\ r.op = "positions"
  <2> DEFINE u == [r EXCEPT !.op = "start_pending", !.rest = r.pending, !.pending = << >>]
  <2>1. << >> \in Seq(Snapshot)
    BY EmptySeq
  <2>2. u \in ActorRecord /\ u.op = "start_pending"
    BY <2>1 DEF ActorRecord, Operation
  <2>3. Proceed(r) = IF r.pending = << >> THEN Rest("sync", r.job) ELSE TakeNext(u)
    BY <1>4 DEF Proceed
  <2> HIDE DEF u
  <2>4. QED
    BY <1>1, <1>3, <2>2, <2>3
<1>5. CASE r.rest = << >> /\ r.op # "positions"
  BY <1>3, <1>5 DEF Proceed, NextPart, LoopRepeats, ActorRecord
<1>6. QED
  BY <1>2, <1>4, <1>5

--------------------------------------------------------------------------------
(* The steps of an actor that nobody disturbs                                  *)

\* An actor that is not between two operations is the only one.
LEMMA OthersAreIdle ==
  ASSUME IInv, NEW a \in Actors, ~At(a, "idle"), NEW b \in Actors, b # a
  PROVE  actor[b].at = "idle" /\ actor[b].rest = << >> /\ actor[b].pending = << >>
<1>1. actor[b].at = "idle"
  BY DEF IInv, OneAtATime, At
<1>2. QED
  BY <1>1 DEF IInv, ActorsFit, PlaceFits

\* Unless it is starting a job, whatever is up is recorded.
LEMMA UpIsRecorded ==
  ASSUME IInv, NEW a \in Actors, \A b \in Actors \ {a} : At(b, "idle"), ~Starts(actor[a])
  PROVE  \A j \in Jobs : container[j] = "running" => stored[j] = RUNNING
BY DEF IInv, SetsAgree, Starts, At

\* A step of an actor keeps the invariant when its record fits afterwards and
\* the records, sets and containers agree and are within the limits.
LEMMA StepKeeps ==
  ASSUME IInv, NEW a \in Actors, \A b \in Actors \ {a} : At(b, "idle"), TypeOK',
         NEW r \in ActorRecord, Become(a, r),
         CopiesHold(r, stored'), PlaceFits(r, stored', container'), RoomIsLeft(r, running'),
         a = Loop => LoopRepeats(r),
         \A j \in Jobs :
           /\ container'[j] = "running" => stored'[j] = RUNNING \/ (Starts(r) /\ r.job = j)
           /\ j \in running' <=> stored'[j] = RUNNING
           /\ j \in inProject' <=> stored'[j] # ABSENT,
         CountedWithin'
  PROVE  IInv'
<1>1. actor'[a] = r /\ \A b \in Actors \ {a} : actor'[b] = actor[b]
  BY DEF IInv, TypeOK, Become
<1>2. OneAtATime'
  BY <1>1 DEF OneAtATime, At
<1>3. ASSUME NEW b \in Actors
      PROVE  /\ CopiesHold(actor'[b], stored')
             /\ PlaceFits(actor'[b], stored', container')
             /\ RoomIsLeft(actor'[b], running')
             /\ b = Loop => LoopRepeats(actor'[b])
  <2>1. CASE b = a
    BY <1>1, <2>1
  <2>2. CASE b # a
    <3>1. actor[b] \in ActorRecord
      BY DEF IInv, TypeOK
    <3>2. actor[b].at = "idle" /\ actor[b].rest = << >> /\ actor[b].pending = << >>
      BY <2>2 DEF IInv, ActorsFit, PlaceFits, At
    <3>3. b = Loop => LoopRepeats(actor[b])
      BY DEF IInv, ActorsFit
    <3>4. QED
      BY <1>1, <2>2, <3>1, <3>2, <3>3, IdleFits
  <2>3. QED
    BY <2>1, <2>2
<1>4. ActorsFit'
  BY <1>3 DEF ActorsFit
<1>5. SetsAgree'
  BY <1>1 DEF SetsAgree
<1>6. QED
  BY <1>2, <1>4, <1>5 DEF IInv

\* A step that leaves storage and containers alone: the actor's record has to fit.
LEMMA QuietStepKeeps ==
  ASSUME IInv, NEW a \in Actors, \A b \in Actors \ {a} : At(b, "idle"), TypeOK',
         StorageUnchanged, UNCHANGED container, ~Starts(actor[a]),
         NEW r \in ActorRecord, Become(a, r),
         CopiesHold(r, stored), PlaceFits(r, stored, container), RoomIsLeft(r, running),
         a = Loop => LoopRepeats(r)
  PROVE  IInv'
<1>1. \A j \in Jobs : container[j] = "running" => stored[j] = RUNNING
  BY UpIsRecorded
<1>2. CountedWithin'
  BY DEF IInv, CountedWithin, StorageUnchanged
<1>3. \A j \in Jobs : /\ j \in running <=> stored[j] = RUNNING
                      /\ j \in inProject <=> stored[j] # ABSENT
  BY DEF IInv, SetsAgree
<1>4. /\ stored' = stored /\ running' = running /\ inProject' = inProject
      /\ container' = container
  BY DEF StorageUnchanged
<1>5. CopiesHold(r, stored') /\ PlaceFits(r, stored', container') /\ RoomIsLeft(r, running')
  BY <1>4
<1>6. \A j \in Jobs :
        /\ container'[j] = "running" => stored'[j] = RUNNING \/ (Starts(r) /\ r.job = j)
        /\ j \in running' <=> stored'[j] = RUNNING
        /\ j \in inProject' <=> stored'[j] # ABSENT
  BY <1>1, <1>3, <1>4
<1>7. QED
  BY <1>2, <1>5, <1>6, StepKeeps

\* Such a step with which the actor is done with a job.
LEMMA QuietDoneKeeps ==
  ASSUME IInv, NEW a \in Actors, ~At(a, "idle"), TypeOK',
         StorageUnchanged, UNCHANGED container, ~Starts(actor[a]), Done(a)
  PROVE  IInv'
<1>1. /\ actor[a] \in ActorRecord /\ Proceed(actor[a]) \in ActorRecord
      /\ stored \in [Jobs -> JobStatus \cup {ABSENT}] /\ container \in [Jobs -> ContainerState]
  BY ProceedType DEF IInv, TypeOK
<1>2. \A b \in Actors \ {a} : At(b, "idle")
  BY OthersAreIdle DEF At
<1>3. \A j \in Jobs : container[j] = "running" => stored[j] = RUNNING
  BY <1>2, UpIsRecorded
<1>4. CopiesHold(actor[a], stored) /\ (a = Loop => LoopRepeats(actor[a]))
  BY DEF IInv, ActorsFit
<1>5. /\ CopiesHold(Proceed(actor[a]), stored)
      /\ PlaceFits(Proceed(actor[a]), stored, container)
      /\ RoomIsLeft(Proceed(actor[a]), running)
  BY <1>1, <1>3, <1>4, ProceedFits
<1>6. a = Loop => LoopRepeats(Proceed(actor[a]))
  BY <1>1, <1>4, ProceedRepeats
<1>7. QED
  BY <1>1, <1>2, <1>5, <1>6, QuietStepKeeps DEF Done

\* Such a step with which the actor goes to another place for the same job.
LEMMA QuietMoveKeeps ==
  ASSUME IInv, NEW a \in Actors, ~At(a, "idle"), TypeOK',
         StorageUnchanged, UNCHANGED container, ~Starts(actor[a]),
         NEW place \in Place \ {"idle"}, NEW s \in JobStatus,
         Become(a, [actor[a] EXCEPT !.at = place, !.status = s]),
         PlaceFits([actor[a] EXCEPT !.at = place, !.status = s], stored, container),
         RoomIsLeft([actor[a] EXCEPT !.at = place, !.status = s], running)
  PROVE  IInv'
<1> DEFINE r == [actor[a] EXCEPT !.at = place, !.status = s]
<1>1. r \in ActorRecord /\ r.rest = actor[a].rest /\ r.pending = actor[a].pending
      /\ r.op = actor[a].op /\ r.at = place
  BY DEF IInv, TypeOK, ActorRecord
<1>2. \A b \in Actors \ {a} : At(b, "idle")
  BY OthersAreIdle DEF At
<1>3. CopiesHold(actor[a], stored) /\ (a = Loop => LoopRepeats(actor[a]))
  BY DEF IInv, ActorsFit
<1> HIDE DEF r
<1>4. CopiesHold(r, stored)
  BY <1>1, <1>3, CopiesKept
<1>5. a = Loop => LoopRepeats(r)
  BY <1>1, <1>3 DEF LoopRepeats
<1>6. Become(a, r) /\ PlaceFits(r, stored, container) /\ RoomIsLeft(r, running)
  BY DEF r
<1>7. QED
  BY <1>1, <1>2, <1>4, <1>5, <1>6, QuietStepKeeps

\* What an actor that is at a call knows: its record and the invariant's view of it.
LEMMA ActorKnows ==
  ASSUME IInv, NEW a \in Actors
  PROVE  /\ actor[a] \in ActorRecord /\ actor[a].job \in Jobs
         /\ actor[a].status \in JobStatus /\ actor[a].op \in Operation
         /\ stored[actor[a].job] \in JobStatus \cup {ABSENT}
         /\ container[actor[a].job] \in ContainerState
         /\ CopiesHold(actor[a], stored)
         /\ PlaceFits(actor[a], stored, container)
         /\ RoomIsLeft(actor[a], running)
         /\ a = Loop => LoopRepeats(actor[a])
BY DEF IInv, TypeOK, ActorRecord, ActorsFit

\* An engine that obeys reports what a container is doing.
LEMMA ReportIsTrue ==
  ASSUME IInv, Reliable, NEW j \in Jobs, NEW s \in RunnerStatus(j)
  PROVE  /\ s \in JobStatus \cup {ABSENT}
         /\ s = RUNNING <=> container[j] = "running"
<1>1. container[j] \in ContainerState
  BY DEF IInv, TypeOK
<1>2. s = ReportedStatus[container[j]]
  BY DEF RunnerStatus
<1>3. QED
  BY <1>1, <1>2, ReportedValues

\* A request begins when nobody is in an operation.
LEMMA CallKeeps ==
  ASSUME IInv, Serial, NEW c \in Clients, Call(c), TypeOK'
  PROVE  IInv'
<1>1. PICK op \in {"start_job", "cancel_job", "get_job_status", "get_jobs", "reset_jobs"},
           j \in Jobs, place \in {"get", "list"} :
        /\ Request(c, op, j, place)
        /\ place = "list" => op \notin {"start_job", "get_job_status"}
  BY DEF Call
<1> DEFINE r == [Rest(op, j) EXCEPT !.at = place]
<1>2. r \in ActorRecord /\ r.at = place /\ r.op = op /\ r.rest = << >> /\ r.pending = << >>
  <2>1. op \in Operation /\ place \in Place
    BY DEF Operation, Place
  <2>2. Rest(op, j) \in ActorRecord
    BY <2>1, RestType
  <2>3. QED
    BY <2>1, <2>2 DEF Rest, ActorRecord
<1>3. c \in Actors /\ c # Loop
  BY ConstantsAssumption DEF Actors
<1>4. \A b \in Actors \ {c} : At(b, "idle")
  BY <1>1 DEF Request, Undisturbed
<1>5. ~Starts(actor[c])
  BY <1>1 DEF Request, At, Starts
<1>6. Become(c, r) /\ StorageUnchanged /\ UNCHANGED container
  BY <1>1 DEF Request
<1> HIDE DEF r
<1>7. Len(r.rest) = 0 /\ Len(r.pending) = 0
  BY <1>2
<1>8. CopiesHold(r, stored) /\ PlaceFits(r, stored, container) /\ RoomIsLeft(r, running)
  BY <1>1, <1>2, <1>7 DEF CopiesHold, PlaceFits, RoomIsLeft, Starts
<1>9. QED
  BY <1>2, <1>3, <1>4, <1>5, <1>6, <1>8, QuietStepKeeps

\* So does an iteration of the loop.
LEMMA IterateKeeps ==
  ASSUME IInv, Serial, Iterate, TypeOK'
  PROVE  IInv'
<1> DEFINE r == [actor[Loop] EXCEPT !.at = "list"]
<1>1. Loop \in Actors
  BY DEF Actors
<1>2. actor[Loop] \in ActorRecord /\ LoopRepeats(actor[Loop])
  BY <1>1, ActorKnows
<1>3. actor[Loop].rest = << >> /\ actor[Loop].pending = << >> /\ actor[Loop].op = "sync"
  BY <1>1, <1>2, ActorKnows DEF Iterate, At, PlaceFits, LoopRepeats
<1>4. r \in ActorRecord /\ r.at = "list" /\ r.op = "sync" /\ r.rest = << >> /\ r.pending = << >>
  BY <1>2, <1>3 DEF ActorRecord, Place
<1>5. Become(Loop, r) /\ StorageUnchanged /\ UNCHANGED container
  BY DEF Iterate, GoTo
<1>6. \A b \in Actors \ {Loop} : At(b, "idle")
  BY DEF Iterate, Undisturbed
<1>7. ~Starts(actor[Loop])
  BY DEF Iterate, At, Starts
<1> HIDE DEF r
<1>8. Len(r.rest) = 0 /\ Len(r.pending) = 0
  BY <1>4
<1>9. CopiesHold(r, stored) /\ PlaceFits(r, stored, container) /\ RoomIsLeft(r, running)
      /\ LoopRepeats(r)
  BY <1>4, <1>8 DEF CopiesHold, PlaceFits, RoomIsLeft, Starts, LoopRepeats
<1>10. QED
  BY <1>1, <1>4, <1>5, <1>6, <1>7, <1>9, QuietStepKeeps

\* A container that ends leaves every place of an operation where it was.
LEMMA ContainerEndsKeeps ==
  ASSUME IInv, Reliable, NEW j \in Jobs, ContainerEnds(j), TypeOK'
  PROVE  IInv'
<1>1. /\ \A k \in Jobs : container'[k] = "running" => container[k] = "running"
      /\ actor' = actor /\ stored' = stored /\ running' = running /\ inProject' = inProject
  BY DEF ContainerEnds, StorageUnchanged, IInv, TypeOK
<1>2. ActorsFit'
  <2> SUFFICES ASSUME NEW a \in Actors
               PROVE  PlaceFits(actor[a], stored, container')
    BY <1>1 DEF IInv, ActorsFit
  <2>1. actor[a].job \in Jobs /\ PlaceFits(actor[a], stored, container)
    BY ActorKnows
  <2>2. QED
    BY <1>1, <2>1 DEF PlaceFits
<1>3. OneAtATime' /\ CountedWithin'
  BY <1>1 DEF IInv, OneAtATime, CountedWithin, At
<1>4. SetsAgree'
  BY <1>1 DEF IInv, SetsAgree
<1>5. QED
  BY <1>2, <1>3, <1>4 DEF IInv

\* The copies of a list are right when they are made.
LEMMA ListKeeps ==
  ASSUME IInv, NEW a \in Actors, List(a), TypeOK'
  PROVE  IInv'
<1>1. PICK jobs \in Scope(actor[a]) :
        \E l \in Records(jobs, Listed(actor[a].op), actor[a].op = "positions") :
          Become(a, Proceed([actor[a] EXCEPT !.rest = l,
                      !.pending = IF actor[a].op = "positions" THEN l ELSE << >>]))
  BY DEF List
<1>2. PICK l \in Records(jobs, Listed(actor[a].op), actor[a].op = "positions") :
        Become(a, Proceed([actor[a] EXCEPT !.rest = l,
                    !.pending = IF actor[a].op = "positions" THEN l ELSE << >>]))
  BY <1>1
<1> DEFINE u == [actor[a] EXCEPT !.rest = l,
                   !.pending = IF actor[a].op = "positions" THEN l ELSE << >>]
<1>3. /\ actor[a] \in ActorRecord /\ actor[a].op \in Operation /\ actor[a].at = "list"
      /\ actor[a].op \notin {"start_job", "get_job_status", "start_pending"}
      /\ a = Loop => LoopRepeats(actor[a])
  BY ActorKnows DEF List, At, PlaceFits
<1>4. TypeOK /\ jobs \in SUBSET Jobs /\ Listed(actor[a].op) \in SUBSET JobStatus
  BY ScopeType, ListedType DEF IInv
<1>5. /\ l \in Seq(Snapshot)
      /\ \A i \in 1..Len(l) :
           /\ stored[l[i].job] = l[i].status
           /\ l[i].status \in Listed(actor[a].op)
           /\ \A k \in 1..Len(l) : i # k => l[i].job # l[k].job
  BY <1>2, <1>4, RecordsType
<1>6. /\ u \in ActorRecord /\ u.rest = l /\ u.op = actor[a].op
      /\ u.pending = IF u.op = "positions" THEN l ELSE << >>
  <2>1. << >> \in Seq(Snapshot)
    BY EmptySeq
  <2>2. QED
    BY <1>3, <1>5, <2>1 DEF ActorRecord
<1>7. Become(a, Proceed(u)) /\ (a = Loop => LoopRepeats(u))
  BY <1>2, <1>3, <1>6 DEF LoopRepeats, ActorRecord
<1> HIDE DEF u
<1>8. CopiesHold(u, stored)
  <2>1. ToldOf(u.op) = Listed(u.op) /\ Listed("positions") = {PENDING}
    BY <1>3, <1>6 DEF ToldOf, Listed
  <2>2. u.op # "positions" => Len(u.pending) = 0
    BY <1>6
  <2>3. u.op = "positions" => u.pending = u.rest
    BY <1>6
  <2>4. \A i \in 1..Len(u.rest) :
          /\ stored[u.rest[i].job] = u.rest[i].status
          /\ u.rest[i].status \in ToldOf(u.op)
          /\ \A k \in 1..Len(u.rest) : i # k => u.rest[i].job # u.rest[k].job
    BY <1>5, <1>6, <2>1
  <2>5. ASSUME NEW i \in 1..Len(u.pending)
        PROVE  /\ stored[u.pending[i].job] = PENDING
               /\ u.pending[i].status = PENDING
               /\ \A k \in 1..Len(u.pending) : i # k => u.pending[i].job # u.pending[k].job
    <3>1. CASE u.op = "positions"
      BY <2>1, <2>3, <2>4, <3>1
    <3>2. CASE u.op # "positions"
      BY <2>2, <3>2
    <3>3. QED
      BY <3>1, <3>2
  <2>6. u.op \notin {"start_job", "get_job_status"}
    BY <1>3, <1>6
  <2>7. u.pending # << >> => u.op = "positions"
    BY <1>6
  <2>8. QED
    BY <2>4, <2>5, <2>6, <2>7 DEF CopiesHold
<1>9. \A b \in Actors \ {a} : At(b, "idle")
  BY <1>3, OthersAreIdle DEF At
<1>10. ~Starts(actor[a])
  BY <1>3 DEF Starts
<1>11. \A j \in Jobs : container[j] = "running" => stored[j] = RUNNING
  BY <1>9, <1>10, UpIsRecorded
<1>12. /\ CopiesHold(Proceed(u), stored) /\ PlaceFits(Proceed(u), stored, container)
       /\ RoomIsLeft(Proceed(u), running)
  BY <1>6, <1>8, <1>11, ProceedFits DEF IInv, TypeOK
<1>13. Proceed(u) \in ActorRecord /\ (a = Loop => LoopRepeats(Proceed(u)))
  BY <1>6, <1>7, ProceedType, ProceedRepeats
<1>14. StorageUnchanged /\ UNCHANGED container
  BY DEF List
<1>15. QED
  BY <1>7, <1>9, <1>10, <1>12, <1>13, <1>14, QuietStepKeeps

\* GoTo is a move that leaves the status as it is.
LEMMA GoToIsMove ==
  ASSUME IInv, NEW a \in Actors, NEW place
  PROVE  GoTo(a, place) <=>
           Become(a, [actor[a] EXCEPT !.at = place, !.status = actor[a].status])
<1>1. actor[a] \in ActorRecord
  BY ActorKnows
<1>2. [actor[a] EXCEPT !.at = place]
        = [actor[a] EXCEPT !.at = place, !.status = actor[a].status]
  BY <1>1 DEF ActorRecord
<1>3. QED
  BY <1>2 DEF GoTo

\* get_job at the head of a request.
LEMMA GetKeeps ==
  ASSUME IInv, NEW a \in Actors, Get(a), TypeOK'
  PROVE  IInv'
<1> DEFINE j == actor[a].job
           s == stored[j]
<1>1. /\ actor[a] \in ActorRecord /\ j \in Jobs /\ s \in JobStatus \cup {ABSENT}
      /\ actor[a].status \in JobStatus /\ actor[a].at = "get"
      /\ PlaceFits(actor[a], stored, container)
  BY ActorKnows DEF Get, At
<1>2. StorageUnchanged /\ UNCHANGED container /\ ~At(a, "idle") /\ ~Starts(actor[a])
  BY <1>1 DEF Get, At, Starts
<1>3. \A b \in Actors \ {a} : At(b, "idle")
  BY <1>2, OthersAreIdle DEF At
<1>4. container[j] = "running" => s = RUNNING
  BY <1>1, <1>2, <1>3, UpIsRecorded
<1>5. {"add", "ask", "exists"} \subseteq Place \ {"idle"}
  BY DEF Place
<1>6. CASE Done(a)
  BY <1>2, <1>6, QuietDoneKeeps
<1>7. CASE s = ABSENT /\ actor[a].op = "start_job" /\ GoTo(a, "add")
  <2> DEFINE r == [actor[a] EXCEPT !.at = "add", !.status = actor[a].status]
  <2>1. Become(a, r)
    BY <1>7, GoToIsMove
  <2>2. /\ r.at = "add" /\ r.op = "start_job" /\ r.job = j /\ r.rest = actor[a].rest
    BY <1>1, <1>5, <1>7 DEF ActorRecord
  <2>3. container[j] # "running"
    BY <1>4, <1>7 DEF ABSENT, RUNNING
  <2> HIDE DEF r
  <2>4. PlaceFits(r, stored, container) /\ RoomIsLeft(r, running)
    BY <1>1, <1>7, <2>2, <2>3 DEF PlaceFits, RoomIsLeft, Starts
  <2>5. QED
    BY <1>1, <1>2, <1>5, <2>1, <2>4, QuietMoveKeeps DEF r
<1>8. ASSUME NEW place \in {"ask", "exists"}, s # ABSENT,
             place = "exists" => actor[a].op = "cancel_job",
             Become(a, [actor[a] EXCEPT !.status = s, !.at = place])
      PROVE  IInv'
  <2> DEFINE r == [actor[a] EXCEPT !.at = place, !.status = s]
  <2>1. s \in JobStatus /\ Become(a, r)
    BY <1>1, <1>8 DEF ActorRecord
  <2>2. r.at = place /\ r.op = actor[a].op /\ r.job = j /\ r.rest = actor[a].rest /\ r.status = s
    BY <1>1, <1>5, <2>1 DEF ActorRecord
  <2> HIDE DEF r
  <2>3. PlaceFits(r, stored, container) /\ RoomIsLeft(r, running)
    BY <1>1, <1>8, <2>2 DEF PlaceFits, RoomIsLeft, Starts
  <2>4. QED
    BY <1>2, <1>5, <2>1, <2>3, QuietMoveKeeps DEF r
<1>9. QED
  BY <1>6, <1>7, <1>8 DEF Get, ABSENT, JobStatus, TerminalStates, PENDING, RUNNING, COMPLETED,
     FAILED, CANCELED, STOPPED

\* start_job goes on only with a job that is not up.
LEMMA AskBeforeStartKeeps ==
  ASSUME IInv, Reliable, NEW a \in Actors, AskBeforeStart(a), TypeOK'
  PROVE  IInv'
<1> DEFINE r == [actor[a] EXCEPT !.at = "remove", !.status = actor[a].status]
<1>1. /\ actor[a] \in ActorRecord /\ actor[a].status \in JobStatus /\ actor[a].at = "ask"
      /\ actor[a].op = "start_job" /\ PlaceFits(actor[a], stored, container)
      /\ actor[a].job \in Jobs
  BY ActorKnows DEF AskBeforeStart, At
<1>2. StorageUnchanged /\ UNCHANGED container /\ ~At(a, "idle") /\ ~Starts(actor[a])
  BY <1>1 DEF AskBeforeStart, At, Starts
<1>3. PICK s \in RunnerStatus(actor[a].job) :
        IF s \in {PENDING, RUNNING} THEN Done(a) ELSE GoTo(a, "remove")
  BY DEF AskBeforeStart
<1>4. CASE Done(a)
  BY <1>2, <1>4, QuietDoneKeeps
<1>5. CASE s # RUNNING /\ GoTo(a, "remove")
  <2>1. container[actor[a].job] # "running"
    BY <1>1, <1>5, ReportIsTrue
  <2>2. "remove" \in Place \ {"idle"}
    BY DEF Place
  <2>3. r.at = "remove" /\ r.op = "start_job" /\ r.job = actor[a].job /\ r.rest = actor[a].rest
    BY <1>1, <2>2 DEF ActorRecord
  <2>4. Become(a, r)
    BY <1>5, GoToIsMove
  <2> HIDE DEF r
  <2>5. PlaceFits(r, stored, container) /\ RoomIsLeft(r, running)
    BY <1>1, <2>1, <2>3 DEF PlaceFits, RoomIsLeft, Starts
  <2>6. QED
    BY <1>1, <1>2, <2>2, <2>4, <2>5, QuietMoveKeeps DEF r
<1>6. QED
  BY <1>3, <1>4, <1>5

\* The job to start is counted for as nobody else can run meanwhile; all RUNNING
\* jobs are in the sets of their projects.
LEMMA CountKeeps ==
  ASSUME IInv, NEW a \in Actors, CountTotal(a) \/ CountProject(a), TypeOK'
  PROVE  IInv'
<1>1. /\ actor[a] \in ActorRecord /\ actor[a].status \in JobStatus /\ actor[a].job \in Jobs
      /\ actor[a].at \in {"count", "count_project"}
      /\ PlaceFits(actor[a], stored, container) /\ RoomIsLeft(actor[a], running)
  BY ActorKnows DEF CountTotal, CountProject, At
<1>2. StorageUnchanged /\ UNCHANGED container /\ ~At(a, "idle") /\ ~Starts(actor[a])
  BY <1>1 DEF CountTotal, CountProject, At, Starts
<1>3. CASE Done(a)
  BY <1>2, <1>3, QuietDoneKeeps
<1>4. ASSUME NEW place \in {"count_project", "run"}, GoTo(a, place),
             RoomInTotal(running), place = "run" => RoomInProject(actor[a].job, running)
      PROVE  IInv'
  <2> DEFINE r == [actor[a] EXCEPT !.at = place, !.status = actor[a].status]
  <2>1. place \in Place \ {"idle"} /\ Become(a, r)
    BY <1>4, GoToIsMove DEF Place
  <2>2. r.at = place /\ r.op = actor[a].op /\ r.job = actor[a].job /\ r.rest = actor[a].rest
    BY <1>1, <2>1 DEF ActorRecord
  <2> HIDE DEF r
  <2>3. PlaceFits(r, stored, container) /\ RoomIsLeft(r, running)
    BY <1>1, <1>4, <2>2 DEF PlaceFits, RoomIsLeft, Starts
  <2>4. QED
    BY <1>1, <1>2, <2>1, <2>3, QuietMoveKeeps DEF r
<1>5. CASE CountTotal(a)
  BY <1>3, <1>4, <1>5 DEF CountTotal, RoomInTotal
<1>6. CASE CountProject(a)
  <2>1. running \subseteq inProject
    <3>1. \A j \in Jobs : j \in running => j \in inProject
      BY DEF IInv, SetsAgree, RUNNING, ABSENT
    <3>2. QED
      BY <3>1 DEF IInv, TypeOK
  <2>2. running \cap inProject \cap SameProject(actor[a].job)
          = running \cap SameProject(actor[a].job)
    BY <2>1
  <2>3. RoomInTotal(running)
    BY <1>1, <1>6 DEF CountProject, At, RoomIsLeft
  <2>4. QED
    BY <1>3, <1>4, <1>6, <2>2, <2>3 DEF CountProject, RoomInProject
<1>7. QED
  BY <1>5, <1>6

\* _sync_job: a status other than the stored one is only ever that of a job
\* which is not up.
LEMMA AskStatusKeeps ==
  ASSUME IInv, Reliable, NEW a \in Actors, AskStatus(a), TypeOK'
  PROVE  IInv'
<1> DEFINE j == actor[a].job
<1>1. /\ actor[a] \in ActorRecord /\ actor[a].status \in JobStatus /\ j \in Jobs
      /\ actor[a].at = "ask" /\ actor[a].op \in {"sync", "get_job_status"}
      /\ PlaceFits(actor[a], stored, container)
  BY ActorKnows DEF AskStatus, At
<1>2. StorageUnchanged /\ UNCHANGED container /\ ~At(a, "idle") /\ ~Starts(actor[a])
  BY <1>1 DEF AskStatus, At, Starts
<1>3. PICK s \in RunnerStatus(j) :
        LET r   == actor[a]
            new == SyncedStatus(r.status, s)
        IN  IF new = r.status
              THEN IF r.op = "sync" THEN Done(a) ELSE GoTo(a, "reread")
              ELSE Become(a, [r EXCEPT !.status = new,
                                !.at = IF new = COMPLETED THEN "delete" ELSE "update"])
  BY DEF AskStatus
<1> DEFINE new == SyncedStatus(actor[a].status, s)
<1>4. s \in JobStatus \cup {ABSENT} /\ (s = RUNNING <=> container[j] = "running")
  BY <1>1, ReportIsTrue
<1>5. new \in JobStatus
  BY <1>1, <1>4, SyncedStatusType
<1>6. \A b \in Actors \ {a} : At(b, "idle")
  BY <1>2, OthersAreIdle DEF At
<1>7. stored[j] = actor[a].status /\ (container[j] = "running" => stored[j] = RUNNING)
  BY <1>1, <1>2, <1>6, UpIsRecorded DEF PlaceFits
<1>8. new # actor[a].status => container[j] # "running" /\ new # RUNNING
  BY <1>4, <1>7 DEF SyncedStatus, ABSENT, RUNNING, STOPPED
<1> HIDE DEF new
<1>9. CASE Done(a)
  BY <1>2, <1>9, QuietDoneKeeps
<1>10. CASE GoTo(a, "reread")
  <2> DEFINE r == [actor[a] EXCEPT !.at = "reread", !.status = actor[a].status]
  <2>1. "reread" \in Place \ {"idle"} /\ Become(a, r)
    BY <1>10, GoToIsMove DEF Place
  <2>2. r.at = "reread" /\ r.op = actor[a].op /\ r.job = j /\ r.rest = actor[a].rest
    BY <1>1, <2>1 DEF ActorRecord
  <2> HIDE DEF r
  <2>3. PlaceFits(r, stored, container) /\ RoomIsLeft(r, running)
    BY <1>1, <2>2 DEF PlaceFits, RoomIsLeft, Starts
  <2>4. QED
    BY <1>1, <1>2, <2>1, <2>3, QuietMoveKeeps DEF r
<1>11. ASSUME new # actor[a].status, NEW place \in {"delete", "update"},
              place = "delete" => new = COMPLETED,
              Become(a, [actor[a] EXCEPT !.status = new, !.at = place])
       PROVE  IInv'
  <2> DEFINE r == [actor[a] EXCEPT !.at = place, !.status = new]
  <2>1. place \in Place \ {"idle"} /\ Become(a, r)
    BY <1>1, <1>11 DEF Place, ActorRecord
  <2>2. r.at = place /\ r.op = actor[a].op /\ r.job = j /\ r.rest = actor[a].rest /\ r.status = new
    BY <1>1, <1>5, <2>1 DEF ActorRecord
  <2>3. stored[j] # ABSENT
    BY <1>1, <1>7 DEF JobStatus, ABSENT, PENDING, RUNNING, COMPLETED, FAILED, CANCELED, STOPPED
  <2> HIDE DEF r
  <2>4. PlaceFits(r, stored, container) /\ RoomIsLeft(r, running)
    BY <1>1, <1>8, <1>11, <2>2, <2>3 DEF PlaceFits, RoomIsLeft, Starts
  <2>5. QED
    BY <1>2, <1>5, <2>1, <2>4, QuietMoveKeeps DEF r
<1>12. QED
  BY <1>3, <1>9, <1>10, <1>11 DEF new

\* get_job_status ends.
LEMMA RereadKeeps ==
  ASSUME IInv, NEW a \in Actors, Reread(a), TypeOK'
  PROVE  IInv'
BY QuietDoneKeeps DEF Reread, At, Starts

\* What follows a deletion: the job is not up any more, and is marked or removed.
LEMMA AfterDeleteFits ==
  ASSUME NEW r \in ActorRecord, NEW st, NEW co, NEW run,
         \A i \in 1..Len(r.rest) : r.rest[i].job # r.job,
         r.op \in {"cancel_job", "cleanup", "reset_jobs", "sync", "get_job_status"},
         r.op \in {"sync", "get_job_status"} => r.status = COMPLETED,
         st[r.job] # ABSENT, co[r.job] # "running",
         CopiesHold(r, st)
  PROVE  LET u == AfterDelete(r)
         IN  /\ u \in ActorRecord /\ CopiesHold(u, st) /\ PlaceFits(u, st, co)
             /\ RoomIsLeft(u, run) /\ ~Starts(u) /\ u.job = r.job
             /\ u.op = r.op /\ u.at # "idle"
<1> DEFINE u == AfterDelete(r)
<1>1. u \in ActorRecord
  BY AfterDeleteType
<1>2. /\ u.rest = r.rest /\ u.pending = r.pending /\ u.op = r.op /\ u.job = r.job
      /\ u.at \in {"update", "remove"}
      /\ u.at = "update" => u.op \in {"cancel_job", "sync", "get_job_status"}
      /\ u.at = "update" => u.status = IF u.op = "cancel_job" THEN CANCELED ELSE r.status
  BY DEF AfterDelete, ActorRecord
<1> HIDE DEF u
<1>3. CopiesHold(u, st)
  BY <1>2, CopiesKept
<1>4. PlaceFits(u, st, co) /\ RoomIsLeft(u, run) /\ ~Starts(u)
  BY <1>2 DEF PlaceFits, RoomIsLeft, Starts, CANCELED, COMPLETED, RUNNING
<1>5. QED
  BY <1>1, <1>2, <1>3, <1>4 DEF u

\* runner.job_exists: a container that is not there needs no deletion.
LEMMA AskExistsKeeps ==
  ASSUME IInv, Reliable, NEW a \in Actors, AskExists(a), TypeOK'
  PROVE  IInv'
<1> DEFINE j == actor[a].job
<1>1. /\ actor[a] \in ActorRecord /\ actor[a].status \in JobStatus /\ j \in Jobs
      /\ actor[a].at = "exists" /\ actor[a].op \in {"cancel_job", "cleanup"}
      /\ PlaceFits(actor[a], stored, container) /\ CopiesHold(actor[a], stored)
      /\ a = Loop => LoopRepeats(actor[a])
  BY ActorKnows DEF AskExists, At, PlaceFits
<1>2. StorageUnchanged /\ UNCHANGED container /\ ~At(a, "idle") /\ ~Starts(actor[a])
  BY <1>1 DEF AskExists, At, Starts
<1>3. PICK s \in RunnerStatus(j) :
        IF s # ABSENT THEN GoTo(a, "delete") ELSE Become(a, AfterDelete(actor[a]))
  BY DEF AskExists
<1>4. stored[j] # ABSENT
  BY <1>1 DEF PlaceFits, JobStatus, ABSENT, PENDING, RUNNING, COMPLETED, FAILED, CANCELED, STOPPED
<1>5. CASE GoTo(a, "delete")
  <2> DEFINE r == [actor[a] EXCEPT !.at = "delete", !.status = actor[a].status]
  <2>1. "delete" \in Place \ {"idle"} /\ Become(a, r)
    BY <1>5, GoToIsMove DEF Place
  <2>2. r.at = "delete" /\ r.op = actor[a].op /\ r.job = j /\ r.rest = actor[a].rest
    BY <1>1, <2>1 DEF ActorRecord
  <2> HIDE DEF r
  <2>3. PlaceFits(r, stored, container) /\ RoomIsLeft(r, running)
    BY <1>1, <1>4, <2>2 DEF PlaceFits, RoomIsLeft, Starts
  <2>4. QED
    BY <1>1, <1>2, <2>1, <2>3, QuietMoveKeeps DEF r
<1>6. CASE s = ABSENT /\ Become(a, AfterDelete(actor[a]))
  <2> DEFINE u == AfterDelete(actor[a])
  <2>1. container[j] # "running"
    BY <1>1, <1>6, ReportIsTrue DEF ABSENT, RUNNING
  <2>2. \A i \in 1..Len(actor[a].rest) : actor[a].rest[i].job # actor[a].job
    BY <1>1 DEF PlaceFits
  <2>3. /\ u \in ActorRecord /\ CopiesHold(u, stored) /\ PlaceFits(u, stored, container)
        /\ RoomIsLeft(u, running) /\ u.op = actor[a].op /\ u.at # "idle"
    BY <1>1, <1>4, <2>1, <2>2, AfterDeleteFits
  <2>4. a = Loop => LoopRepeats(u)
    BY <1>1, <2>3 DEF LoopRepeats
  <2>5. \A b \in Actors \ {a} : At(b, "idle")
    BY <1>2, OthersAreIdle DEF At
  <2> HIDE DEF u
  <2>6. QED
    BY <1>2, <1>6, <2>3, <2>4, <2>5, QuietStepKeeps DEF u
<1>7. QED
  BY <1>3, <1>5, <1>6

\* runner.cancel_job of an engine that obeys: the container is gone.
LEMMA DeleteContainerKeeps ==
  ASSUME IInv, Reliable, NEW a \in Actors, DeleteContainer(a), TypeOK'
  PROVE  IInv'
<1> DEFINE j == actor[a].job
           u == AfterDelete(actor[a])
<1>1. /\ actor[a] \in ActorRecord /\ j \in Jobs /\ actor[a].at = "delete"
      /\ PlaceFits(actor[a], stored, container) /\ CopiesHold(actor[a], stored)
      /\ a = Loop => LoopRepeats(actor[a])
  BY ActorKnows DEF DeleteContainer, At
<1>2. /\ ~At(a, "idle") /\ ~Starts(actor[a]) /\ Become(a, u)
      /\ stored' = stored /\ running' = running /\ inProject' = inProject
      /\ container' = [container EXCEPT ![j] = "none"]
  BY <1>1 DEF DeleteContainer, RunnerCancel, StorageUnchanged, At, Starts
<1>3. \A b \in Actors \ {a} : At(b, "idle")
  BY <1>2, OthersAreIdle DEF At
<1>4. \A k \in Jobs : container'[k] = "running" => stored[k] = RUNNING
  <2>1. \A k \in Jobs : container[k] = "running" => stored[k] = RUNNING
    BY <1>2, <1>3, UpIsRecorded
  <2>2. \A k \in Jobs : container'[k] = "running" => container[k] = "running"
    BY <1>2 DEF IInv, TypeOK
  <2>3. QED
    BY <2>1, <2>2
<1>5. container'[j] # "running"
  BY <1>1, <1>2 DEF IInv, TypeOK
<1>6. /\ \A i \in 1..Len(actor[a].rest) : actor[a].rest[i].job # actor[a].job
      /\ actor[a].op \in {"cancel_job", "cleanup", "reset_jobs", "sync", "get_job_status"}
      /\ actor[a].op \in {"sync", "get_job_status"} => actor[a].status = COMPLETED
      /\ stored[actor[a].job] # ABSENT
  BY <1>1 DEF PlaceFits
<1>7. /\ u \in ActorRecord /\ CopiesHold(u, stored) /\ PlaceFits(u, stored, container')
      /\ RoomIsLeft(u, running) /\ u.op = actor[a].op /\ u.at # "idle"
  BY <1>1, <1>5, <1>6, AfterDeleteFits
<1>8. a = Loop => LoopRepeats(u)
  BY <1>1, <1>7 DEF LoopRepeats
<1>9. \A k \in Jobs : /\ k \in running <=> stored[k] = RUNNING
                      /\ k \in inProject <=> stored[k] # ABSENT
  BY DEF IInv, SetsAgree
<1>10. CountedWithin'
  BY <1>2 DEF IInv, CountedWithin
<1> HIDE DEF u
<1>11. CopiesHold(u, stored') /\ PlaceFits(u, stored', container') /\ RoomIsLeft(u, running')
  BY <1>2, <1>7
<1>12. \A k \in Jobs :
         /\ container'[k] = "running" => stored'[k] = RUNNING \/ (Starts(u) /\ u.job = k)
         /\ k \in running' <=> stored'[k] = RUNNING
         /\ k \in inProject' <=> stored'[k] # ABSENT
  BY <1>2, <1>4, <1>9
<1>13. QED
  BY <1>2, <1>3, <1>7, <1>8, <1>10, <1>11, <1>12, StepKeeps

\* runner.start_job: the job that is started is in the room that was counted.
LEMMA RunContainerKeeps ==
  ASSUME IInv, Reliable, NEW a \in Actors, RunContainer(a), TypeOK'
  PROVE  IInv'
<1> DEFINE j == actor[a].job
           r == [actor[a] EXCEPT !.at = "update", !.status = RUNNING]
<1>1. /\ actor[a] \in ActorRecord /\ j \in Jobs /\ actor[a].at = "run"
      /\ PlaceFits(actor[a], stored, container) /\ CopiesHold(actor[a], stored)
      /\ RoomIsLeft(actor[a], running)
      /\ a = Loop => LoopRepeats(actor[a])
  BY ActorKnows DEF RunContainer, At
<1>2. ~At(a, "idle") /\ ~Starts(actor[a]) /\ StorageUnchanged
  BY <1>1 DEF RunContainer, At, Starts
<1>3. \A b \in Actors \ {a} : At(b, "idle")
  BY <1>2, OthersAreIdle DEF At
<1>4. CASE UNCHANGED container /\ Done(a)
  BY <1>2, <1>4, QuietDoneKeeps
<1>5. CASE container' = [container EXCEPT ![j] = "running"] /\ Become(a, r)
  <2>1. RUNNING \in JobStatus /\ "update" \in Place
    BY DEF JobStatus, Place
  <2>2. /\ r \in ActorRecord /\ r.at = "update" /\ r.status = RUNNING /\ r.op = actor[a].op
        /\ r.job = j /\ r.rest = actor[a].rest /\ r.pending = actor[a].pending
    BY <1>1, <2>1 DEF ActorRecord
  <2>3. r.op \in {"start_job", "start_pending"} /\ stored[j] = PENDING
    BY <1>1, <2>2 DEF PlaceFits
  <2> HIDE DEF r
  <2>4. Starts(r)
    BY <2>2, <2>3 DEF Starts
  <2>5. CopiesHold(r, stored)
    BY <1>1, <2>2, CopiesKept
  <2>6. PlaceFits(r, stored, container') /\ RoomIsLeft(r, running)
    BY <1>1, <2>2, <2>3, <2>4 DEF PlaceFits, RoomIsLeft
  <2>7. a = Loop => LoopRepeats(r)
    BY <1>1, <2>2 DEF LoopRepeats
  <2>8. stored' = stored /\ running' = running /\ inProject' = inProject
    BY <1>2 DEF StorageUnchanged
  <2>9. CountedWithin'
    BY <2>8 DEF IInv, CountedWithin
  <2>10. \A k \in Jobs : container'[k] = "running" => stored[k] = RUNNING \/ k = j
    <3>1. \A k \in Jobs : container[k] = "running" => stored[k] = RUNNING
      BY <1>2, <1>3, UpIsRecorded
    <3>2. \A k \in Jobs : container'[k] = "running" => container[k] = "running" \/ k = j
      BY <1>5 DEF IInv, TypeOK
    <3>3. QED
      BY <3>1, <3>2
  <2>11. \A k \in Jobs : /\ k \in running <=> stored[k] = RUNNING
                         /\ k \in inProject <=> stored[k] # ABSENT
    BY DEF IInv, SetsAgree
  <2>12. \A k \in Jobs :
           /\ container'[k] = "running" => stored'[k] = RUNNING \/ (Starts(r) /\ r.job = k)
           /\ k \in running' <=> stored'[k] = RUNNING
           /\ k \in inProject' <=> stored'[k] # ABSENT
    BY <2>2, <2>4, <2>8, <2>10, <2>11
  <2>13. CopiesHold(r, stored') /\ PlaceFits(r, stored', container') /\ RoomIsLeft(r, running')
    BY <2>5, <2>6, <2>8
  <2>14. QED
    BY <1>3, <1>5, <2>2, <2>7, <2>9, <2>12, <2>13, StepKeeps
<1>6. QED
  BY <1>4, <1>5 DEF RunContainer, RunFails

\* One job more is still within the limits when there was room for it.
LEMMA OneMoreCounted ==
  ASSUME IInv, NEW j \in Jobs, j \notin running, RoomInTotal(running), RoomInProject(j, running),
         running' = running \cup {j}
  PROVE  CountedWithin'
<1>1. IsFiniteSet(running) /\ Cardinality(running) \in Nat
  BY ConstantsAssumption, FS_Subset, FS_CardinalityType DEF IInv, TypeOK
<1>2. MaxTotal # 0 => Cardinality(running') <= MaxTotal
  <2>1. Cardinality(running') = Cardinality(running) + 1
    BY <1>1, FS_AddElement
  <2>2. QED
    BY <1>1, <2>1, ConstantsAssumption DEF RoomInTotal, WithinLimit
<1>3. ASSUME MaxPerProject # 0, NEW k \in Jobs
      PROVE  Cardinality(running' \cap SameProject(k)) <= MaxPerProject
  <2>1. CASE ProjectOf[k] # ProjectOf[j]
    <3>1. running' \cap SameProject(k) = running \cap SameProject(k)
      BY <2>1 DEF SameProject
    <3>2. QED
      BY <1>3, <3>1 DEF IInv, CountedWithin
  <2>2. CASE ProjectOf[k] = ProjectOf[j]
    <3> DEFINE old == running \cap SameProject(j)
    <3>1. SameProject(k) = SameProject(j) /\ j \in SameProject(j)
      BY <2>2 DEF SameProject
    <3>2. running' \cap SameProject(k) = old \cup {j} /\ j \notin old
      BY <3>1
    <3>3. IsFiniteSet(old) /\ Cardinality(old) \in Nat
      BY <1>1, FS_Intersection, FS_CardinalityType
    <3>4. Cardinality(old) < MaxPerProject
      BY <1>3 DEF RoomInProject, WithinLimit
    <3> HIDE DEF old
    <3>5. Cardinality(running' \cap SameProject(k)) = Cardinality(old) + 1
      BY <3>2, <3>3, FS_AddElement
    <3>6. QED
      BY <3>3, <3>4, <3>5, ConstantsAssumption
  <2>3. QED
    BY <2>1, <2>2
<1>4. QED
  BY <1>2, <1>3 DEF CountedWithin

\* Fewer RUNNING jobs are within the limits too.
LEMMA FewerCounted ==
  ASSUME IInv, running' \subseteq running
  PROVE  CountedWithin'
<1>1. IsFiniteSet(running) /\ Cardinality(running) \in Nat
  BY ConstantsAssumption, FS_Subset, FS_CardinalityType DEF IInv, TypeOK
<1>2. Cardinality(running') <= Cardinality(running) /\ Cardinality(running') \in Nat
  BY <1>1, FS_Subset, FS_CardinalityType
<1>3. ASSUME NEW k \in Jobs
      PROVE  LET old == running \cap SameProject(k)
                 new == running' \cap SameProject(k)
             IN  /\ Cardinality(new) <= Cardinality(old)
                 /\ Cardinality(new) \in Nat /\ Cardinality(old) \in Nat
  <2> DEFINE old == running \cap SameProject(k)
             new == running' \cap SameProject(k)
  <2>1. IsFiniteSet(old)
    BY <1>1, FS_Intersection
  <2>2. new \in SUBSET old
    OBVIOUS
  <2> HIDE DEF old, new
  <2>3. /\ Cardinality(new) <= Cardinality(old)
        /\ Cardinality(new) \in Nat /\ Cardinality(old) \in Nat
    BY <2>1, <2>2, FS_Subset, FS_CardinalityType
  <2>4. QED
    BY <2>3 DEF old, new
<1>4. MaxTotal # 0 => Cardinality(running') <= MaxTotal
  BY <1>1, <1>2, ConstantsAssumption DEF IInv, CountedWithin
<1>5. MaxPerProject # 0 =>
        \A k \in Jobs : Cardinality(running' \cap SameProject(k)) <= MaxPerProject
  <2> SUFFICES ASSUME MaxPerProject # 0, NEW k \in Jobs
               PROVE  Cardinality(running' \cap SameProject(k)) <= MaxPerProject
    OBVIOUS
  <2> DEFINE m == Cardinality(running \cap SameProject(k))
             n == Cardinality(running' \cap SameProject(k))
  <2>1. m <= MaxPerProject
    BY DEF IInv, CountedWithin
  <2>2. n <= m /\ n \in Nat /\ m \in Nat
    BY <1>3
  <2> HIDE DEF m, n
  <2>3. n <= MaxPerProject
    BY <2>1, <2>2, ConstantsAssumption
  <2>4. QED
    BY <2>3 DEF n
<1>6. QED
  BY <1>4, <1>5 DEF CountedWithin

\* storage.add_job
LEMMA AddKeeps ==
  ASSUME IInv, NEW a \in Actors, Add(a), TypeOK'
  PROVE  IInv'
<1> DEFINE j == actor[a].job
           r == [actor[a] EXCEPT !.at = "count", !.status = PENDING]
<1>1. /\ actor[a] \in ActorRecord /\ j \in Jobs /\ actor[a].at = "add"
      /\ PlaceFits(actor[a], stored, container) /\ CopiesHold(actor[a], stored)
      /\ a = Loop => LoopRepeats(actor[a])
  BY ActorKnows DEF Add, At
<1>2. /\ ~At(a, "idle") /\ ~Starts(actor[a]) /\ Become(a, r)
      /\ stored' = [stored EXCEPT ![j] = PENDING] /\ running' = running
      /\ inProject' = inProject \cup {j} /\ container' = container
  BY <1>1 DEF Add, StoredAdd, At, Starts
<1>3. \A b \in Actors \ {a} : At(b, "idle")
  BY <1>2, OthersAreIdle DEF At
<1>4. /\ actor[a].op = "start_job" /\ stored[j] = ABSENT /\ container[j] # "running"
      /\ \A i \in 1..Len(actor[a].rest) : actor[a].rest[i].job # actor[a].job
  BY <1>1 DEF PlaceFits
<1>5. /\ r \in ActorRecord /\ r.at = "count" /\ r.op = "start_job" /\ r.job = j
      /\ r.rest = actor[a].rest /\ r.pending = actor[a].pending
  BY <1>1, <1>4 DEF ActorRecord, Place, JobStatus
<1>6. stored \in [Jobs -> JobStatus \cup {ABSENT}]
  BY DEF IInv, TypeOK
<1>7. stored'[j] = PENDING /\ \A k \in Jobs \ {j} : stored'[k] = stored[k]
  BY <1>1, <1>2, <1>6
<1>8. CopiesHold(actor[a], stored')
  BY <1>1, <1>2, <1>4, <1>6, CopiesOfOthers
<1> HIDE DEF r
<1>9. CopiesHold(r, stored') /\ PlaceFits(r, stored', container') /\ RoomIsLeft(r, running')
  BY <1>4, <1>5, <1>7, <1>8, CopiesKept DEF PlaceFits, RoomIsLeft, Starts
<1>10. a = Loop => LoopRepeats(r)
  BY <1>1, <1>4, <1>5 DEF LoopRepeats
<1>11. \A k \in Jobs : container[k] = "running" => stored[k] = RUNNING
  BY <1>2, <1>3, UpIsRecorded
<1>12. \A k \in Jobs : /\ k \in running <=> stored[k] = RUNNING
                       /\ k \in inProject <=> stored[k] # ABSENT
  BY DEF IInv, SetsAgree
<1>13. \A k \in Jobs :
         /\ container'[k] = "running" => stored'[k] = RUNNING
         /\ k \in running' <=> stored'[k] = RUNNING
         /\ k \in inProject' <=> stored'[k] # ABSENT
  BY <1>2, <1>4, <1>7, <1>11, <1>12 DEF PENDING, RUNNING, ABSENT
<1>14. CountedWithin'
  BY <1>2 DEF IInv, CountedWithin
<1>15. QED
  BY <1>2, <1>3, <1>5, <1>9, <1>10, <1>13, <1>14, StepKeeps

\* After a call of the storage an actor goes on with the same job, at a place
\* that needs nothing of the record that was written, or is done with it.
LEMMA StorageStepKeeps ==
  ASSUME IInv, NEW a \in Actors, \A b \in Actors \ {a} : At(b, "idle"), TypeOK',
         CopiesHold(actor[a], stored'),
         \A i \in 1..Len(actor[a].rest) : actor[a].rest[i].job # actor[a].job,
         NEW place \in {"remove", "reread", "add"},
         place = "remove" => actor[a].op # "positions" /\ container'[actor[a].job] # "running",
         place = "add" => /\ actor[a].op = "start_job"
                          /\ stored'[actor[a].job] = ABSENT
                          /\ container'[actor[a].job] # "running",
         GoTo(a, place) \/ Done(a),
         \A k \in Jobs : /\ container'[k] = "running" => stored'[k] = RUNNING
                         /\ k \in running' <=> stored'[k] = RUNNING
                         /\ k \in inProject' <=> stored'[k] # ABSENT,
         CountedWithin'
  PROVE  IInv'
<1>1. actor[a] \in ActorRecord /\ (a = Loop => LoopRepeats(actor[a]))
  BY ActorKnows
<1>2. CASE GoTo(a, place)
  <2> DEFINE r == [actor[a] EXCEPT !.at = place]
  <2>1. /\ r \in ActorRecord /\ r.at = place /\ r.op = actor[a].op /\ r.job = actor[a].job
        /\ r.rest = actor[a].rest /\ r.pending = actor[a].pending
    BY <1>1 DEF ActorRecord, Place
  <2>2. Become(a, r)
    BY <1>2 DEF GoTo
  <2> HIDE DEF r
  <2>3. CopiesHold(r, stored')
    BY <2>1, CopiesKept
  <2>4. PlaceFits(r, stored', container') /\ RoomIsLeft(r, running')
    BY <2>1 DEF PlaceFits, RoomIsLeft, Starts
  <2>5. a = Loop => LoopRepeats(r)
    BY <1>1, <2>1 DEF LoopRepeats
  <2>6. QED
    BY <2>1, <2>2, <2>3, <2>4, <2>5, StepKeeps
<1>3. CASE Done(a)
  <2> DEFINE r == Proceed(actor[a])
  <2>1. r \in ActorRecord /\ (a = Loop => LoopRepeats(r))
    BY <1>1, ProceedType, ProceedRepeats
  <2>2. /\ stored' \in [Jobs -> JobStatus \cup {ABSENT}]
        /\ container' \in [Jobs -> ContainerState]
    BY DEF TypeOK
  <2>3. CopiesHold(r, stored') /\ PlaceFits(r, stored', container') /\ RoomIsLeft(r, running')
    BY <1>1, <2>2, ProceedFits
  <2>4. Become(a, r)
    BY <1>3 DEF Done
  <2> HIDE DEF r
  <2>5. QED
    BY <2>1, <2>3, <2>4, StepKeeps
<1>4. QED
  BY <1>2, <1>3

\* storage.update_job: the copy that is written back is of a job that nobody
\* else has changed.
LEMMA UpdateKeeps ==
  ASSUME IInv, NEW a \in Actors, Update(a), TypeOK'
  PROVE  IInv'
<1> DEFINE j == actor[a].job
           s == actor[a].status
<1>1. /\ actor[a] \in ActorRecord /\ j \in Jobs /\ s \in JobStatus /\ actor[a].at = "update"
      /\ PlaceFits(actor[a], stored, container) /\ CopiesHold(actor[a], stored)
      /\ RoomIsLeft(actor[a], running)
  BY ActorKnows DEF Update, At
<1>2. /\ stored' = [stored EXCEPT ![j] = s]
      /\ running' = IF stored[j] \in {ABSENT, s} THEN running
                    ELSE IF s = RUNNING THEN running \cup {j}
                    ELSE IF stored[j] = RUNNING THEN running \ {j}
                    ELSE running
      /\ inProject' = inProject /\ container' = container
  BY DEF Update, StoredUpdate
<1>3. \A b \in Actors \ {a} : At(b, "idle")
  BY <1>1, OthersAreIdle DEF At
<1>4. stored \in [Jobs -> JobStatus \cup {ABSENT}]
  BY DEF IInv, TypeOK
<1>5. stored'[j] = s /\ \A k \in Jobs \ {j} : stored'[k] = stored[k]
  BY <1>1, <1>2, <1>4
<1>6. \A i \in 1..Len(actor[a].rest) : actor[a].rest[i].job # actor[a].job
  BY <1>1 DEF PlaceFits
<1>7. /\ actor[a].op = "positions" => stored[j] = s
      /\ stored[j] # ABSENT
      /\ Starts(actor[a]) => s = RUNNING /\ stored[j] = PENDING
      /\ ~Starts(actor[a]) => s # RUNNING /\ container[j] # "running"
  BY <1>1 DEF PlaceFits, Starts, PENDING, ABSENT
<1>8. CopiesHold(actor[a], stored')
  BY <1>1, <1>2, <1>4, <1>6, <1>7, CopiesOfOthers
<1>9. \A k \in Jobs : /\ k \in running <=> stored[k] = RUNNING
                      /\ k \in inProject <=> stored[k] # ABSENT
  BY DEF IInv, SetsAgree
<1>10. \A k \in Jobs \ {j} : container[k] = "running" => stored[k] = RUNNING
  BY <1>3 DEF IInv, SetsAgree, Starts, At
<1>11. s # ABSENT
  BY <1>1 DEF JobStatus, ABSENT, PENDING, RUNNING, COMPLETED, FAILED, CANCELED, STOPPED
<1>12. ASSUME NEW k \in Jobs
       PROVE  /\ container'[k] = "running" => stored'[k] = RUNNING
              /\ k \in running' <=> stored'[k] = RUNNING
              /\ k \in inProject' <=> stored'[k] # ABSENT
  <2>1. CASE k # j
    BY <1>2, <1>5, <1>9, <1>10, <2>1
  <2>2. CASE k = j
    BY <1>2, <1>5, <1>7, <1>9, <1>11, <2>2
  <2>3. QED
    BY <2>1, <2>2
<1>13. CountedWithin'
  <2>1. CASE running' \subseteq running
    BY <2>1, FewerCounted
  <2>2. CASE ~(running' \subseteq running)
    <3>1. s = RUNNING /\ stored[j] # RUNNING /\ running' = running \cup {j}
      BY <1>2, <2>2
    <3>2. Starts(actor[a]) /\ j \notin running
      BY <1>1, <1>7, <1>9, <3>1
    <3>3. RoomInTotal(running) /\ RoomInProject(j, running)
      BY <1>1, <3>2 DEF RoomIsLeft
    <3>4. QED
      BY <1>1, <3>1, <3>2, <3>3, OneMoreCounted
  <2>3. QED
    BY <2>1, <2>2
<1>14. CASE actor[a].op = "cancel_job" /\ GoTo(a, "remove")
  <2>1. container'[j] # "running"
    BY <1>2, <1>7, <1>14 DEF Starts
  <2>2. QED
    BY <1>3, <1>6, <1>8, <1>12, <1>13, <1>14, <2>1, StorageStepKeeps
<1>15. CASE GoTo(a, "reread") \/ Done(a)
  BY <1>3, <1>6, <1>8, <1>12, <1>13, <1>15, StorageStepKeeps
<1>16. QED
  BY <1>14, <1>15 DEF Update

\* storage.remove_job: the job is not up.
LEMMA RemoveRecordKeeps ==
  ASSUME IInv, NEW a \in Actors, RemoveRecord(a), TypeOK'
  PROVE  IInv'
<1> DEFINE j == actor[a].job
<1>1. /\ actor[a] \in ActorRecord /\ j \in Jobs /\ actor[a].at = "remove"
      /\ PlaceFits(actor[a], stored, container) /\ CopiesHold(actor[a], stored)
  BY ActorKnows DEF RemoveRecord, At
<1>2. /\ stored' = [stored EXCEPT ![j] = ABSENT]
      /\ running' = IF stored[j] = RUNNING THEN running \ {j} ELSE running
      /\ inProject' = IF stored[j] = ABSENT THEN inProject ELSE inProject \ {j}
      /\ container' = container
  BY DEF RemoveRecord, StoredRemove
<1>3. \A b \in Actors \ {a} : At(b, "idle")
  BY <1>1, OthersAreIdle DEF At
<1>4. stored \in [Jobs -> JobStatus \cup {ABSENT}]
  BY DEF IInv, TypeOK
<1>5. stored'[j] = ABSENT /\ \A k \in Jobs \ {j} : stored'[k] = stored[k]
  BY <1>1, <1>2, <1>4
<1>6. /\ \A i \in 1..Len(actor[a].rest) : actor[a].rest[i].job # actor[a].job
      /\ actor[a].op # "positions" /\ container[j] # "running" /\ ~Starts(actor[a])
  BY <1>1 DEF PlaceFits, Starts
<1>7. CopiesHold(actor[a], stored')
  BY <1>1, <1>2, <1>4, <1>6, CopiesOfOthers
<1>8. \A k \in Jobs : /\ k \in running <=> stored[k] = RUNNING
                      /\ k \in inProject <=> stored[k] # ABSENT
  BY DEF IInv, SetsAgree
<1>9. \A k \in Jobs : container[k] = "running" => stored[k] = RUNNING
  BY <1>3, <1>6, UpIsRecorded
<1>10. ASSUME NEW k \in Jobs
       PROVE  /\ container'[k] = "running" => stored'[k] = RUNNING
              /\ k \in running' <=> stored'[k] = RUNNING
              /\ k \in inProject' <=> stored'[k] # ABSENT
  <2>1. CASE k # j
    BY <1>2, <1>5, <1>8, <1>9, <2>1
  <2>2. CASE k = j
    BY <1>2, <1>5, <1>6, <1>8, <2>2 DEF ABSENT, RUNNING
  <2>3. QED
    BY <2>1, <2>2
<1>11. CountedWithin'
  <2>1. running' \subseteq running
    BY <1>2
  <2>2. QED
    BY <2>1, FewerCounted
<1>12. CASE actor[a].op = "start_job" /\ GoTo(a, "add")
  <2>1. container'[j] # "running"
    BY <1>2, <1>6
  <2>2. QED
    BY <1>3, <1>5, <1>6, <1>7, <1>10, <1>11, <1>12, <2>1, StorageStepKeeps
<1>13. CASE GoTo(a, "reread") \/ Done(a)
  BY <1>3, <1>6, <1>7, <1>10, <1>11, <1>13, StorageStepKeeps
<1>14. QED
  BY <1>12, <1>13 DEF RemoveRecord

--------------------------------------------------------------------------------
(* Records, sets, containers and limits                                        *)

\* The inductive invariant holds at the start.
LEMMA InitInv == Init => IInv
<1> SUFFICES ASSUME Init PROVE IInv
  OBVIOUS
<1>1. TypeOK
  BY InitType
<1>2. PICK j \in Jobs : actor = [a \in Actors |->
                          Rest(IF a = Loop THEN "sync" ELSE "start_job", j)]
  BY DEF Init
<1>3. \A a \in Actors :
        /\ actor[a].at = "idle" /\ actor[a].rest = << >> /\ actor[a].pending = << >>
        /\ a = Loop => actor[a].op = "sync"
  BY <1>2 DEF Rest
<1>4. ActorsFit
  <2> SUFFICES ASSUME NEW a \in Actors
               PROVE  /\ CopiesHold(actor[a], stored)
                      /\ PlaceFits(actor[a], stored, container)
                      /\ RoomIsLeft(actor[a], running)
                      /\ a = Loop => LoopRepeats(actor[a])
    BY DEF ActorsFit
  <2>1. actor[a] \in ActorRecord
    BY <1>1 DEF TypeOK
  <2>2. QED
    BY <1>3, <2>1, IdleFits DEF LoopRepeats
<1>5. OneAtATime
  BY <1>3 DEF OneAtATime, At
<1>6. SetsAgree
  BY DEF Init, SetsAgree, ABSENT, RUNNING
<1>7. CountedWithin
  <2>1. Cardinality({}) = 0 /\ \A k \in Jobs : {} \cap SameProject(k) = {}
    BY FS_EmptySet
  <2>2. QED
    BY <2>1, ConstantsAssumption DEF Init, CountedWithin
<1>8. QED
  BY <1>1, <1>4, <1>5, <1>6, <1>7 DEF IInv

\* Every step keeps the inductive invariant of undisturbed operations.
LEMMA NextKeeps ==
  ASSUME Serial, Reliable, IInv, [Next]_vars
  PROVE  IInv'
<1>1. TypeOK'
  BY NextType DEF IInv
<1>2. CASE Iterate
  BY <1>1, <1>2, IterateKeeps
<1>3. ASSUME NEW a \in Actors, GoOn(a) PROVE IInv'
  <2>1. CASE List(a) \/ Get(a) \/ AskBeforeStart(a) \/ Add(a)
    BY <1>1, <2>1, ListKeeps, GetKeeps, AskBeforeStartKeeps, AddKeeps
  <2>2. CASE CountTotal(a) \/ CountProject(a) \/ RunContainer(a)
    BY <1>1, <2>2, CountKeeps, RunContainerKeeps
  <2>3. CASE AskStatus(a) \/ Reread(a) \/ AskExists(a) \/ DeleteContainer(a)
    BY <1>1, <2>3, AskStatusKeeps, RereadKeeps, AskExistsKeeps, DeleteContainerKeeps
  <2>4. CASE Update(a) \/ RemoveRecord(a)
    BY <1>1, <2>4, UpdateKeeps, RemoveRecordKeeps
  <2>5. QED
    BY <1>3, <2>1, <2>2, <2>3, <2>4 DEF GoOn
<1>4. ASSUME NEW c \in Clients, Call(c) PROVE IInv'
  BY <1>1, <1>4, CallKeeps
<1>5. ASSUME NEW j \in Jobs, ContainerEnds(j) PROVE IInv'
  BY <1>1, <1>5, ContainerEndsKeeps
<1>6. CASE UNCHANGED vars
  <2>1. /\ stored' = stored /\ running' = running /\ inProject' = inProject
        /\ container' = container /\ actor' = actor
    BY <1>6 DEF vars
  <2>2. OneAtATime' /\ ActorsFit' /\ SetsAgree' /\ CountedWithin'
    BY <2>1 DEF IInv, OneAtATime, ActorsFit, SetsAgree, CountedWithin, At
  <2>3. QED
    BY <1>1, <2>2 DEF IInv
<1>7. QED
  BY <1>2, <1>3, <1>4, <1>5, <1>6 DEF Next

\* Where operations run undisturbed on a reliable engine, it always holds.
LEMMA InvHolds ==
  ASSUME Serial, Reliable
  PROVE  Spec => []IInv
<1>1. Init => IInv
  BY InitInv
<1>2. IInv /\ [Next]_vars => IInv'
  BY NextKeeps
<1>3. QED
  BY <1>1, <1>2, PTL DEF Spec

\* When requests and iterations of the loop do not overlap and the engine does
\* what it is asked, then between operations every container that is up is
\* recorded as RUNNING, and the sets the limits count agree with the records,
\* for any number of jobs, projects and clients.
THEOREM SchedulerRecordsAgree ==
  ASSUME Serial, Reliable
  PROVE  Spec => []RecordsAgree
<1>1. Spec => []IInv
  BY InvHolds
<1>2. IInv => RecordsAgree
  BY DEF IInv, SetsAgree, RecordsAgree, AtRest, Starts, At
<1>3. QED
  BY <1>1, <1>2, PTL

\* Under the same conditions the limits are kept at every moment: a job that is
\* up without being counted is being started in room that was counted for it.
THEOREM SchedulerLimitsKept ==
  ASSUME Serial, Reliable
  PROVE  Spec => []LimitsKept
<1>1. Spec => []IInv
  BY InvHolds
<1>2. IInv => LimitsKept
  <2> SUFFICES ASSUME IInv PROVE LimitsKept
    OBVIOUS
  <2>1. IsFiniteSet(running) /\ Cardinality(running) \in Nat /\ running \subseteq Jobs
    BY ConstantsAssumption, FS_Subset, FS_CardinalityType DEF IInv, TypeOK
  <2>2. ASSUME NEW S \in SUBSET Jobs, NEW max \in Nat, max # 0,
               Cardinality(running \cap S) <= max,
               \A a \in Actors : Starts(actor[a]) /\ actor[a].job \in S =>
                 Cardinality(running \cap S) < max
        PROVE  Cardinality(Up \cap S) <= max
    <3> DEFINE n == Cardinality(running \cap S)
    <3>1. IsFiniteSet(running \cap S) /\ n \in Nat
      BY <2>1, FS_Intersection, FS_CardinalityType
    <3>2. CASE \E a \in Actors : Starts(actor[a]) /\ actor[a].job \in S
      <4>1. PICK a \in Actors : Starts(actor[a]) /\ actor[a].job \in S
        BY <3>2
      <4>2. Up \cap S \subseteq (running \cap S) \cup {actor[a].job}
        BY <4>1 DEF IInv, SetsAgree, OneAtATime, Up, Starts, At
      <4>3. /\ IsFiniteSet((running \cap S) \cup {actor[a].job})
            /\ Cardinality((running \cap S) \cup {actor[a].job}) <= n + 1
        <5> DEFINE T == running \cap S
        <5>1. IsFiniteSet(T) /\ Cardinality(T) = n /\ n \in Nat
          BY <3>1
        <5> HIDE DEF T, n
        <5>2. /\ IsFiniteSet(T \cup {actor[a].job})
              /\ Cardinality(T \cup {actor[a].job}) <= n + 1
          BY <5>1, FS_AddElement
        <5>3. QED
          BY <5>2 DEF T
      <4>4. /\ Cardinality(Up \cap S) <= Cardinality((running \cap S) \cup {actor[a].job})
            /\ Cardinality(Up \cap S) \in Nat
            /\ Cardinality((running \cap S) \cup {actor[a].job}) \in Nat
        BY <4>2, <4>3, FS_Subset, FS_CardinalityType
      <4>5. n < max
        BY <2>2, <4>1
      <4> HIDE DEF n
      <4>6. QED
        BY <2>2, <3>1, <4>3, <4>4, <4>5
    <3>3. CASE ~\E a \in Actors : Starts(actor[a]) /\ actor[a].job \in S
      <4>1. Up \cap S \subseteq running \cap S
        BY <3>3 DEF IInv, SetsAgree, Up
      <4>2. Cardinality(Up \cap S) <= n /\ Cardinality(Up \cap S) \in Nat
        BY <3>1, <4>1, FS_Subset, FS_CardinalityType
      <4>3. n <= max
        BY <2>2
      <4> HIDE DEF n
      <4>4. QED
        BY <2>2, <3>1, <4>2, <4>3
    <3>4. QED
      BY <3>2, <3>3
  <2>3. \A a \in Actors : Starts(actor[a]) =>
          RoomInTotal(running) /\ RoomInProject(actor[a].job, running)
    BY DEF IInv, ActorsFit, RoomIsLeft
  <2>4. MaxTotal # 0 => Cardinality(Up) <= MaxTotal
    <3>1. running \cap Jobs = running /\ Up \cap Jobs = Up
      BY <2>1 DEF Up
    <3>2. MaxTotal # 0 => /\ Cardinality(running) <= MaxTotal
                          /\ \A a \in Actors : Starts(actor[a]) => Cardinality(running) < MaxTotal
      BY <2>3 DEF IInv, CountedWithin, RoomInTotal, WithinLimit
    <3>3. QED
      BY <2>2, <3>1, <3>2, ConstantsAssumption
  <2>5. ASSUME MaxPerProject # 0, NEW j \in Jobs
        PROVE  Cardinality(Up \cap SameProject(j)) <= MaxPerProject
    <3>1. \A k \in SameProject(j) : SameProject(k) = SameProject(j)
      BY DEF SameProject
    <3>2. \A a \in Actors : Starts(actor[a]) /\ actor[a].job \in SameProject(j) =>
            Cardinality(running \cap SameProject(j)) < MaxPerProject
      BY <2>3, <2>5, <3>1 DEF RoomInProject, WithinLimit
    <3>3. Cardinality(running \cap SameProject(j)) <= MaxPerProject
      BY <2>5 DEF IInv, CountedWithin
    <3>4. SameProject(j) \in SUBSET Jobs
      BY DEF SameProject
    <3>5. QED
      BY <2>2, <2>5, <3>2, <3>3, <3>4, ConstantsAssumption
  <2>6. QED
    BY <2>4, <2>5 DEF LimitsKept
<1>3. QED
  BY <1>1, <1>2, PTL

--------------------------------------------------------------------------------
(* Operations that overlap, on an engine that may fail                         *)

\* What an actor's record says of the statuses it may write, whatever the others
\* have done since it was made.
WritesFit(r) ==
  /\ r.op = "positions" => \A i \in 1..Len(r.rest) : r.rest[i].status = PENDING
  /\ r.at = "update" /\ r.op # "cancel_job" => r.status # CANCELED
  /\ r.at = "exists" => r.op \in {"cancel_job", "cleanup"}
  /\ r.at = "delete" /\ r.op \in {"sync", "get_job_status"} => r.status = COMPLETED

Cancels(r, j) == r.op = "cancel_job" /\ r.at = "remove" /\ r.job = j

WriteInv ==
  /\ TypeOK
  /\ \A a \in Actors : WritesFit(actor[a])
  /\ LoopRepeats(actor[Loop])
  /\ \A j \in Jobs : stored[j] = CANCELED => \E c \in Clients : Cancels(actor[c], j)

\* Going on with the next job, the next part or the end does not make an actor
\* write CANCELED.
LEMMA ProceedWrites ==
  ASSUME NEW r \in ActorRecord, WritesFit(r)
  PROVE  WritesFit(Proceed(r))
<1>1. ASSUME NEW u \in ActorRecord, u.rest # << >>,
             u.op = "positions" => \A i \in 1..Len(u.rest) : u.rest[i].status = PENDING
      PROVE  WritesFit(TakeNext(u))
  <2> DEFINE v == TakeNext(u)
             h == u.rest[1]
  <2>1. /\ u.rest \in Seq(Snapshot) /\ Head(u.rest) = h /\ h \in Snapshot
        /\ Len(u.rest) \in Nat \ {0}
        /\ \A i \in 1..Len(Tail(u.rest)) : Tail(u.rest)[i] = u.rest[i + 1] /\ i + 1 \in 1..Len(u.rest)
    <3>1. u.rest \in Seq(Snapshot)
      BY DEF ActorRecord
    <3>2. QED
      BY <1>1, <3>1, HeadOfList
  <2>2. /\ v.op = u.op /\ v.rest = Tail(u.rest) /\ v.status = h.status
        /\ v.at = FirstCall(u.op, h.status) /\ u.op \in Operation
    BY <2>1 DEF TakeNext, ActorRecord
  <2>3. 1 \in 1..Len(u.rest)
    BY <2>1
  <2> HIDE DEF v
  <2>4. v.op = "positions" => /\ \A i \in 1..Len(v.rest) : v.rest[i].status = PENDING
                              /\ v.status = PENDING
    BY <1>1, <2>1, <2>2, <2>3
  <2>5. WritesFit(v)
    BY <2>2, <2>4 DEF WritesFit, FirstCall, Operation, PENDING, CANCELED
  <2>6. QED
    BY <2>5 DEF v
<1>2. ASSUME NEW op
      PROVE  WritesFit(Rest(op, r.job))
  <2> DEFINE u == Rest(op, r.job)
  <2>1. u.rest = << >> /\ u.at = "idle"
    BY DEF Rest
  <2> HIDE DEF u
  <2>2. Len(u.rest) = 0
    BY <2>1
  <2>3. WritesFit(u)
    BY <2>1, <2>2 DEF WritesFit
  <2>4. QED
    BY <2>3 DEF u
<1>3. CASE r.rest # << >>
  BY <1>1, <1>3 DEF Proceed, WritesFit
<1>4. CASE r.rest = << >> /\ r.op = "positions"
  <2> DEFINE u == [r EXCEPT !.op = "start_pending", !.rest = r.pending, !.pending = << >>]
  <2>1. << >> \in Seq(Snapshot)
    BY EmptySeq
  <2>2. u \in ActorRecord /\ u.op = "start_pending" /\ u.rest = r.pending
    BY <2>1 DEF ActorRecord, Operation
  <2>3. Proceed(r) = IF r.pending = << >> THEN Rest("sync", r.job) ELSE TakeNext(u)
    BY <1>4 DEF Proceed
  <2> HIDE DEF u
  <2>4. QED
    BY <1>1, <1>2, <2>2, <2>3
<1>5. CASE r.rest = << >> /\ r.op # "positions"
  <2>1. ASSUME NEW op \in {"cleanup", "positions"}
        PROVE  WritesFit([r EXCEPT !.op = op, !.at = "list"])
    <3> DEFINE u == [r EXCEPT !.op = op, !.at = "list"]
    <3>1. u.at = "list" /\ u.rest = << >>
      BY <1>5 DEF ActorRecord
    <3> HIDE DEF u
    <3>2. Len(u.rest) = 0
      BY <3>1
    <3>3. WritesFit(u)
      BY <3>1, <3>2 DEF WritesFit
    <3>4. QED
      BY <3>3 DEF u
  <2>2. Proceed(r) = NextPart(r)
    BY <1>5 DEF Proceed
  <2>3. QED
    BY <1>2, <2>1, <2>2 DEF NextPart
<1>6. QED
  BY <1>3, <1>4, <1>5

\* A step keeps the invariant when the new record of the actor fits and a record
\* that is CANCELED was so before, or has just been marked by this actor; it is
\* only with its removal that a cancellation is through.
LEMMA WriteStepKeeps ==
  ASSUME WriteInv, NEW a \in Actors, TypeOK', NEW r \in ActorRecord, Become(a, r),
         WritesFit(r), a = Loop => LoopRepeats(r),
         \A j \in Jobs : stored'[j] = CANCELED =>
           \/ stored[j] = CANCELED /\ ~Cancels(actor[a], j)
           \/ a \in Clients /\ Cancels(r, j)
  PROVE  WriteInv'
<1>1. actor'[a] = r /\ \A b \in Actors \ {a} : actor'[b] = actor[b]
  BY DEF WriteInv, TypeOK, Become
<1>2. \A b \in Actors : WritesFit(actor'[b])
  BY <1>1 DEF WriteInv
<1>3. LoopRepeats(actor'[Loop])
  BY <1>1 DEF WriteInv, Actors
<1>4. ASSUME NEW j \in Jobs, stored'[j] = CANCELED
      PROVE  \E c \in Clients : Cancels(actor'[c], j)
  <2>1. CASE stored[j] = CANCELED /\ ~Cancels(actor[a], j)
    <3>1. PICK c \in Clients : Cancels(actor[c], j)
      BY <2>1 DEF WriteInv
    <3>2. c # a /\ c \in Actors
      BY <2>1, <3>1 DEF Actors
    <3>3. QED
      BY <1>1, <3>1, <3>2
  <2>2. CASE a \in Clients /\ Cancels(r, j)
    BY <1>1, <2>2
  <2>3. QED
    BY <1>4, <2>1, <2>2
<1>5. QED
  BY <1>2, <1>3, <1>4 DEF WriteInv

\* Such a step is one that writes no record and is not about to remove one.
LEMMA QuietWriteKeeps ==
  ASSUME WriteInv, NEW a \in Actors, TypeOK', StorageUnchanged, ~At(a, "remove"),
         NEW r \in ActorRecord, Become(a, r), WritesFit(r), a = Loop => LoopRepeats(r)
  PROVE  WriteInv'
<1>1. \A j \in Jobs : stored'[j] = CANCELED => stored[j] = CANCELED /\ ~Cancels(actor[a], j)
  BY DEF StorageUnchanged, Cancels, At
<1>2. QED
  BY <1>1, WriteStepKeeps

\* Being done with a job never makes an actor write CANCELED.
LEMMA DoneWrites ==
  ASSUME WriteInv, NEW a \in Actors, Done(a)
  PROVE  LET r == Proceed(actor[a])
         IN  /\ r \in ActorRecord /\ Become(a, r) /\ WritesFit(r)
             /\ a = Loop => LoopRepeats(r)
BY ProceedType, ProceedWrites, ProceedRepeats DEF WriteInv, TypeOK, Done

\* An actor that moves to a place where it writes nothing, or writes what it may.
LEMMA MoveWrites ==
  ASSUME WriteInv, NEW a \in Actors, NEW place \in Place \ {"idle"}, NEW s \in JobStatus,
         Become(a, [actor[a] EXCEPT !.at = place, !.status = s]),
         place = "exists" => actor[a].op \in {"cancel_job", "cleanup"},
         place = "update" /\ actor[a].op # "cancel_job" => s # CANCELED,
         place = "delete" /\ actor[a].op \in {"sync", "get_job_status"} => s = COMPLETED
  PROVE  LET r == [actor[a] EXCEPT !.at = place, !.status = s]
         IN  /\ r \in ActorRecord /\ Become(a, r) /\ WritesFit(r)
             /\ a = Loop => LoopRepeats(r)
             /\ r.at = place /\ r.op = actor[a].op /\ r.job = actor[a].job
<1> DEFINE r == [actor[a] EXCEPT !.at = place, !.status = s]
<1>1. actor[a] \in ActorRecord /\ WritesFit(actor[a]) /\ (a = Loop => LoopRepeats(actor[a]))
  BY DEF WriteInv, TypeOK
<1>2. /\ r \in ActorRecord /\ r.at = place /\ r.op = actor[a].op /\ r.job = actor[a].job
      /\ r.rest = actor[a].rest /\ r.status = s
  BY <1>1 DEF ActorRecord
<1> HIDE DEF r
<1>3. WritesFit(r) /\ (a = Loop => LoopRepeats(r))
  BY <1>1, <1>2 DEF WritesFit, LoopRepeats
<1>4. QED
  BY <1>2, <1>3 DEF r

\* Nor does moving on with the status the actor already holds.
LEMMA GoToWrites ==
  ASSUME WriteInv, NEW a \in Actors, NEW place \in Place \ {"idle", "exists", "update"},
         place = "delete" => actor[a].op \notin {"sync", "get_job_status"}, GoTo(a, place)
  PROVE  \E r \in ActorRecord :
           /\ Become(a, r) /\ WritesFit(r) /\ (a = Loop => LoopRepeats(r))
           /\ r.at = place /\ r.op = actor[a].op /\ r.job = actor[a].job
<1> DEFINE r == [actor[a] EXCEPT !.at = place, !.status = actor[a].status]
<1>1. actor[a] \in ActorRecord /\ actor[a].status \in JobStatus
  BY DEF WriteInv, TypeOK, ActorRecord
<1>2. Become(a, r)
  <2>1. [actor[a] EXCEPT !.at = place] = r
    BY <1>1 DEF ActorRecord
  <2>2. QED
    BY <2>1 DEF GoTo
<1>3. /\ place \in Place \ {"idle"}
      /\ place = "exists" => actor[a].op \in {"cancel_job", "cleanup"}
      /\ place = "update" /\ actor[a].op # "cancel_job" => actor[a].status # CANCELED
      /\ place = "delete" /\ actor[a].op \in {"sync", "get_job_status"} => actor[a].status = COMPLETED
  OBVIOUS
<1>4. /\ r \in ActorRecord /\ r.at = place /\ r.op = actor[a].op /\ r.job = actor[a].job
      /\ r.rest = actor[a].rest /\ r.status = actor[a].status
  BY <1>1, <1>3 DEF ActorRecord
<1> HIDE DEF r
<1>5. WritesFit(actor[a]) /\ (a = Loop => LoopRepeats(actor[a]))
  BY DEF WriteInv
<1>6. WritesFit(r) /\ (a = Loop => LoopRepeats(r))
  BY <1>3, <1>4, <1>5 DEF WritesFit, LoopRepeats
<1>7. QED
  BY <1>2, <1>4, <1>6

\* What an actor that is at a call knows.
LEMMA WriterKnows ==
  ASSUME WriteInv, NEW a \in Actors
  PROVE  /\ actor[a] \in ActorRecord /\ actor[a].job \in Jobs
         /\ actor[a].status \in JobStatus /\ actor[a].op \in Operation
         /\ stored[actor[a].job] \in JobStatus \cup {ABSENT}
         /\ WritesFit(actor[a]) /\ (a = Loop => LoopRepeats(actor[a]))
BY DEF WriteInv, TypeOK, ActorRecord

\* Lists, requests that begin, counts and questions to the runner.
LEMMA ListWrites ==
  ASSUME WriteInv, NEW a \in Actors, List(a), TypeOK'
  PROVE  WriteInv'
<1>1. PICK jobs \in Scope(actor[a]) :
        \E l \in Records(jobs, Listed(actor[a].op), actor[a].op = "positions") :
          Become(a, Proceed([actor[a] EXCEPT !.rest = l,
                      !.pending = IF actor[a].op = "positions" THEN l ELSE << >>]))
  BY DEF List
<1>2. PICK l \in Records(jobs, Listed(actor[a].op), actor[a].op = "positions") :
        Become(a, Proceed([actor[a] EXCEPT !.rest = l,
                    !.pending = IF actor[a].op = "positions" THEN l ELSE << >>]))
  BY <1>1
<1> DEFINE u == [actor[a] EXCEPT !.rest = l,
                   !.pending = IF actor[a].op = "positions" THEN l ELSE << >>]
<1>3. TypeOK /\ jobs \in SUBSET Jobs /\ Listed(actor[a].op) \in SUBSET JobStatus
  BY ScopeType, ListedType DEF WriteInv
<1>4. l \in Seq(Snapshot) /\ \A i \in 1..Len(l) : l[i].status \in Listed(actor[a].op)
  BY <1>2, <1>3, RecordsType
<1>5. actor[a] \in ActorRecord /\ actor[a].at = "list" /\ (a = Loop => LoopRepeats(actor[a]))
  BY WriterKnows DEF List, At
<1>6. u \in ActorRecord /\ u.rest = l /\ u.op = actor[a].op /\ u.at = "list"
  <2>1. << >> \in Seq(Snapshot)
    BY EmptySeq
  <2>2. QED
    BY <1>4, <1>5, <2>1 DEF ActorRecord
<1>7. Become(a, Proceed(u))
  BY <1>2
<1> HIDE DEF u
<1>8. WritesFit(u) /\ (a = Loop => LoopRepeats(u))
  BY <1>4, <1>5, <1>6 DEF WritesFit, LoopRepeats, Listed
<1>9. /\ Proceed(u) \in ActorRecord /\ WritesFit(Proceed(u))
      /\ a = Loop => LoopRepeats(Proceed(u))
  BY <1>6, <1>8, ProceedType, ProceedWrites, ProceedRepeats
<1>10. StorageUnchanged /\ ~At(a, "remove")
  BY <1>5 DEF List, At
<1>11. QED
  BY <1>7, <1>9, <1>10, QuietWriteKeeps

\* Calls that read the storage or ask the runner keep the marks as they are.
LEMMA AskingWrites ==
  ASSUME WriteInv, NEW a \in Actors, TypeOK',
         Get(a) \/ AskBeforeStart(a) \/ CountTotal(a) \/ CountProject(a) \/ Reread(a)
           \/ AskStatus(a) \/ AskExists(a)
  PROVE  WriteInv'
<1>1. StorageUnchanged /\ ~At(a, "remove")
  BY DEF Get, AskBeforeStart, CountTotal, CountProject, Reread, AskStatus, AskExists, At
<1>2. /\ actor[a] \in ActorRecord /\ actor[a].job \in Jobs /\ actor[a].status \in JobStatus
      /\ stored[actor[a].job] \in JobStatus \cup {ABSENT}
      /\ WritesFit(actor[a]) /\ (a = Loop => LoopRepeats(actor[a]))
  BY WriterKnows
<1>3. CASE Done(a)
  BY <1>1, <1>3, DoneWrites, QuietWriteKeeps
<1>4. ASSUME NEW place \in Place \ {"idle", "exists", "update"},
             place = "delete" => actor[a].op \notin {"sync", "get_job_status"}, GoTo(a, place)
      PROVE  WriteInv'
  BY <1>1, <1>4, GoToWrites, QuietWriteKeeps
<1>5. ASSUME NEW place \in Place \ {"idle"}, NEW s \in JobStatus,
             place = "exists" => actor[a].op \in {"cancel_job", "cleanup"},
             place = "update" /\ actor[a].op # "cancel_job" => s # CANCELED,
             place = "delete" /\ actor[a].op \in {"sync", "get_job_status"} => s = COMPLETED,
             Become(a, [actor[a] EXCEPT !.status = s, !.at = place])
      PROVE  WriteInv'
  <2> DEFINE r == [actor[a] EXCEPT !.at = place, !.status = s]
  <2>1. Become(a, r)
    <3>1. r = [actor[a] EXCEPT !.status = s, !.at = place]
      BY <1>2 DEF ActorRecord
    <3>2. QED
      BY <1>5, <3>1
  <2>2. r \in ActorRecord /\ WritesFit(r) /\ (a = Loop => LoopRepeats(r))
    BY <1>5, <2>1, MoveWrites
  <2> HIDE DEF r
  <2>3. QED
    BY <1>1, <2>1, <2>2, QuietWriteKeeps
<1>6. {"add", "remove", "ask", "exists", "count_project", "run", "reread", "delete", "update"}
        \subseteq Place \ {"idle"}
  BY DEF Place
<1>7. CASE Get(a)
  <2>1. CASE GoTo(a, "add")
    BY <1>4, <1>6, <2>1
  <2>2. ASSUME stored[actor[a].job] # ABSENT, NEW place \in {"ask", "exists"},
               place = "exists" => actor[a].op = "cancel_job",
               Become(a, [actor[a] EXCEPT !.status = stored[actor[a].job], !.at = place])
        PROVE  WriteInv'
    BY <1>2, <1>5, <1>6, <2>2
  <2>3. QED
    BY <1>3, <1>7, <2>1, <2>2 DEF Get, ABSENT, JobStatus, TerminalStates, PENDING, RUNNING,
       COMPLETED, FAILED, CANCELED, STOPPED
<1>8. CASE AskBeforeStart(a) \/ CountTotal(a) \/ CountProject(a) \/ Reread(a)
  BY <1>3, <1>4, <1>6, <1>8 DEF AskBeforeStart, CountTotal, CountProject, Reread
<1>9. CASE AskStatus(a)
  <2>1. PICK s \in RunnerStatus(actor[a].job) :
          LET r   == actor[a]
              new == SyncedStatus(r.status, s)
          IN  IF new = r.status
                THEN IF r.op = "sync" THEN Done(a) ELSE GoTo(a, "reread")
                ELSE Become(a, [r EXCEPT !.status = new,
                                  !.at = IF new = COMPLETED THEN "delete" ELSE "update"])
    BY <1>9 DEF AskStatus
  <2> DEFINE new == SyncedStatus(actor[a].status, s)
  <2>2. new \in JobStatus
    BY <1>2, <2>1, RunnerStatusType, SyncedStatusType DEF WriteInv
  <2>3. s # CANCELED
    <3>1. container[actor[a].job] \in ContainerState
      BY <1>2 DEF WriteInv, TypeOK
    <3>2. QED
      BY <2>1, <3>1 DEF RunnerStatus, ReportedStatus, ContainerState, ABSENT, PENDING, RUNNING,
         COMPLETED, FAILED, CANCELED
  <2>4. new # actor[a].status => new # CANCELED
    BY <2>3 DEF SyncedStatus, STOPPED, CANCELED
  <2> HIDE DEF new
  <2>5. CASE GoTo(a, "reread")
    BY <1>4, <1>6, <2>5
  <2>6. ASSUME new # actor[a].status, NEW place \in {"delete", "update"},
               place = "delete" => new = COMPLETED,
               Become(a, [actor[a] EXCEPT !.status = new, !.at = place])
        PROVE  WriteInv'
    BY <1>5, <1>6, <2>2, <2>4, <2>6
  <2>7. QED
    BY <1>3, <2>1, <2>5, <2>6 DEF new
<1>10. CASE AskExists(a)
  <2>1. actor[a].op \in {"cancel_job", "cleanup"}
    BY <1>2, <1>10 DEF AskExists, At, WritesFit
  <2>2. CASE GoTo(a, "delete")
    BY <1>4, <1>6, <2>1, <2>2
  <2>3. CASE Become(a, AfterDelete(actor[a]))
    <3>1. \/ AfterDelete(actor[a]) = [actor[a] EXCEPT !.status = CANCELED, !.at = "update"]
             /\ actor[a].op = "cancel_job"
          \/ AfterDelete(actor[a]) = [actor[a] EXCEPT !.status = actor[a].status, !.at = "remove"]
      BY <1>2, <2>1 DEF AfterDelete, ActorRecord
    <3>2. CANCELED \in JobStatus
      BY DEF JobStatus
    <3>3. CASE AfterDelete(actor[a]) = [actor[a] EXCEPT !.status = CANCELED, !.at = "update"]
               /\ actor[a].op = "cancel_job"
      <4>1. Become(a, [actor[a] EXCEPT !.status = CANCELED, !.at = "update"])
        BY <2>3, <3>3
      <4>2. "update" \in Place \ {"idle"}
        BY <1>6
      <4>3. /\ "update" = "exists" => actor[a].op \in {"cancel_job", "cleanup"}
            /\ "update" = "update" /\ actor[a].op # "cancel_job" => CANCELED # CANCELED
            /\ "update" = "delete" /\ actor[a].op \in {"sync", "get_job_status"} => CANCELED = COMPLETED
        BY <3>3
      <4>4. QED
        BY <1>5, <3>2, <4>1, <4>2, <4>3
    <3>4. CASE AfterDelete(actor[a]) = [actor[a] EXCEPT !.status = actor[a].status, !.at = "remove"]
      <4>1. Become(a, [actor[a] EXCEPT !.status = actor[a].status, !.at = "remove"])
        BY <2>3, <3>4
      <4>2. GoTo(a, "remove")
        <5>1. [actor[a] EXCEPT !.status = actor[a].status, !.at = "remove"]
                = [actor[a] EXCEPT !.at = "remove"]
          BY <1>2 DEF ActorRecord
        <5>2. QED
          BY <4>1, <5>1 DEF GoTo
      <4>3. QED
        BY <1>4, <1>6, <4>2
    <3>5. QED
      BY <3>1, <3>3, <3>4
  <2>4. QED
    BY <1>10, <2>2, <2>3 DEF AskExists
<1>11. QED
  BY <1>7, <1>8, <1>9, <1>10

\* A container that is started or deleted.
LEMMA ContainerWrites ==
  ASSUME WriteInv, NEW a \in Actors, TypeOK', RunContainer(a) \/ DeleteContainer(a)
  PROVE  WriteInv'
<1>1. StorageUnchanged /\ ~At(a, "remove")
  BY DEF RunContainer, DeleteContainer, At
<1>2. /\ actor[a] \in ActorRecord /\ actor[a].status \in JobStatus
      /\ WritesFit(actor[a]) /\ (a = Loop => LoopRepeats(actor[a]))
  BY WriterKnows
<1>3. CASE Done(a)
  BY <1>1, <1>3, DoneWrites, QuietWriteKeeps
<1>4. ASSUME NEW place \in Place \ {"idle"}, NEW s \in JobStatus,
             place # "exists", place # "delete",
             place = "update" /\ actor[a].op # "cancel_job" => s # CANCELED,
             Become(a, [actor[a] EXCEPT !.at = place, !.status = s])
      PROVE  WriteInv'
  <2> DEFINE r == [actor[a] EXCEPT !.at = place, !.status = s]
  <2>1. /\ place = "exists" => actor[a].op \in {"cancel_job", "cleanup"}
        /\ place = "delete" /\ actor[a].op \in {"sync", "get_job_status"} => s = COMPLETED
    BY <1>4
  <2>2. r \in ActorRecord /\ WritesFit(r) /\ (a = Loop => LoopRepeats(r))
    BY <1>4, <2>1, MoveWrites
  <2>3. Become(a, r)
    BY <1>4
  <2> HIDE DEF r
  <2>4. QED
    BY <1>1, <2>2, <2>3, QuietWriteKeeps
<1>5. {"update", "remove"} \subseteq Place \ {"idle"} /\ {RUNNING, FAILED, CANCELED} \subseteq JobStatus
  BY DEF Place, JobStatus
<1>6. CASE RunContainer(a)
  <2>1. \/ Done(a)
        \/ \E s \in {RUNNING, FAILED} : Become(a, [actor[a] EXCEPT !.at = "update", !.status = s])
    BY <1>6 DEF RunContainer, RunFails
  <2>2. RUNNING # CANCELED /\ FAILED # CANCELED
    BY DEF RUNNING, FAILED, CANCELED
  <2>3. QED
    BY <1>3, <1>4, <1>5, <2>1, <2>2
<1>7. CASE DeleteContainer(a)
  <2>1. \E place \in {"update", "remove"}, s \in JobStatus :
          /\ AfterDelete(actor[a]) = [actor[a] EXCEPT !.at = place, !.status = s]
          /\ place = "update" /\ actor[a].op # "cancel_job" => s # CANCELED
    <3>1. CASE actor[a].op = "cancel_job" /\ actor[a].status \notin TerminalStates
      <4>1. AfterDelete(actor[a]) = [actor[a] EXCEPT !.at = "update", !.status = CANCELED]
        BY <3>1 DEF AfterDelete
      <4>2. QED
        BY <1>5, <3>1, <4>1
    <3>2. CASE /\ ~(actor[a].op = "cancel_job" /\ actor[a].status \notin TerminalStates)
               /\ actor[a].op \in {"sync", "get_job_status"} /\ ~AutoCleanup
      <4>1. AfterDelete(actor[a]) = [actor[a] EXCEPT !.at = "update", !.status = actor[a].status]
        BY <1>2, <3>2 DEF AfterDelete, ActorRecord
      <4>2. actor[a].status # CANCELED
        BY <1>2, <1>7, <3>2 DEF DeleteContainer, At, WritesFit, COMPLETED, CANCELED
      <4>3. QED
        BY <1>2, <4>1, <4>2
    <3>3. CASE /\ ~(actor[a].op = "cancel_job" /\ actor[a].status \notin TerminalStates)
               /\ ~(actor[a].op \in {"sync", "get_job_status"} /\ ~AutoCleanup)
      <4>1. AfterDelete(actor[a]) = [actor[a] EXCEPT !.at = "remove", !.status = actor[a].status]
        BY <1>2, <3>3 DEF AfterDelete, ActorRecord
      <4>2. QED
        BY <1>2, <4>1
    <3>4. QED
      BY <3>1, <3>2, <3>3
  <2>2. Become(a, AfterDelete(actor[a]))
    BY <1>7 DEF DeleteContainer
  <2>3. QED
    BY <1>4, <1>5, <2>1, <2>2
<1>8. QED
  BY <1>6, <1>7

\* The calls of the storage: only cancel_job writes CANCELED, and then removes.
LEMMA StorageWrites ==
  ASSUME WriteInv, NEW a \in Actors, TypeOK', Add(a) \/ Update(a) \/ RemoveRecord(a)
  PROVE  WriteInv'
<1> DEFINE j == actor[a].job
<1>1. /\ actor[a] \in ActorRecord /\ j \in Jobs /\ actor[a].status \in JobStatus
      /\ WritesFit(actor[a]) /\ (a = Loop => LoopRepeats(actor[a]))
      /\ stored \in [Jobs -> JobStatus \cup {ABSENT}]
  BY WriterKnows DEF WriteInv, TypeOK
<1>2. PENDING # CANCELED /\ ABSENT # CANCELED /\ PENDING \in JobStatus
  BY DEF PENDING, ABSENT, CANCELED, JobStatus
<1>3. CASE Add(a)
  <2> DEFINE r == [actor[a] EXCEPT !.at = "count", !.status = PENDING]
  <2>1. Become(a, r) /\ "count" \in Place \ {"idle"}
    BY <1>3 DEF Add, Place
  <2>2. r \in ActorRecord /\ WritesFit(r) /\ (a = Loop => LoopRepeats(r))
    BY <1>2, <2>1, MoveWrites
  <2>3. \A k \in Jobs : stored'[k] = CANCELED => stored[k] = CANCELED /\ ~Cancels(actor[a], k)
    BY <1>1, <1>2, <1>3 DEF Add, StoredAdd, At, Cancels
  <2> HIDE DEF r
  <2>4. QED
    BY <2>1, <2>2, <2>3, WriteStepKeeps
<1>4. ASSUME NEW s \in JobStatus \cup {ABSENT},
             stored' = [stored EXCEPT ![j] = s],
             NEW r \in ActorRecord, Become(a, r), WritesFit(r), a = Loop => LoopRepeats(r),
             s = CANCELED => a \in Clients /\ Cancels(r, j),
             \A k \in Jobs \ {j} : ~Cancels(actor[a], k)
      PROVE  WriteInv'
  <2>1. \A k \in Jobs : stored'[k] = CANCELED =>
          \/ stored[k] = CANCELED /\ ~Cancels(actor[a], k)
          \/ a \in Clients /\ Cancels(r, k)
    BY <1>1, <1>4
  <2>2. QED
    BY <1>4, <2>1, WriteStepKeeps
<1>5. \A k \in Jobs \ {j} : ~Cancels(actor[a], k)
  BY DEF Cancels
<1>6. {"add", "remove", "reread"} \subseteq Place \ {"idle", "exists", "update", "delete"}
  BY DEF Place
<1>7. CASE Update(a)
  <2>1. stored' = [stored EXCEPT ![j] = actor[a].status]
    BY <1>7 DEF Update, StoredUpdate
  <2>2. actor[a].status = CANCELED => actor[a].op = "cancel_job"
    BY <1>1, <1>7 DEF Update, At, WritesFit
  <2>3. CASE actor[a].op = "cancel_job" /\ GoTo(a, "remove")
    <3>1. PICK r \in ActorRecord :
            /\ Become(a, r) /\ WritesFit(r) /\ (a = Loop => LoopRepeats(r))
            /\ r.at = "remove" /\ r.op = "cancel_job" /\ r.job = j
      BY <1>6, <2>3, GoToWrites
    <3>2. a \in Clients
      BY <1>1, <2>3 DEF LoopRepeats, Actors
    <3>3. Cancels(r, j)
      BY <3>1 DEF Cancels
    <3>4. QED
      BY <1>1, <1>4, <1>5, <2>1, <3>1, <3>2, <3>3
  <2>4. CASE actor[a].op = "get_job_status" /\ GoTo(a, "reread")
    BY <1>1, <1>4, <1>5, <1>6, <2>1, <2>2, <2>4, GoToWrites
  <2>5. CASE actor[a].op \notin {"cancel_job", "get_job_status"} /\ Done(a)
    BY <1>1, <1>4, <1>5, <2>1, <2>2, <2>5, DoneWrites
  <2>6. QED
    BY <1>7, <2>3, <2>4, <2>5 DEF Update
<1>8. CASE RemoveRecord(a)
  <2>1. stored' = [stored EXCEPT ![j] = ABSENT]
    BY <1>8 DEF RemoveRecord, StoredRemove
  <2>2. ASSUME NEW place \in {"add", "reread"}, GoTo(a, place)
        PROVE  WriteInv'
    BY <1>2, <1>4, <1>5, <1>6, <2>1, <2>2, GoToWrites
  <2>3. CASE Done(a)
    BY <1>2, <1>4, <1>5, <2>1, <2>3, DoneWrites
  <2>4. QED
    BY <1>8, <2>2, <2>3 DEF RemoveRecord
<1>9. QED
  BY <1>3, <1>7, <1>8

\* Requests and iterations that begin.
LEMMA BeginWrites ==
  ASSUME WriteInv, NEW a \in Actors, TypeOK',
         (a \in Clients /\ Call(a)) \/ (a = Loop /\ Iterate)
  PROVE  WriteInv'
<1>1. CASE a \in Clients /\ Call(a)
  <2>1. PICK op \in Operation, j \in Jobs, place \in {"get", "list"} : Request(a, op, j, place)
    BY <1>1 DEF Call, Operation
  <2> DEFINE r == [Rest(op, j) EXCEPT !.at = place]
  <2>2. r \in ActorRecord /\ r.at = place /\ r.rest = << >>
    BY RestType DEF Rest, ActorRecord, Place
  <2>3. Become(a, r) /\ StorageUnchanged /\ ~At(a, "remove")
    BY <2>1 DEF Request, At
  <2> HIDE DEF r
  <2>4. Len(r.rest) = 0
    BY <2>2
  <2>5. WritesFit(r) /\ a # Loop
    BY <1>1, <2>2, <2>4, ConstantsAssumption DEF WritesFit
  <2>6. QED
    BY <2>2, <2>3, <2>5, QuietWriteKeeps
<1>2. CASE a = Loop /\ Iterate
  <2>1. StorageUnchanged /\ ~At(a, "remove") /\ GoTo(a, "list")
    BY <1>2 DEF Iterate, At
  <2>2. "list" \in Place \ {"idle", "exists", "update"}
    BY DEF Place
  <2>3. QED
    BY <2>1, <2>2, GoToWrites, QuietWriteKeeps
<1>3. QED
  BY <1>1, <1>2

\* Every step keeps the invariant of the writers.
LEMMA NextWrites ==
  ASSUME WriteInv, [Next]_vars
  PROVE  WriteInv'
<1>1. TypeOK'
  BY NextType DEF WriteInv
<1>2. CASE Iterate
  BY <1>1, <1>2, BeginWrites DEF Actors
<1>3. ASSUME NEW a \in Actors, GoOn(a) PROVE WriteInv'
  BY <1>1, <1>3, ListWrites, AskingWrites, ContainerWrites, StorageWrites DEF GoOn
<1>4. ASSUME NEW c \in Clients, Call(c) PROVE WriteInv'
  <2>1. c \in Actors
    BY DEF Actors
  <2>2. (c \in Clients /\ Call(c)) \/ (c = Loop /\ Iterate)
    BY <1>4
  <2>3. QED
    BY <1>1, <2>1, <2>2, BeginWrites
<1>5. ASSUME NEW j \in Jobs, ContainerEnds(j) PROVE WriteInv'
  BY <1>1, <1>5 DEF WriteInv, ContainerEnds, StorageUnchanged
<1>6. CASE UNCHANGED vars
  BY <1>1, <1>6 DEF WriteInv, vars
<1>7. QED
  BY <1>2, <1>3, <1>4, <1>5, <1>6 DEF Next

\* However requests and the loop overlap and whatever the engine fails to do, a
\* job is marked CANCELED only while a cancellation that will remove it is under
\* way: no copy of a record ever brings the mark back.
THEOREM SchedulerCanceledIsTransient == Spec => []CanceledIsTransient
<1>1. Init => WriteInv
  <2> SUFFICES ASSUME Init PROVE WriteInv
    OBVIOUS
  <2>1. TypeOK
    BY InitType
  <2>2. PICK k \in Jobs : actor = [a \in Actors |->
                            Rest(IF a = Loop THEN "sync" ELSE "start_job", k)]
    BY DEF Init
  <2>3. \A a \in Actors : /\ actor[a].at = "idle" /\ actor[a].rest = << >>
                          /\ a = Loop => actor[a].op = "sync"
    BY <2>2 DEF Rest
  <2>4. \A a \in Actors : Len(actor[a].rest) = 0
    BY <2>3
  <2>5. (\A a \in Actors : WritesFit(actor[a])) /\ LoopRepeats(actor[Loop])
    BY <2>3, <2>4 DEF WritesFit, LoopRepeats, Actors
  <2>6. \A j \in Jobs : stored[j] # CANCELED
    BY DEF Init, ABSENT, CANCELED
  <2>7. QED
    BY <2>1, <2>5, <2>6 DEF WriteInv
<1>2. WriteInv /\ [Next]_vars => WriteInv'
  BY NextWrites
<1>3. WriteInv => CanceledIsTransient
  BY DEF WriteInv, CanceledIsTransient, Cancels, At
<1>4. QED
  BY <1>1, <1>2, <1>3, PTL DEF Spec

================================================================================
