--------------------------- MODULE MCSharedBackends ----------------------------
(* What processes share, each part on a small instance: the records of jobs in *)
(* Redis, containers, job objects on Kubernetes, the events over Redis, the    *)
(* sockets of the API and the managers behind it, a working tree, the clones   *)
(* of repositories, documents and logs, and the jobs that clients and the      *)
(* scheduler's loop meet at.  The parts have no variable in common, so a       *)
(* behaviour is one of a single part: their product would show nothing more.   *)
EXTENDS RedisJobStorage, SharedBackends, MCLocalRuntime, MCDocumentStorage, RepoClones

CONSTANTS ScheduledJobs, SchedulerClients, SchedulerLoop, FewRequests, MoreRequests

VARIABLES
  jobStored, jobsOlder, jobsRunning, jobsInProject, jobContainer, schedulerActor, schedulerRequests

\* The scheduler whose operations overlap, on an engine that may fail: some jobs and few
\* requests, or one job and more of them.
SomeJobs == INSTANCE SchedulerRunner WITH
  Jobs <- ScheduledJobs, Clients <- SchedulerClients, Loop <- SchedulerLoop,
  ProjectOf <- [j \in ScheduledJobs |-> "p"], MaxTotal <- 1, MaxPerProject <- 0,
  AutoCleanup <- FALSE, Serial <- FALSE, Reliable <- FALSE, MaxRequests <- FewRequests,
  stored <- jobStored, older <- jobsOlder, running <- jobsRunning, inProject <- jobsInProject,
  container <- jobContainer, actor <- schedulerActor, requests <- schedulerRequests

LoneJob == {CHOOSE j \in ScheduledJobs : TRUE}

OneJob == INSTANCE SchedulerRunner WITH
  Jobs <- LoneJob, Clients <- SchedulerClients, Loop <- SchedulerLoop,
  ProjectOf <- [j \in LoneJob |-> "p"], MaxTotal <- 1, MaxPerProject <- 0,
  AutoCleanup <- FALSE, Serial <- FALSE, Reliable <- FALSE, MaxRequests <- MoreRequests,
  stored <- jobStored, older <- jobsOlder, running <- jobsRunning, inProject <- jobsInProject,
  container <- jobContainer, actor <- schedulerActor, requests <- schedulerRequests

schedulerVars ==
  <<jobStored, jobsOlder, jobsRunning, jobsInProject, jobContainer, schedulerActor,
    schedulerRequests>>

VARIABLE part \* the part that moves

MCInit ==
  /\ part \in {"redis", "docker", "kubernetes", "events", "sockets",
              "managers", "runtime", "repositories", "storage", "some jobs", "one job"}
  /\ Init /\ DockerInit /\ KubeInit /\ BusInit /\ SocketInit /\ DependenciesInit
  /\ RuntimeInit /\ RepoInit /\ StorageInit
  /\ IF part = "some jobs" THEN SomeJobs!Init ELSE OneJob!Init
  /\ part # "storage" => backend = "files"
  /\ part # "runtime" => /\ ~hidden /\ install = "over"
                         /\ tree["setup.py"] = "base" /\ DOMAIN testPatch = {"test"}

Only(moves, Step) == part = moves /\ Step /\ UNCHANGED part

MCNext ==
  \/ Only("redis", Next)
     /\ UNCHANGED <<dockerVars, kubeVars, busVars, socketVars, dependencyVars,
                  runtimeVars, repoVars, storageVars, schedulerVars>>
  \/ Only("docker", DockerNext)
     /\ UNCHANGED <<vars, kubeVars, busVars, socketVars, dependencyVars,
                  runtimeVars, repoVars, storageVars, schedulerVars>>
  \/ Only("kubernetes", KubeNext)
     /\ UNCHANGED <<vars, dockerVars, busVars, socketVars, dependencyVars,
                  runtimeVars, repoVars, storageVars, schedulerVars>>
  \/ Only("events", BusNext)
     /\ UNCHANGED <<vars, dockerVars, kubeVars, socketVars, dependencyVars,
                  runtimeVars, repoVars, storageVars, schedulerVars>>
  \/ Only("sockets", SocketNext)
     /\ UNCHANGED <<vars, dockerVars, kubeVars, busVars, dependencyVars,
                  runtimeVars, repoVars, storageVars, schedulerVars>>
  \/ Only("managers", DependenciesNext)
     /\ UNCHANGED <<vars, dockerVars, kubeVars, busVars, socketVars, runtimeVars, repoVars,
                    storageVars, schedulerVars>>
  \/ Only("runtime", RuntimeNext)
     /\ UNCHANGED <<vars, dockerVars, kubeVars, busVars, socketVars, dependencyVars,
                  repoVars, storageVars, schedulerVars>>
  \/ Only("repositories", RepoNext)
     /\ UNCHANGED <<vars, dockerVars, kubeVars, busVars, socketVars, dependencyVars,
                  runtimeVars, storageVars, schedulerVars>>
  \/ Only("storage", StorageNext)
     /\ UNCHANGED <<vars, dockerVars, kubeVars, busVars, socketVars, dependencyVars,
                  runtimeVars, repoVars, schedulerVars>>
  \/ Only("some jobs", SomeJobs!Next)
     /\ UNCHANGED <<vars, dockerVars, kubeVars, busVars, socketVars, dependencyVars, runtimeVars,
                  repoVars, storageVars>>
  \/ Only("one job", OneJob!Next)
     /\ UNCHANGED <<vars, dockerVars, kubeVars, busVars, socketVars, dependencyVars, runtimeVars,
                  repoVars, storageVars>>

MCSpec ==
  MCInit /\ [][MCNext]_<<part, vars, dockerVars, kubeVars, busVars, socketVars, dependencyVars,
                          runtimeVars, repoVars, storageVars, schedulerVars>>

MCWritten == {PENDING, RUNNING, CANCELED}

\* The part that moves is well typed.
PartsTypeOK ==
  /\ part = "redis" => TypeOK
  /\ part = "docker" => DockerTypeOK
  /\ part = "kubernetes" => KubeTypeOK
  /\ part = "events" => BusTypeOK
  /\ part = "sockets" => SocketTypeOK
  /\ part = "managers" => DependenciesTypeOK
  /\ part = "runtime" => RuntimeTypeOK
  /\ part = "repositories" => RepoTypeOK
  /\ part = "storage" => StorageTypeOK
  /\ part = "some jobs" => SomeJobs!TypeOK
  /\ part = "one job" => OneJob!TypeOK

\* CANCELED is only passed through, in whatever order cancellations, restarts and the loop
\* of the scheduler interleave: somebody is about to remove the record.
CanceledIsTransient ==
  /\ part = "some jobs" => SomeJobs!CanceledIsTransient
  /\ part = "one job" => OneJob!CanceledIsTransient
================================================================================
