----------------------------- MODULE SharedBackends ----------------------------
(***************************************************************************)
(* What the processes of a deployment share and the coroutines of each     *)
(* meet at: container runners, the bus, the sockets and the managers of    *)
(* the API.  The parts have no variable in common; what is said here is    *)
(* said of two of them that do the same job, or that events pass through.  *)
(***************************************************************************)
EXTENDS DockerRunner, KubernetesRunner, RedisEventBus, ConnectionManager, Dependencies

\* A job that runs is not torn down by what other calls believe of it, on Docker as on
\* Kubernetes.
RunningSpared == RunningKept /\ SparesRunning

\* Events arrive where they are subscribed to, once: at the subscribers of a process, and
\* at the sockets whose subscriptions a disconnection elsewhere leaves alone. Those that
\* were saved are read, but for what the list in Redis hides.
EventsArrive == ReachesSubscribersOnce /\ SubscriptionsHold /\ SavedIsRead
================================================================================
