--------------------------- MODULE MCSchedulerRunner ---------------------------
(* SchedulerRunner on small instances: j1 and j2 share a project, j3 has one   *)
(* of its own.                                                                 *)
EXTENDS SchedulerRunner, TLC

CONSTANTS j1, j2, j3

MCProjectOf == [j \in Jobs |-> IF j = j3 THEN "q" ELSE "p"]

Symmetry == Permutations(Jobs \ {j3}) \cup Permutations(Clients)
================================================================================
