----------------------------- MODULE MCBatchRunner -----------------------------
(* BatchRunner on small instances: two commits, one or two processes. *)
EXTENDS BatchRunner

CONSTANTS h1, h2

MCData == <<h1, h2>>
================================================================================
