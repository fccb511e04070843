------------------------------ MODULE BatchPrograms ------------------------------
(***************************************************************************)
(* The programs that work through a list of items, be it commits or spans  *)
(* to fill in, side by side: they share no file and no process, but both   *)
(* put up working copies that they are to put away.                        *)
(***************************************************************************)
EXTENDS BatchRunner, FimBatch

\* The programs put away what they have put up, whichever items fail, raise or are
\* killed: the worktrees of the pipeline, the clones and masks of the program that
\* fills in code.
ProgramsCleanUp == NoSandboxLeft /\ BatchCleansUp
================================================================================
