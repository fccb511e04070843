------------------------------- MODULE Trajectory -------------------------------
(***************************************************************************)
(* A trajectory: the flow, its tree and its job (FlowManager), the         *)
(* messages made of its nodes (MessageHistory), what a model answers to    *)
(* them (Completion), a file in the contexts of the nodes (FileContext),   *)
(* what of it is visible (VisibleSpans) and the tasks of the agent         *)
(* (TaskArtifacts).  The parts have no variable in common; what is said    *)
(* here is said of two or more of them.                                    *)
(***************************************************************************)
EXTENDS FlowManager, MessageHistory, Completion, FileContext, TaskArtifacts, VisibleSpans

\* The state of each part is well typed.
TrajectoryTypeOK ==
  TypeOK /\ HistoryTypeOK /\ CompletionTypeOK /\ FileTypeOK /\ SpansTypeOK /\ TasksTypeOK

\* A provider takes what it is sent: each tool call of the messages is answered, in the
\* history as in the retries of a completion.
RequestsAccepted == HistoryAccepted /\ CallsAnswered

\* What the agent sees of a file is the file: what it has edited is in every later context,
\* and what it asked to see or has edited is visible, a method with its class, as far as the
\* module that lines are looked up in is that of the text.
FilesAreSeen == EditsAreSeen /\ ModuleIsCurrent /\ AskedIsSeen /\ ClassIsSeen

\* What a process leaves in storage is what it has told, and what the next one goes on
\* with: no node of the tree is lost by saving and loading it, unless a request gave an id
\* away twice, and no task of the agent, unless a read or a write failed.
SavedIsKept == ReloadKeepsNodes /\ TasksAreAsTold
================================================================================
