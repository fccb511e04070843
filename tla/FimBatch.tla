-------------------------------- MODULE FimBatch --------------------------------
(***************************************************************************)
(* The batch of fill-in-the-middle tasks (moatless/fim/pipeline.py, called *)
(* by run_fill_batch.py).  A task masks the span it is to fill, in a clone *)
(* of its own if it names a commit and else in the repository itself, lets *)
(* a flow work there, collects what has changed and puts the file back.    *)
(* The tasks of a batch are coroutines of one process, which run up to     *)
(* their next await undisturbed; the process may be killed at any time.    *)
(***************************************************************************)
EXTENDS Integers, FiniteSets

CONSTANTS
  FimTasks,       \* tasks, by task_id
  FimFileOf,      \* the file of the repository each task masks
  Isolated,       \* the tasks that name a commit
  TakenFor,       \* pairs <<t, u>>: t_ is a prefix of the name of u's trace
  MaxConcurrency, \* --max_concurrency
  ForcedAttempts, \* FIM_FORCED_FINISH_MAX_ATTEMPTS
  MaxBatches      \* bound on the invocations of the program

ASSUME FimAssumption == ForcedAttempts \in Nat /\ MaxBatches \in Nat

VARIABLES
  source,   \* the repository: the tasks whose masks and edits each file shows
  clones,   \* the tasks whose clone is on disk and will be removed
  leftover, \* the tasks that have left a clone that nobody removes
  traces,   \* the tasks with a trace directory, by what is in it
  results,  \* the tasks with a result in an output file
  fim,      \* each task: where it is, the forced attempt, the content it will restore
  batch,    \* the batch: where it is, the tasks it runs, whether it skips any
  batches,  \* how many there have been
  disturbed \* history: files that two tasks worked on at once, that a task which
            \* does not mask them has edited, or that a killed task had masked

fimVars == <<source, clones, leftover, traces, results, fim, batch, batches, disturbed>>

FimFiles == {FimFileOf[t] : t \in FimTasks}

FimTypeOK ==
  /\ source \in [FimFiles -> SUBSET FimTasks]
  /\ clones \subseteq FimTasks /\ leftover \subseteq FimTasks
  /\ traces \in [FimTasks -> {"none", "partial", "whole"}]
  /\ results \subseteq FimTasks
  /\ fim \in [FimTasks -> [at : {"out", "waiting", "flow", "forced", "over"},
                           attempt : 0..ForcedAttempts, original : SUBSET FimTasks]]
  /\ batch \in {"none", "running", "raised", "ended"} /\ batches \in 0..MaxBatches
  /\ disturbed \subseteq FimFiles

FimOut == [at |-> "out", attempt |-> 0, original |-> {}]

FimInit ==
  /\ source = [f \in FimFiles |-> {}]
  /\ clones = {} /\ leftover = {} /\ results = {} /\ disturbed = {}
  /\ traces = [t \in FimTasks |-> "none"]
  /\ fim = [t \in FimTasks |-> FimOut]
  /\ batch = "none" /\ batches = 0

AtWork(t) == fim[t].at \in {"flow", "forced"}

Direct(t) == t \notin Isolated

FimGoto(t, to) == fim' = [fim EXCEPT ![t].at = to]

--------------------------------------------------------------------------------
(* run_fill_batch                                                              *)

\* _has_existing_trace: a directory that begins with the name of the task.
HasTrace(t) == \E u \in FimTasks : traces[u] # "none" /\ (u = t \/ <<t, u>> \in TakenFor)

BeginBatch(resume) ==
  /\ batch \in {"none", "ended"} /\ batches < MaxBatches
  /\ batch' = "running" /\ batches' = batches + 1
  /\ fim' = [t \in FimTasks |-> IF resume /\ HasTrace(t) THEN FimOut
                                ELSE [FimOut EXCEPT !.at = "waiting"]]
  /\ UNCHANGED <<leftover, source, clones, traces, results, disturbed>>

\* gather has all results, and only then are they written.
EndBatch ==
  /\ batch = "running" /\ \A t \in FimTasks : fim[t].at \in {"out", "over"}
  /\ results' = results \cup {t \in FimTasks : fim[t].at = "over"}
  /\ batch' = "ended" /\ fim' = [t \in FimTasks |-> FimOut]
  /\ UNCHANGED <<leftover, source, clones, traces, batches, disturbed>>

\* gather has raised and asyncio.run has canceled what was left: no results.
AbortBatch ==
  /\ batch = "raised" /\ \A t \in FimTasks : fim[t].at \in {"out", "over"}
  /\ batch' = "none" /\ fim' = [t \in FimTasks |-> FimOut]
  /\ UNCHANGED <<leftover, source, clones, traces, results, batches, disturbed>>

--------------------------------------------------------------------------------
(* run_fill_task                                                               *)

Working == {t \in FimTasks : AtWork(t)}

\* The preparation fails: no clone, or one whose checkout failed or that the mask
\* does not fit and that nobody removes.  The result says so; there is no trace.
PrepareFails(t) ==
  /\ fim[t].at = "waiting" /\ batch = "running" /\ Cardinality(Working) < MaxConcurrency
  /\ FimGoto(t, "over")
  /\ leftover' \in {leftover} \cup (IF t \in Isolated THEN {leftover \cup {t}} ELSE {})
  /\ UNCHANGED <<source, clones, traces, results, batch, batches, disturbed>>

\* The mask is written over what the file shows by then, which is what the task
\* will restore; other tasks may be at work on the same file.
Prepare(t) ==
  LET f == FimFileOf[t]
      shared == Direct(t) /\ \E u \in Working : Direct(u) /\ FimFileOf[u] = f
  IN
  /\ fim[t].at = "waiting" /\ batch = "running" /\ Cardinality(Working) < MaxConcurrency
  /\ fim' = [fim EXCEPT ![t].at = "flow", ![t].original = IF Direct(t) THEN source[f] ELSE {}]
  /\ source' = IF Direct(t) THEN [source EXCEPT ![f] = @ \cup {t}] ELSE source
  /\ clones' = IF Direct(t) THEN clones ELSE clones \cup {t}
  /\ disturbed' = disturbed \cup (IF shared THEN {f} ELSE {})
  /\ UNCHANGED <<leftover, traces, results, batch, batches>>

\* An action of the flow edits a file.
FlowEdits(t) ==
  /\ fim[t].at = "flow" /\ Direct(t)
  /\ \E f \in FimFiles :
       /\ source' = [source EXCEPT ![f] = @ \cup {t}]
       /\ disturbed' = disturbed \cup (IF f = FimFileOf[t] THEN {} ELSE {f})
  /\ UNCHANGED <<leftover, clones, traces, results, fim, batch, batches>>

\* The flow has met its limit of iterations without a Finish: one is asked for, and
\* again if the answer has none (_run_forced_finish_only).
ForceFinish(t) ==
  /\ AtWork(t) /\ fim[t].attempt < ForcedAttempts
  /\ fim' = [fim EXCEPT ![t].at = "forced", ![t].attempt = @ + 1]
  /\ UNCHANGED <<leftover, source, clones, traces, results, batch, batches, disturbed>>

\* (Mutant: the file is put back and the clone removed after a result only.)
CleanUp_Result(t, ok) ==
  /\ source' = IF ok /\ Direct(t) THEN [source EXCEPT ![FimFileOf[t]] = fim[t].original]
               ELSE source
  /\ clones' = IF ok THEN clones \ {t} ELSE clones

\* The finally clause.
CleanUp(t, ok) ==
  /\ source' = IF Direct(t) THEN [source EXCEPT ![FimFileOf[t]] = fim[t].original] ELSE source
  /\ clones' = clones \ {t}

\* The flow or the forced rounds are over, or have raised, which is noted: up to the
\* return nothing is awaited, the changes are collected and the trace persisted.
Collect(t) ==
  /\ AtWork(t)
  /\ traces' = [traces EXCEPT ![t] = "whole"]
  /\ CleanUp(t, TRUE)
  /\ fim' = [fim EXCEPT ![t] = [FimOut EXCEPT !.at = "over"]]
  /\ UNCHANGED <<leftover, results, batch, batches, disturbed>>

\* The file has gone, git or a write fails: the task raises, and with it gather.
CollectRaises(t) ==
  /\ AtWork(t)
  /\ \E trace \in {traces[t], "partial"} :
       traces' = [traces EXCEPT ![t] = IF @ = "whole" THEN @ ELSE trace]
  /\ CleanUp(t, FALSE)
  /\ fim' = [fim EXCEPT ![t] = [FimOut EXCEPT !.at = "over"]]
  /\ batch' = "raised"
  /\ UNCHANGED <<leftover, results, batches, disturbed>>

\* asyncio.run cancels the other tasks where they wait.
CancelTask(t) ==
  /\ batch = "raised" /\ fim[t].at \in {"waiting", "flow", "forced"}
  /\ IF AtWork(t) THEN CleanUp(t, FALSE) ELSE UNCHANGED <<source, clones>>
  /\ fim' = [fim EXCEPT ![t] = [FimOut EXCEPT !.at = "over"]]
  /\ UNCHANGED <<leftover, traces, results, batch, batches, disturbed>>

--------------------------------------------------------------------------------

\* The process is killed, with the trace of a task half written perhaps.
KillBatch ==
  /\ batch \in {"running", "raised"}
  /\ batch' = "none" /\ fim' = [t \in FimTasks |-> FimOut]
  /\ disturbed' = disturbed \cup {FimFileOf[t] : t \in Working \ Isolated}
  /\ leftover' = leftover \cup clones /\ clones' = {}
  /\ \/ \E t \in Working : traces[t] = "none" /\ traces' = [traces EXCEPT ![t] = "partial"]
     \/ UNCHANGED traces
  /\ UNCHANGED <<source, results, batches>>

FimNext ==
  \/ \E resume \in BOOLEAN : BeginBatch(resume)
  \/ EndBatch \/ AbortBatch \/ KillBatch
  \/ \E t \in FimTasks :
       \/ Prepare(t) \/ PrepareFails(t) \/ FlowEdits(t) \/ ForceFinish(t)
       \/ Collect(t) \/ CollectRaises(t) \/ CancelTask(t)

FimSpec == FimInit /\ [][FimNext]_fimVars

--------------------------------------------------------------------------------
(* Properties                                                                  *)

\* However its tasks end, a batch leaves the repository and the disk as they were:
\* a file that no two tasks worked on at once, that only its own tasks edited and
\* under which nobody was killed is what it was, and no clone is there that its
\* task does not work in, a task that was killed or could not be prepared apart.
NothingLeftBehind ==
  /\ \A f \in FimFiles \ disturbed :
       (\A t \in Working : FimFileOf[t] = f => t \in Isolated) => source[f] = {}
  /\ clones = Working \cap Isolated

\* When a batch has ended every task has a result, or a trace for which it was
\* skipped, be it another one's.
TasksAccountedFor ==
  batch = "ended" => \A t \in FimTasks : t \in results \/ HasTrace(t)

\* What a batch promises, whichever of its tasks fail or raise and in whatever order.
BatchCleansUp == NothingLeftBehind /\ TasksAccountedFor
================================================================================
