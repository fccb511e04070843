------------------------------- MODULE MCBatches -------------------------------
(* The programs that work through many items and record each, on small         *)
(* instances: an evaluation (two instances where all is calm, one where it is  *)
(* not), the batch programs of the pipeline with two commits and one or two    *)
(* processes, and the one that fills in code with three tasks, two of them on  *)
(* the same file and one in a clone; and what the programs of the pipeline do  *)
(* with one commit.  A behaviour is one of a single program; they share no file. *)
EXTENDS MCEvaluationManager, MCBatchRunner, BatchPrograms, TrainingSetBuilder, MultiPointPipeline

CONSTANTS u1, u2, u3, fileA, fileB, rootFile, otherFile

--------------------------------------------------------------------------------
(* The commits: a root and two targets, of which at least one is in another file *)

\* Six lines, of which two say the same.
Old(k) == [i \in 1..6 |-> IF i = 5 THEN k * 10 + 2 ELSE k * 10 + i]

Shape(at, gone, added) == [at |-> at, gone |-> gone, added |-> added]

Roots == {Shape(2, 1, 2), Shape(4, 0, 1)}

Shapes == {Shape(1, 1, 3), Shape(2, 2, 1), Shape(3, 0, 2), Shape(4, 2, 0), Shape(5, 1, 1),
           Shape(6, 1, 1), Shape(7, 0, 1)}

\* The hunk of a shape beside another of the file; n tells its new lines from others.
MadeOf(file, k, shape, other, n) ==
  LET shift == IF other.at < shape.at THEN other.added - other.gone ELSE 0
  IN  Hunk(file, shape.at, SubSeq(Old(k), shape.at, shape.at + shape.gone - 1),
           [i \in 1..shape.added |-> 100 * n + i], shape.at + shift, n)

Apart(v, w) == v.at + v.gone < w.at \/ w.at + w.gone < v.at

Commit(hunks, there, root, order) ==
  [base |-> (rootFile :> Old(1)) @@ (otherFile :> IF there THEN Old(2) ELSE None),
   hunks |-> hunks, root |-> root, order |-> order]

\* Both targets in the other file.
Elsewhere ==
  {<<MadeOf(rootFile, 1, x[1], x[1], 1), MadeOf(otherFile, 2, x[2], x[3], 2),
     MadeOf(otherFile, 2, x[3], x[2], 3)>> :
     x \in {y \in Roots \X Shapes \X Shapes : Apart(y[2], y[3])}}

\* One of them in the file of the root.
Beside ==
  {<<MadeOf(rootFile, 1, x[1], x[2], 1), MadeOf(rootFile, 1, x[2], x[1], 2),
     MadeOf(otherFile, 2, x[3], x[3], 3)>> :
     x \in {y \in Roots \X Shapes \X Shapes : Apart(y[1], y[2])}}

MCCommits ==
  {Commit(hunks, TRUE, 1, order) : hunks \in Elsewhere \cup Beside, order \in {<<2, 3>>, <<>>}}
  \cup {Commit(hunks, FALSE, 1, <<3, 9>>) : hunks \in Beside}
  \cup {Commit(hunks, TRUE, 9, <<>>) : hunks \in Beside}

--------------------------------------------------------------------------------

\* What the model names: lines of one file twice, and lines that are not there.
MCNamed ==
  {<<>>,
   <<[file |-> otherFile, lines |-> {1, 2}], [file |-> otherFile, lines |-> {4}]>>,
   <<[file |-> otherFile, lines |-> {-3, 0, 7, 9}], [file |-> rootFile, lines |-> {2, 3, 5}]>>}

\* No commit is worked on.
NoItem ==
  commit = None /\ sandbox = <<>> /\ phase = "done" /\ targets = <<>> /\ contexts = <<>>

\* A model is shown what it is asked about: the lines that the targets remove
\* (_oracle_context, _build_oracle_context), and windows of a file that can be put back
\* (_read_file_snippets).
PromptsAreSound ==
  /\ samples # <<>> => TargetsShown([h \in Range(targets) |-> Placed(h)], ContextWindow)
  /\ asked # <<>> => TargetsShown([h \in Range(targets) |-> Shown(h)], OracleWindow)
  /\ EditsAreApart

--------------------------------------------------------------------------------

VARIABLE program \* the program that runs

MCInit ==
  /\ program \in {"evaluation", "pipeline", "fim", "train", "predict"}
  /\ Init /\ (program # "evaluation" => calm /\ size = 1)
  /\ BatchInit /\ (program # "pipeline" => driver = "predict")
  /\ FimInit
  /\ IF program \in {"train", "predict"} THEN ItemInit ELSE NoItem
  /\ TrainingInit /\ (program # "train" => ~useCot)
  /\ PredictionInit /\ (program # "predict" => oracle /\ ~dryRun)

MCNext ==
  /\ UNCHANGED program
  /\ \/ program = "evaluation" /\ Next /\ UNCHANGED <<batchVars, fimVars, builderVars, predictorVars>>
     \/ program = "pipeline" /\ BatchNext /\ UNCHANGED <<vars, fimVars, builderVars, predictorVars>>
     \/ program = "fim" /\ FimNext /\ UNCHANGED <<vars, batchVars, builderVars, predictorVars>>
     \/ program = "train" /\ BuilderNext /\ UNCHANGED <<vars, batchVars, fimVars, predictionVars>>
     \/ program = "predict" /\ PredictorNext /\ UNCHANGED <<vars, batchVars, fimVars, trainingVars>>

MCSpec == MCInit /\ [][MCNext]_<<program, vars, batchVars, fimVars, builderVars, predictorVars>>

MCFimFileOf == (u1 :> fileA) @@ (u2 :> fileA) @@ (u3 :> fileB)

\* u1's name is the beginning of u2's.
MCTakenFor == {<<u1, u2>>}

\* The program that runs is well typed.
ProgramsTypeOK ==
  /\ program = "evaluation" => TypeOK
  /\ program = "pipeline" => BatchTypeOK
  /\ program = "fim" => FimTypeOK
  /\ program = "train" => BuilderTypeOK
  /\ program = "predict" => PredictorTypeOK
================================================================================
