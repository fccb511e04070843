--------------------------- MODULE MultiPointPipeline --------------------------
(***************************************************************************)
(* The program of the pipeline that predicts a commit (pipeline.py): the   *)
(* root hunk is applied, a model is shown the lines around the targets and *)
(* names the lines that are impacted, and for each window around those it  *)
(* is asked for the next version.  All files are read by the numbers of    *)
(* the new version.                                                        *)
(***************************************************************************)
EXTENDS CommitHunks

CONSTANTS
  OracleWindow, \* context_window of _build_oracle_context
  FixWindow,    \* context_window of _read_file_snippets
  Named         \* what the model may name: sequences of [file, lines]

ASSUME PredictorAssumption == {OracleWindow, FixWindow} \subseteq Nat

VARIABLES
  oracle,   \* whether --context_mode is "oracle", not "auto"
  dryRun,   \* --dry_run
  asked,    \* the windows that the second prompts show, file by file
  edits,    \* predictions: the windows with a next version
  snapshots \* before_files and gt_after_files, once they are taken

\* What is given.
given == <<commit, targets, oracle, dryRun>>

predictionVars == <<oracle, dryRun, asked, edits, snapshots>>
predictorVars == <<itemVars, predictionVars>>

--------------------------------------------------------------------------------
(* The root and what is shown of the targets                                   *)

\* _apply_root_hunk_to_disk: the lines are found as they are, or the item fails.
PredictRoot ==
  /\ phase = "apply"
  /\ IF Occurs(Lines(Root.file), Root.gone)
     THEN /\ sandbox' = [sandbox EXCEPT ![Root.file] = Replaced(@, Root.gone, Root.added)]
          /\ phase' = "context"
     ELSE phase' = "failed" /\ UNCHANGED sandbox
  /\ UNCHANGED <<given, contexts, asked, edits, snapshots>>

Shown(hunk) == [first |-> hunk.start, last |-> hunk.end]

\* What is shown without the targets, "auto", is not supported.
AutoFails ==
  /\ phase = "context" /\ ~oracle
  /\ phase' = "failed"
  /\ UNCHANGED <<given, sandbox, contexts, asked, edits, snapshots>>

\* _build_oracle_context; without it there is nothing to ask.
BuildOracleContext ==
  /\ phase = "context" /\ oracle
  /\ contexts' = OracleContexts([h \in Range(targets) |-> Shown(h)], OracleWindow)
  /\ phase' = IF contexts' = <<>> THEN "done" ELSE IF dryRun THEN "snapshot" ELSE "first"
  /\ UNCHANGED <<given, sandbox, asked, edits, snapshots>>

--------------------------------------------------------------------------------
(* The two stages                                                              *)

\* impacted_map: the lines that are named, file by file.
Impacted(named) ==
  FoldLeft(LAMBDA map, entry :
             IF entry.lines = {} THEN map
             ELSE IF \E i \in DOMAIN map : map[i].file = entry.file
             THEN [i \in DOMAIN map |-> IF map[i].file = entry.file
                                        THEN [map[i] EXCEPT !.lines = @ \cup entry.lines]
                                        ELSE map[i]]
             ELSE Append(map, entry), <<>>, named)

\* (Mutant: a window for each line.)
Snippets_Single(entry) ==
  LET text == Lines(entry.file)
      sorted == SetToSortSeq(entry.lines, <)
  IN  [i \in DOMAIN sorted |->
         LET w == Around(sorted[i], sorted[i], Len(text), FixWindow)
         IN  [file |-> entry.file, lines |-> entry.lines, first |-> w.first, last |-> w.last,
              current |-> Slice(text, w.first, w.last)]]

\* _read_file_snippets: the windows of one file, if it can be read.
Snippets(entry) ==
  LET text == Lines(entry.file)
      windows == LineWindows(entry.lines, Len(text), FixWindow)
  IN  IF text = <<>> THEN <<>>
      ELSE [i \in DOMAIN windows |->
              [file |-> entry.file, lines |-> entry.lines, first |-> windows[i].first,
               last |-> windows[i].last,
               current |-> Slice(text, windows[i].first, windows[i].last)]]

\* The first reply: no object, or the places that are named.
Identify ==
  /\ phase = "first"
  /\ \/ phase' = "done" /\ UNCHANGED asked
     \/ \E named \in Named :
          LET impacted == Impacted(named)
          IN  /\ asked' = FlattenSeq([i \in DOMAIN impacted |-> Snippets(impacted[i])])
              /\ phase' = IF impacted = <<>> THEN "done" ELSE "second"
  /\ UNCHANGED <<given, sandbox, contexts, edits, snapshots>>

\* The reply for the next window: a next version, or none that can be used.
Fix ==
  /\ phase = "second" /\ asked # <<>>
  /\ asked' = Tail(asked)
  /\ edits' \in {edits, Append(edits, Head(asked))}
  /\ phase' = IF asked' = <<>> THEN "snapshot" ELSE phase
  /\ UNCHANGED <<given, sandbox, contexts, snapshots>>

\* No window could be read.
NothingToFix ==
  /\ phase = "second" /\ asked = <<>>
  /\ phase' = "snapshot"
  /\ UNCHANGED <<given, sandbox, contexts, asked, edits, snapshots>>

\* A call of the model that fails after all its attempts fails the item.
CallFails ==
  /\ phase \in {"first", "second"}
  /\ phase' = "failed"
  /\ UNCHANGED <<given, sandbox, contexts, asked, edits, snapshots>>

--------------------------------------------------------------------------------
(* Snapshots                                                                   *)

\* apply_diff_to_content, which the repository does not have: taken to replace the lines
\* where they are found, or else to add them at their number.
ApplyDiff(text, hunk) ==
  IF Occurs(text, hunk.gone) THEN Replaced(text, hunk.gone, hunk.added)
  ELSE IF hunk.gone = <<>> /\ hunk.start <= Len(text) + 1
  THEN Spliced(text, hunk.start - 1, 0, hunk.added)
  ELSE None

\* The targets are applied from the last to the first.
GroundTruth(file) ==
  FoldLeft(LAMBDA text, h : LET applied == ApplyDiff(text, h)
                            IN  IF applied = None THEN text ELSE applied,
           sandbox[file], SortSeq(TargetsOf(file), LAMBDA g, h : g.start > h.start))

SnapshotFiles ==
  /\ phase = "snapshot"
  /\ LET involved == {targets[i].file : i \in DOMAIN targets} \cup
                     {edits[i].file : i \in DOMAIN edits}
     IN  snapshots' = [f \in {g \in involved : sandbox[g] # None} |->
                         [before |-> sandbox[f], after |-> GroundTruth(f)]]
  /\ phase' = "done"
  /\ UNCHANGED <<given, sandbox, contexts, asked, edits>>

--------------------------------------------------------------------------------

PredictionInit ==
  /\ oracle \in BOOLEAN /\ dryRun \in BOOLEAN
  /\ asked = <<>> /\ edits = <<>>
  /\ snapshots = None

PredictorNext ==
  \/ Parse /\ UNCHANGED <<oracle, dryRun, asked, edits, snapshots>>
  \/ PredictRoot \/ AutoFails \/ BuildOracleContext
  \/ Identify \/ Fix \/ NothingToFix \/ CallFails
  \/ SnapshotFiles

PredictorTypeOK ==
  /\ ItemTypeOK
  /\ {oracle, dryRun} \subseteq BOOLEAN
  /\ \A i \in DOMAIN edits : edits[i].file \in DOMAIN sandbox
  /\ dryRun => edits = <<>>

--------------------------------------------------------------------------------
(* What is asked and predicted                                                 *)

\* The edits of one file can be applied together: they are of windows that have no line
\* in common, and each says what the file has between its numbers (_read_file_snippets). A line named
\* further before the file than a window reaches makes its window end before the file begins,
\* counted from its end.
EditsAreApart ==
  LET windows == edits \o asked
      Sensible(w) == \A n \in w.lines : n + FixWindow >= 0
  IN  \A i, j \in DOMAIN windows :
        LET v == windows[i] w == windows[j]
        IN  /\ Sensible(v) =>
                 v.current = SubSeq(Lines(v.file), v.first, Smaller(v.last, Len(Lines(v.file))))
            /\ i # j /\ v.file = w.file /\ Sensible(v) => v.last < w.first \/ w.last < v.first
================================================================================
