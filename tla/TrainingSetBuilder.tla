--------------------------- MODULE TrainingSetBuilder --------------------------
(***************************************************************************)
(* The program of the pipeline that makes training samples of a commit     *)
(* (train_make_builder.py, cot_enricher.py): the root hunk is applied; one *)
(* sample asks where the targets are, and one for each window around them  *)
(* what its next version is.  A sample has the truth that the hunks tell;  *)
(* a model may be asked to give reasons for it, and must not change it.    *)
(***************************************************************************)
EXTENDS CommitHunks

CONSTANTS
  ContextWindow, \* context_window
  SnippetWindow, \* snippet_window
  MaxRetries     \* max_retries of the enricher

ASSUME BuilderAssumption ==
  /\ {ContextWindow, SnippetWindow} \subseteq Nat
  /\ MaxRetries \in Nat \ {0}

VARIABLES
  useCot, \* --use_cot
  samples \* the samples, in the order in which they are made

trainingVars == <<useCot, samples>>
builderVars == <<itemVars, trainingVars>>

\* A sample that the model has not been asked about.
Unasked == [tries |-> 0, answered |-> FALSE, answer |-> None]

--------------------------------------------------------------------------------
(* The root                                                                    *)

\* _patch: the lines where they are first found, otherwise by their numbers, at least one
\* of them; lines that differ in their indentation only are none here.
Patch(text, hunk) ==
  IF Occurs(text, hunk.gone) THEN Replaced(text, hunk.gone, hunk.added)
  ELSE IF hunk.oldStart > Len(text) THEN None
  ELSE Spliced(text, hunk.oldStart - 1,
               Smaller(OldLines(hunk), Len(text) - hunk.oldStart + 1), hunk.added)

\* Without targets there is nothing to build.
ApplyRoot ==
  /\ phase = "apply"
  /\ LET patched == Patch(Lines(Root.file), Root)
         fails == targets = <<>> \/ sandbox[Root.file] = None \/ patched = None
     IN  IF fails THEN phase' = "done" /\ UNCHANGED sandbox
         ELSE phase' = "context" /\ sandbox' = [sandbox EXCEPT ![Root.file] = patched]
  /\ UNCHANGED <<commit, targets, contexts, useCot, samples>>

--------------------------------------------------------------------------------
(* The samples                                                                 *)

\* (Mutant: the numbers of the new version in every file.)
RangeOf_New(hunk) == [first |-> hunk.start, last |-> hunk.end]

\* Where a hunk is: the file of the root is taken for the new version.
RangeOf(hunk) ==
  IF hunk.file = Root.file THEN [first |-> hunk.start, last |-> hunk.end]
  ELSE [first |-> hunk.oldStart, last |-> hunk.oldStart + OldLines(hunk) - 1]

NumbersOf(file) ==
  UNION {RangeOf(h).first..RangeOf(h).last : h \in Range(TargetsOf(file))}

BuildContext ==
  /\ phase = "context"
  /\ contexts' = OracleContexts([h \in Range(targets) |-> RangeOf(h)], ContextWindow)
  /\ phase' = IF contexts' = <<>> THEN "done" ELSE "first"
  /\ UNCHANGED <<commit, sandbox, targets, useCot, samples>>

\* _stage1_gt: the numbers of each file.
Stage1 ==
  [stage |-> 1, truth |-> [file \in Range(TargetFiles) |-> NumbersOf(file)]] @@ Unasked

\* (Mutant: what is added begins a line further down.)
ApplyHunk_After(snippet, hunk, first) ==
  IF hunk.gone = <<>> THEN Spliced(snippet, hunk.oldStart - first + 1, 0, hunk.added)
  ELSE IF Occurs(snippet, hunk.gone) THEN Replaced(snippet, hunk.gone, hunk.added)
  ELSE None

\* _apply_hunk_to_snippet: lines are added by their number, after the last when that is
\* before the snippet; others where they are first found, otherwise by their number.
ApplyHunk(snippet, hunk, first) ==
  LET before == hunk.oldStart - first
      at == Greater(0, before)
  IN  IF hunk.gone = <<>>
      THEN Spliced(snippet, IF before < 0 THEN Len(snippet) ELSE Smaller(before, Len(snippet)),
                   0, hunk.added)
      ELSE IF Occurs(snippet, hunk.gone) THEN Replaced(snippet, hunk.gone, hunk.added)
      ELSE IF at >= Len(snippet) THEN None
      ELSE Spliced(snippet, at, Smaller(OldLines(hunk), Len(snippet) - at), hunk.added)

\* _stage2_gt: the hunks one after the other; one that cannot be applied is passed over.
NextVersion(snippet, hunks, first) ==
  LET next == FoldLeft(LAMBDA text, h : LET applied == ApplyHunk(text, h, first)
                                        IN  IF applied = None THEN text ELSE applied,
                       snippet, hunks)
  IN  IF next = snippet THEN None ELSE next

Overlaps(hunk, window) ==
  RangeOf(hunk).first <= window.last /\ RangeOf(hunk).last >= window.first

\* The samples of a file: one for each window that a target is in.
Stage2Of(file) ==
  LET text == Lines(file)
      windows == LineWindows(NumbersOf(file), Len(text), SnippetWindow)
      sample(w) ==
        LET snippet == Slice(text, w.first, w.last)
            hunks == SelectSeq(TargetsOf(file), LAMBDA h : Overlaps(h, w))
        IN  [stage |-> 2, file |-> file, window |-> w, hunks |-> hunks, current |-> snippet,
             truth |-> NextVersion(snippet, hunks, w.first)] @@ Unasked
      made == [i \in DOMAIN windows |-> sample(windows[i])]
  IN  IF text = <<>> THEN <<>> ELSE SelectSeq(made, LAMBDA s : s.hunks # <<>>)

BuildSamples ==
  /\ phase = "first"
  /\ samples' = <<Stage1>> \o FlattenSeq([i \in DOMAIN TargetFiles |-> Stage2Of(TargetFiles[i])])
  /\ phase' = IF useCot THEN "enrich" ELSE "done"
  /\ UNCHANGED <<commit, sandbox, targets, contexts, useCot>>

--------------------------------------------------------------------------------
(* The reasons                                                                 *)

\* What a model may make of the truth of a sample: the same, or with a change.
Altered(sample) ==
  IF sample.stage = 2
  THEN IF sample.truth = None THEN {sample.current} ELSE {None, Tail(sample.truth)}
  ELSE LET numbers(f) == sample.truth[f]
       IN  {[f \in DOMAIN sample.truth \ {g} |-> numbers(f)] : g \in DOMAIN sample.truth} \cup
           {[sample.truth EXCEPT ![g] = @ \cup {0}] : g \in DOMAIN sample.truth}

\* (Mutant: only the files are compared.)
Consistent_Files(sample, answer) ==
  sample.stage = 1 => DOMAIN answer = DOMAIN sample.truth

\* _check_consistency: the files, their numbers, whether there is a next version, and which.
Consistent(sample, answer) ==
  IF sample.stage = 1
  THEN DOMAIN answer = DOMAIN sample.truth /\ \A f \in DOMAIN answer : answer[f] = sample.truth[f]
  ELSE answer = sample.truth

Answer(sample, answer) ==
  [sample EXCEPT !.answer = answer, !.answered = TRUE, !.tries = @ + 1]

\* The truth as it is, without a reason.
Fallback(sample) == Answer(sample, sample.truth)

\* A reply that cannot be used, and an error of the connection, is tried again.
Retry(sample) ==
  IF sample.tries + 1 < MaxRetries THEN [sample EXCEPT !.tries = @ + 1] ELSE Fallback(sample)

\* A call of the model for the sample at i: it fails for good, cannot be used, or answers.
Enrich(i) ==
  /\ phase = "enrich"
  /\ i \in DOMAIN samples /\ ~samples[i].answered
  /\ \/ samples' = [samples EXCEPT ![i] = Fallback(@)]
     \/ samples' = [samples EXCEPT ![i] = Retry(@)]
     \/ \E answer \in Altered(samples[i]) \cup {samples[i].truth} :
          samples' = [samples EXCEPT ![i] =
            IF Consistent(@, answer) THEN Answer(@, answer) ELSE Retry(@)]
  /\ UNCHANGED <<itemVars, useCot>>

\* gather: all samples are answered.
EndEnrich ==
  /\ phase = "enrich"
  /\ \A i \in DOMAIN samples : samples[i].answered
  /\ phase' = "done"
  /\ UNCHANGED <<commit, sandbox, targets, contexts, useCot, samples>>

--------------------------------------------------------------------------------

TrainingInit ==
  /\ useCot \in BOOLEAN
  /\ samples = <<>>

BuilderNext ==
  \/ Parse /\ UNCHANGED <<useCot, samples>>
  \/ ApplyRoot \/ BuildContext \/ BuildSamples
  \/ \E i \in DOMAIN samples : Enrich(i)
  \/ EndEnrich

BuilderTypeOK ==
  /\ ItemTypeOK
  /\ useCot \in BOOLEAN
  /\ \A i \in DOMAIN samples :
       samples[i].stage = (IF i = 1 THEN 1 ELSE 2) /\ samples[i].tries \in 0..MaxRetries

--------------------------------------------------------------------------------
(* What a sample must teach                                                    *)

\* What the commit makes of a window: its hunks where the old version has them.
Committed(sample) ==
  FoldLeft(LAMBDA text, h : Spliced(text, h.oldStart - sample.window.first, Len(h.gone), h.added),
           sample.current, SortSeq(sample.hunks, LAMBDA g, h : g.oldStart > h.oldStart))

\* Whether what a hunk removes is in one place only, and what it adds is added before
\* anything above it has changed the number of lines.
Locatable(sample, i) ==
  LET hunk == sample.hunks[i]
  IN  IF hunk.gone # <<>> THEN Cardinality(Places(sample.current, hunk.gone)) = 1
      ELSE \A j \in 1..i - 1 : \/ sample.hunks[j].oldStart > hunk.oldStart
                               \/ Len(sample.hunks[j].gone) = Len(sample.hunks[j].added)

\* Where the sandbox has what a target removes, in a file that the root leaves alone.
Placed(hunk) ==
  IF hunk.file = Root.file THEN [first |-> hunk.start, last |-> hunk.end]
  ELSE [first |-> hunk.oldStart, last |-> hunk.oldStart + Len(hunk.gone) - 1]

\* The truth of a window of another file than the root's is what the commit makes of it,
\* when each of its hunks can be located: otherwise a hunk is applied by a number that no
\* longer holds, or to lines that look the same (_stage2_gt, _apply_hunk_to_snippet). Every
\* target that begins in such a file is in one sample, with what it removes; and a model
\* that gives reasons for a truth leaves it as it is (_check_consistency).
TruthIsCommit ==
  /\ \A i \in DOMAIN samples :
       LET s == samples[i]
       IN  /\ s.answered => s.answer = s.truth
           /\ s.stage = 2 /\ s.file # Root.file /\ (\A j \in DOMAIN s.hunks : Locatable(s, j)) =>
                s.truth = Committed(s)
  /\ samples # <<>> =>
       \A h \in Range(targets) :
         h.file # Root.file /\ h.oldStart <= Len(Lines(h.file)) =>
           \E i \in DOMAIN samples :
             /\ samples[i].stage = 2 /\ samples[i].file = h.file
             /\ h \in Range(samples[i].hunks)
             /\ Places(samples[i].current, h.gone) # {}
             /\ \A j \in DOMAIN samples : j # i /\ samples[j].stage = 2 =>
                  h \notin Range(samples[j].hunks)
================================================================================
