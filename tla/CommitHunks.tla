------------------------------ MODULE CommitHunks ------------------------------
(***************************************************************************)
(* A commit as the programs of the pipeline take it (domain/types.py,      *)
(* parser.py): the files before it and its hunks, one of which, the root,  *)
(* is given, while the others, the targets, are to be found.  A line is a  *)
(* value; hunks have no lines of context, lines do not contain one another *)
(* and none that is removed is blank.                                      *)
(***************************************************************************)
EXTENDS Integers, Sequences, FiniteSets, SequencesExt

CONSTANTS
  Commits, \* the commits
  None     \* what is not: a file, a text that could not be made, a next version

\* A hunk: where it is in the old version, the lines it removes and adds, and where
\* start_line and end_line have it, in the new version.
Hunk(file, at, gone, added, start, index) ==
  [file |-> file, oldStart |-> at, gone |-> gone, added |-> added, start |-> start,
   end |-> start + (IF added = <<>> THEN 0 ELSE Len(added) - 1), index |-> index]

\* max(old_len, 1)
OldLines(hunk) == IF hunk.gone = <<>> THEN 1 ELSE Len(hunk.gone)

VARIABLES
  commit,  \* [base: the files before it, hunks, root: a place in hunks or none, order]
  sandbox, \* the files of the sandbox
  phase,   \* how far the program is
  targets, \* ParsedItem.target_hunks
  contexts \* related_contexts: what the first prompt shows

itemVars == <<commit, sandbox, phase, targets, contexts>>

Root == commit.hunks[commit.root]

\* A file that cannot be read has no lines.
Lines(file) ==
  IF file \notin DOMAIN sandbox \/ sandbox[file] = None THEN <<>> ELSE sandbox[file]

--------------------------------------------------------------------------------
(* Text                                                                        *)

Slice(text, first, last) == SubSeq(text, first, IF last < 0 THEN Len(text) + last ELSE last)

\* n lines of a text give way to others.
Spliced(text, before, n, added) ==
  SubSeq(text, 1, before) \o added \o SubSeq(text, before + n + 1, Len(text))

\* How many lines are before the places where a text has some lines.
Places(text, lines) ==
  {p \in 0..Len(text) - Len(lines) : SubSeq(text, p + 1, p + Len(lines)) = lines}

Occurs(text, lines) == lines # <<>> /\ Places(text, lines) # {}

\* str.replace(before, after, 1)
Replaced(text, before, after) ==
  Spliced(text, CHOOSE p \in Places(text, before) : \A q \in Places(text, before) : p <= q,
          Len(before), after)

--------------------------------------------------------------------------------
(* Windows of a file                                                           *)

Greater(m, n) == IF m > n THEN m ELSE n
Smaller(m, n) == IF m < n THEN m ELSE n

\* Windows in the order in which they begin: one that begins before the end of the other,
\* or a gap further, extends it.
MergeWindows(windows, gap) ==
  FoldLeft(LAMBDA merged, w :
             IF merged # <<>> /\ w.first <= Last(merged).last + gap
             THEN [merged EXCEPT ![Len(merged)].last = Greater(@, w.last)]
             ELSE Append(merged, w), <<>>, windows)

\* The lines around the lines from first to last of a file of so many lines.
Around(first, last, total, margin) ==
  [first |-> Greater(1, first - margin), last |-> Smaller(total, last + margin)]

\* The windows around single lines.
LineWindows(numbers, total, margin) ==
  IF numbers = {} THEN <<[first |-> 1, last |-> total]>>
  ELSE LET sorted == SetToSortSeq(numbers, <)
       IN  MergeWindows([i \in DOMAIN sorted |-> Around(sorted[i], sorted[i], total, margin)], 0)

\* The windows around the range of lines of each hunk.
HunkWindows(hunks, ranges, total, margin) ==
  LET around(h) == Around(ranges[h].first, ranges[h].last, total, margin)
      windows == [i \in DOMAIN hunks |-> around(hunks[i])]
  IN  MergeWindows(SortSeq(windows, LAMBDA v, w : v.first < w.first), 1)

\* The files of the targets, in the order in which they are met.
TargetFiles ==
  FoldLeft(LAMBDA met, h : IF Contains(met, h.file) THEN met ELSE Append(met, h.file),
           <<>>, targets)

TargetsOf(file) == SelectSeq(targets, LAMBDA h : h.file = file)

\* The contexts: the windows of each file that can be read.
OracleContexts(ranges, margin) ==
  FoldLeft(LAMBDA shown, file :
             IF Lines(file) = <<>> THEN shown
             ELSE shown \o LET windows == HunkWindows(TargetsOf(file), ranges,
                                                     Len(Lines(file)), margin)
                           IN  [i \in DOMAIN windows |->
                                  [file |-> file, first |-> windows[i].first,
                                   last |-> windows[i].last]],
           <<>>, TargetFiles)

--------------------------------------------------------------------------------
(* The parser                                                                  *)

\* The targets in causal order: those that hunk_order names, where it names any.
TargetHunks ==
  LET others == {i \in DOMAIN commit.hunks : i # commit.root}
      named == SelectSeq(commit.order, LAMBDA i : i \in others)
  IN  IF named # <<>> THEN [i \in DOMAIN named |-> commit.hunks[named[i]]]
      ELSE SortSeq([i \in 1..Cardinality(others) |-> commit.hunks[SetToSeq(others)[i]]],
                   LAMBDA g, h : g.index < h.index)

ItemInit ==
  /\ commit \in Commits
  /\ sandbox = commit.base
  /\ phase = "parse"
  /\ targets = <<>>
  /\ contexts = <<>>

\* DataItemParser.parse: the root must be among the hunks.
Parse ==
  /\ phase = "parse"
  /\ IF commit.root \in DOMAIN commit.hunks
     THEN phase' = "apply" /\ targets' = TargetHunks
     ELSE phase' = "failed" /\ UNCHANGED targets
  /\ UNCHANGED <<commit, sandbox, contexts>>

--------------------------------------------------------------------------------

ItemTypeOK ==
  /\ DOMAIN sandbox = DOMAIN commit.base
  /\ phase \in {"parse", "apply", "context", "first", "second", "enrich", "snapshot", "done",
               "failed"}
  /\ Range(targets) \subseteq Range(commit.hunks)
  /\ \A i \in DOMAIN contexts :
       contexts[i].file \in DOMAIN sandbox /\ {contexts[i].first, contexts[i].last} \subseteq Int
--------------------------------------------------------------------------------
(* What a model must see                                                       *)

\* The lines that a target removes are shown, as far as they are no further than the margin
\* from where the target is taken to be.
TargetsShown(ranges, margin) ==
  contexts # <<>> =>
    \A h \in Range(targets) :
      LET places == Places(Lines(h.file), h.gone)
      IN  h.gone # <<>> /\ Cardinality(places) = 1 =>
            \A p \in places : \A n \in p + 1..p + Len(h.gone) :
              n \in ranges[h].first - margin..ranges[h].last + margin =>
                \E i \in DOMAIN contexts :
                  contexts[i].file = h.file /\ n \in contexts[i].first..contexts[i].last
================================================================================
