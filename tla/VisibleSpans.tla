------------------------------ MODULE VisibleSpans -----------------------------
(***************************************************************************)
(* What of a file is visible to an agent (file_context.py, codeblocks/).   *)
(* A context keeps the ids of spans: classes, functions and the statements *)
(* between them.  Lines become spans in a module, the text as it was       *)
(* parsed, which is kept until the file is edited; a view or a search goes *)
(* by the text of the repository instead.                                  *)
(*                                                                         *)
(* Each line is a block, and the first one of a class or function is one   *)
(* that spans all of it.  Texts are shorter than the context of a patch,   *)
(* so that a patch is one hunk.  In shadow mode.                           *)
(***************************************************************************)
EXTENDS Integers, Sequences, FiniteSets, FiniteSetsExt, SequencesExt

CONSTANTS
  Spans,         \* ids
  Structures,    \* those of classes and functions
  ImportSpan,    \* that of import statements
  Constructors,  \* those of constructors
  NoSpan,
  ClassOf,       \* the class that a method is in, else NoSpan
  Contents,      \* what the file may say: lines, each of a span
  Repository,    \* what it may say in the repository
  MaxChanges     \* bound on the edits

\* A text as it is parsed: a definition is in one piece and has one header, a method is in
\* its class.
WellFormed(t) ==
  /\ t \in Seq([span : Spans, says : {"def", "old", "new"}]) \ {<<>>}
  /\ \A i, j \in DOMAIN t :
       i < j /\ t[i].span = t[j].span => \A k \in i..j : t[k].span = t[i].span
  /\ \A i \in DOMAIN t :
       LET first == i = 1 \/ t[i - 1].span # t[i].span
           class == ClassOf[t[i].span]
       IN  /\ t[i].says = "def" <=> first /\ t[i].span \in Structures
           /\ first /\ class # NoSpan => i > 1 /\ class \in {t[i - 1].span, ClassOf[t[i - 1].span]}

\* A class in a class is left out: what makes it visible does not show the other one.
ASSUME VisibleSpansAssumption ==
  /\ ClassOf \in [Spans -> Structures \cup {NoSpan}] /\ NoSpan \notin Spans
  /\ \A id \in Spans : ClassOf[id] # NoSpan => ClassOf[ClassOf[id]] = NoSpan
  /\ Structures \subseteq Spans /\ Constructors \subseteq Structures
  /\ ImportSpan \in Spans /\ ClassOf[ImportSpan] = NoSpan
  /\ Repository \subseteq Contents /\ (\A t \in Contents : WellFormed(t))
  /\ MaxChanges \in Nat

VARIABLES
  repoText,   \* the text in the repository
  fileText,   \* the text in the context
  parsed,     \* the module that is kept: the text as it was parsed, or none
  opened,     \* whether the file is one of the context
  visible,    \* the ids that are visible
  allVisible, \* whether all of the file is
  asked,      \* history: the spans of the lines asked for or edited last
  spanEdits       \* how many edits were made, for the bound

spanVars == <<repoText, fileText, parsed, opened, visible, allVisible, asked, spanEdits>>

Unparsed == <<>>

--------------------------------------------------------------------------------
(* Modules                                                                     *)

IdsIn(t) == {t[i].span : i \in DOMAIN t}

\* For the properties: the spans of lines of a text that another one has there too, as one
\* that is not its last.
SpansOf(t, from, to, within) ==
  {t[i].span : i \in {i \in from..to \cap DOMAIN t :
                        i < Len(within) /\ within[i].span = t[i].span}}

\* The last line of the block that begins at a line.
BlockEnd(t, i) ==
  IF t[i].says # "def" THEN i
  ELSE Max({j \in DOMAIN t : t[i].span \in {t[j].span, ClassOf[t[j].span]}})

\* (Mutant: a block around the lines that begins before them is not looked for.)
SpansAt_Inner(t, from, to) == {t[i].span : i \in {i \in 1..Len(t) - 1 : i \in from..to}}

\* find_blocks_by_line_numbers, parents included. The last block is not looked at.
SpansAt(t, from, to) ==
  {t[i].span : i \in {i \in 1..Len(t) - 1 : i <= to /\ BlockEnd(t, i) >= from}}

\* (Mutant: spans alone.)
WithSpans_Alone(t, seen, ids) == seen \cup (ids \cap IdsIn(t))

\* add_span, of ids that a module has: with the first method of a class that is not visible
\* come the class and its constructor.
WithSpans(t, seen, ids) ==
  LET there   == ids \cap IdsIn(t)
      classes == {ClassOf[id] : id \in there \ seen} \ (seen \cup there \cup {NoSpan})
  IN  seen \cup there \cup classes \cup
      {id \in Constructors \cap IdsIn(t) : ClassOf[id] \in classes}

\* The module that is there, or is made.
Parsed == IF parsed = Unparsed THEN fileText ELSE parsed

\* lines_is_in_context: each of the two lines is between the first and the last of a span.
LinesInContext(from, to) ==
  allVisible \/ \A line \in {from, to} : \E id \in visible \cap IdsIn(Parsed) :
    LET own == {i \in DOMAIN Parsed : Parsed[i].span = id} IN line \in Min(own)..Max(own)

--------------------------------------------------------------------------------
(* Edits                                                                       *)

\* Where two texts differ: the first line, and the last one in each.
Differing(old, new) ==
  LET p == Len(LongestCommonPrefix({old, new}))
      s == Len(LongestCommonPrefix({Reverse(SubSeq(old, p + 1, Len(old))),
                                    Reverse(SubSeq(new, p + 1, Len(new)))}))
  IN  [from |-> p + 1, old |-> Len(old) - s, new |-> Len(new) - s]

\* The last line of a patch that adds or removes one, by its number in the new text when
\* it adds, in the old one when it removes.
LastChanged(old, new) ==
  LET d == Differing(old, new)
  IN  IF d.new < d.from \/ (\E i \in d.from..d.old : old[i] = new[d.new]) THEN d.old ELSE d.new

\* (Mutant: the module is kept.)
ModuleAfter_Kept(patched, module) == module

\* apply_changes returns early when there is nothing left to patch: the module stays.
ModuleAfter(patched, module) == IF patched THEN Unparsed ELSE module

\* ContextFile.apply_changes, with the module that is kept until then: the lines that the
\* patch changes are looked up there, if there is a patch.
MarkChanges(updated, module) ==
  LET within  == IF module = Unparsed THEN updated ELSE module
      patched == updated # repoText
      from    == Differing(repoText, updated).from
      last    == LastChanged(repoText, updated)
  IN  /\ spanEdits < MaxChanges /\ spanEdits' = spanEdits + 1
      /\ fileText' = updated /\ opened' = TRUE
      /\ visible' = IF patched THEN visible \cup SpansAt(within, from, last) ELSE visible
      /\ parsed' = ModuleAfter(patched, module)
      /\ asked' = IF patched THEN SpansOf(updated, from, last, within) ELSE {}
      /\ UNCHANGED <<repoText, allVisible>>

\* Whether the lines are visible is asked, and lines that are not are only flagged.
ReplaceLines ==
  \E updated \in Contents \ {fileText} :
    MarkChanges(updated, IF allVisible THEN parsed ELSE Parsed)

\* After a line, if it and the one before are visible.
InsertLines(i) ==
  /\ i \in DOMAIN fileText /\ LinesInContext(i - 1, i)
  /\ \E updated \in Contents \ {fileText} :
       /\ IsPrefix(SubSeq(fileText, 1, i), updated)
       /\ IsSuffix(SubSeq(fileText, i + 1, Len(fileText)), updated)
       /\ Len(updated) > Len(fileText)
       /\ MarkChanges(updated, IF allVisible THEN parsed ELSE Parsed)

AppendLines ==
  \E updated \in Contents \ {fileText} :
    IsPrefix(fileText, updated) /\ MarkChanges(updated, parsed)

--------------------------------------------------------------------------------
(* Views                                                                       *)

\* FileContext.add_file_context: the spans of a view that the module has become visible.
AddFileContext(seen, ids) ==
  /\ visible' = WithSpans(Parsed, seen, ids)
  /\ opened' = TRUE
  /\ UNCHANGED <<repoText, fileText, allVisible, spanEdits>>

\* ViewCode.  The context that shows the lines is made of the repository's file, and is
\* given the patch afterwards.
ViewLines(from, to) ==
  /\ from <= to
  /\ LET ids == SpansAt(repoText, from, to)
     IN  /\ AddFileContext(visible, ids)
         /\ parsed' = IF ids \subseteq visible THEN parsed ELSE Parsed
  /\ asked' = SpansOf(fileText, from, to, repoText)

\* A class is viewed with all that is in it, and with the imports.
ViewSpan(id) ==
  /\ id \in IdsIn(Parsed)
  /\ LET parts == {i \in IdsIn(Parsed) : id = ClassOf[i]}
     IN  AddFileContext(visible, IdsIn(repoText) \cap
           ({id} \cup parts \cup IF parts = {} THEN {} ELSE {ImportSpan}))
  /\ parsed' = Parsed /\ asked' = {}

ViewFile ==
  /\ allVisible' = TRUE /\ opened' = TRUE /\ asked' = {}
  /\ UNCHANGED <<repoText, fileText, parsed, visible, spanEdits>>

\* ReadFile looks lines up in the file of the context.
ReadFile(from, to) ==
  /\ from <= to
  /\ visible' = visible \cup SpansAt(Parsed, from, to)
  /\ parsed' = Parsed /\ opened' = TRUE
  /\ asked' = SpansOf(fileText, from, to, Parsed)
  /\ UNCHANGED <<repoText, fileText, allVisible, spanEdits>>

\* A search finds a span of the repository's file. A file that is new to the context
\* comes with its imports.
SearchSpan(id) ==
  /\ id \in IdsIn(repoText)
  /\ AddFileContext(IF opened THEN visible ELSE visible \cup ({ImportSpan} \cap IdsIn(fileText)),
                    {id})
  /\ parsed' = Parsed /\ asked' = {}

\* The file is shown in a prompt, its tokens are counted, or an insertion is refused.
Prompt ==
  /\ opened /\ parsed' = Parsed /\ asked' = {}
  /\ UNCHANGED <<repoText, fileText, opened, visible, allVisible, spanEdits>>

\* The next node works on a clone, which has no module.
CloneFile ==
  /\ parsed' = Unparsed /\ asked' = {}
  /\ UNCHANGED <<repoText, fileText, opened, visible, allVisible, spanEdits>>

\* CleanupContext: the patch goes with the file.
RemoveFile ==
  /\ opened' = FALSE /\ visible' = {} /\ allVisible' = FALSE
  /\ fileText' = repoText /\ parsed' = Unparsed /\ asked' = {}
  /\ UNCHANGED <<repoText, spanEdits>>

SpansInit ==
  /\ repoText \in Repository /\ fileText = repoText
  /\ parsed = Unparsed /\ opened = FALSE /\ visible = {} /\ allVisible = FALSE
  /\ asked = {} /\ spanEdits = 0

SpansNext ==
  \/ \E i, j \in DOMAIN fileText : ViewLines(i, j) \/ ReadFile(i, j)
  \/ \E i \in DOMAIN fileText : InsertLines(i)
  \/ \E id \in Spans : ViewSpan(id) \/ SearchSpan(id)
  \/ ReplaceLines \/ AppendLines \/ ViewFile \/ Prompt \/ CloneFile \/ RemoveFile

SpansSpec == SpansInit /\ [][SpansNext]_spanVars

SpansTypeOK ==
  /\ {repoText, fileText} \subseteq Contents /\ parsed \in Contents \cup {Unparsed}
  /\ visible \cup asked \subseteq Spans /\ spanEdits \in 0..MaxChanges
  /\ {opened, allVisible} \subseteq BOOLEAN

--------------------------------------------------------------------------------
(* Properties                                                                  *)

\* The module that lines are looked up in is that of the text, unless the file is what the
\* repository has.
ModuleIsCurrent == parsed \in {Unparsed, fileText} \/ fileText = repoText

\* Lines that were viewed, read or edited are visible afterwards, where the text they were
\* looked up in agrees with that of the file; unless a search goes by an old module.  Edited
\* lines are those from the first that the patch changes to the last, by the numbers that
\* MarkChanges takes: of a line that is removed, that in the old text.
AskedIsSeen == allVisible \/ parsed \notin {Unparsed, fileText} \/ asked \subseteq visible

\* No method is visible without its class.
ClassIsSeen == \A id \in visible : ClassOf[id] \in visible \cup {NoSpan}
================================================================================
