------------------------------ MODULE FileContext ------------------------------
(***************************************************************************)
(* One file in the file contexts of a trajectory (file_context.py): each   *)
(* node of the tree has a context, cloned from the one of its parent, in   *)
(* which a file is its patch; what the file says is the patch applied to   *)
(* what the repository holds, kept in a cache.  In shadow mode the         *)
(* repository is never written.  Otherwise an edit goes to the working     *)
(* tree as well, which all contexts read.                                  *)
(*                                                                         *)
(* A file is a sequence of lines that do not contain one another.  What of *)
(* it is visible, its spans, decides whether an action edits or answers    *)
(* that it cannot: both are possible here.                                 *)
(***************************************************************************)
EXTENDS Integers, Sequences, FiniteSets, FiniteSetsExt, SequencesExt

CONSTANTS
  Lines,       \* what a line may say
  Char,        \* a line of one character, which no edit writes
  Originals,   \* what the file may say at first; None when there is no file
  None,        \* what is not there: a file, a patch, a cached text
  Storing,     \* whether edits stay in "shadow" or go to the "files"
  Hunk,        \* lines of context around a change, three in the code
  MaxLines,    \* bound on the length of the file
  MaxContexts, \* bound on the number of contexts
  MaxEdits     \* bound on the number of edits

Text == Seq(Lines \cup {Char})

\* What a patch says, as a single hunk: where it begins, and its lines.
Patch == [at : 0..MaxLines, before : Text, gone : Text, added : Text, after : Text]

\* ContextFile: the two caches and the patch.
File == [base : Text \cup {None}, content : Text \cup {None}, patch : Patch \cup {None}]

ASSUME FileContextAssumption ==
  /\ Char \notin Lines
  /\ Originals \subseteq Text \cup {None} /\ None \notin Text \cup Patch \cup File
  /\ Storing \subseteq {"shadow", "files"}
  /\ {Hunk, MaxLines, MaxContexts, MaxEdits} \subseteq Nat \ {0}

VARIABLES
  storing,  \* the mode of the repository
  disk,     \* what the working tree holds
  contexts, \* the contexts of the nodes, in the order they were made
  edits     \* how many edits have been made

fileVars == <<storing, disk, contexts, edits>>

Known(x) == x # None

\* A file that has not been read.
FileOf(patch) == [base |-> None, content |-> None, patch |-> patch]

Written(content) == IF Known(content) THEN content ELSE <<>>

--------------------------------------------------------------------------------
(* Patches                                                                     *)

Least(m, n) == IF m < n THEN m ELSE n

\* How many lines two texts begin with alike.
CommonPrefix(x, y) ==
  Max({n \in 0..Least(Len(x), Len(y)) : SubSeq(x, 1, n) = SubSeq(y, 1, n)})

\* The lines after the first n, and those but the last n.
After(x, n) == SubSeq(x, n + 1, Len(x))
But(x, n) == SubSeq(x, 1, Len(x) - n)

\* The change from one text to another with its context.
Difference(old, new) ==
  IF old = new THEN None
  ELSE LET p == CommonPrefix(old, new)
           s == CommonPrefix(Reverse(After(old, p)), Reverse(After(new, p)))
           at == p - Least(p, Hunk)
       IN  [at |-> at,
            before |-> SubSeq(old, at + 1, p),
            gone |-> But(After(old, p), s),
            added |-> But(After(new, p), s),
            after |-> SubSeq(old, Len(old) - s + 1, Len(old) - s + Least(s, Hunk))]

HasAt(content, lines, at) ==
  at + Len(lines) <= Len(content) /\ SubSeq(content, at + 1, at + Len(lines)) = lines

\* The lines of context are where the hunk has them; lines to remove are not compared.
HunkFits(content, patch) ==
  LET gone == patch.at + Len(patch.before) + Len(patch.gone)
  IN  /\ HasAt(content, patch.before, patch.at)
      /\ gone <= Len(content)
      /\ HasAt(content, patch.after, gone)

Patched(content, patch) ==
  SubSeq(content, 1, patch.at) \o patch.before \o patch.added \o
  After(content, patch.at + Len(patch.before) + Len(patch.gone))

\* A hunk that does not fit is looked for elsewhere: where it is found, the characters
\* of a line take the place of its lines.
Guessed(content, patch) ==
  LET sought == patch.before \o patch.gone \o patch.after
      places == {at \in 0..Len(content) : HasAt(content, sought, at)}
  IN  IF sought = <<>> \/ places = {} THEN content
      ELSE SubSeq(content, 1, Min(places)) \o <<Char>> \o
           After(content, Min(places) + Len(sought))

Apply(content, patch) ==
  IF HunkFits(content, patch) THEN Patched(content, patch) ELSE Guessed(content, patch)

--------------------------------------------------------------------------------
(* What a file of a context says                                               *)

BaseContent(file) == IF Known(file.base) THEN file.base ELSE Written(disk)

Content(file) ==
  IF Known(file.content) THEN file.content
  ELSE IF Known(file.patch) THEN Apply(BaseContent(file), file.patch)
  ELSE BaseContent(file)

\* The file once its content has been asked for.
Cached(file) ==
  IF Known(file.content) THEN file
  ELSE [file EXCEPT !.base = BaseContent(file), !.content = Content(file)]

\* (Mutant: a clone forgets the changes.)
Clone_Unpatched(file) == IF Known(file) THEN FileOf(None) ELSE None

\* A file is cloned, and stored, without its caches.
Clone(file) == IF Known(file) THEN FileOf(file.patch) ELSE None

\* What get_context_file returns.
ContextFile(file) ==
  IF Known(file) THEN file ELSE IF Known(disk) THEN FileOf(None) ELSE None

\* The context a node works in: one that no other was cloned from, and that has not failed.
AtWork(c) ==
  /\ c \in DOMAIN contexts /\ ~contexts[c].failed
  /\ \A d \in DOMAIN contexts : contexts[d].parent # c

--------------------------------------------------------------------------------

FileInit ==
  /\ storing \in Storing
  /\ disk \in Originals
  /\ contexts = <<[parent |-> 0, file |-> None, own |-> disk, failed |-> FALSE]>>
  /\ edits = 0

\* A child of a node starts with a clone of its context.  An agent that writes to the
\* working tree works in a loop, an agent in shadow mode in a tree as well.
CreateChild(c) ==
  /\ c \in DOMAIN contexts /\ ~contexts[c].failed /\ Len(contexts) < MaxContexts
  /\ storing # "shadow" => c = Len(contexts)
  /\ contexts' = Append(contexts, [contexts[c] EXCEPT !.parent = c, !.file = Clone(@)])
  /\ UNCHANGED <<storing, disk, edits>>

\* A node is reset: it works again on a clone of its parent's context.
Reset(c) ==
  /\ AtWork(c) /\ c > 1 /\ storing = "shadow"
  /\ contexts' = [contexts EXCEPT ![c].file = Clone(contexts[contexts[c].parent].file),
                                  ![c].own = contexts[contexts[c].parent].own]
  /\ UNCHANGED <<storing, disk, edits>>

\* The trajectory is read from its storage, after the process was started again.
Reload ==
  /\ contexts' = [c \in DOMAIN contexts |->
                    [contexts[c] EXCEPT !.file = Clone(@)]]
  /\ UNCHANGED <<storing, disk, edits>>

\* ViewCode: the file becomes one of the context, and is read.
ViewCode(c) ==
  /\ AtWork(c)
  /\ LET file == ContextFile(contexts[c].file)
     IN  Known(file) /\ contexts' = [contexts EXCEPT ![c].file = Cached(file)]
  /\ UNCHANGED <<storing, disk, edits>>

\* (Mutant: the patch only has the changes of this edit.)
NewPatch_LastEdit(file, updated) == Difference(Content(file), updated)

\* The patch from what the repository held.
NewPatch(file, updated) == Difference(BaseContent(file), updated)

\* apply_changes.  An empty file cannot be saved: the node fails with its patch made.
\* The caches go unless nothing changed, and the file is read to describe the change.
ApplyChanges(c, file, updated) ==
  LET patch == NewPatch(file, updated)
      changed == [file EXCEPT !.base = BaseContent(file), !.patch = patch,
                              !.content = IF Known(patch) THEN None ELSE updated]
      unsaved == [file EXCEPT !.base = BaseContent(file), !.patch = patch]
  IN  /\ edits < MaxEdits /\ edits' = edits + 1 /\ Len(updated) <= MaxLines
      /\ IF storing # "shadow" /\ updated = <<>>
         THEN /\ contexts' = [contexts EXCEPT ![c].file = unsaved, ![c].failed = TRUE]
              /\ UNCHANGED disk
         ELSE /\ contexts' = [contexts EXCEPT ![c].file = Cached(changed), ![c].own = updated]
              /\ disk' = IF storing = "shadow" THEN disk ELSE updated
      /\ UNCHANGED storing

\* An action edits a file that is there.
CanEdit(c) == AtWork(c) /\ Known(ContextFile(contexts[c].file))

Edit(c, updated) == ApplyChanges(c, Cached(ContextFile(contexts[c].file)), updated)

\* What lines that are found become: another line, or none.
Replacements == {<<>>} \cup {<<line>> : line \in Lines}

\* A text with another in the place of some of its lines.
Rewritten(content, i, j, text) == SubSeq(content, 1, i - 1) \o text \o After(content, j)

\* StringReplace: some lines, found once or once where they are visible.
Replaced(content) ==
  (UNION {{Rewritten(content, i, j, text) : j \in i..Len(content), text \in Replacements} :
          i \in 1..Len(content)}) \ {content}

StringReplace(c) ==
  /\ CanEdit(c)
  /\ \E updated \in Replaced(Content(ContextFile(contexts[c].file))) : Edit(c, updated)

\* InsertLine, at a line that is visible, and AppendString at the end.
Inserted(content) ==
  {SubSeq(content, 1, i) \o <<line>> \o After(content, i) : i \in 0..Len(content), line \in Lines}

InsertLine(c) ==
  /\ CanEdit(c)
  /\ \E updated \in Inserted(Content(ContextFile(contexts[c].file))) : Edit(c, updated)

\* CreateFile.
CreateFile(c, line) ==
  /\ AtWork(c) /\ ~Known(contexts[c].file) /\ ~Known(disk)
  /\ ApplyChanges(c, FileOf(None), <<line>>)

\* CleanupContext: the file leaves the context, and its changes with it.
CleanupContext(c) ==
  /\ AtWork(c) /\ Known(contexts[c].file)
  /\ contexts' = [contexts EXCEPT ![c].file = None, ![c].own = disk]
  /\ UNCHANGED <<storing, disk, edits>>

FileNext ==
  \/ \E c \in 1..MaxContexts :
       \/ CreateChild(c) \/ Reset(c) \/ ViewCode(c) \/ StringReplace(c) \/ InsertLine(c)
       \/ CleanupContext(c)
       \/ \E line \in Lines : CreateFile(c, line)
  \/ Reload

FileSpec == FileInit /\ [][FileNext]_fileVars

--------------------------------------------------------------------------------
(* Properties                                                                  *)

FileTypeOK ==
  /\ storing \in Storing
  /\ edits \in 0..MaxEdits
  /\ Len(contexts) \in 1..MaxContexts
  /\ \A c \in DOMAIN contexts :
       /\ contexts[c].parent \in 0..c - 1
       /\ Known(contexts[c].file) =>
            /\ contexts[c].file.patch \in Patch \cup {None}
            /\ Known(contexts[c].file.content) => Known(contexts[c].file.base)

\* What the file of a context says, now or once its caches are gone.
Says(file) == {Content(file), Content(Clone(file))}

\* The last context, where an agent that writes to the working tree works.
AtEnd == contexts[Len(contexts)].file

\* A patch that leaves the first line and the last one.
Inside(patch) == patch.before # <<>> /\ patch.after # <<>>

\* What a node reads is what was written.  In shadow mode a context says what was written
\* in it, or in those it descends from, whatever other nodes write, whatever is cached,
\* and when it is read again.  Otherwise the last context says what the working tree
\* holds, although the patch of a clone is applied to a tree that has its changes
\* already: that does no harm to lines that differ from each other, inside of the file.
EditsAreSeen ==
  /\ storing = "shadow" =>
       \A c \in DOMAIN contexts :
         LET file == ContextFile(contexts[c].file)
         IN  Known(file) => Says(file) = {Written(contexts[c].own)}
  /\ /\ storing = "files" /\ IsInjective(Written(disk))
     /\ Known(AtEnd) /\ (Known(AtEnd.patch) => Inside(AtEnd.patch))
     => Says(AtEnd) = {Written(disk)}
================================================================================
