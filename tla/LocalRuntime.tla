----------------------------- MODULE LocalRuntime ------------------------------
(***************************************************************************)
(* The runtime of a repository instance (runtime/local.py): commands, test *)
(* runs and evaluations in one working tree, each with a patch that is put *)
(* in before and taken out after.  The flow of a job makes them one after  *)
(* the other; any command may raise, and the job may be canceled.  What a  *)
(* file holds is its version: that of the base commit, none, or the one a  *)
(* patch makes of it.  Commands and tests themselves change no file that   *)
(* git knows of.                                                           *)
(***************************************************************************)
EXTENDS Integers, FiniteSets

CONSTANTS
  Files, Tracked,     \* the files that matter, those of the base commit
  Protected,          \* setup.py and the like, which the image may have prepared
  Patches, NoPatch,   \* patches that are asked for
  Hunks,              \* what each patch makes of the files it names: [from, to]
  TestPatches,        \* what the test patch of an instance may be, likewise
  MaxTestFiles        \* bound on the test files of a call

ASSUME RuntimeAssumption ==
  /\ Protected \subseteq Tracked /\ Tracked \subseteq Files
  /\ NoPatch \notin Patches /\ MaxTestFiles \in Nat \ {0}
  /\ \A p \in Patches : DOMAIN Hunks[p] \subseteq Files
  /\ \A t \in TestPatches : \A f \in DOMAIN t : \* made of the base commit
       f \in Files /\ t[f].from = IF f \in Tracked THEN "base" ELSE "none"

VARIABLES
  tree,        \* the version of each file
  rejects,     \* patch(1) has left rejected hunks
  temp,        \* temp_patch.diff is in the tree
  hidden,      \* the repository's .gitignore covers it
  testPatch,   \* the test patch of the instance
  install,     \* the installation that the constructor has started
  call,        \* the call under way
  applied,     \* what _apply_patch has returned last
  pristine, spoiled \* history: the first tree, and whether a call has left something in
                    \* it for later calls in a way that is known

runtimeVars ==
  <<tree, rejects, temp, hidden, testPatch, install, call, applied, pristine, spoiled>>

NoCall == [op |-> "none", patch |-> NoPatch, at |-> "idle", tests |-> 0, todo |-> {}]

RuntimeInit ==
  /\ \E prepared \in SUBSET Protected :
       tree = [f \in Files |-> IF f \in prepared THEN "prepared"
                               ELSE IF f \in Tracked THEN "base" ELSE "none"]
  /\ rejects = FALSE /\ temp = FALSE /\ hidden \in BOOLEAN
  /\ testPatch \in TestPatches
  /\ install \in {"running", "over"}
  /\ call = NoCall /\ applied = FALSE
  /\ pristine = tree /\ spoiled = FALSE

--------------------------------------------------------------------------------
(* What git and patch do                                                       *)

Matches(t, hunks) == \A f \in DOMAIN hunks : t[f] = hunks[f].from

With(t, hunks) == [f \in Files |-> IF f \in DOMAIN hunks THEN hunks[f].to ELSE t[f]]

\* git apply puts in all or nothing.
GitApplied(t, hunks) == IF Matches(t, hunks) THEN With(t, hunks) ELSE t

\* patch --batch puts in what matches, takes out what is there already, and rejects the
\* rest.
Rejected(t, hunks) == {f \in DOMAIN hunks : t[f] \notin {hunks[f].from, hunks[f].to}}

BatchPatched(t, hunks) ==
  [f \in Files |-> IF f \notin DOMAIN hunks \/ f \in Rejected(t, hunks) THEN t[f]
                   ELSE IF t[f] = hunks[f].from THEN hunks[f].to ELSE hunks[f].from]

TakenOut(t, hunks) == {f \in DOMAIN hunks : t[f] = hunks[f].to /\ t[f] # hunks[f].from}

CheckedOut(t, files) == [f \in Files |-> IF f \in files THEN "base" ELSE t[f]]

\* Both git diff and git ls-files --others are empty where this is false.
LooksChanged ==
  \/ \E f \in Tracked : tree[f] # "base"
  \/ \E f \in Files \ Tracked : tree[f] # "none"
  \/ rejects \/ (temp /\ ~hidden)

--------------------------------------------------------------------------------
(* The steps of a call                                                         *)

Hunk == Hunks[call.patch]

FilesExist == \A f \in DOMAIN Hunk : Hunk[f].to # "none" => tree[f] # "none"

ModifiedFiles(p) ==
  IF p = NoPatch THEN {} ELSE {f \in DOMAIN Hunks[p] : Hunks[p][f].from # "none"} \ Protected

Reach(place) == call' = [call EXCEPT !.at = place]

Over == call' = NoCall

\* The files a patch adds and the protected ones are nobody's to reset.
Lasting(hunks) == \E f \in DOMAIN hunks : hunks[f].from = "none" \/ f \in Protected

BeginCall(op, p, n) ==
  /\ call = NoCall
  /\ op = "evaluate" => p # NoPatch
  /\ call' = [op |-> op, patch |-> p, tests |-> n, todo |-> {},
              at |-> IF install = "running" THEN "wait"
                     ELSE IF p = NoPatch THEN "command" ELSE "apply"]
  /\ UNCHANGED <<tree, rejects, temp, hidden, testPatch, install, applied, pristine, spoiled>>

\* The installation ends, whether or not it has succeeded; one that raises fails the call
\* that waits for it, and only that one.
InstallEnds(raises) ==
  /\ install = "running" /\ install' = "over"
  /\ IF call.at # "wait" THEN UNCHANGED call
     ELSE IF raises THEN Over
     ELSE Reach(IF call.patch = NoPatch THEN "command" ELSE "apply")
  /\ UNCHANGED <<tree, rejects, temp, hidden, testPatch, applied, pristine, spoiled>>

ApplyPatch ==
  /\ call.at = "apply"
  /\ temp' = TRUE /\ tree' = GitApplied(tree, Hunk)
  /\ spoiled' = (spoiled \/ Lasting(Hunk))
  /\ Reach("inspect")
  /\ UNCHANGED <<rejects, hidden, testPatch, install, applied, pristine>>

\* execute goes on whatever the answer is; the others give up, and leave the tree as it is.
Conclude(ok) ==
  /\ applied' = ok /\ temp' = FALSE
  /\ IF ok \/ call.op = "execute" THEN Reach("command") /\ UNCHANGED spoiled
     ELSE Over /\ spoiled' = TRUE

InspectTree ==
  /\ call.at = "inspect"
  /\ IF LooksChanged THEN Conclude(FilesExist)
     ELSE Reach("patch") /\ UNCHANGED <<applied, temp, spoiled>>
  /\ UNCHANGED <<tree, rejects, hidden, testPatch, install, pristine>>

PatchCommand ==
  /\ call.at = "patch"
  /\ tree' = BatchPatched(tree, Hunk)
  /\ rejects' = (rejects \/ Rejected(tree, Hunk) # {})
  /\ IF Rejected(tree, Hunk) = {}
     THEN /\ Reach("inspect again") /\ UNCHANGED <<applied, temp>>
          /\ spoiled' = (spoiled \/ TakenOut(tree, Hunk) # {})
     ELSE /\ applied' = FALSE /\ temp' = FALSE /\ spoiled' = TRUE
          /\ IF call.op = "execute" THEN Reach("command") ELSE Over
  /\ UNCHANGED <<hidden, testPatch, install, pristine>>

InspectAgain ==
  /\ call.at = "inspect again"
  /\ Conclude(LooksChanged /\ FilesExist)
  /\ UNCHANGED <<tree, rejects, hidden, testPatch, install, pristine>>

\* What is to be reset once the last command of a call has ended.
Leave ==
  IF call.patch = NoPatch THEN Over
  ELSE call' = [call EXCEPT !.at = "reset", !.todo = ModifiedFiles(call.patch)]

\* A command or the tests of a file; one that takes too long is killed with all of its
\* process group, and the call goes on.
RunCommand ==
  /\ call.at = "command" /\ call.op \in {"execute", "tests"}
  /\ IF call.tests > 1 THEN call' = [call EXCEPT !.tests = @ - 1] ELSE Leave
  /\ UNCHANGED <<tree, rejects, temp, hidden, testPatch, install, applied, pristine, spoiled>>

\* The evaluation script: its tests are put to their base version, changed by the test
\* patch, run, and put back.
OldTests == {f \in DOMAIN testPatch : testPatch[f].from # "none"}

Evaluate ==
  /\ call.at = "command" /\ call.op = "evaluate"
  /\ LET tested == GitApplied(CheckedOut(tree, OldTests), testPatch)
     IN  tree' = CheckedOut(tested, OldTests)
  /\ spoiled' = (spoiled \/ Lasting(testPatch))
  /\ Leave
  /\ UNCHANGED <<rejects, temp, hidden, testPatch, install, applied, pristine>>

ResetFile(f) ==
  /\ call.at = "reset" /\ f \in call.todo
  /\ call' = [call EXCEPT !.todo = @ \ {f}]
  /\ IF f \in Tracked THEN tree' = CheckedOut(tree, {f}) /\ UNCHANGED rejects
     ELSE \* there is nothing to check out: untracked files in its directory are removed
       \E gone \in SUBSET (Files \ Tracked) :
         /\ f \in gone
         /\ tree' = [g \in Files |-> IF g \in gone THEN "none" ELSE tree[g]]
         /\ rejects' \in {FALSE, rejects}
  /\ UNCHANGED <<temp, hidden, testPatch, install, applied, pristine, spoiled>>

ResetEnds ==
  /\ call.at = "reset" /\ call.todo = {} /\ Over
  /\ UNCHANGED <<tree, rejects, temp, hidden, testPatch, install, applied, pristine, spoiled>>

\* (Mutant: execute resets where it returns, and not where it raises.)
ResetsAfterError_Never == FALSE

\* The finally clause of execute, which the other calls do not have.
ResetsAfterError == call.op = "execute" /\ call.patch # NoPatch

\* A command raises, its output cannot be decoded, a log cannot be parsed or saved, or the
\* job is canceled: temp_patch.diff is removed in any case.
CutShort ==
  /\ call.at \notin {"idle", "wait"} /\ temp' = FALSE
  /\ IF ResetsAfterError /\ call.at # "reset" THEN Leave ELSE Over
  /\ spoiled' = (spoiled \/ call.op # "execute" \/ call.at = "reset")
  /\ UNCHANGED <<tree, rejects, hidden, testPatch, install, applied, pristine>>

\* Canceled while it waits, a call cancels the installation that it awaits.
CanceledWaiting ==
  /\ call.at = "wait" /\ Over /\ install' = "over"
  /\ UNCHANGED <<tree, rejects, temp, hidden, testPatch, applied, pristine, spoiled>>

\* Another job of the instance, in the same tree.
NewEnvironment ==
  /\ call = NoCall /\ install = "over" /\ install' = "running"
  /\ UNCHANGED <<tree, rejects, temp, hidden, testPatch, call, applied, pristine, spoiled>>

RuntimeNext ==
  \/ \E op \in {"execute", "evaluate"}, p \in Patches \cup {NoPatch} : BeginCall(op, p, 1)
  \/ \E p \in Patches \cup {NoPatch}, n \in 1..MaxTestFiles : BeginCall("tests", p, n)
  \/ \E raises \in BOOLEAN : InstallEnds(raises)
  \/ ApplyPatch \/ InspectTree \/ PatchCommand \/ InspectAgain
  \/ RunCommand \/ Evaluate
  \/ \E f \in Files : ResetFile(f)
  \/ ResetEnds \/ CutShort \/ CanceledWaiting \/ NewEnvironment

RuntimeSpec == RuntimeInit /\ [][RuntimeNext]_runtimeVars

--------------------------------------------------------------------------------
(* Properties                                                                  *)

VersionsIn(hunks) == {hunks[f].from : f \in DOMAIN hunks} \cup {hunks[f].to : f \in DOMAIN hunks}

Versions == {"base", "none", "prepared"} \cup VersionsIn(testPatch)
              \cup (UNION {VersionsIn(Hunks[p]) : p \in Patches})

RuntimeTypeOK ==
  /\ tree \in [Files -> Versions]
  /\ install \in {"running", "over"}
  /\ call.at \in {"idle", "wait", "apply", "inspect", "patch", "inspect again", "command", "reset"}
  /\ call.todo \subseteq Files /\ call.tests \in 0..MaxTestFiles
  /\ temp => call.at \in {"inspect", "patch", "inspect again"}
  /\ spoiled \in BOOLEAN

\* Calls follow each other in one tree, and one that fails is followed by others: each works
\* on the first tree with its own patch and no other, an evaluation can put its tests in,
\* and nothing remains, but for the ways in which the code leaves something behind: a file
\* that a patch adds, a change to a protected file, a patch that is refused or rejected in
\* part, one that patch takes out because the tree has it already, and a test run or an
\* evaluation that is cut short.
CallsAreSeparate ==
  ~spoiled =>
    /\ call = NoCall => tree = pristine
    /\ call.at = "command" =>
         tree = IF call.patch = NoPatch THEN pristine ELSE GitApplied(pristine, Hunk)
    /\ call.at = "command" /\ call.op = "evaluate" =>
         Matches(CheckedOut(tree, OldTests), testPatch)

\* "the patch was applied successfully" (runtime/local.py): the files it names are as the
\* patch makes them.
AppliedMeansApplied ==
  call.at = "command" /\ call.patch # NoPatch /\ applied =>
    \A f \in DOMAIN Hunk : tree[f] = Hunk[f].to
================================================================================
