------------------------------- MODULE RepoClones ------------------------------
(***************************************************************************)
(* The repositories of the instances of SWE-bench                          *)
(* (benchmark/swebench/utils.py, utils/repo.py, repository/git.py): each   *)
(* instance has a copy of its repository at its base commit, which is      *)
(* cloned from a clone that the instances share, or over the network.      *)
(* Callers are coroutines and processes; every git command takes its time, *)
(* may fail or be cut off, and no lock covers a call as a whole.           *)
(***************************************************************************)
EXTENDS Integers, FiniteSets

CONSTANTS
  RepoCallers,
  Instances,  \* instances of one repository
  Shared,     \* the path of the clone that they share
  Absent,     \* no directory, nobody
  MaxCreates, \* bound: calls
  MaxFaults   \* bound: commands that fail without reason, and processes that are killed

ASSUME RepoAssumption ==
  /\ Shared \notin Instances /\ Absent \notin Instances \cup RepoCallers \cup {Shared}
  /\ MaxCreates \in Nat /\ MaxFaults \in Nat

Paths == Instances \cup {Shared}

MaxAttempts == 3 \* of a clone whose connection breaks

VARIABLES
  dirs,     \* the directory at each path: the call that made it, what git has there
  gits,     \* the clones that git is making
  locked,   \* who holds the file lock of the shared clone
  creator,  \* what each caller is at
  creates,  \* how many calls were made so far
  returned, \* the calls that have returned a repository
  killed,   \* whether a process was killed
  faults    \* faults so far

repoVars == <<dirs, gits, locked, creator, creates, returned, killed, faults>>

\* head, has and unfinished describe the copy that is handed out.
Uncalled == [at |-> "idle", style |-> "async", instance |-> Absent, call |-> 0, tries |-> 0,
            head |-> "none", has |-> "nothing", unfinished |-> FALSE]

Goes(c, at) == creator' = [creator EXCEPT ![c].at = at]

\* The call raises.
Fails(c) == creator' = [creator EXCEPT ![c] = Uncalled]

\* Whether git finds the base commit there.
HasBase(path) == dirs[path] # Absent /\ dirs[path].has = "all"

\* shutil.rmtree
Removed(path) == [dirs EXCEPT ![path] = Absent]

\* A command that has no reason to fail may, but seldom.
Fault == faults < MaxFaults /\ faults' = faults + 1

FailsUnless(ok) == IF ok THEN Fault ELSE UNCHANGED faults

--------------------------------------------------------------------------------
(* A call, and what it finds                                                   *)

\* create_repository, with use_local_repo or not, and create_repository_async.
CallCreate(c, i, style) ==
  /\ creator[c].at \in {"idle", "has"} /\ creates < MaxCreates
  /\ creates' = creates + 1
  /\ creator' = [creator EXCEPT ![c] = [Uncalled EXCEPT !.at = "find", !.style = style,
                                                      !.instance = i, !.call = creates + 1]]
  /\ UNCHANGED <<dirs, gits, locked, returned, killed, faults>>

\* Where a call without a copy goes on.
Source(style) ==
  IF style = "async" THEN "shared" ELSE IF style = "local" THEN "lock" ELSE "copy"

FindCopy(c) ==
  /\ creator[c].at = "find"
  /\ Goes(c, IF dirs[creator[c].instance] = Absent THEN Source(creator[c].style) ELSE "verify")
  /\ UNCHANGED <<dirs, gits, locked, creates, returned, killed, faults>>

\* GitRepository(repo_path): what is handed out is what is there.
HandOut(c, directory) ==
  /\ creator' = [creator EXCEPT ![c] =
       [Uncalled EXCEPT !.at = "has", !.head = directory.head, !.has = directory.has,
                        !.unfinished = directory.call \notin returned \cup {creator[c].call}]]
  /\ returned' = returned \cup {creator[c].call}

\* (Mutant: a copy that is there is not verified.)
VerifyCopy_Not(c) ==
  /\ creator[c].at = "verify" /\ dirs[creator[c].instance] # Absent
  /\ HandOut(c, dirs[creator[c].instance])
  /\ UNCHANGED <<dirs, gits, locked, creates, killed, faults>>

\* A copy that has the base commit is handed out as it is, whatever is checked out. One
\* that has not is removed; when another call was faster, that raises.
VerifyCopy(c) ==
  /\ creator[c].at = "verify"
  /\ LET i == creator[c].instance
     IN  \/ HasBase(i) /\ HandOut(c, dirs[i]) /\ UNCHANGED <<dirs, faults>>
         \/ /\ dirs[i] # Absent /\ FailsUnless(HasBase(i))
            /\ dirs' = Removed(i) /\ Goes(c, Source(creator[c].style))
            /\ UNCHANGED returned
         \/ dirs[i] = Absent /\ Fails(c) /\ UNCHANGED <<dirs, faults, returned>>
  /\ UNCHANGED <<gits, locked, creates, killed>>

--------------------------------------------------------------------------------
(* git clone                                                                   *)

\* What a call does when its clone fails, given the directories that git leaves: an
\* asynchronous one removes what is there, another one leaves it. One that is not the first
\* gives up.
GivesUp(c, at, left) ==
  LET async == creator[c].style = "async"
      path == IF at = "clone shared" THEN Shared ELSE creator[c].instance
  IN  /\ dirs' = IF async THEN [left EXCEPT ![path] = Absent] ELSE left
      /\ IF at = "clone" /\ ~async THEN Goes(c, "second try") ELSE Fails(c)
      /\ locked' = IF locked = c THEN Absent ELSE locked

\* After a broken connection it may be tried again.
TriesAgain(c, left) ==
  LET me == creator[c]
  IN  /\ me.at = (IF me.style = "async" THEN "clone" ELSE "clone shared")
      /\ me.tries + 1 < MaxAttempts
      /\ dirs' = left
      /\ creator' = [creator EXCEPT ![c].tries = @ + 1,
                       ![c].at = IF @ = "clone" THEN "copy again" ELSE "shared again"]
      /\ UNCHANGED locked

\* Another command of the call fails; that its directory is not there is no error of git.
CommandFails(c) ==
  IF creator[c].style # "async" /\ dirs[creator[c].instance] = Absent
  THEN Fails(c) /\ UNCHANGED <<dirs, locked>>
  ELSE GivesUp(c, "clone", dirs)

\* git begins to clone where nothing is; otherwise it refuses.
BeginClone(c, at, path, from, has) ==
  IF dirs[path] # Absent THEN GivesUp(c, at, dirs) /\ UNCHANGED gits
  ELSE /\ dirs' = [dirs EXCEPT ![path] = [call |-> creator[c].call, has |-> "nothing",
                                          head |-> "none"]]
       /\ gits' = gits \cup {[by |-> c, call |-> creator[c].call, path |-> path, from |-> from,
                              has |-> has]}
       /\ Goes(c, at)
       /\ locked' = IF at = "clone shared" /\ creator[c].style = "local" THEN c ELSE locked

Own(g) == dirs[g.path] # Absent /\ dirs[g.path].call = g.call

Clonable(g) == Own(g) /\ (g.from = Shared => HasBase(Shared))

AwaitedBy(g, c) ==
  c = g.by /\ creator[c].call = g.call /\ creator[c].at \in {"clone shared", "clone", "clone all"}

\* Where a call goes on after its clone.
AfterClone(me) ==
  IF me.at = "clone shared" THEN (IF me.style = "async" THEN "fetch shared" ELSE "copy")
  ELSE IF me.at = "clone" THEN "fetch" ELSE "check out found"

\* A clone has the tip checked out; that of a clone which has nothing yet has nothing.
GitEnds(g) ==
  /\ Own(g) /\ (g.from = Shared => dirs[Shared] # Absent)
  /\ dirs' = [dirs EXCEPT ![g.path].has = IF Clonable(g) THEN g.has ELSE "nothing",
                          ![g.path].head = IF Clonable(g) THEN "tip" ELSE "none"]
  /\ gits' = gits \ {g}
  /\ IF AwaitedBy(g, g.by)
     THEN /\ creator' = [creator EXCEPT ![g.by].at = AfterClone(creator[g.by]), ![g.by].tries = 0]
          /\ locked' = IF locked = g.by THEN Absent ELSE locked
     ELSE UNCHANGED <<creator, locked>>
  /\ UNCHANGED <<creates, returned, killed, faults>>

\* Its directory is not there, what it clones is not whole, or the connection breaks: git
\* removes what it has made.
GitFails(g) ==
  /\ FailsUnless(Clonable(g))
  /\ gits' = gits \ {g}
  /\ LET left == IF Own(g) THEN Removed(g.path) ELSE dirs
     IN  IF AwaitedBy(g, g.by)
         THEN GivesUp(g.by, creator[g.by].at, left) \/ TriesAgain(g.by, left)
         ELSE dirs' = left /\ UNCHANGED <<creator, locked>>
  /\ UNCHANGED <<creates, returned, killed>>

\* run_git_command kills git after five minutes; the timer around the shared clone, which
\* is set before, only forgets it.
TimeOut(c) ==
  /\ creator[c].style = "async" /\ creator[c].at \in {"clone shared", "clone"} /\ Fault
  /\ gits' = IF creator[c].at = "clone" THEN {g \in gits : ~AwaitedBy(g, c)} ELSE gits
  /\ GivesUp(c, creator[c].at, dirs)
  /\ UNCHANGED <<creates, returned, killed>>

--------------------------------------------------------------------------------
(* The clone that is shared                                                    *)

\* An asynchronous call looks whether it is there.
FindShared(c) ==
  /\ creator[c].at = "shared"
  /\ IF dirs[Shared] = Absent THEN BeginClone(c, "clone shared", Shared, Absent, "all")
     ELSE Goes(c, "fetch shared") /\ UNCHANGED <<dirs, gits, locked>>
  /\ UNCHANGED <<creates, returned, killed, faults>>

\* git fetch --all: one that is not whole may become so; when it fails it is removed, and
\* removing what is not there raises as well.
FetchShared(c) ==
  /\ creator[c].at = "fetch shared"
  /\ \/ /\ dirs[Shared] # Absent /\ dirs' = [dirs EXCEPT ![Shared].has = "all"]
        /\ Goes(c, "copy") /\ UNCHANGED faults
     \/ FailsUnless(HasBase(Shared)) /\ dirs' = Removed(Shared) /\ Fails(c)
  /\ UNCHANGED <<gits, locked, creates, returned, killed>>

\* Another one takes the lock to look whether it is there.
LockShared(c) ==
  /\ creator[c].at = "lock" /\ locked = Absent
  /\ IF dirs[Shared] = Absent THEN BeginClone(c, "clone shared", Shared, Absent, "all")
     ELSE Goes(c, "copy") /\ UNCHANGED <<dirs, gits, locked>>
  /\ UNCHANGED <<creates, returned, killed, faults>>

\* retry_clone
CloneSharedAgain(c) ==
  /\ creator[c].at = "shared again"
  /\ BeginClone(c, "clone shared", Shared, Absent, "all")
  /\ UNCHANGED <<creates, returned, killed, faults>>

--------------------------------------------------------------------------------
(* The copy of the instance                                                    *)

From(c) == IF creator[c].style = "network" THEN Absent ELSE Shared

\* A copy may have appeared; without one it is cloned, by a synchronous call with its tip
\* only.
CloneCopy(c) ==
  /\ creator[c].at \in {"copy", "copy again"}
  /\ IF creator[c].at = "copy" /\ dirs[creator[c].instance] # Absent
     THEN Goes(c, "verify again") /\ UNCHANGED <<dirs, gits, locked>>
     ELSE BeginClone(c, "clone", creator[c].instance, From(c),
                     IF creator[c].style = "async" THEN "all" ELSE "tip")
  /\ UNCHANGED <<creates, returned, killed, faults>>

\* verify_commit_exists: a copy without the commit is removed and cloned.
VerifyAgain(c) ==
  /\ creator[c].at = "verify again"
  /\ LET i == creator[c].instance
     IN  \/ HasBase(i) /\ Goes(c, "check out found") /\ UNCHANGED <<dirs, faults>>
         \/ /\ FailsUnless(HasBase(i))
            /\ dirs' = Removed(i) /\ Goes(c, "copy again")
  /\ UNCHANGED <<gits, locked, creates, returned, killed>>

\* git fetch origin <commit>
FetchBase(c) ==
  /\ creator[c].at = "fetch"
  /\ LET i == creator[c].instance
         ok == dirs[i] # Absent /\ dirs[i].has # "nothing" /\ (From(c) = Shared => HasBase(Shared))
     IN  \/ /\ ok /\ dirs' = [dirs EXCEPT ![i].has = "all"] /\ Goes(c, "check out")
            /\ UNCHANGED <<locked, faults>>
         \/ FailsUnless(ok) /\ CommandFails(c)
  /\ UNCHANGED <<gits, creates, returned, killed>>

\* The second try of clone_and_checkout: a copy with the commit will do, otherwise
\* everything is cloned.
SecondTry(c) ==
  /\ creator[c].at = "second try"
  /\ IF HasBase(creator[c].instance)
     THEN Goes(c, "check out found") /\ UNCHANGED <<dirs, gits, locked>>
     ELSE BeginClone(c, "clone all", creator[c].instance, From(c), "all")
  /\ UNCHANGED <<creates, returned, killed, faults>>

\* git checkout <commit>
CheckOut(c) ==
  /\ creator[c].at \in {"check out", "check out found"}
  /\ LET i == creator[c].instance
     IN  \/ /\ HasBase(i) /\ dirs' = [dirs EXCEPT ![i].head = "base"] /\ Goes(c, "open")
            /\ UNCHANGED <<locked, faults>>
         \/ /\ FailsUnless(HasBase(i))
            /\ IF creator[c].at = "check out" THEN CommandFails(c)
               ELSE Fails(c) /\ UNCHANGED <<dirs, locked>>
  /\ UNCHANGED <<gits, creates, returned, killed>>

\* GitRepository(repo_path, commit) checks it out once more.
OpenCopy(c) ==
  /\ creator[c].at = "open"
  /\ LET i == creator[c].instance
     IN  \/ /\ HasBase(i)
            /\ HandOut(c, [dirs[i] EXCEPT !.head = "base"])
            /\ dirs' = [dirs EXCEPT ![i].head = "base"]
            /\ UNCHANGED <<locked, faults>>
         \/ FailsUnless(HasBase(i)) /\ GivesUp(c, "clone all", dirs) /\ UNCHANGED returned
  /\ UNCHANGED <<gits, creates, killed>>

\* The process of a call dies; git may go on without it.
KillCaller(c) ==
  /\ creator[c].at \notin {"idle", "has"} /\ Fault
  /\ creator' = [creator EXCEPT ![c] = Uncalled]
  /\ gits' \in {gits, {g \in gits : ~AwaitedBy(g, c)}}
  /\ locked' = IF locked = c THEN Absent ELSE locked
  /\ killed' = TRUE
  /\ UNCHANGED <<dirs, creates, returned>>

--------------------------------------------------------------------------------

RepoInit ==
  /\ dirs = [p \in Paths |-> Absent]
  /\ gits = {} /\ locked = Absent
  /\ creator = [c \in RepoCallers |-> Uncalled]
  /\ creates = 0 /\ returned = {} /\ killed = FALSE /\ faults = 0

RepoNext ==
  \/ \E c \in RepoCallers :
       \/ \E i \in Instances, style \in {"async", "local", "network"} : CallCreate(c, i, style)
       \/ FindCopy(c) \/ VerifyCopy(c) \/ TimeOut(c)
       \/ FindShared(c) \/ FetchShared(c) \/ LockShared(c) \/ CloneSharedAgain(c)
       \/ CloneCopy(c) \/ VerifyAgain(c) \/ FetchBase(c) \/ SecondTry(c) \/ CheckOut(c)
       \/ OpenCopy(c) \/ KillCaller(c)
  \/ \E g \in gits : GitEnds(g) \/ GitFails(g)

RepoSpec == RepoInit /\ [][RepoNext]_repoVars

RepoTypeOK ==
  /\ \A p \in Paths : dirs[p] # Absent =>
       /\ dirs[p].call \in 1..creates
       /\ dirs[p].has \in {"nothing", "tip", "all"} /\ dirs[p].head \in {"none", "tip", "base"}
  /\ locked \in RepoCallers \cup {Absent}
  /\ returned \subseteq 1..creates
  /\ faults \in 0..MaxFaults

--------------------------------------------------------------------------------
(* What is handed out                                                          *)

\* A repository that is handed out has the base commit, and it is checked out, unless the
\* copy was found while another call was still making it, or had failed to
\* (create_repository, create_repository_async: nothing is locked from the search for the
\* copy to the end). The shared clone that is left, when all calls have ended, is whole or
\* was left by a process that was killed.
RepositoryIsReady ==
  /\ \A c \in RepoCallers :
       creator[c].at = "has" =>
         creator[c].has = "all" /\ (creator[c].head = "base" \/ creator[c].unfinished)
  /\ (\A c \in RepoCallers : creator[c].at \in {"idle", "has"}) /\ gits = {} /\ ~killed =>
       dirs[Shared] = Absent \/ HasBase(Shared)
================================================================================
