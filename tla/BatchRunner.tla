------------------------------- MODULE BatchRunner -------------------------------
(***************************************************************************)
(* The two batch programs of the pipeline, main.py ("predict") with its    *)
(* Runner and train_make_main.py ("train") with its TrainRunner: a list of *)
(* commits is processed one by one, by one process or by several workers   *)
(* whose part files are merged, into a file that later invocations append  *)
(* to and resume from.                                                     *)
(*                                                                         *)
(* The processes may be killed at any point; what is on disk stays.  A     *)
(* line that was being written then is `open': it has no newline, and the  *)
(* next line written to the file continues it.                             *)
(***************************************************************************)
EXTENDS Integers, Sequences, SequencesExt, FiniteSets

CONSTANTS
  Data,     \* the data file: a sequence of distinct commit hashes, what the
            \* filters select
  Procs,    \* what --nproc may be
  Limits,   \* what --limit may be, 0: none
  Samples,  \* how many lines the train program writes for a commit
  MaxRuns   \* bound on the number of invocations

Hashes == ToSet(Data)

ASSUME BatchAssumption ==
  /\ Data \in Seq(Hashes) /\ IsInjective(Data)
  /\ Procs \subseteq Nat \ {0} /\ Limits \subseteq Nat
  /\ Samples \in Nat \ {0} /\ MaxRuns \in Nat

\* The process that works alone, or those of them that get a commit.
Workers == {1} \cup {w \in 1..Len(Data) : \E n \in Procs : w <= n}

VARIABLES
  driver,     \* which of the two programs is used on the output file
  output,     \* the output file
  part,       \* the part file of each worker
  bare,       \* the bare clone of the repository, shared by all processes
  sandboxes,  \* the commits whose worktree exists
  run,        \* the invocation: its options and how far it is
  worker,     \* the process that works through the data, or the workers
  runs,       \* how many invocations there have been
  written,    \* history: the lines that have been written whole
  glued,      \* history: those that a merge joined to an open line
  repeatable, \* history: commits that nothing keeps from being processed again
  leaked      \* history: commits whose process was killed with their worktree there

files == <<output, part>>
history == <<written, glued, repeatable, leaked>>
batchVars == <<driver, files, bare, sandboxes, run, worker, runs, history>>

\* A line of a file: sample n of a commit, or its error record (n = 0).  A line
\* that is not whole cannot be parsed.
Line == [hash : Hashes, n : 0..Samples, state : {"whole", "open", "garbled"}]

WholeLine(h, n) == [hash |-> h, n |-> n, state |-> "whole"]

BatchTypeOK ==
  /\ driver \in {"predict", "train"}
  /\ output \in Seq(Line)
  /\ part \in [Workers -> Seq(Line)]
  /\ bare \in {"none", "partial", "ready"}
  /\ sandboxes \subseteq Hashes
  /\ run \in [phase : {"none", "work", "merge", "remove", "finished"}, nproc : Procs \cup {1},
              limit : Limits \cup {0}, next : Nat, unharmed : BOOLEAN,
              failed : SUBSET Hashes]
  /\ worker \in [Workers -> [at : {"off", "item", "exists", "clone", "cloning", "worktree",
                                   "work", "write"},
                             todo : SUBSET Hashes, done : SUBSET Hashes,
                             processed : 0..Len(Data), failed : BOOLEAN]]
  /\ runs \in 0..MaxRuns
  /\ written \subseteq Line /\ glued \subseteq Line
  /\ repeatable \subseteq Hashes /\ leaked \subseteq Hashes

Off == [at |-> "off", todo |-> {}, done |-> {}, processed |-> 0, failed |-> FALSE]

NoRun == [phase |-> "none", nproc |-> 1, limit |-> 0, next |-> 0, unharmed |-> TRUE,
          failed |-> {}]

BatchInit ==
  /\ driver \in {"predict", "train"}
  /\ output = << >> /\ part = [w \in Workers |-> << >>]
  /\ bare = "none" /\ sandboxes = {}
  /\ run = NoRun
  /\ worker = [w \in Workers |-> Off]
  /\ runs = 0
  /\ written = {} /\ glued = {} /\ repeatable = {} /\ leaked = {}

--------------------------------------------------------------------------------
(* Files of lines                                                              *)

IsOpen(f) == f # << >> /\ Last(f).state = "open"

Whole(f) == {l \in ToSet(f) : l.state = "whole"}

\* Lines are appended as they are: the first one continues an open line.
Appended(f, lines) ==
  IF IsOpen(f) /\ lines # << >>
    THEN Front(f) \o <<[Last(f) EXCEPT !.state =
                          IF Head(lines).state = "open" THEN "open" ELSE "garbled"]>>
                  \o Tail(lines)
    ELSE f \o lines

\* (Mutant: the file is appended to as it is.)
NewlineEnsured_Not(f) == f

\* The check for a trailing newline before a process appends.
NewlineEnsured(f) ==
  IF IsOpen(f) THEN Front(f) \o <<[Last(f) EXCEPT !.state = "garbled"]>> ELSE f

\* (Mutant: an error record does not count.)
LoadDoneHashes_Results(f) == {l.hash : l \in {k \in Whole(f) : k.n # 0}}

\* _load_done_hashes: the commits of the lines that can be parsed, whatever
\* they say.
LoadDoneHashes(f) == {l.hash : l \in Whole(f)}

--------------------------------------------------------------------------------
(* main and _run_parallel                                                      *)

AtRest == run.phase \in {"none", "finished"}

\* A list of commits is the set of them, in the order of the data.
Position == [h \in Hashes |-> CHOOSE i \in 1..Len(Data) : Data[i] = h]

Foremost(hs) == CHOOSE h \in hs : \A g \in hs : Position[h] <= Position[g]

Rank(h, hs) == Cardinality({g \in hs : Position[g] <= Position[h]})

\* Round-robin sharding.
Shard(hs, n, w) == {h \in hs : (Rank(h, hs) - 1) % n = w - 1}

\* What the parent of the workers hands out: only the train program leaves out
\* what is done.
HandedOut(resume) ==
  IF driver = "train" /\ resume
    THEN Hashes \ LoadDoneHashes(output)
    ELSE Hashes

\* An invocation without workers: the process itself appends to the output file
\* and skips what is done.
InvokeSerial(resume) ==
  /\ worker' = [worker EXCEPT ![1] = [Off EXCEPT !.at = "item", !.todo = Hashes,
                  !.done = IF resume THEN LoadDoneHashes(output) ELSE {}]]
  /\ output' = NewlineEnsured(output)
  /\ repeatable' = repeatable \cup (IF resume THEN {} ELSE LoadDoneHashes(output))
  /\ UNCHANGED part

\* An invocation with n workers, each on its shard and with a part file of its
\* own, --no-resume and the same --limit.  A worker without commits is not
\* started.
InvokeParallel(n, resume) ==
  /\ LET hs == HandedOut(resume)
         busy == {w \in Workers : w <= n /\ Shard(hs, n, w) # {}}
     IN  /\ worker' = [w \in Workers |-> IF w \notin busy THEN Off
              ELSE [Off EXCEPT !.at = "item", !.todo = Shard(hs, n, w)]]
         /\ part' = [w \in Workers |->
              IF w \in busy THEN NewlineEnsured(part[w]) ELSE part[w]]
  /\ repeatable' = repeatable \cup
       (IF resume /\ driver = "train" THEN {} ELSE LoadDoneHashes(output))
  /\ UNCHANGED output

Invoke ==
  /\ AtRest /\ runs < MaxRuns
  /\ runs' = runs + 1
  /\ \E n \in Procs, l \in Limits, resume \in BOOLEAN :
       /\ run' = [NoRun EXCEPT !.phase = "work", !.nproc = n, !.limit = l, !.next = 1]
       /\ IF n = 1 THEN InvokeSerial(resume) ELSE InvokeParallel(n, resume)
  /\ UNCHANGED <<driver, bare, sandboxes, written, glued, leaked>>

\* The last process has ended: the parent merges the part files one after the
\* other, a single process is finished.
AllEnded ==
  /\ run.phase = "work" /\ \A w \in Workers : worker[w].at = "off"
  /\ run' = [run EXCEPT !.phase = IF run.nproc = 1 THEN "finished" ELSE "merge"]
  /\ UNCHANGED <<driver, files, bare, sandboxes, worker, runs, history>>

\* The part file that is next, of those of this invocation.
Merging == run.phase = "merge" /\ run.next \in Workers /\ run.next <= run.nproc

\* A part file is copied to the end of the output file.
Merge ==
  /\ Merging
  /\ output' = Appended(output, part[run.next])
  /\ glued' = glued \cup
       (IF IsOpen(output) /\ part[run.next] # << >> THEN {Head(part[run.next])} ELSE {})
  /\ run' = [run EXCEPT !.phase = "remove"]
  /\ UNCHANGED <<driver, part, bare, sandboxes, worker, runs, written, repeatable, leaked>>

\* (Mutant: all part files are removed after the first one has been merged.)
RemovePart_All ==
  /\ run.phase = "remove"
  /\ part' = [w \in Workers |-> << >>]
  /\ run' = [run EXCEPT !.phase = "merge", !.next = @ + 1]
  /\ UNCHANGED <<driver, output, bare, sandboxes, worker, runs, history>>

\* ... and removed.
RemovePart ==
  /\ run.phase = "remove"
  /\ part' = [part EXCEPT ![run.next] = << >>]
  /\ run' = [run EXCEPT !.phase = "merge", !.next = @ + 1]
  /\ UNCHANGED <<driver, output, bare, sandboxes, worker, runs, history>>

MergeEnds ==
  /\ run.phase = "merge" /\ ~Merging
  /\ run' = [run EXCEPT !.phase = "finished"]
  /\ UNCHANGED <<driver, files, bare, sandboxes, worker, runs, history>>

--------------------------------------------------------------------------------
(* run_all and _process_one, with prepare_sandbox_repo and cleanup_sandbox_repo *)

StandsAt(w, place) == run.phase = "work" /\ worker[w].at = place

Current(w) == Foremost(worker[w].todo)

MoveTo(w, place) == worker' = [worker EXCEPT ![w].at = place]

Exit(w) == worker' = [worker EXCEPT ![w] = Off]

ParentUnchanged == UNCHANGED <<driver, run, runs>>

\* The commit failed: the worktree is removed, an error record will be written.
Fail(w) ==
  /\ worker' = [worker EXCEPT ![w].at = "write", ![w].failed = TRUE]
  /\ sandboxes' = sandboxes \ {Current(w)}

\* The next commit: left out if it was done when the process started, and none
\* once the limit is reached.
TakeItem(w) ==
  /\ StandsAt(w, "item")
  /\ LET me == worker[w] IN
       \/ me.todo = {} /\ Exit(w)
       \/ /\ me.todo # {} /\ Current(w) \in me.done
          /\ worker' = [worker EXCEPT ![w].todo = @ \ {Current(w)}]
       \/ /\ me.todo # {} /\ Current(w) \notin me.done
          /\ IF run.limit # 0 /\ me.processed >= run.limit
               THEN Exit(w) ELSE MoveTo(w, "exists")
  /\ ParentUnchanged /\ UNCHANGED <<files, bare, sandboxes, history>>

\* The repository is not there, or the bare clone is looked for.
BareExists(w) ==
  /\ StandsAt(w, "exists")
  /\ \/ worker' = [worker EXCEPT ![w].at = "write", ![w].failed = TRUE]
     \/ MoveTo(w, IF bare = "none" THEN "clone" ELSE "worktree")
  /\ ParentUnchanged /\ UNCHANGED <<files, bare, sandboxes, history>>

\* git clone --bare refuses a directory that is there by now.
BeginClone(w) ==
  /\ StandsAt(w, "clone")
  /\ \/ bare = "none" /\ bare' = "partial" /\ MoveTo(w, "cloning") /\ UNCHANGED sandboxes
     \/ bare # "none" /\ Fail(w) /\ UNCHANGED bare
  /\ ParentUnchanged /\ UNCHANGED <<files, history>>

\* git removes the directory when the clone fails.
EndClone(w) ==
  /\ StandsAt(w, "cloning")
  /\ \/ bare' = "ready" /\ MoveTo(w, "worktree") /\ UNCHANGED sandboxes
     \/ bare' = "none" /\ Fail(w)
  /\ ParentUnchanged /\ UNCHANGED <<files, history>>

\* A worktree that is left over makes room for a new one; there is none to be
\* had from a clone that is not whole, or of a commit without a parent.
AddWorktree(w) ==
  /\ StandsAt(w, "worktree")
  /\ \/ bare = "ready" /\ sandboxes' = sandboxes \cup {Current(w)} /\ MoveTo(w, "work")
     \/ Fail(w)
  /\ ParentUnchanged /\ UNCHANGED <<files, bare, history>>

\* (Mutant: the worktree of a commit that failed is left.)
Work_NoCleanup(w) ==
  /\ StandsAt(w, "work")
  /\ \E failed \in BOOLEAN :
       /\ worker' = [worker EXCEPT ![w].at = "write", ![w].failed = failed]
       /\ sandboxes' = IF failed THEN sandboxes ELSE sandboxes \ {Current(w)}
  /\ ParentUnchanged /\ UNCHANGED <<files, bare, history>>

\* The commit is parsed and run through the pipeline, or built into samples; the
\* worktree is removed in any case.
Work(w) ==
  /\ StandsAt(w, "work")
  /\ \/ Fail(w)
     \/ /\ worker' = [worker EXCEPT ![w].at = "write", ![w].failed = FALSE]
        /\ sandboxes' = sandboxes \ {Current(w)}
  /\ ParentUnchanged /\ UNCHANGED <<files, bare, history>>

\* What is written of a commit: the predict program writes one record, also of a
\* failure, the train program the samples of those that succeed.
LinesOf(w) ==
  CASE driver = "predict" -> <<WholeLine(Current(w), IF worker[w].failed THEN 0 ELSE 1)>>
    [] driver = "train" /\ worker[w].failed -> << >>
    [] OTHER -> [n \in 1..Samples |-> WholeLine(Current(w), n)]

\* What the process of w appends goes to the output file if it has no parent.
Append_(w, lines) ==
  IF run.nproc = 1 THEN output' = Appended(output, lines) /\ UNCHANGED part
  ELSE part' = [part EXCEPT ![w] = Appended(@, lines)] /\ UNCHANGED output

\* (Mutant: the process does not go on to the next commit.)
Write_Again(w) ==
  /\ StandsAt(w, "write")
  /\ Append_(w, LinesOf(w))
  /\ written' = written \cup ToSet(LinesOf(w))
  /\ worker' = [worker EXCEPT ![w].at = "item", ![w].processed = @ + 1, ![w].failed = FALSE]
  /\ run' = IF LinesOf(w) = << >> THEN [run EXCEPT !.failed = @ \cup {Current(w)}] ELSE run
  /\ UNCHANGED <<driver, bare, sandboxes, runs, glued, repeatable, leaked>>

Write(w) ==
  /\ StandsAt(w, "write")
  /\ Append_(w, LinesOf(w))
  /\ written' = written \cup ToSet(LinesOf(w))
  /\ worker' = [worker EXCEPT ![w] =
                [worker[w] EXCEPT !.at = "item", !.todo = @ \ {Current(w)},
                                  !.processed = @ + 1, !.failed = FALSE]]
  /\ run' = IF LinesOf(w) = << >> THEN [run EXCEPT !.failed = @ \cup {Current(w)}] ELSE run
  /\ UNCHANGED <<driver, bare, sandboxes, runs, glued, repeatable, leaked>>

--------------------------------------------------------------------------------
(* Processes that are killed                                                   *)

\* What is on disk of lines that were being written: the first k whole, and
\* perhaps a piece of the next one.
Torn(lines) ==
  UNION {{SubSeq(lines, 1, k), SubSeq(lines, 1, k) \o <<[lines[k + 1] EXCEPT !.state = "open"]>>}
         : k \in 0..(Len(lines) - 1)}

\* A process that writes is torn; `lines' says what of.
Leftovers(w) == IF worker[w].at = "write" /\ LinesOf(w) # << >> THEN Torn(LinesOf(w)) ELSE {<< >>}

UnderWay(ws) ==
  sandboxes \cap {Current(w) : w \in {v \in ws : worker[v].at \notin {"off", "item"}}}

\* One of several workers is killed, out of memory for instance.
WorkerKilled(w) ==
  /\ run.phase = "work" /\ run.nproc > 1 /\ worker[w].at # "off"
  /\ \E lines \in Leftovers(w) :
       /\ Append_(w, lines)
       /\ written' = written \cup {l \in ToSet(lines) : l.state = "whole"}
  /\ Exit(w)
  /\ run' = [run EXCEPT !.unharmed = FALSE]
  /\ leaked' = leaked \cup UnderWay({w})
  /\ UNCHANGED <<driver, bare, sandboxes, runs, glued, repeatable>>

\* All processes of the invocation are killed: Ctrl-C, or the machine stops.
\* What is in a part file will be merged by another invocation that does not
\* know of it.
Killed ==
  /\ ~AtRest
  /\ \E lines \in [Workers -> UNION {Leftovers(w) : w \in Workers}] :
       /\ \A w \in Workers : lines[w] \in Leftovers(w)
       /\ IF run.nproc = 1 THEN output' = Appended(output, lines[1]) /\ UNCHANGED part
          ELSE /\ part' = [w \in Workers |-> Appended(part[w], lines[w])]
               /\ \/ UNCHANGED output
                  \/ /\ Merging /\ part[run.next] # << >>
                     /\ \E copied \in Torn(part[run.next]) : output' = Appended(output, copied)
       /\ written' = written \cup UNION {Whole(lines[w]) : w \in Workers}
  /\ repeatable' = repeatable \cup UNION {LoadDoneHashes(part'[w]) : w \in Workers}
  /\ leaked' = leaked \cup UnderWay(Workers)
  /\ worker' = [w \in Workers |-> Off]
  /\ run' = NoRun
  /\ UNCHANGED <<driver, bare, sandboxes, runs, glued>>

--------------------------------------------------------------------------------

GoOn(w) ==
  \/ TakeItem(w) \/ BareExists(w) \/ BeginClone(w) \/ EndClone(w)
  \/ AddWorktree(w) \/ Work(w) \/ Write(w)

BatchNext ==
  \/ Invoke \/ AllEnded \/ Merge \/ RemovePart \/ MergeEnds \/ Killed
  \/ \E w \in Workers : GoOn(w) \/ WorkerKilled(w)

BatchSpec == BatchInit /\ [][BatchNext]_batchVars

--------------------------------------------------------------------------------
(* Properties                                                                  *)

\* A line that was written whole is in the output file or in a part file, after
\* any number of interrupted invocations: only a merge can join it to an open
\* line.
NoRecordLost ==
  \A l \in written \ glued :
    l \in ToSet(output) \/ \E w \in Workers : l \in ToSet(part[w])

\* "Finally merges to resolved_output" (main.py:276): what a worker has recorded
\* is not lost on the way.
MergeKeepsRecords ==
  \A l \in written :
    l \in ToSet(output) \/ \E w \in Workers : l \in ToSet(part[w])

\* Resuming records no commit twice, unless an invocation was told not to look
\* at what is done, or a part file was left over.
RecordedOnce ==
  \A i, k \in 1..Len(output) :
    /\ i < k /\ output[i].state = "whole" /\ output[k].state = "whole"
    /\ output[i].hash = output[k].hash /\ output[i].hash \notin repeatable
    => output[i].n # output[k].n /\ output[i].n # 0 /\ output[k].n # 0

\* An invocation that ends by itself, without a limit and without a worker that
\* was killed, leaves a record of every commit that did not fail: one of the
\* first sample at least.
RunComplete ==
  run.phase = "finished" /\ run.unharmed /\ run.limit = 0 =>
    Hashes \subseteq LoadDoneHashes(output) \cup run.failed \cup {l.hash : l \in glued}

\* No worktree is left but those of processes that were killed.
NoSandboxLeft == AtRest => sandboxes \subseteq leaked

================================================================================
