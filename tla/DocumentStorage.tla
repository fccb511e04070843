---------------------------- MODULE DocumentStorage ----------------------------
(* A storage of documents (moatless/storage): files below MOATLESS_DIR, or     *)
(* objects on S3 or Azure.  One document that is written as a whole, such as   *)
(* evaluation.json, and one log that grows by a line for each event, which the *)
(* event bus of each process appends to under its lock.                        *)
(*                                                                             *)
(* A file is truncated when it is opened for writing; its text comes in        *)
(* pieces, each at the place where its writer stands, the last one when the    *)
(* file is closed.  An object is replaced at once.  One action is what happens *)
(* between two awaits.                                                         *)
EXTENDS Naturals, Sequences, FiniteSets

CONSTANTS
  NoFile,      \* what is not there
  Writers,     \* coroutines that write, append and delete
  ProcessOf,   \* the process of each
  Lengths,     \* of documents, in pieces
  MaxAccesses, \* bound on the number of calls
  MaxKills     \* bound on the number of processes that are killed

ASSUME StorageAssumption ==
  /\ \A c \in Writers : c \in DOMAIN ProcessOf
  /\ "free" \notin Writers /\ NoFile \notin Seq(1..MaxAccesses)
  /\ Lengths \subseteq Nat \ {0} /\ MaxAccesses \in Nat /\ MaxKills \in Nat

VARIABLES
  backend,  \* "files" or "objects"
  document, \* the pieces of the document, or NoFile
  log,      \* the lines of the log, or NoFile
  access,   \* the call of each writer
  busLock,  \* the lock of each process's event bus: who holds it
  accesses, \* how many calls have been made
  kills,    \* how many processes have been killed
  appended, \* the lines whose append has returned
  appenders \* the processes that have begun to append

storageVars == <<backend, document, log, access, busLock, accesses, kills, appended, appenders>>

storageHistory == <<appended, appenders>>

ServerProcesses == {ProcessOf[c] : c \in Writers}

\* Text that nobody wrote: where a writer stands beyond the end of the file.
Hole == [length |-> 0, place |-> 0]

Piece == {Hole} \cup UNION {[length : {n}, place : 1..n] : n \in Lengths}

\* json.dumps of a document.
Dumped(n) == [i \in 1..n |-> [length |-> n, place |-> i]]

NoAccess == [at |-> "idle", line |-> 0, length |-> 0, place |-> 0, seen |-> << >>]

StorageTypeOK ==
  /\ backend \in {"files", "objects"}
  /\ document = NoFile \/ \A i \in DOMAIN document : document[i] \in Piece
  /\ log = NoFile \/ log \in Seq(1..MaxAccesses)
  /\ access \in [Writers -> [at : {"idle", "opened", "unlinked", "append", "put"},
                             line : 0..MaxAccesses, length : Lengths \cup {0}, place : Nat,
                             seen : Seq(1..MaxAccesses)]]
  /\ busLock \in [ServerProcesses -> Writers \cup {"free"}]
  /\ accesses \in 0..MaxAccesses /\ kills \in 0..MaxKills
  /\ appended \subseteq 1..MaxAccesses /\ appenders \subseteq ServerProcesses

StorageInit ==
  /\ backend \in {"files", "objects"}
  /\ document = NoFile /\ log = NoFile
  /\ access = [c \in Writers |-> NoAccess]
  /\ busLock = [p \in ServerProcesses |-> "free"]
  /\ accesses = 0 /\ kills = 0 /\ appended = {} /\ appenders = {}

--------------------------------------------------------------------------------
(* Calls                                                                       *)

AccessAt(c, place) == access[c].at = place

NewAccess(c) == AccessAt(c, "idle") /\ accesses < MaxAccesses /\ accesses' = accesses + 1

AccessMoves(c, record) == access' = [access EXCEPT ![c] = record]

AccessEnds(c) == AccessMoves(c, NoAccess)

\* The i-th place of a text becomes a piece, whoever wrote what else there is.
Overlaid(text, i, piece) ==
  [k \in 1..(IF i > Len(text) THEN i ELSE Len(text)) |->
     IF k = i THEN piece ELSE IF k <= Len(text) THEN text[k] ELSE Hole]

--------------------------------------------------------------------------------
(* write: write_raw of FileStorage, of S3Storage and AzureBlobStorage          *)

OpenToWrite(c) ==
  /\ backend = "files" /\ NewAccess(c)
  /\ \E n \in Lengths : AccessMoves(c, [NoAccess EXCEPT !.at = "opened", !.length = n])
  /\ document' = << >>
  /\ UNCHANGED <<backend, log, busLock, kills, storageHistory>>

\* A file that was deleted meanwhile is written and then gone.
WritePiece(c) ==
  LET r == access[c]
      place == r.place + 1
  IN  /\ r.at \in {"opened", "unlinked"}
      /\ IF r.at = "unlinked" THEN UNCHANGED document
         ELSE document' = Overlaid(document, place, [length |-> r.length, place |-> place])
      /\ IF place = r.length THEN AccessEnds(c)
         ELSE AccessMoves(c, [r EXCEPT !.place = place])
      /\ UNCHANGED <<backend, log, busLock, accesses, kills, storageHistory>>

WriteObject(c) ==
  /\ backend = "objects" /\ NewAccess(c)
  /\ \E n \in Lengths : document' = Dumped(n)
  /\ UNCHANGED <<backend, log, access, busLock, kills, storageHistory>>

\* delete, which raises KeyError when there is none.
DeleteDocument(c) ==
  /\ document # NoFile /\ NewAccess(c)
  /\ document' = NoFile
  /\ access' = [d \in Writers |-> IF AccessAt(d, "opened") THEN [access[d] EXCEPT !.at = "unlinked"]
                               ELSE access[d]]
  /\ UNCHANGED <<backend, log, busLock, kills, storageHistory>>

--------------------------------------------------------------------------------
(* _save_event of the event bus, with append                                   *)

\* (Mutant: nobody waits for the lock.)
BeginAppend_Unlocked(c) ==
  /\ NewAccess(c)
  /\ busLock' = [busLock EXCEPT ![ProcessOf[c]] = c]
  /\ AccessMoves(c, [NoAccess EXCEPT !.at = "append", !.line = accesses + 1])
  /\ appenders' = appenders \cup {ProcessOf[c]}
  /\ UNCHANGED <<backend, document, log, kills, appended>>

BeginAppend(c) ==
  /\ NewAccess(c)
  /\ busLock[ProcessOf[c]] = "free"
  /\ busLock' = [busLock EXCEPT ![ProcessOf[c]] = c]
  /\ AccessMoves(c, [NoAccess EXCEPT !.at = "append", !.line = accesses + 1])
  /\ appenders' = appenders \cup {ProcessOf[c]}
  /\ UNCHANGED <<backend, document, log, kills, appended>>

\* append returns.
Saved(c) ==
  /\ appended' = appended \cup {access[c].line}
  /\ busLock' = [busLock EXCEPT ![ProcessOf[c]] = "free"]
  /\ AccessEnds(c)

LinesOf(text) == IF text = NoFile THEN << >> ELSE text

\* A file that is open for appending grows at its end, whoever else has it open.
AppendLine(c) ==
  /\ backend = "files" /\ AccessAt(c, "append")
  /\ log' = Append(LinesOf(log), access[c].line)
  /\ Saved(c)
  /\ UNCHANGED <<backend, document, accesses, kills, appenders>>

ReadLog(c) ==
  /\ backend = "objects" /\ AccessAt(c, "append")
  /\ AccessMoves(c, [access[c] EXCEPT !.at = "put", !.seen = LinesOf(log)])
  /\ UNCHANGED <<backend, document, log, busLock, accesses, kills, storageHistory>>

PutLog(c) ==
  /\ AccessAt(c, "put")
  /\ log' = Append(access[c].seen, access[c].line)
  /\ Saved(c)
  /\ UNCHANGED <<backend, document, accesses, kills, appenders>>

--------------------------------------------------------------------------------

ProcessKilled(p) ==
  /\ kills < MaxKills /\ kills' = kills + 1
  /\ \E c \in Writers : ProcessOf[c] = p /\ ~AccessAt(c, "idle")
  /\ access' = [c \in Writers |-> IF ProcessOf[c] = p THEN NoAccess ELSE access[c]]
  /\ busLock' = [busLock EXCEPT ![p] = "free"]
  /\ UNCHANGED <<backend, document, log, accesses, storageHistory>>

StorageNext ==
  \/ \E c \in Writers :
       \/ OpenToWrite(c) \/ WritePiece(c) \/ WriteObject(c) \/ DeleteDocument(c)
       \/ BeginAppend(c) \/ AppendLine(c) \/ ReadLog(c) \/ PutLog(c)
  \/ \E p \in ServerProcesses : ProcessKilled(p)

StorageSpec == StorageInit /\ [][StorageNext]_storageVars

--------------------------------------------------------------------------------
(* Properties                                                                  *)

Occurrences(l) == Cardinality({i \in DOMAIN LinesOf(log) : log[i] = l})

\* Every event whose saving has returned is a line of the log, once (eventbus/base.py:112),
\* whoever writes and is killed meanwhile.  On objects, which an append reads and replaces
\* (s3_storage.py:204), this holds as long as a single process appends.
AppendsKept ==
  backend = "files" \/ Cardinality(appenders) <= 1 =>
    \A l \in appended : Occurrences(l) = 1

\* "Write data to a file as JSON" (storage/base.py:86): when no write is under way and no
\* process was killed in one, a document that is there is one that was written.
WrittenIsReadable ==
  document # NoFile /\ kills = 0 /\ (\A c \in Writers : ~AccessAt(c, "opened")) =>
    \E n \in Lengths : document = Dumped(n)
================================================================================
