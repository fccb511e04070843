--------------------------- MODULE BatchProgramsProofs ---------------------------
(***************************************************************************)
(* What BatchRunner promises of the files and worktrees of the pipeline,   *)
(* and FimBatch of the repository it fills in, proved for any data, any    *)
(* number of processes and any limits.                                     *)
(***************************************************************************)
EXTENDS BatchPrograms, FiniteSetTheorems, SequenceTheorems, WellFoundedInduction, TLAPS

--------------------------------------------------------------------------------
(* The invariant of the batch programs of the pipeline                         *)

\* No line is recorded twice in a file, but of the commits in rep.
OnceIn(f, rep) ==
  \A i, k \in 1..Len(f) :
    /\ i < k /\ f[i].state = "whole" /\ f[k].state = "whole"
    /\ f[i].hash = f[k].hash /\ f[i].hash \notin rep
    => f[i].n # f[k].n /\ f[i].n # 0 /\ f[k].n # 0

\* The file that the process of w appends to.
FileOf(w) == IF run.nproc = 1 THEN output ELSE part[w]

\* A process has a commit where it works on one, that was not done when it started, and
\* the file it appends to ends with a newline.
ProcessesSound ==
  \A w \in Workers :
    /\ worker[w].at # "off" => /\ run.phase = "work" /\ w <= run.nproc
                               /\ ~IsOpen(FileOf(w))
    /\ worker[w].at \notin {"off", "item"} =>
         worker[w].todo # {} /\ Current(w) \notin worker[w].done
    /\ worker[w].at = "off" => worker[w].todo = {}
    /\ worker[w].processed + Cardinality(worker[w].todo) <= Len(Data)

\* The part files before the next one have been merged and removed, and what the one
\* that is to be removed holds has been copied.
MergeSound ==
  /\ run.phase = "work" => run.next = 1
  /\ run.phase \in {"merge", "remove"} =>
       /\ run.nproc > 1 /\ run.next >= 1
       /\ \A w \in Workers : w < run.next => part[w] = << >>
  /\ run.phase = "remove" =>
       /\ run.next \in Workers /\ run.next <= run.nproc
       /\ Whole(part[run.next]) \subseteq Whole(output) \cup glued

\* What has been written whole is there, or was joined to an open line.
LinesKept ==
  \A l \in written :
    /\ l.state = "whole"
    /\ l \in glued \cup Whole(output) \cup UNION {Whole(part[w]) : w \in Workers}

\* Worktrees are those of the commits at work, and of processes that were killed.
SandboxesKnown ==
  sandboxes \subseteq leaked \cup {Current(w) : w \in {v \in Workers : worker[v].at = "work"}}

\* The part files that the invocation neither writes nor merges are left over.
PartsLeftOver ==
  \A w \in Workers :
    AtRest \/ run.nproc = 1 \/ w > run.nproc => LoadDoneHashes(part[w]) \subseteq repeatable

\* What a process is still to record: it leaves out what was done when it started.
Due(w) == worker[w].todo \ worker[w].done

\* No file records a commit twice, no two files record the same one while they are kept
\* apart, and no process is to record one that a file or another process has.
RecordsApart ==
  /\ OnceIn(output, repeatable)
  /\ \A w \in Workers :
       /\ OnceIn(part[w], repeatable)
       /\ Due(w) \cap LoadDoneHashes(output) \subseteq repeatable
       /\ (run.phase = "remove" /\ w = run.next)
            \/ LoadDoneHashes(part[w]) \cap LoadDoneHashes(output) \subseteq repeatable
       /\ \A v \in Workers :
            /\ Due(w) \cap LoadDoneHashes(part[v]) \subseteq repeatable
            /\ v # w => /\ worker[v].todo \cap worker[w].todo = {}
                        /\ LoadDoneHashes(part[v]) \cap LoadDoneHashes(part[w])
                             \subseteq repeatable

\* The commits that no process has any more, for what it knows, and that have not failed
\* are in the output file, in a part file that is to be merged, or joined to an open line.
Recorded ==
  LoadDoneHashes(output) \cup run.failed \cup {l.hash : l \in glued}
    \cup (IF run.nproc > 1 /\ ~AtRest
            THEN UNION {LoadDoneHashes(part[w]) : w \in {v \in Workers : v <= run.nproc}}
            ELSE {})

CommitsAccountedFor ==
  /\ \A w \in Workers : worker[w].done \subseteq LoadDoneHashes(output)
  /\ run.phase # "none" /\ run.unharmed /\ run.limit = 0 =>
       Hashes \subseteq Recorded \cup UNION {worker[w].todo : w \in Workers}

BatchInv ==
  /\ BatchTypeOK /\ ProcessesSound /\ MergeSound /\ LinesKept /\ SandboxesKnown
  /\ PartsLeftOver /\ RecordsApart /\ CommitsAccountedFor

--------------------------------------------------------------------------------
(* Lines and files of lines                                                    *)

\* What is changed of a line is how far it has been written.
LEMMA LineState ==
  ASSUME NEW l \in Line, NEW s \in {"whole", "open", "garbled"}
  PROVE  /\ [l EXCEPT !.state = s] \in Line
         /\ [l EXCEPT !.state = s].state = s
         /\ [l EXCEPT !.state = s].hash = l.hash
BY DEF Line

\* All lines but the last one.
LEMMA FrontSound ==
  ASSUME NEW f \in Seq(Line), f # << >>
  PROVE  /\ Len(f) \in Nat \ {0} /\ Last(f) = f[Len(f)] /\ f[Len(f)] \in Line
         /\ Front(f) \in Seq(Line) /\ Len(Front(f)) = Len(f) - 1
         /\ \A i \in 1..(Len(f) - 1) : Front(f)[i] = f[i]
<1> DEFINE n == Len(f)
<1>1. n \in Nat \ {0} /\ \A i \in 1..n : f[i] \in Line
  BY EmptySeq, ElementOfSeq
<1>2. 1 \in Int /\ n - 1 \in Int /\ \A i \in 1..(n - 1) : f[i] \in Line
  BY <1>1
<1>3. Front(f) = SubSeq(f, 1, n - 1)
  BY DEF Front
<1> HIDE DEF n
<1>4. /\ Front(f) \in Seq(Line)
      /\ Len(Front(f)) = (IF 1 <= n - 1 THEN (n - 1) - 1 + 1 ELSE 0)
      /\ \A i \in 1..((n - 1) - 1 + 1) : Front(f)[i] = f[1 + i - 1]
  BY <1>2, <1>3, SubSeqProperties
<1>5. /\ Len(Front(f)) = n - 1
      /\ \A i \in 1..(n - 1) : Front(f)[i] = f[i]
  BY <1>1, <1>4
<1>6. QED
  BY <1>1, <1>4, <1>5 DEF Last, n

\* A line that ends with a newline is not open (main.py, the check before appending).
LEMMA NewlineEnsuredSound ==
  ASSUME NEW f \in Seq(Line)
  PROVE  LET g == NewlineEnsured(f)
         IN  /\ g \in Seq(Line) /\ Len(g) = Len(f) /\ ~IsOpen(g)
             /\ \A i \in 1..Len(f) : g[i] = f[i]
                                     \/ (g[i].state # "whole" /\ f[i].state # "whole")
<1> DEFINE g == NewlineEnsured(f)
           n == Len(f)
           last == [Last(f) EXCEPT !.state = "garbled"]
<1>1. CASE ~IsOpen(f)
  BY <1>1 DEF NewlineEnsured
<1>2. CASE IsOpen(f)
  <2>1. n \in Nat \ {0} /\ f[n] \in Line /\ Last(f) = f[n] /\ f[n].state = "open"
    BY <1>2, FrontSound DEF IsOpen
  <2>2. last \in Line /\ last.state = "garbled"
    BY <2>1, LineState
  <2> HIDE DEF last
  <2>3. /\ Front(f) \in Seq(Line) /\ Len(Front(f)) = n - 1
        /\ \A i \in 1..(n - 1) : Front(f)[i] = f[i]
    BY <1>2, FrontSound DEF IsOpen
  <2>4. g = Front(f) \o <<last>> /\ <<last>> \in Seq(Line) /\ Len(<<last>>) = 1
        /\ <<last>>[1] = last
    BY <1>2, <2>2 DEF NewlineEnsured, last
  <2> HIDE DEF g
  <2>5. /\ g \in Seq(Line) /\ Len(g) = n /\ g[n] = last
        /\ \A i \in 1..(n - 1) : g[i] = f[i]
    <3>1. /\ g \in Seq(Line) /\ Len(g) = (n - 1) + 1
          /\ \A i \in 1..((n - 1) + 1) :
               g[i] = IF i <= n - 1 THEN Front(f)[i] ELSE <<last>>[i - (n - 1)]
      BY <2>3, <2>4, ConcatProperties
    <3>2. (n - 1) + 1 = n /\ n \in 1..n /\ ~(n <= n - 1) /\ n - (n - 1) = 1
      BY <2>1
    <3>3. \A i \in 1..(n - 1) : i \in 1..n /\ i <= n - 1
      BY <2>1
    <3> HIDE DEF n
    <3>4. g[n] = last
      BY <3>1, <3>2, <2>4
    <3>5. QED
      BY <3>1, <3>2, <3>3, <3>4, <2>3
  <2>6. ~IsOpen(g)
    BY <2>5, <2>2 DEF IsOpen, Last
  <2>7. ASSUME NEW i \in 1..n
        PROVE  g[i] = f[i] \/ (g[i].state # "whole" /\ f[i].state # "whole")
    <3>1. CASE i = n
      BY <3>1, <2>1, <2>2, <2>5
    <3>2. CASE i # n
      BY <3>2, <2>1, <2>5
    <3>3. QED
      BY <3>1, <3>2
  <2>8. QED
    BY <2>5, <2>6, <2>7 DEF g
<1>3. QED
  BY <1>1, <1>2

\* The lines that are appended follow those of the file, but for the first one where the
\* file ends with an open line, which the two become one garbled or open line of.
LEMMA AppendedSound ==
  ASSUME NEW f \in Seq(Line), NEW lines \in Seq(Line)
  PROVE  LET a == Appended(f, lines)
             glue == IsOpen(f) /\ lines # << >>
             d == IF glue THEN Len(f) - 1 ELSE Len(f)
         IN  /\ a \in Seq(Line) /\ d \in Nat /\ Len(a) = d + Len(lines)
             /\ \A i \in 1..d : a[i] = f[i]
             /\ \A j \in 1..Len(lines) :
                  \/ a[d + j] = lines[j] /\ ~(glue /\ j = 1)
                  \/ /\ glue /\ j = 1 /\ a[d + j].state # "whole"
                     /\ (a[d + j].state = "open" <=> lines[j].state = "open")
             /\ glue => f[Len(f)].state = "open" /\ Len(f) > 0
<1> DEFINE a == Appended(f, lines)
           n == Len(f)
           s == IF Head(lines).state = "open" THEN "open" ELSE "garbled"
           last == [Last(f) EXCEPT !.state = s]
<1>0. n \in Nat /\ Len(lines) \in Nat
  BY LenProperties
<1>1. CASE ~(IsOpen(f) /\ lines # << >>)
  <2>1. a = f \o lines
    BY <1>1 DEF Appended
  <2>2. /\ a \in Seq(Line) /\ Len(a) = n + Len(lines)
        /\ \A i \in 1..(n + Len(lines)) : a[i] = IF i <= n THEN f[i] ELSE lines[i - n]
    BY <2>1, ConcatProperties
  <2> HIDE DEF a
  <2>3. \A i \in 1..n : a[i] = f[i]
    BY <2>2, <1>0
  <2>4. \A j \in 1..Len(lines) : a[n + j] = lines[j]
    BY <2>2, <1>0
  <2>5. QED
    BY <1>0, <1>1, <2>2, <2>3, <2>4 DEF a
<1>2. CASE IsOpen(f) /\ lines # << >>
  <2>1. n \in Nat \ {0} /\ f[n] \in Line /\ Last(f) = f[n] /\ f[n].state = "open"
    BY <1>2, FrontSound DEF IsOpen
  <2>2. s \in {"open", "garbled"} /\ (s = "open" <=> Head(lines).state = "open")
    OBVIOUS
  <2> HIDE DEF s
  <2>3. last \in Line /\ last.state = s
    BY <2>1, <2>2, LineState
  <2>4. /\ Front(f) \in Seq(Line) /\ Len(Front(f)) = n - 1
        /\ \A i \in 1..(n - 1) : Front(f)[i] = f[i]
    BY <1>2, FrontSound DEF IsOpen
  <2>5. /\ Tail(lines) \in Seq(Line) /\ Len(lines) \in Nat \ {0}
        /\ Len(Tail(lines)) = Len(lines) - 1 /\ Head(lines) = lines[1]
        /\ \A i \in 1..(Len(lines) - 1) : Tail(lines)[i] = lines[i + 1]
    BY <1>2, HeadTailProperties, EmptySeq
  <2>6. a = Front(f) \o <<last>> \o Tail(lines)
    BY <1>2 DEF Appended, s
  <2> HIDE DEF last
  <2>7. <<last>> \in Seq(Line) /\ Len(<<last>>) = 1 /\ <<last>>[1] = last
    BY <2>3
  <2> DEFINE b == Front(f) \o <<last>>
  <2>8. /\ b \in Seq(Line) /\ Len(b) = n
        /\ \A i \in 1..n : b[i] = IF i <= n - 1 THEN f[i] ELSE last
    <3>1. /\ b \in Seq(Line) /\ Len(b) = (n - 1) + 1
          /\ \A i \in 1..((n - 1) + 1) :
               b[i] = IF i <= n - 1 THEN Front(f)[i] ELSE <<last>>[i - (n - 1)]
      BY <2>4, <2>7, ConcatProperties
    <3> HIDE DEF b
    <3>2. (n - 1) + 1 = n /\ n \in Nat \ {0}
      BY <2>1
    <3> HIDE DEF n
    <3>3. ASSUME NEW i \in 1..n PROVE b[i] = IF i <= n - 1 THEN f[i] ELSE last
      <4>1. b[i] = IF i <= n - 1 THEN Front(f)[i] ELSE <<last>>[i - (n - 1)]
        BY <3>1, <3>2
      <4>2. CASE i <= n - 1
        <5>1. i \in 1..(n - 1)
          BY <3>2, <4>2
        <5>2. QED
          BY <4>1, <4>2, <5>1, <2>4
      <4>3. CASE ~(i <= n - 1)
        <5>1. i - (n - 1) = 1
          BY <3>2, <4>3
        <5>2. QED
          BY <4>1, <4>3, <5>1, <2>7
      <4>4. QED
        BY <4>2, <4>3
    <3>4. QED
      BY <3>1, <3>2, <3>3
  <2>9. a = b \o Tail(lines)
    BY <2>6
  <2> HIDE DEF b
  <2>10. /\ a \in Seq(Line) /\ Len(a) = n + (Len(lines) - 1)
         /\ \A i \in 1..(n + (Len(lines) - 1)) :
              a[i] = IF i <= n THEN b[i] ELSE Tail(lines)[i - n]
    <3>1. b \in Seq(Line) /\ Tail(lines) \in Seq(Line)
      BY <2>5, <2>8
    <3>2. /\ a \in Seq(Line) /\ Len(a) = Len(b) + Len(Tail(lines))
          /\ \A i \in 1..(Len(b) + Len(Tail(lines))) :
               a[i] = IF i <= Len(b) THEN b[i] ELSE Tail(lines)[i - Len(b)]
      BY <3>1, <2>9, ConcatProperties
    <3> HIDE DEF a
    <3>3. QED
      BY <3>2, <2>5, <2>8
  <2> HIDE DEF a
  <2>11. \A i \in 1..(n - 1) : a[i] = f[i]
    BY <2>1, <2>5, <2>8, <2>10
  <2>12. a[n] = last
    BY <2>1, <2>5, <2>8, <2>10
  <2>13. ASSUME NEW j \in 1..Len(lines)
         PROVE  \/ a[(n - 1) + j] = lines[j] /\ j # 1
                \/ /\ j = 1 /\ a[(n - 1) + j].state # "whole"
                   /\ (a[(n - 1) + j].state = "open" <=> lines[j].state = "open")
    <3>1. CASE j = 1
      <4>1. (n - 1) + j = n
        BY <3>1, <2>1
      <4>2. QED
        BY <3>1, <4>1, <2>2, <2>3, <2>5, <2>12
    <3>2. CASE j # 1
      <4> DEFINE k == (n - 1) + j
      <4>1. /\ k \in 1..(n + (Len(lines) - 1)) /\ ~(k <= n) /\ k - n = j - 1
            /\ j - 1 \in 1..(Len(lines) - 1) /\ (j - 1) + 1 = j
        BY <3>2, <2>1, <2>5
      <4> HIDE DEF k
      <4>2. a[k] = Tail(lines)[j - 1]
        BY <4>1, <2>10
      <4>3. a[k] = lines[j]
        BY <4>1, <4>2, <2>5
      <4>4. QED
        BY <4>3, <3>2 DEF k
    <3>3. QED
      BY <3>1, <3>2
  <2>14. Len(a) = (n - 1) + Len(lines) /\ n - 1 \in Nat
    BY <2>1, <2>5, <2>10
  <2>15. QED
    BY <1>2, <2>1, <2>10, <2>11, <2>13, <2>14 DEF a
<1>3. QED
  BY <1>1, <1>2

\* The lines of a file that are whole, by their places.
LEMMA WholeLines ==
  ASSUME NEW f \in Seq(Line)
  PROVE  /\ Whole(f) = {l \in Line : l.state = "whole" /\ \E i \in 1..Len(f) : f[i] = l}
         /\ LoadDoneHashes(f) = {l.hash : l \in Whole(f)}
         /\ LoadDoneHashes(f) \subseteq Hashes
         /\ Whole(f) \subseteq Line
<1>1. \A i \in 1..Len(f) : f[i] \in Line
  BY ElementOfSeq
<1>2. Whole(f) = {l \in Line : l.state = "whole" /\ \E i \in 1..Len(f) : f[i] = l}
  BY <1>1, LenProperties DEF Whole, ToSet
<1>3. LoadDoneHashes(f) = {l.hash : l \in Whole(f)}
  BY DEF LoadDoneHashes
<1>4. \A l \in Line : l.hash \in Hashes
  BY DEF Line
<1>5. QED
  BY <1>2, <1>3, <1>4

\* What is left on disk of lines, or of a file: some of its first lines, each as it was or
\* not whole.
PieceOf(piece, lines) ==
  /\ piece \in Seq(Line) /\ Len(piece) <= Len(lines)
  /\ \A i \in 1..Len(piece) : piece[i] = lines[i] \/ piece[i].state # "whole"

\* A piece has no whole line that the lines have not.
LEMMA PieceLines ==
  ASSUME NEW lines \in Seq(Line), NEW piece, PieceOf(piece, lines)
  PROVE  /\ piece \in Seq(Line)
         /\ Whole(piece) \subseteq Whole(lines)
         /\ LoadDoneHashes(piece) \subseteq LoadDoneHashes(lines)
         /\ \A rep : OnceIn(lines, rep) => OnceIn(piece, rep)
<1>1. /\ piece \in Seq(Line) /\ Len(piece) \in Nat /\ Len(lines) \in Nat
      /\ Len(piece) <= Len(lines)
      /\ \A i \in 1..Len(piece) : i \in 1..Len(lines)
                                  /\ (piece[i].state = "whole" => piece[i] = lines[i])
  BY LenProperties DEF PieceOf
<1>2. Whole(piece) \subseteq Whole(lines)
  BY <1>1, WholeLines
<1>3. LoadDoneHashes(piece) \subseteq LoadDoneHashes(lines)
  BY <1>1, <1>2, WholeLines
<1>4. ASSUME NEW rep, OnceIn(lines, rep) PROVE OnceIn(piece, rep)
  BY <1>1, <1>4 DEF OnceIn
<1>5. QED
  BY <1>1, <1>2, <1>3, <1>4

\* The check for a newline changes no line that can be parsed.
LEMMA EnsuredLines ==
  ASSUME NEW f \in Seq(Line)
  PROVE  /\ NewlineEnsured(f) \in Seq(Line) /\ ~IsOpen(NewlineEnsured(f))
         /\ Whole(NewlineEnsured(f)) = Whole(f)
         /\ LoadDoneHashes(NewlineEnsured(f)) = LoadDoneHashes(f)
         /\ \A rep : OnceIn(f, rep) => OnceIn(NewlineEnsured(f), rep)
<1> DEFINE g == NewlineEnsured(f)
<1>1. /\ g \in Seq(Line) /\ Len(g) = Len(f) /\ ~IsOpen(g) /\ Len(f) \in Nat
      /\ \A i \in 1..Len(f) : g[i] = f[i] \/ (g[i].state # "whole" /\ f[i].state # "whole")
  BY NewlineEnsuredSound, LenProperties
<1> HIDE DEF g
<1>2. PieceOf(g, f) /\ PieceOf(f, g)
  BY <1>1 DEF PieceOf
<1>3. QED
  BY <1>1, <1>2, PieceLines DEF g

\* What is appended loses nothing of the file, and of the lines at most the first one, to
\* an open line.
LEMMA AppendedLines ==
  ASSUME NEW f \in Seq(Line), NEW lines \in Seq(Line)
  PROVE  /\ Appended(f, lines) \in Seq(Line)
         /\ Whole(f) \subseteq Whole(Appended(f, lines))
         /\ Whole(Appended(f, lines)) \subseteq Whole(f) \cup Whole(lines)
         /\ \A l \in Whole(lines) : l \in Whole(Appended(f, lines))
              \/ (IsOpen(f) /\ lines # << >> /\ l = Head(lines))
         /\ lines # << >> => (IsOpen(Appended(f, lines)) <=> IsOpen(lines))
         /\ lines = << >> => Appended(f, lines) = f
<1> DEFINE a == Appended(f, lines)
           glue == IsOpen(f) /\ lines # << >>
           d == IF glue THEN Len(f) - 1 ELSE Len(f)
<1>1. /\ a \in Seq(Line) /\ d \in Nat /\ Len(a) = d + Len(lines)
      /\ \A i \in 1..d : a[i] = f[i]
      /\ \A j \in 1..Len(lines) :
           \/ a[d + j] = lines[j] /\ ~(glue /\ j = 1)
           \/ /\ glue /\ j = 1 /\ a[d + j].state # "whole"
              /\ (a[d + j].state = "open" <=> lines[j].state = "open")
      /\ glue => f[Len(f)].state = "open" /\ Len(f) > 0
  BY AppendedSound
<1>2. Len(f) \in Nat /\ Len(lines) \in Nat /\ (glue => d = Len(f) - 1) /\ (~glue => d = Len(f))
  BY LenProperties
<1>3. lines = << >> => a = f
  BY ConcatEmptySeq DEF Appended
<1>4. glue <=> (IsOpen(f) /\ lines # << >>)
  OBVIOUS
<1> HIDE DEF a, glue, d
<1>5. Whole(f) \subseteq Whole(a)
  <2>1. \A i \in 1..Len(f) : f[i].state = "whole" => i \in 1..d
    BY <1>1, <1>2
  <2>2. \A i \in 1..d : i \in 1..Len(a)
    BY <1>1, <1>2
  <2>3. ASSUME NEW l \in Whole(f) PROVE l \in Whole(a)
    <3>1. PICK i \in 1..Len(f) : f[i] = l /\ l.state = "whole" /\ l \in Line
      BY WholeLines
    <3>2. i \in 1..Len(a) /\ a[i] = l
      BY <1>1, <2>1, <2>2, <3>1
    <3>3. Whole(a) = {m \in Line : m.state = "whole" /\ \E j \in 1..Len(a) : a[j] = m}
      BY <1>1, WholeLines
    <3>4. QED
      BY <3>1, <3>2, <3>3
  <2>4. QED
    BY <2>3
<1>6. Whole(a) \subseteq Whole(f) \cup Whole(lines)
  <2>1. ASSUME NEW i \in 1..Len(a), a[i].state = "whole"
        PROVE  \/ \E k \in 1..Len(f) : f[k] = a[i]
               \/ \E k \in 1..Len(lines) : lines[k] = a[i]
    <3>1. CASE i <= d
      <4>1. i \in 1..d
        BY <3>1, <1>1
      <4>2. i \in 1..Len(f)
        BY <4>1, <1>1, <1>2
      <4>3. QED
        BY <4>1, <4>2, <1>1
    <3>2. CASE i > d
      <4>1. i - d \in 1..Len(lines) /\ d + (i - d) = i
        BY <3>2, <1>1, <1>2
      <4>2. QED
        BY <4>1, <1>1, <2>1
    <3>3. QED
      BY <3>1, <3>2, <1>1
  <2>2. QED
    BY <1>1, <2>1, WholeLines
<1>7. ASSUME NEW l \in Whole(lines) PROVE l \in Whole(a) \/ (glue /\ l = Head(lines))
  <2>1. PICK j \in 1..Len(lines) : lines[j] = l /\ l.state = "whole" /\ l \in Line
    BY WholeLines
  <2>2. CASE a[d + j] = lines[j]
    <3>1. d + j \in 1..Len(a)
      BY <1>1, <1>2
    <3>2. QED
      BY <2>1, <2>2, <3>1, <1>1, WholeLines
  <2>3. CASE glue /\ j = 1
    <3>1. Head(lines) = lines[1]
      BY <1>4, <2>3, HeadTailProperties
    <3>2. QED
      BY <2>1, <2>3, <3>1
  <2>4. QED
    BY <1>1, <2>2, <2>3
<1>8. ASSUME lines # << >> PROVE IsOpen(a) <=> IsOpen(lines)
  <2>1. Len(lines) \in Nat \ {0} /\ Last(lines) = lines[Len(lines)]
    BY <1>8, FrontSound
  <2>2. Len(a) \in Nat \ {0}
    BY <2>1, <1>1
  <2>3. a # << >>
    BY <2>2, EmptySeq
  <2>4. Last(a) = a[d + Len(lines)]
    BY <2>3, <1>1, FrontSound
  <2>5. Last(a).state = "open" <=> Last(lines).state = "open"
    BY <2>1, <2>4, <1>1
  <2>6. QED
    BY <2>3, <2>5, <1>8 DEF IsOpen
<1>9. QED
  BY <1>1, <1>3, <1>4, <1>5, <1>6, <1>7, <1>8 DEF a

\* Records of a commit that the file has not are appended without doubling one.
LEMMA AppendedOnce ==
  ASSUME NEW f \in Seq(Line), NEW lines \in Seq(Line), NEW rep,
         OnceIn(f, rep), OnceIn(lines, rep),
         LoadDoneHashes(f) \cap LoadDoneHashes(lines) \subseteq rep
  PROVE  OnceIn(Appended(f, lines), rep)
<1> DEFINE a == Appended(f, lines)
           glue == IsOpen(f) /\ lines # << >>
           d == IF glue THEN Len(f) - 1 ELSE Len(f)
<1>1. /\ a \in Seq(Line) /\ d \in Nat /\ Len(a) = d + Len(lines)
      /\ \A i \in 1..d : a[i] = f[i]
      /\ \A j \in 1..Len(lines) : a[d + j] = lines[j] \/ a[d + j].state # "whole"
      /\ d <= Len(f) /\ Len(f) \in Nat /\ Len(lines) \in Nat
  <2>1. /\ a \in Seq(Line) /\ d \in Nat /\ Len(a) = d + Len(lines)
        /\ \A i \in 1..d : a[i] = f[i]
        /\ \A j \in 1..Len(lines) : a[d + j] = lines[j] \/ a[d + j].state # "whole"
    BY AppendedSound
  <2>2. Len(f) \in Nat /\ Len(lines) \in Nat
    BY LenProperties
  <2>3. d <= Len(f)
    BY <2>2
  <2>4. QED
    BY <2>1, <2>2, <2>3
<1> HIDE DEF a, glue, d
<1>2. SUFFICES ASSUME NEW i \in 1..Len(a), NEW k \in 1..Len(a), i < k,
                      a[i].state = "whole", a[k].state = "whole",
                      a[i].hash = a[k].hash, a[i].hash \notin rep
               PROVE  a[i].n # a[k].n /\ a[i].n # 0 /\ a[k].n # 0
  BY DEF OnceIn, a
<1>3. CASE k <= d
  <2>1. i \in 1..d /\ k \in 1..d /\ i \in 1..Len(f) /\ k \in 1..Len(f)
    BY <1>1, <1>2, <1>3
  <2>2. a[i] = f[i] /\ a[k] = f[k]
    BY <2>1, <1>1
  <2>3. QED
    BY <1>2, <2>1, <2>2 DEF OnceIn
<1>4. CASE i > d
  <2>1. /\ i - d \in 1..Len(lines) /\ d + (i - d) = i
        /\ k - d \in 1..Len(lines) /\ d + (k - d) = k /\ i - d < k - d
    BY <1>1, <1>2, <1>4
  <2>2. a[i] = lines[i - d] /\ a[k] = lines[k - d]
    BY <1>1, <1>2, <2>1
  <2>3. QED
    BY <1>2, <2>1, <2>2 DEF OnceIn
<1>5. CASE i <= d /\ k > d
  <2>1. i \in 1..Len(f) /\ a[i] = f[i] /\ f[i] \in Line
    BY <1>1, <1>2, <1>5, ElementOfSeq
  <2>2. k - d \in 1..Len(lines) /\ d + (k - d) = k
    BY <1>1, <1>2, <1>5
  <2>3. a[k] = lines[k - d] /\ lines[k - d] \in Line
    BY <1>1, <1>2, <2>2, ElementOfSeq
  <2>4. a[i] \in Whole(f) /\ a[k] \in Whole(lines)
    BY <1>2, <2>1, <2>2, <2>3, WholeLines
  <2>5. a[i].hash \in LoadDoneHashes(f) \cap LoadDoneHashes(lines)
    BY <1>2, <2>4, WholeLines
  <2>6. QED
    BY <1>2, <2>5
<1>6. QED
  BY <1>1, <1>3, <1>4, <1>5

\* What is torn is a piece.
LEMMA TornSound ==
  ASSUME NEW lines \in Seq(Line), NEW piece \in Torn(lines)
  PROVE  PieceOf(piece, lines)
<1>1. Len(lines) \in Nat /\ \A i \in 1..Len(lines) : lines[i] \in Line
  BY LenProperties, ElementOfSeq
<1>2. PICK k \in 0..(Len(lines) - 1) :
        \/ piece = SubSeq(lines, 1, k)
        \/ piece = SubSeq(lines, 1, k) \o <<[lines[k + 1] EXCEPT !.state = "open"]>>
  BY DEF Torn
<1> DEFINE s == SubSeq(lines, 1, k)
           l == [lines[k + 1] EXCEPT !.state = "open"]
<1>3. k \in Nat /\ k + 1 \in 1..Len(lines) /\ k + 1 <= Len(lines)
  BY <1>1
<1>4. s \in Seq(Line) /\ Len(s) = k /\ \A i \in 1..k : s[i] = lines[i]
  <2>1. 1 \in Int /\ k \in Int /\ \A i \in 1..k : lines[i] \in Line
    BY <1>1, <1>3
  <2>2. /\ s \in Seq(Line) /\ Len(s) = (IF 1 <= k THEN k - 1 + 1 ELSE 0)
        /\ \A i \in 1..(k - 1 + 1) : s[i] = lines[1 + i - 1]
    BY <2>1, SubSeqProperties
  <2> HIDE DEF s
  <2>3. QED
    BY <2>2, <1>3
<1>5. l \in Line /\ l.state = "open"
  BY <1>1, <1>3, LineState
<1>6. piece = s \/ piece = s \o <<l>>
  BY <1>2
<1> HIDE DEF s, l
<1>7. CASE piece = s
  BY <1>3, <1>4, <1>7 DEF PieceOf
<1>8. CASE piece = s \o <<l>>
  <2>1. <<l>> \in Seq(Line) /\ Len(<<l>>) = 1 /\ <<l>>[1] = l
    BY <1>5
  <2>2. /\ piece \in Seq(Line) /\ Len(piece) = k + 1
        /\ \A i \in 1..(k + 1) : piece[i] = IF i <= k THEN s[i] ELSE <<l>>[i - k]
    BY <1>3, <1>4, <1>8, <2>1, ConcatProperties
  <2>3. ASSUME NEW i \in 1..(k + 1) PROVE piece[i] = lines[i] \/ piece[i].state # "whole"
    <3>1. CASE i <= k
      BY <3>1, <1>3, <1>4, <2>2
    <3>2. CASE ~(i <= k)
      <4>1. i - k = 1
        BY <3>2, <1>3
      <4>2. QED
        BY <4>1, <3>2, <1>5, <2>1, <2>2
    <3>3. QED
      BY <3>1, <3>2
  <2>4. QED
    BY <1>3, <2>2, <2>3 DEF PieceOf
<1>9. QED
  BY <1>6, <1>7, <1>8

\* A file without a line.
LEMMA EmptyLines ==
  /\ << >> \in Seq(Line) /\ Whole(<< >>) = {} /\ LoadDoneHashes(<< >>) = {}
  /\ ~IsOpen(<< >>) /\ \A rep : OnceIn(<< >>, rep)
<1>1. << >> \in Seq(Line) /\ Len(<< >>) = 0
  BY EmptySeq
<1>2. Whole(<< >>) = {}
  BY DEF Whole, ToSet
<1>3. LoadDoneHashes(<< >>) = {}
  BY <1>2 DEF LoadDoneHashes
<1>4. QED
  BY <1>1, <1>2, <1>3 DEF IsOpen, OnceIn

\* Nothing that is appended is lost if the file ends with a newline.
LEMMA AppendedWhole ==
  ASSUME NEW f \in Seq(Line), NEW lines \in Seq(Line), lines # << >> => ~IsOpen(f)
  PROVE  /\ Appended(f, lines) \in Seq(Line)
         /\ Whole(f) \subseteq Whole(Appended(f, lines))
         /\ Whole(lines) \subseteq Whole(Appended(f, lines))
<1> DEFINE a == Appended(f, lines)
<1>1. a \in Seq(Line) /\ Whole(f) \subseteq Whole(a)
  BY AppendedLines
<1>2. \A l \in Whole(lines) : l \in Whole(a) \/ (IsOpen(f) /\ lines # << >> /\ l = Head(lines))
  BY AppendedLines
<1> HIDE DEF a
<1>3. Whole(lines) \subseteq Whole(a)
  BY <1>2
<1>4. QED
  BY <1>1, <1>3 DEF a

--------------------------------------------------------------------------------
(* The commits of the data                                                     *)

\* There are finitely many commits, each with its place in the data.
LEMMA CommitsOfData ==
  /\ IsFiniteSet(Hashes) /\ Cardinality(Hashes) <= Len(Data) /\ Len(Data) \in Nat
  /\ \A h \in Hashes : Position[h] \in 1..Len(Data)
<1> DEFINE n == Len(Data)
<1>1. n \in Nat /\ Data \in [1..n -> Hashes]
  BY BatchAssumption, LenProperties
<1>2. \A h \in Hashes : \E i \in 1..n : Data[i] = h
  BY <1>1 DEF Hashes, ToSet
<1>3. Data \in Surjection(1..n, Hashes)
  BY <1>1, <1>2 DEF Surjection
<1>4. IsFiniteSet(1..n) /\ Cardinality(1..n) = n
  <2>1. 1 \in Int /\ n \in Int
    BY <1>1
  <2>2. Cardinality(1..n) = (IF 1 > n THEN 0 ELSE n - 1 + 1) /\ IsFiniteSet(1..n)
    BY <2>1, FS_Interval
  <2>3. QED
    BY <2>2, <1>1
<1>5. IsFiniteSet(Hashes) /\ Cardinality(Hashes) <= n
  BY <1>3, <1>4, FS_Surjection
<1>6. ASSUME NEW h \in Hashes PROVE Position[h] \in 1..n
  BY <1>2 DEF Position
<1>7. QED
  BY <1>1, <1>5, <1>6

\* Among numbers there is a least one.
LEMMA LeastExists ==
  ASSUME NEW S, S \subseteq Nat, S # {}
  PROVE  \E k \in S : \A l \in S : k <= l
<1> DEFINE Less == OpToRel(<, Nat)
<1>1. IsWellFoundedOn(Less, Nat)
  BY NatLessThanWellFounded
<1>2. \A k, l \in Nat : <<l, k>> \in Less <=> l < k
  BY DEF OpToRel
<1> HIDE DEF Less
<1>3. PICK k \in S : \A l \in S : ~(<<l, k>> \in Less)
  BY <1>1, WFMin
<1>4. \A l \in S : l \in Nat /\ k \in Nat /\ ~(l < k)
  BY <1>2, <1>3
<1>5. QED
  BY <1>4

\* The next commit of a list is one of the list.
LEMMA ForemostIn ==
  ASSUME NEW hs, hs \subseteq Hashes, hs # {}
  PROVE  Foremost(hs) \in hs
<1> DEFINE places == {Position[h] : h \in hs}
<1>1. places \subseteq Nat /\ places # {}
  BY CommitsOfData
<1>2. PICK k \in places : \A l \in places : k <= l
  BY <1>1, LeastExists
<1>3. PICK h \in hs : Position[h] = k
  BY <1>2
<1>4. \A g \in hs : Position[h] <= Position[g]
  BY <1>2, <1>3
<1>5. QED
  BY <1>3, <1>4 DEF Foremost

\* The rest of a list has one commit less.
LEMMA RestOfList ==
  ASSUME NEW hs, hs \subseteq Hashes
  PROVE  /\ Cardinality(hs) \in Nat /\ Cardinality(hs) <= Len(Data)
         /\ \A h \in hs : Cardinality(hs \ {h}) = Cardinality(hs) - 1
         /\ Cardinality({}) = 0
<1>1. IsFiniteSet(hs) /\ Cardinality(hs) <= Cardinality(Hashes)
  BY CommitsOfData, FS_Subset
<1>2. Cardinality(hs) \in Nat /\ Cardinality(Hashes) \in Nat
  BY <1>1, CommitsOfData, FS_CardinalityType
<1>3. \A h \in hs : Cardinality(hs \ {h}) = Cardinality(hs) - 1
  BY <1>1, FS_RemoveElement
<1>4. QED
  BY <1>1, <1>2, <1>3, CommitsOfData, FS_EmptySet

\* A remainder is one of the numbers from 0 on that are less than the divisor, and no more
\* than what is divided.
LEMMA Remainders ==
  ASSUME NEW a \in Nat, NEW n \in Nat \ {0}
  PROVE  a % n \in 0..(n - 1) /\ a % n <= a
<1>1. a % n \in 0..(n - 1)
  OBVIOUS
<1>2. a = n * (a \div n) + (a % n) /\ a \div n \in Int
  OBVIOUS
<1>3. a \div n >= 0
  OBVIOUS
<1>4. n * (a \div n) >= 0
  BY <1>2, <1>3
<1>5. QED
  BY <1>1, <1>2, <1>4

\* Each commit that is handed out goes to one worker of those there are.
LEMMA ShardsDivide ==
  ASSUME NEW hs, hs \subseteq Hashes, NEW n \in Procs
  PROVE  /\ \A w \in Workers : Shard(hs, n, w) \subseteq hs
         /\ \A v, w \in Workers : v # w => Shard(hs, n, v) \cap Shard(hs, n, w) = {}
         /\ \A h \in hs : \E w \in Workers : w <= n /\ h \in Shard(hs, n, w)
<1>1. \A w \in Workers : w \in Nat \ {0}
  BY CommitsOfData DEF Workers
<1>2. \A v, w \in Workers : v # w => Shard(hs, n, v) \cap Shard(hs, n, w) = {}
  BY <1>1 DEF Shard
<1>3. ASSUME NEW h \in hs
      PROVE  \E w \in Workers : w <= n /\ h \in Shard(hs, n, w)
  <2> DEFINE before == {g \in hs : Position[g] <= Position[h]}
             r == Rank(h, hs)
  <2>1. before \subseteq Hashes /\ h \in before
    BY CommitsOfData, <1>3
  <2>2. r = Cardinality(before)
    BY DEF Rank
  <2> HIDE DEF before
  <2>3. /\ Cardinality(before) \in Nat /\ Cardinality(before) <= Len(Data)
        /\ Cardinality(before \ {h}) = Cardinality(before) - 1
        /\ Cardinality(before \ {h}) \in Nat
    BY <2>1, RestOfList
  <2> HIDE DEF r
  <2>4. r - 1 \in Nat /\ r \in Nat /\ r <= Len(Data) /\ n \in Nat \ {0} /\ Len(Data) \in Nat
    BY <2>2, <2>3, BatchAssumption, CommitsOfData
  <2> DEFINE m == (r - 1) % n
  <2>5. m \in 0..(n - 1) /\ m <= r - 1
    BY <2>4, Remainders
  <2>6. h \in Shard(hs, n, m + 1)
    <3>1. m = (m + 1) - 1
      BY <2>4, <2>5
    <3>2. (Rank(h, hs) - 1) % n = m
      BY DEF r
    <3> HIDE DEF m
    <3>3. QED
      BY <3>1, <3>2 DEF Shard
  <2> HIDE DEF m
  <2>7. m + 1 \in 1..Len(Data) /\ m + 1 <= n
    BY <2>4, <2>5
  <2>8. m + 1 \in Workers
    BY <2>7 DEF Workers
  <2>9. QED
    BY <2>6, <2>7, <2>8
<1>4. QED
  BY <1>2, <1>3 DEF Shard

--------------------------------------------------------------------------------
(* What is written of a commit                                                 *)

\* A worker, by itself.
ProcessState ==
  [at : {"off", "item", "exists", "clone", "cloning", "worktree", "work", "write"},
   todo : SUBSET Hashes, done : SUBSET Hashes, processed : 0..Len(Data), failed : BOOLEAN]

\* A line that is whole.
LEMMA WholeLineSound ==
  ASSUME NEW h \in Hashes, NEW n \in 0..Samples
  PROVE  /\ WholeLine(h, n) \in Line /\ WholeLine(h, n).state = "whole"
         /\ WholeLine(h, n).hash = h /\ WholeLine(h, n).n = n
BY DEF WholeLine, Line

\* Records of one commit, of samples that differ.
RecordsOf(lines, h) ==
  /\ lines \in Seq(Line) /\ LoadDoneHashes(lines) \subseteq {h}
  /\ \A rep : OnceIn(lines, rep)

\* The lines of a commit are whole, and there is one that says that it is done, unless it
\* failed in the train program (Runner._process_one, TrainRunner).
LEMMA LinesOfSound ==
  ASSUME NEW w \in Workers, Current(w) \in Hashes
  PROVE  /\ RecordsOf(LinesOf(w), Current(w)) /\ ~IsOpen(LinesOf(w))
         /\ \A l \in ToSet(LinesOf(w)) : l \in Whole(LinesOf(w))
         /\ LinesOf(w) # << >> => Current(w) \in LoadDoneHashes(LinesOf(w))
<1> DEFINE lines == LinesOf(w)
           h == Current(w)
<1>1. Samples \in Nat \ {0}
  BY BatchAssumption
<1>2. lines = << >> \/ /\ lines \in Seq(Line) /\ lines # << >>
                       /\ \A i \in 1..Len(lines) : lines[i].state = "whole" /\ lines[i].hash = h
                       /\ \A i, k \in 1..Len(lines) : i < k =>
                            lines[i].n # lines[k].n /\ lines[i].n # 0 /\ lines[k].n # 0
  <2>1. CASE driver = "predict"
    <3> DEFINE n == IF worker[w].failed THEN 0 ELSE 1
               l == WholeLine(h, n)
    <3>1. n \in 0..Samples
      BY <1>1
    <3> HIDE DEF n
    <3>2. l \in Line /\ l.state = "whole" /\ l.hash = h
      BY <3>1, WholeLineSound
    <3>3. lines = <<l>>
      BY <2>1 DEF LinesOf, n
    <3> HIDE DEF l, lines
    <3>4. lines \in Seq(Line) /\ Len(lines) = 1 /\ lines[1] = l /\ lines # << >>
      BY <3>2, <3>3
    <3>5. QED
      BY <3>2, <3>4
  <2>2. CASE driver # "predict" /\ driver = "train" /\ worker[w].failed
    BY <2>2 DEF LinesOf
  <2>3. CASE driver # "predict" /\ ~(driver = "train" /\ worker[w].failed)
    <3>1. lines = [n \in 1..Samples |-> WholeLine(h, n)]
      BY <2>3 DEF LinesOf
    <3>2. \A n \in 1..Samples : WholeLine(h, n) \in Line /\ n \in 0..Samples
      BY <1>1, WholeLineSound
    <3> HIDE DEF lines
    <3>3. lines \in [1..Samples -> Line]
      BY <3>1, <3>2
    <3>4. lines \in Seq(Line) /\ Len(lines) = Samples
      BY <3>3, <1>1
    <3>5. \A i \in 1..Samples : /\ lines[i].state = "whole" /\ lines[i].hash = h
                                /\ lines[i].n = i
      BY <3>1, <3>2, WholeLineSound
    <3>6. lines # << >>
      BY <3>4, <1>1, EmptySeq
    <3>7. QED
      BY <3>4, <3>5, <3>6, <1>1
  <2>4. QED
    BY <2>1, <2>2, <2>3
<1>3. CASE lines = << >>
  <2>1. ToSet(lines) = {}
    BY <1>3 DEF ToSet
  <2>2. QED
    BY <1>3, <2>1, EmptyLines DEF RecordsOf
<1>4. CASE lines # << >>
  <2> HIDE DEF lines
  <2>1. /\ lines \in Seq(Line)
        /\ \A i \in 1..Len(lines) : lines[i].state = "whole" /\ lines[i].hash = h
        /\ \A i, k \in 1..Len(lines) : i < k =>
             lines[i].n # lines[k].n /\ lines[i].n # 0 /\ lines[k].n # 0
    BY <1>2, <1>4
  <2>2. Len(lines) \in Nat \ {0} /\ Last(lines) = lines[Len(lines)]
    BY <2>1, <1>4, FrontSound
  <2>3. ~IsOpen(lines)
    BY <2>1, <2>2 DEF IsOpen
  <2>4. \A rep : OnceIn(lines, rep)
    BY <2>1 DEF OnceIn
  <2>5. Whole(lines) = {l \in Line : l.state = "whole" /\ \E i \in 1..Len(lines) : lines[i] = l}
        /\ LoadDoneHashes(lines) = {l.hash : l \in Whole(lines)}
    BY <2>1, WholeLines
  <2>6. LoadDoneHashes(lines) \subseteq {h}
    BY <2>1, <2>5
  <2>7. \A l \in ToSet(lines) : l \in Whole(lines)
    BY <2>1, <2>5, ElementOfSeq, LenProperties DEF ToSet
  <2>8. h \in LoadDoneHashes(lines)
    <3>1. 1 \in 1..Len(lines) /\ lines[1] \in Line
      BY <2>1, <2>2, ElementOfSeq
    <3>2. lines[1] \in Whole(lines) /\ lines[1].hash = h
      BY <3>1, <2>1, <2>5
    <3>3. QED
      BY <3>2, <2>5
  <2>9. QED
    BY <2>1, <2>3, <2>4, <2>6, <2>7, <2>8 DEF RecordsOf, lines
<1>5. QED
  BY <1>3, <1>4

\* What a process leaves that is killed: nothing, or a piece of what it writes.
LEMMA LeftoversSound ==
  ASSUME NEW w \in Workers, worker[w].at = "write" => Current(w) \in Hashes,
         NEW lines \in Leftovers(w)
  PROVE  /\ lines = << >> \/ worker[w].at = "write"
         /\ RecordsOf(lines, Current(w))
<1>1. CASE worker[w].at = "write" /\ LinesOf(w) # << >>
  <2>1. lines \in Torn(LinesOf(w))
    BY <1>1 DEF Leftovers
  <2>2. RecordsOf(LinesOf(w), Current(w))
    BY <1>1, LinesOfSound
  <2>3. PieceOf(lines, LinesOf(w)) /\ LinesOf(w) \in Seq(Line)
    BY <2>1, <2>2, TornSound DEF RecordsOf
  <2>4. QED
    BY <1>1, <2>2, <2>3, PieceLines DEF RecordsOf
<1>2. CASE ~(worker[w].at = "write" /\ LinesOf(w) # << >>)
  BY <1>2, EmptyLines DEF Leftovers, RecordsOf
<1>3. QED
  BY <1>1, <1>2

\* A process at work has a commit.
LEMMA CurrentKnown ==
  ASSUME BatchTypeOK, ProcessesSound, NEW w \in Workers,
         worker[w].at \notin {"off", "item"} \/ worker[w].todo # {}
  PROVE  Current(w) \in worker[w].todo /\ Current(w) \in Hashes
BY ForemostIn DEF BatchTypeOK, ProcessesSound, Current

--------------------------------------------------------------------------------
(* Steps of a process that write nothing                                       *)

\* A process that goes on without writing keeps the invariant: it has nothing more to do
\* than before, and a worktree only of the commit at work.
LEMMA ProcessMoves ==
  ASSUME BatchInv, NEW w \in Workers, NEW r \in ProcessState,
         worker[w].at # "off", worker' = [worker EXCEPT ![w] = r],
         UNCHANGED <<driver, files, run, runs, history>>,
         bare' \in {"none", "partial", "ready"}, sandboxes' \subseteq Hashes,
         r.todo \subseteq worker[w].todo, r.todo \ r.done \subseteq Due(w),
         r.done \subseteq worker[w].done,
         r.at \notin {"off", "item"} => r.todo # {} /\ Foremost(r.todo) \notin r.done,
         r.at = "off" => r.todo = {},
         r.processed + Cardinality(r.todo) <= Len(Data),
         run.limit = 0 => worker[w].todo \ r.todo \subseteq worker[w].done,
         \A h \in sandboxes' \ sandboxes : r.at = "work" /\ h = Foremost(r.todo),
         worker[w].at = "work" => Current(w) \notin sandboxes'
  PROVE  BatchInv'
<1>1. worker \in [Workers -> ProcessState]
  BY DEF BatchInv, BatchTypeOK, ProcessState
<1>2. /\ worker' \in [Workers -> ProcessState] /\ worker'[w] = r
      /\ \A v \in Workers \ {w} : worker'[v] = worker[v]
  BY <1>1
<1>3. BatchTypeOK'
  BY <1>2 DEF BatchInv, BatchTypeOK, ProcessState, files, history
<1>4. run' = run /\ output' = output /\ part' = part /\ repeatable' = repeatable
      /\ written' = written /\ glued' = glued /\ leaked' = leaked
  BY DEF files, history
<1>5. ASSUME NEW v \in Workers
      PROVE  /\ worker'[v].at # "off" => /\ run'.phase = "work" /\ v <= run'.nproc
                                         /\ ~IsOpen(FileOf(v)')
             /\ worker'[v].at \notin {"off", "item"} =>
                  worker'[v].todo # {} /\ Current(v)' \notin worker'[v].done
             /\ worker'[v].at = "off" => worker'[v].todo = {}
             /\ worker'[v].processed + Cardinality(worker'[v].todo) <= Len(Data)
             /\ worker'[v].todo \subseteq worker[v].todo /\ Due(v)' \subseteq Due(v)
             /\ worker'[v].done \subseteq worker[v].done
  <2>1. CASE v = w
    BY <1>2, <1>4, <2>1 DEF BatchInv, ProcessesSound, FileOf, Current, Due
  <2>2. CASE v # w
    BY <1>2, <1>4, <2>2 DEF BatchInv, ProcessesSound, FileOf, Current, Due
  <2>3. QED
    BY <2>1, <2>2
<1>6. ProcessesSound'
  BY <1>5 DEF ProcessesSound, IsOpen, FileOf
<1>7. MergeSound' /\ LinesKept' /\ PartsLeftOver'
  BY <1>4 DEF BatchInv, MergeSound, LinesKept, PartsLeftOver, Whole, LoadDoneHashes, AtRest
<1>8. SandboxesKnown'
  <2>1. ASSUME NEW h \in sandboxes'
        PROVE  h \in leaked \/ \E v \in Workers : worker'[v].at = "work" /\ h = Current(v)'
    <3>1. CASE h \notin sandboxes
      BY <1>2, <2>1, <3>1 DEF Current
    <3>2. CASE h \in sandboxes /\ h \notin leaked
      <4>1. PICK v \in Workers : worker[v].at = "work" /\ h = Current(v)
        BY <3>2 DEF BatchInv, SandboxesKnown
      <4>2. v # w
        BY <4>1, <2>1
      <4>3. QED
        BY <4>1, <4>2, <1>2 DEF Current
    <3>3. QED
      BY <3>1, <3>2
  <2>2. QED
    BY <2>1, <1>4 DEF SandboxesKnown
<1>9. RecordsApart'
  BY <1>4, <1>5 DEF BatchInv, RecordsApart, LoadDoneHashes, OnceIn, Whole
<1>10. CommitsAccountedFor'
  <2>1. Recorded' = Recorded
    BY <1>4 DEF Recorded, LoadDoneHashes, Whole, AtRest
  <2>2. LoadDoneHashes(output) \subseteq Recorded
    BY DEF Recorded
  <2>3. ASSUME run.phase # "none", run.unharmed, run.limit = 0,
               NEW h \in Hashes, h \notin Recorded
        PROVE  \E v \in Workers : h \in worker'[v].todo
    <3>1. PICK v \in Workers : h \in worker[v].todo
      BY <2>3 DEF BatchInv, CommitsAccountedFor
    <3>2. CASE v = w
      <4>1. h \notin worker[w].done
        BY <2>2, <2>3 DEF BatchInv, CommitsAccountedFor
      <4>2. QED
        BY <3>1, <3>2, <4>1, <2>3, <1>2
    <3>3. CASE v # w
      BY <3>1, <3>3, <1>2
    <3>4. QED
      BY <3>2, <3>3
  <2>4. \A v \in Workers : worker'[v].done \subseteq LoadDoneHashes(output)
    BY <1>5 DEF BatchInv, CommitsAccountedFor
  <2>5. LoadDoneHashes(output)' = LoadDoneHashes(output)
    BY <1>4 DEF LoadDoneHashes, Whole
  <2>6. QED
    BY <2>1, <2>3, <2>4, <2>5, <1>4 DEF CommitsAccountedFor
<1>11. QED
  BY <1>3, <1>6, <1>7, <1>8, <1>9, <1>10 DEF BatchInv

\* A process that stays with its commit.
LEMMA ProcessStays ==
  ASSUME BatchInv, NEW w \in Workers,
         NEW at \in {"exists", "clone", "cloning", "worktree", "work", "write"},
         NEW failed \in BOOLEAN,
         worker[w].at # "off", worker[w].todo # {}, Current(w) \notin worker[w].done,
         worker' = [worker EXCEPT ![w].at = at, ![w].failed = failed],
         UNCHANGED <<driver, files, run, runs, history>>,
         bare' \in {"none", "partial", "ready"},
         \A h \in sandboxes' \ sandboxes : at = "work" /\ h = Current(w),
         worker[w].at = "work" => Current(w) \notin sandboxes'
  PROVE  BatchInv'
<1> DEFINE r == [worker[w] EXCEPT !.at = at, !.failed = failed]
<1>1. worker \in [Workers -> ProcessState] /\ worker[w] \in ProcessState
  BY DEF BatchInv, BatchTypeOK, ProcessState
<1>2. worker' = [worker EXCEPT ![w] = r]
  BY <1>1 DEF ProcessState
<1>3. r \in ProcessState /\ r.at = at /\ r.todo = worker[w].todo /\ r.done = worker[w].done
      /\ r.processed = worker[w].processed
  BY <1>1 DEF ProcessState
<1> HIDE DEF r
<1>4. Current(w) \in Hashes
  BY CurrentKnown DEF BatchInv
<1>5. sandboxes' \subseteq Hashes
  BY <1>4 DEF BatchInv, BatchTypeOK
<1>6. r.processed + Cardinality(r.todo) <= Len(Data)
  BY <1>3 DEF BatchInv, ProcessesSound
<1>7. Foremost(r.todo) = Current(w) /\ r.todo \ r.done = Due(w)
  BY <1>3 DEF Current, Due
<1>8. at \notin {"off", "item"} /\ r.todo # {} /\ Foremost(r.todo) \notin r.done
  BY <1>3, <1>7
<1>9. /\ r.todo \subseteq worker[w].todo /\ worker[w].todo \ r.todo = {}
      /\ r.done \subseteq worker[w].done
  BY <1>3
<1>10. \A h \in sandboxes' \ sandboxes : r.at = "work" /\ h = Foremost(r.todo)
  BY <1>3, <1>7
<1>11. QED
  BY <1>2, <1>3, <1>5, <1>6, <1>7, <1>8, <1>9, <1>10, ProcessMoves

\* A process ends that has nothing left, or that the limit ends.
LEMMA ProcessExits ==
  ASSUME BatchInv, NEW w \in Workers, worker[w].at = "item", Exit(w),
         worker[w].todo = {} \/ run.limit # 0,
         UNCHANGED <<driver, files, bare, sandboxes, run, runs, history>>
  PROVE  BatchInv'
<1>1. Off \in ProcessState /\ Off.at = "off" /\ Off.todo = {} /\ Off.done = {}
      /\ Off.processed = 0
  BY CommitsOfData DEF Off, ProcessState
<1>2. Off.processed + Cardinality(Off.todo) <= Len(Data)
  BY <1>1, CommitsOfData, FS_EmptySet
<1>3. worker' = [worker EXCEPT ![w] = Off]
  BY DEF Exit
<1>4. bare' \in {"none", "partial", "ready"} /\ sandboxes' \subseteq Hashes
  BY DEF BatchInv, BatchTypeOK
<1>5. QED
  BY <1>1, <1>2, <1>3, <1>4, ProcessMoves DEF Due

\* A commit that was done is passed over.
LEMMA ProcessSkips ==
  ASSUME BatchInv, NEW w \in Workers, worker[w].at = "item",
         worker[w].todo # {}, Current(w) \in worker[w].done,
         worker' = [worker EXCEPT ![w].todo = worker[w].todo \ {Current(w)}],
         UNCHANGED <<driver, files, bare, sandboxes, run, runs, history>>
  PROVE  BatchInv'
<1> DEFINE rest == worker[w].todo \ {Current(w)}
           r == [worker[w] EXCEPT !.todo = rest]
<1>1. worker \in [Workers -> ProcessState] /\ worker[w] \in ProcessState
  BY DEF BatchInv, BatchTypeOK, ProcessState
<1>2. worker[w].todo \subseteq Hashes /\ rest \subseteq Hashes
  BY <1>1 DEF ProcessState
<1>3. Cardinality(rest) = Cardinality(worker[w].todo) - 1
      /\ Cardinality(worker[w].todo) \in Nat
  BY <1>2, CurrentKnown, RestOfList DEF BatchInv
<1>a. worker' = [worker EXCEPT ![w] = r]
  BY <1>1 DEF ProcessState
<1>b. rest \subseteq worker[w].todo /\ worker[w].todo \ rest \subseteq {Current(w)}
  OBVIOUS
<1> HIDE DEF rest
<1>4. r \in ProcessState /\ r.at = "item" /\ r.todo = rest /\ r.done = worker[w].done
      /\ r.processed = worker[w].processed
  BY <1>1, <1>2 DEF ProcessState
<1> HIDE DEF r
<1>5. worker[w].processed \in Nat /\ Len(Data) \in Nat
      /\ worker[w].processed + Cardinality(worker[w].todo) <= Len(Data)
  BY <1>1, CommitsOfData DEF BatchInv, ProcessesSound, ProcessState
<1>6. r.processed + Cardinality(r.todo) <= Len(Data)
  BY <1>3, <1>4, <1>5
<1>7. bare' \in {"none", "partial", "ready"} /\ sandboxes' \subseteq Hashes
  BY DEF BatchInv, BatchTypeOK
<1>8. QED
  BY <1>a, <1>b, <1>4, <1>6, <1>7, ProcessMoves DEF Due

\* The next commit of a process: TakeItem, or what run_all decides before it starts one.
LEMMA TakeItemSound ==
  ASSUME BatchInv, NEW w \in Workers, TakeItem(w)
  PROVE  BatchInv'
<1>1. /\ worker[w].at = "item"
      /\ UNCHANGED <<driver, files, bare, sandboxes, run, runs, history>>
  BY DEF TakeItem, StandsAt, ParentUnchanged
<1>2. worker \in [Workers -> ProcessState] /\ worker[w].failed \in BOOLEAN
      /\ bare \in {"none", "partial", "ready"}
  BY DEF BatchInv, BatchTypeOK, ProcessState
<1>3. CASE worker[w].todo = {} /\ Exit(w)
  BY <1>1, <1>3, ProcessExits
<1>4. CASE /\ worker[w].todo # {} /\ Current(w) \in worker[w].done
           /\ worker' = [worker EXCEPT ![w].todo = @ \ {Current(w)}]
  BY <1>1, <1>4, ProcessSkips
<1>5. CASE /\ worker[w].todo # {} /\ Current(w) \notin worker[w].done
           /\ run.limit # 0 /\ Exit(w)
  BY <1>1, <1>5, ProcessExits
<1>6. CASE /\ worker[w].todo # {} /\ Current(w) \notin worker[w].done
           /\ MoveTo(w, "exists")
  <2>1. worker' = [worker EXCEPT ![w].at = "exists", ![w].failed = worker[w].failed]
    BY <1>2, <1>6 DEF MoveTo, ProcessState
  <2>2. QED
    BY <1>1, <1>2, <1>6, <2>1, ProcessStays
<1>7. QED
  BY <1>3, <1>4, <1>5, <1>6 DEF TakeItem

\* The places at which a process has a commit that it did not find done.
LEMMA AtCommit ==
  ASSUME BatchInv, NEW w \in Workers,
         NEW at \in {"exists", "clone", "cloning", "worktree", "work", "write"}, StandsAt(w, at)
  PROVE  /\ worker[w].at = at /\ worker[w].todo # {} /\ Current(w) \notin worker[w].done
         /\ worker \in [Workers -> ProcessState] /\ worker[w].failed \in BOOLEAN
         /\ bare \in {"none", "partial", "ready"}
BY DEF BatchInv, BatchTypeOK, ProcessesSound, StandsAt, ProcessState

\* A process that goes on at another place.
LEMMA MoveToSound ==
  ASSUME BatchInv, NEW w \in Workers, NEW from, NEW at,
         from \in {"exists", "clone", "cloning", "worktree"}, StandsAt(w, from),
         at \in {"clone", "cloning", "worktree", "work"}, MoveTo(w, at),
         UNCHANGED <<driver, files, run, runs, history>>,
         bare' \in {"none", "partial", "ready"},
         \A h \in sandboxes' \ sandboxes : at = "work" /\ h = Current(w)
  PROVE  BatchInv'
<1>1. /\ worker[w].at = from /\ worker[w].todo # {} /\ Current(w) \notin worker[w].done
      /\ worker \in [Workers -> ProcessState] /\ worker[w].failed \in BOOLEAN
  BY AtCommit
<1>2. worker' = [worker EXCEPT ![w].at = at, ![w].failed = worker[w].failed]
  BY <1>1 DEF MoveTo, ProcessState
<1>3. QED
  BY <1>1, <1>2, ProcessStays

\* A commit that is over, whether it failed or not: its worktree is removed.
LEMMA OverSound ==
  ASSUME BatchInv, NEW w \in Workers, NEW from,
         from \in {"exists", "clone", "cloning", "worktree", "work"}, StandsAt(w, from),
         NEW failed \in BOOLEAN,
         worker' = [worker EXCEPT ![w].at = "write", ![w].failed = failed],
         UNCHANGED <<driver, files, run, runs, history>>,
         bare' \in {"none", "partial", "ready"},
         sandboxes' \subseteq sandboxes,
         from = "work" => Current(w) \notin sandboxes'
  PROVE  BatchInv'
<1>1. /\ worker[w].at = from /\ worker[w].todo # {} /\ Current(w) \notin worker[w].done
  BY AtCommit
<1>2. QED
  BY <1>1, ProcessStays

\* A commit on its way to its worktree and through the work (_process_one,
\* prepare_sandbox_repo, cleanup_sandbox_repo).
LEMMA CommitWorkSound ==
  ASSUME BatchInv, NEW w \in Workers,
         BareExists(w) \/ BeginClone(w) \/ EndClone(w) \/ AddWorktree(w) \/ Work(w)
  PROVE  BatchInv'
<1>1. CASE BareExists(w)
  <2>1. StandsAt(w, "exists") /\ UNCHANGED <<driver, files, bare, sandboxes, run, runs, history>>
    BY <1>1 DEF BareExists, ParentUnchanged
  <2>2. bare' \in {"none", "partial", "ready"}
    BY <2>1, AtCommit
  <2>3. CASE worker' = [worker EXCEPT ![w].at = "write", ![w].failed = TRUE]
    BY <2>1, <2>2, <2>3, OverSound
  <2>4. CASE MoveTo(w, IF bare = "none" THEN "clone" ELSE "worktree")
    BY <2>1, <2>2, <2>4, MoveToSound
  <2>5. QED
    BY <1>1, <2>3, <2>4 DEF BareExists
<1>2. CASE BeginClone(w)
  <2>1. StandsAt(w, "clone") /\ UNCHANGED <<driver, files, run, runs, history>>
    BY <1>2 DEF BeginClone, ParentUnchanged
  <2>2. bare \in {"none", "partial", "ready"}
    BY <2>1, AtCommit
  <2>3. CASE bare' = "partial" /\ MoveTo(w, "cloning") /\ UNCHANGED sandboxes
    BY <2>1, <2>3, MoveToSound
  <2>4. CASE Fail(w) /\ UNCHANGED bare
    BY <2>1, <2>2, <2>4, OverSound DEF Fail
  <2>5. QED
    BY <1>2, <2>3, <2>4 DEF BeginClone
<1>3. CASE EndClone(w)
  <2>1. StandsAt(w, "cloning") /\ UNCHANGED <<driver, files, run, runs, history>>
    BY <1>3 DEF EndClone, ParentUnchanged
  <2>2. CASE bare' = "ready" /\ MoveTo(w, "worktree") /\ UNCHANGED sandboxes
    BY <2>1, <2>2, MoveToSound
  <2>3. CASE bare' = "none" /\ Fail(w)
    BY <2>1, <2>3, OverSound DEF Fail
  <2>4. QED
    BY <1>3, <2>2, <2>3 DEF EndClone
<1>4. CASE AddWorktree(w)
  <2>1. StandsAt(w, "worktree") /\ UNCHANGED <<driver, files, bare, run, runs, history>>
    BY <1>4 DEF AddWorktree, ParentUnchanged
  <2>2. bare' \in {"none", "partial", "ready"}
    BY <2>1, AtCommit
  <2>3. CASE sandboxes' = sandboxes \cup {Current(w)} /\ MoveTo(w, "work")
    BY <2>1, <2>2, <2>3, MoveToSound
  <2>4. CASE Fail(w)
    BY <2>1, <2>2, <2>4, OverSound DEF Fail
  <2>5. QED
    BY <1>4, <2>3, <2>4 DEF AddWorktree
<1>5. CASE Work(w)
  <2>1. StandsAt(w, "work") /\ UNCHANGED <<driver, files, bare, run, runs, history>>
    BY <1>5 DEF Work, ParentUnchanged
  <2>2. bare' \in {"none", "partial", "ready"}
    BY <2>1, AtCommit
  <2>3. CASE Fail(w)
    BY <2>1, <2>2, <2>3, OverSound DEF Fail
  <2>4. CASE /\ worker' = [worker EXCEPT ![w].at = "write", ![w].failed = FALSE]
             /\ sandboxes' = sandboxes \ {Current(w)}
    BY <2>1, <2>2, <2>4, OverSound
  <2>5. QED
    BY <1>5, <2>3, <2>4 DEF Work
<1>6. QED
  BY <1>1, <1>2, <1>3, <1>4, <1>5

--------------------------------------------------------------------------------
(* Steps of a process that write                                               *)

\* An invocation, by itself.
RunState ==
  [phase : {"none", "work", "merge", "remove", "finished"}, nproc : Procs \cup {1},
   limit : Limits \cup {0}, next : Nat, unharmed : BOOLEAN, failed : SUBSET Hashes]

\* Processes are numbered from one on.
LEMMA WorkerNumbers ==
  /\ \A w \in Workers : w \in Nat \ {0}
  /\ BatchTypeOK => run.nproc \in Nat \ {0} /\ run.next \in Nat
<1>1. \A w \in Workers : w \in Nat \ {0}
  BY CommitsOfData DEF Workers
<1>2. ASSUME BatchTypeOK PROVE run.nproc \in Nat \ {0} /\ run.next \in Nat
  <2>1. run.nproc \in Procs \cup {1} /\ run.next \in Nat
    BY <1>2 DEF BatchTypeOK
  <2>2. \A n \in Procs \cup {1} : n \in Nat \ {0}
    BY BatchAssumption
  <2>3. QED
    BY <2>1, <2>2
<1>3. QED
  BY <1>1, <1>2

\* What one process appends to its file: nothing is lost of any file, and what is new is of
\* its commit.
LEMMA FileGrows ==
  ASSUME BatchInv, NEW w \in Workers, worker[w].at # "off", NEW lines,
         RecordsOf(lines, Current(w)), lines = << >> \/ worker[w].at = "write",
         Append_(w, lines)
  PROVE  /\ output' \in Seq(Line) /\ part' \in [Workers -> Seq(Line)]
         /\ run.nproc = 1 => part' = part
         /\ run.nproc # 1 => output' = output /\ \A v \in Workers \ {w} : part'[v] = part[v]
         /\ Whole(output) \subseteq Whole(output')
         /\ \A v \in Workers : Whole(part[v]) \subseteq Whole(part'[v])
         /\ Whole(lines) \subseteq IF run.nproc = 1 THEN Whole(output') ELSE Whole(part'[w])
         /\ LoadDoneHashes(output') \subseteq LoadDoneHashes(output) \cup LoadDoneHashes(lines)
         /\ LoadDoneHashes(part'[w]) \subseteq LoadDoneHashes(part[w]) \cup LoadDoneHashes(lines)
         /\ OnceIn(output', repeatable) /\ OnceIn(part'[w], repeatable)
         /\ ~IsOpen(lines) => ~IsOpen(IF run.nproc = 1 THEN output' ELSE part'[w])
<1>1. /\ output \in Seq(Line) /\ part \in [Workers -> Seq(Line)] /\ part[w] \in Seq(Line)
      /\ lines \in Seq(Line) /\ OnceIn(lines, repeatable)
  BY DEF BatchInv, BatchTypeOK, RecordsOf
<1>2. ~IsOpen(FileOf(w)) /\ OnceIn(output, repeatable) /\ OnceIn(part[w], repeatable)
  BY DEF BatchInv, ProcessesSound, RecordsApart
<1>3. /\ LoadDoneHashes(lines) \cap LoadDoneHashes(output) \subseteq repeatable
      /\ LoadDoneHashes(lines) \cap LoadDoneHashes(part[w]) \subseteq repeatable
  <2>1. CASE lines = << >>
    BY <2>1, EmptyLines
  <2>2. CASE worker[w].at = "write"
    <3>1. Current(w) \in Due(w)
      BY <2>2, CurrentKnown DEF BatchInv, ProcessesSound, Due
    <3>2. QED
      BY <3>1 DEF BatchInv, RecordsApart, RecordsOf
  <2>3. QED
    BY <2>1, <2>2
<1>4. ASSUME NEW f \in Seq(Line), ~IsOpen(f), OnceIn(f, repeatable),
             LoadDoneHashes(f) \cap LoadDoneHashes(lines) \subseteq repeatable
      PROVE  /\ Appended(f, lines) \in Seq(Line)
             /\ Whole(f) \subseteq Whole(Appended(f, lines))
             /\ Whole(lines) \subseteq Whole(Appended(f, lines))
             /\ LoadDoneHashes(Appended(f, lines))
                  \subseteq LoadDoneHashes(f) \cup LoadDoneHashes(lines)
             /\ OnceIn(Appended(f, lines), repeatable)
             /\ ~IsOpen(lines) => ~IsOpen(Appended(f, lines))
  <2>1. /\ Appended(f, lines) \in Seq(Line)
        /\ Whole(f) \subseteq Whole(Appended(f, lines))
        /\ Whole(lines) \subseteq Whole(Appended(f, lines))
        /\ Whole(Appended(f, lines)) \subseteq Whole(f) \cup Whole(lines)
    BY <1>1, <1>4, AppendedLines
  <2>2. OnceIn(Appended(f, lines), repeatable)
    BY <1>1, <1>4, AppendedOnce
  <2>3. ~IsOpen(lines) => ~IsOpen(Appended(f, lines))
    BY <1>1, <1>4, AppendedLines
  <2>4. QED
    BY <2>1, <2>2, <2>3 DEF LoadDoneHashes
<1>5. CASE run.nproc = 1
  <2>1. output' = Appended(output, lines) /\ part' = part
    BY <1>5 DEF Append_
  <2>2. ~IsOpen(output)
    BY <1>2, <1>5 DEF FileOf
  <2>3. QED
    BY <1>1, <1>2, <1>3, <1>4, <1>5, <2>1, <2>2
<1>6. CASE run.nproc # 1
  <2>1. part' = [part EXCEPT ![w] = Appended(part[w], lines)] /\ output' = output
    BY <1>6 DEF Append_
  <2>2. ~IsOpen(part[w])
    BY <1>2, <1>6 DEF FileOf
  <2>3. /\ Appended(part[w], lines) \in Seq(Line)
        /\ Whole(part[w]) \subseteq Whole(Appended(part[w], lines))
        /\ Whole(lines) \subseteq Whole(Appended(part[w], lines))
        /\ LoadDoneHashes(Appended(part[w], lines))
             \subseteq LoadDoneHashes(part[w]) \cup LoadDoneHashes(lines)
        /\ OnceIn(Appended(part[w], lines), repeatable)
        /\ ~IsOpen(lines) => ~IsOpen(Appended(part[w], lines))
    BY <1>1, <1>2, <1>3, <1>4, <2>2
  <2>4. part'[w] = Appended(part[w], lines) /\ \A v \in Workers \ {w} : part'[v] = part[v]
    BY <1>1, <2>1
  <2>5. QED
    BY <1>1, <1>2, <1>6, <2>1, <2>3, <2>4
<1>7. QED
  BY <1>5, <1>6

\* A process that appends what it has of its commit and turns to the next one, or ends,
\* keeps the invariant.
LEMMA ProcessWrites ==
  ASSUME BatchInv, NEW w \in Workers, worker[w].at # "off", NEW lines,
         RecordsOf(lines, Current(w)), lines = << >> \/ worker[w].at = "write",
         Append_(w, lines),
         NEW r \in ProcessState, worker' = [worker EXCEPT ![w] = r],
         r.at \in {"off", "item"}, r.at = "off" => r.todo = {},
         r.at = "item" => ~IsOpen(lines),
         r.todo \subseteq worker[w].todo \ {Current(w)},
         (r.done = {} /\ r.todo = {}) \/ r.done = worker[w].done,
         r.processed + Cardinality(r.todo) <= Len(Data),
         UNCHANGED <<driver, bare, sandboxes, runs, glued, repeatable>>,
         NEW new, new \subseteq Whole(lines), written' = written \cup new,
         run' \in RunState, run'.phase = run.phase, run'.nproc = run.nproc,
         run'.limit = run.limit, run'.next = run.next, run.failed \subseteq run'.failed,
         leaked \subseteq leaked', leaked' \subseteq Hashes,
         worker[w].at = "work" /\ Current(w) \in sandboxes => Current(w) \in leaked',
         run'.unharmed => /\ run.unharmed /\ worker[w].todo \ r.todo \subseteq {Current(w)}
                          /\ Current(w) \in run'.failed \cup LoadDoneHashes(lines)
  PROVE  BatchInv'
<1>1. worker \in [Workers -> ProcessState]
  BY DEF BatchInv, BatchTypeOK, ProcessState
<1>2. /\ worker' \in [Workers -> ProcessState] /\ worker'[w] = r
      /\ \A v \in Workers \ {w} : worker'[v] = worker[v]
  BY <1>1
<1>3. /\ output' \in Seq(Line) /\ part' \in [Workers -> Seq(Line)]
      /\ run.nproc = 1 => part' = part
      /\ run.nproc # 1 => output' = output /\ \A v \in Workers \ {w} : part'[v] = part[v]
      /\ Whole(output) \subseteq Whole(output')
      /\ \A v \in Workers : Whole(part[v]) \subseteq Whole(part'[v])
      /\ Whole(lines) \subseteq IF run.nproc = 1 THEN Whole(output') ELSE Whole(part'[w])
      /\ LoadDoneHashes(output') \subseteq LoadDoneHashes(output) \cup LoadDoneHashes(lines)
      /\ LoadDoneHashes(part'[w]) \subseteq LoadDoneHashes(part[w]) \cup LoadDoneHashes(lines)
      /\ OnceIn(output', repeatable) /\ OnceIn(part'[w], repeatable)
      /\ ~IsOpen(lines) => ~IsOpen(IF run.nproc = 1 THEN output' ELSE part'[w])
  BY FileGrows
<1>4. run.phase = "work" /\ w <= run.nproc
  BY DEF BatchInv, ProcessesSound
<1>5. \A v \in Workers : worker[v].at # "off" /\ run.nproc = 1 => v = w
  BY <1>4, CommitsOfData DEF BatchInv, ProcessesSound, Workers
<1>6. LoadDoneHashes(lines) \subseteq {Current(w)} /\ lines \in Seq(Line)
  BY DEF RecordsOf
<1>7. BatchTypeOK'
  <2>1. written' \subseteq Line
    BY <1>6, WholeLines DEF BatchInv, BatchTypeOK
  <2>2. QED
    BY <1>2, <1>3, <2>1 DEF BatchInv, BatchTypeOK, ProcessState, RunState
<1>8. ProcessesSound'
  <2>1. ASSUME NEW v \in Workers
        PROVE  /\ worker'[v].at # "off" => /\ run'.phase = "work" /\ v <= run'.nproc
                                           /\ ~IsOpen(FileOf(v)')
               /\ worker'[v].at \notin {"off", "item"} =>
                    worker'[v].todo # {} /\ Current(v)' \notin worker'[v].done
               /\ worker'[v].at = "off" => worker'[v].todo = {}
               /\ worker'[v].processed + Cardinality(worker'[v].todo) <= Len(Data)
    <3>1. CASE v = w
      BY <1>2, <1>3, <1>4, <3>1 DEF FileOf
    <3>2. CASE v # w
      <4>1. worker'[v] = worker[v]
        BY <1>2, <3>2
      <4>2. worker[v].at # "off" => FileOf(v)' = FileOf(v)
        BY <1>3, <1>5, <3>2 DEF FileOf
      <4>3. QED
        BY <4>1, <4>2 DEF BatchInv, ProcessesSound, Current
    <3>3. QED
      BY <3>1, <3>2
  <2>2. QED
    BY <2>1 DEF ProcessesSound, IsOpen
<1>9. MergeSound'
  BY <1>4 DEF BatchInv, MergeSound
<1>10. LinesKept'
  <2>1. ASSUME NEW l \in written'
        PROVE  /\ l.state = "whole"
               /\ l \in glued \/ l \in Whole(output') \/ \E v \in Workers : l \in Whole(part'[v])
    <3>1. CASE l \in written
      BY <1>3, <3>1 DEF BatchInv, LinesKept
    <3>2. CASE l \in new
      BY <1>3, <1>6, <3>2, WholeLines
    <3>3. QED
      BY <3>1, <3>2
  <2>2. QED
    BY <2>1 DEF LinesKept, Whole
<1>11. SandboxesKnown'
  <2>1. ASSUME NEW h \in sandboxes, h \notin leaked'
        PROVE  \E v \in Workers : worker'[v].at = "work" /\ h = Current(v)'
    <3>1. PICK v \in Workers : worker[v].at = "work" /\ h = Current(v)
      BY <2>1 DEF BatchInv, SandboxesKnown
    <3>2. v # w
      BY <2>1, <3>1
    <3>3. QED
      BY <3>1, <3>2, <1>2 DEF Current
  <2>2. QED
    BY <2>1 DEF SandboxesKnown
<1>12. PartsLeftOver'
  <2>1. ASSUME NEW v \in Workers, run.nproc = 1 \/ v > run.nproc
        PROVE  LoadDoneHashes(part'[v]) \subseteq repeatable
    <3>1. part'[v] = part[v]
      <4>1. CASE run.nproc = 1
        BY <1>3, <4>1
      <4>2. CASE v > run.nproc /\ run.nproc # 1
        <5>1. v # w
          BY <1>4, <4>2, WorkerNumbers DEF BatchInv
        <5>2. QED
          BY <1>3, <4>2, <5>1
      <4>3. QED
        BY <2>1, <4>1, <4>2
    <3>2. QED
      BY <2>1, <3>1 DEF BatchInv, PartsLeftOver
  <2>2. ~AtRest'
    BY <1>4 DEF AtRest
  <2>3. QED
    BY <2>1, <2>2 DEF PartsLeftOver, LoadDoneHashes, Whole
<1>13. \A v \in Workers : /\ Due(v)' \subseteq Due(v) \ {Current(w)} \/ lines = << >>
                          /\ Due(v)' \subseteq Due(v)
                          /\ worker'[v].todo \subseteq worker[v].todo
  <2>1. ASSUME NEW v \in Workers
        PROVE  /\ Due(v)' \subseteq Due(v) \ {Current(w)} \/ lines = << >>
               /\ Due(v)' \subseteq Due(v)
               /\ worker'[v].todo \subseteq worker[v].todo
    <3>1. CASE v = w
      <4>1. Due(v)' = r.todo \ r.done /\ worker'[v].todo = r.todo
        BY <1>2, <3>1 DEF Due
      <4>2. r.todo \ r.done \subseteq worker[w].todo \ worker[w].done
        OBVIOUS
      <4>3. QED
        BY <3>1, <4>1, <4>2 DEF Due
    <3>2. CASE v # w
      <4>1. worker'[v] = worker[v]
        BY <1>2, <3>2
      <4>2. worker[w].at = "write" => Current(w) \notin worker[v].todo
        BY <3>2, CurrentKnown DEF BatchInv, RecordsApart
      <4>3. QED
        BY <4>1, <4>2 DEF Due
    <3>3. QED
      BY <3>1, <3>2
  <2>2. QED
    BY <2>1
<1>14. RecordsApart'
  <2>1. lines = << >> => LoadDoneHashes(lines) = {}
    BY EmptyLines
  <2>2. worker[w].at = "write" =>
          /\ Current(w) \in LoadDoneHashes(output) => Current(w) \in repeatable
          /\ \A v \in Workers : Current(w) \in LoadDoneHashes(part[v]) => Current(w) \in repeatable
    BY CurrentKnown DEF BatchInv, RecordsApart, ProcessesSound, Due
  <2>3. ASSUME NEW v \in Workers
        PROVE  /\ LoadDoneHashes(part'[v]) \subseteq LoadDoneHashes(part[v])
                                                     \cup LoadDoneHashes(lines)
               /\ v # w \/ run.nproc = 1 => LoadDoneHashes(part'[v]) = LoadDoneHashes(part[v])
               /\ OnceIn(part'[v], repeatable)
    BY <1>3 DEF BatchInv, RecordsApart
  <2>4. run.nproc # 1 => LoadDoneHashes(output') = LoadDoneHashes(output)
    BY <1>3
  <2>5. ASSUME NEW v \in Workers, NEW u \in Workers
        PROVE  /\ Due(v)' \cap LoadDoneHashes(output') \subseteq repeatable
               /\ Due(v)' \cap LoadDoneHashes(part'[u]) \subseteq repeatable
               /\ LoadDoneHashes(part'[v]) \cap LoadDoneHashes(output') \subseteq repeatable
               /\ u # v => /\ worker'[u].todo \cap worker'[v].todo = {}
                           /\ LoadDoneHashes(part'[u]) \cap LoadDoneHashes(part'[v])
                                \subseteq repeatable
    <3>1. /\ Due(v) \cap LoadDoneHashes(output) \subseteq repeatable
          /\ Due(v) \cap LoadDoneHashes(part[u]) \subseteq repeatable
          /\ LoadDoneHashes(part[v]) \cap LoadDoneHashes(output) \subseteq repeatable
          /\ u # v => /\ worker[u].todo \cap worker[v].todo = {}
                      /\ LoadDoneHashes(part[u]) \cap LoadDoneHashes(part[v])
                           \subseteq repeatable
      BY <1>4 DEF BatchInv, RecordsApart
    <3>2. Due(v)' \cap LoadDoneHashes(output') \subseteq repeatable
      BY <3>1, <1>3, <1>6, <1>13, <2>1
    <3>3. Due(v)' \cap LoadDoneHashes(part'[u]) \subseteq repeatable
      BY <3>1, <1>6, <1>13, <2>1, <2>3
    <3>4. LoadDoneHashes(part'[v]) \cap LoadDoneHashes(output') \subseteq repeatable
      <4>1. CASE lines = << >>
        BY <4>1, <3>1, <1>3, <2>1, <2>3
      <4>2. CASE worker[w].at = "write"
        BY <4>2, <3>1, <1>3, <1>6, <2>2, <2>3, <2>4
      <4>3. QED
        BY <4>1, <4>2
    <3>5. ASSUME u # v
          PROVE  /\ worker'[u].todo \cap worker'[v].todo = {}
                 /\ LoadDoneHashes(part'[u]) \cap LoadDoneHashes(part'[v]) \subseteq repeatable
      <4>1. worker'[u].todo \cap worker'[v].todo = {}
        BY <3>1, <3>5, <1>13
      <4>2. CASE lines = << >>
        BY <4>1, <4>2, <3>1, <3>5, <2>1, <2>3
      <4>3. CASE worker[w].at = "write" /\ u = w
        <5>1. LoadDoneHashes(part'[v]) = LoadDoneHashes(part[v])
          BY <4>3, <3>5, <2>3
        <5>2. QED
          BY <4>1, <4>3, <5>1, <3>1, <3>5, <1>6, <2>2, <2>3
      <4>4. CASE worker[w].at = "write" /\ u # w
        <5>1. LoadDoneHashes(part'[u]) = LoadDoneHashes(part[u])
          BY <4>4, <2>3
        <5>2. QED
          BY <4>1, <4>4, <5>1, <3>1, <3>5, <1>6, <2>2, <2>3
      <4>5. QED
        BY <4>2, <4>3, <4>4
    <3>6. QED
      BY <3>2, <3>3, <3>4, <3>5
  <2>6. OnceIn(output', repeatable)
    BY <1>3
  <2> HIDE DEF BatchInv
  <2>7. QED
    BY <2>3, <2>5, <2>6 DEF RecordsApart, LoadDoneHashes, OnceIn, Whole
<1>15. CommitsAccountedFor'
  <2>1. LoadDoneHashes(output) \subseteq LoadDoneHashes(output')
        /\ \A v \in Workers : LoadDoneHashes(part[v]) \subseteq LoadDoneHashes(part'[v])
    BY <1>3 DEF LoadDoneHashes
  <2>2. Recorded \subseteq Recorded'
    <3>1. AtRest' = AtRest /\ glued' = glued /\ run'.nproc = run.nproc
          /\ run.failed \subseteq run'.failed
      BY DEF AtRest
    <3>2. LoadDoneHashes(output)' = LoadDoneHashes(output')
          /\ \A v \in Workers : LoadDoneHashes(part[v])' = LoadDoneHashes(part'[v])
      BY DEF LoadDoneHashes, Whole
    <3>3. UNION {LoadDoneHashes(part[v]) : v \in {u \in Workers : u <= run.nproc}}
            \subseteq UNION {LoadDoneHashes(part[v])' : v \in {u \in Workers : u <= run.nproc}}
      BY <2>1, <3>2
    <3>4. QED
      BY <2>1, <3>1, <3>2, <3>3 DEF Recorded
  <2>3. LoadDoneHashes(lines) \subseteq Recorded'
    <3>1. CASE run.nproc = 1
      <4>1. LoadDoneHashes(lines) \subseteq LoadDoneHashes(output')
        BY <1>3, <3>1 DEF LoadDoneHashes
      <4>2. QED
        BY <4>1 DEF Recorded, LoadDoneHashes, Whole
    <3>2. CASE run.nproc # 1
      <4>1. LoadDoneHashes(lines) \subseteq LoadDoneHashes(part'[w])
        BY <1>3, <3>2 DEF LoadDoneHashes
      <4>2. run'.nproc > 1 /\ ~AtRest'
        BY <1>4, <3>2, WorkerNumbers DEF BatchInv, AtRest
      <4>3. QED
        BY <1>4, <4>1, <4>2 DEF Recorded, LoadDoneHashes, Whole
    <3>3. QED
      BY <3>1, <3>2
  <2>4. ASSUME run'.unharmed, run.limit = 0, NEW h \in Hashes, h \notin Recorded'
        PROVE  \E v \in Workers : h \in worker'[v].todo
    <3>1. PICK v \in Workers : h \in worker[v].todo
      BY <2>2, <2>4, <1>4 DEF BatchInv, CommitsAccountedFor
    <3>2. CASE v = w
      <4>1. h # Current(w)
        BY <2>3, <2>4 DEF Recorded
      <4>2. QED
        BY <3>1, <3>2, <4>1, <2>4, <1>2
    <3>3. CASE v # w
      BY <3>1, <3>3, <1>2
    <3>4. QED
      BY <3>2, <3>3
  <2>5. ASSUME NEW v \in Workers PROVE worker'[v].done \subseteq LoadDoneHashes(output')
    BY <2>1, <1>2 DEF BatchInv, CommitsAccountedFor
  <2>6. QED
    BY <2>4, <2>5 DEF CommitsAccountedFor, LoadDoneHashes, Whole
<1>16. QED
  BY <1>7, <1>8, <1>9, <1>10, <1>11, <1>12, <1>14, <1>15 DEF BatchInv

\* The record or the samples of a commit are written (Runner.run_all, TrainRunner.run_all).
LEMMA WriteSound ==
  ASSUME BatchInv, NEW w \in Workers, Write(w)
  PROVE  BatchInv'
<1> DEFINE rest == worker[w].todo \ {Current(w)}
           r == [worker[w] EXCEPT !.at = "item", !.todo = rest,
                                  !.processed = worker[w].processed + 1, !.failed = FALSE]
           new == ToSet(LinesOf(w))
<1>1. worker \in [Workers -> ProcessState] /\ worker[w] \in ProcessState
      /\ worker[w].todo \subseteq Hashes /\ worker[w].processed \in Nat
  BY DEF BatchInv, BatchTypeOK, ProcessState
<1>2. worker[w].at = "write"
  BY DEF Write, StandsAt
<1>3. Current(w) \in worker[w].todo /\ Current(w) \in Hashes
  BY <1>2, CurrentKnown DEF BatchInv
<1>4. /\ Cardinality(rest) = Cardinality(worker[w].todo) - 1
      /\ Cardinality(worker[w].todo) \in Nat /\ Cardinality(rest) \in Nat
  <2>1. rest \subseteq Hashes
    BY <1>1
  <2>2. QED
    BY <2>1, <1>1, <1>3, RestOfList
<1>5. worker[w].processed + Cardinality(worker[w].todo) <= Len(Data) /\ Len(Data) \in Nat
  BY CommitsOfData DEF BatchInv, ProcessesSound
<1>6. worker' = [worker EXCEPT ![w] = r]
  <2>1. worker' = [worker EXCEPT ![w] =
                    [worker[w] EXCEPT !.at = "item", !.todo = worker[w].todo \ {Current(w)},
                                      !.processed = worker[w].processed + 1,
                                      !.failed = FALSE]]
    BY DEF Write
  <2>2. QED
    BY <2>1
<1>7. rest \subseteq Hashes /\ rest = worker[w].todo \ {Current(w)}
  BY <1>1
<1> HIDE DEF rest
<1>8. worker[w].processed + 1 \in 0..Len(Data)
  BY <1>1, <1>4, <1>5
<1>9. r \in ProcessState /\ r.at = "item" /\ r.todo = rest /\ r.done = worker[w].done
      /\ r.processed = worker[w].processed + 1
  BY <1>1, <1>7, <1>8 DEF ProcessState
<1> HIDE DEF r
<1>10. r.processed + Cardinality(r.todo) <= Len(Data)
  BY <1>1, <1>4, <1>5, <1>9
<1>11. /\ RecordsOf(LinesOf(w), Current(w)) /\ ~IsOpen(LinesOf(w))
       /\ new \subseteq Whole(LinesOf(w))
       /\ LinesOf(w) # << >> => Current(w) \in LoadDoneHashes(LinesOf(w))
  BY <1>3, LinesOfSound
<1>12. /\ Append_(w, LinesOf(w)) /\ written' = written \cup new
       /\ UNCHANGED <<driver, bare, sandboxes, runs, glued, repeatable>> /\ leaked' = leaked
  BY DEF Write
<1>13. /\ run' \in RunState /\ run'.phase = run.phase /\ run'.nproc = run.nproc
       /\ run'.limit = run.limit /\ run'.next = run.next /\ run.failed \subseteq run'.failed
       /\ run'.unharmed = run.unharmed
       /\ LinesOf(w) = << >> => Current(w) \in run'.failed
  <2>1. run \in RunState
    BY DEF BatchInv, BatchTypeOK, RunState
  <2>2. CASE LinesOf(w) = << >>
    <3>1. run' = [run EXCEPT !.failed = run.failed \cup {Current(w)}]
      BY <2>2 DEF Write
    <3>2. run.failed \cup {Current(w)} \in SUBSET Hashes
      BY <2>1, <1>3 DEF RunState
    <3>3. QED
      BY <2>1, <3>1, <3>2 DEF RunState
  <2>3. CASE LinesOf(w) # << >>
    BY <2>1, <2>3 DEF Write
  <2>4. QED
    BY <2>2, <2>3
<1>14. leaked \subseteq leaked' /\ leaked' \subseteq Hashes
  BY <1>12 DEF BatchInv, BatchTypeOK
<1>15. /\ r.todo \subseteq worker[w].todo \ {Current(w)}
       /\ worker[w].todo \ r.todo \subseteq {Current(w)}
       /\ Current(w) \in run'.failed \cup LoadDoneHashes(LinesOf(w))
  BY <1>7, <1>9, <1>11, <1>13
<1> HIDE DEF new
<1>16. QED
  BY <1>2, <1>6, <1>9, <1>10, <1>11, <1>12, <1>13, <1>14, <1>15, ProcessWrites

\* What a process is at work on when it is killed.
LEMMA UnderWaySound ==
  ASSUME BatchTypeOK, NEW ws, ws \subseteq Workers
  PROVE  /\ UnderWay(ws) \subseteq Hashes
         /\ \A w \in ws : worker[w].at = "work" /\ Current(w) \in sandboxes =>
              Current(w) \in UnderWay(ws)
<1>1. sandboxes \subseteq Hashes
  BY DEF BatchTypeOK
<1>2. QED
  BY <1>1 DEF UnderWay

\* A worker that is killed leaves a piece of what it writes, and its worktree.
LEMMA WorkerKilledSound ==
  ASSUME BatchInv, NEW w \in Workers, WorkerKilled(w)
  PROVE  BatchInv'
<1>1. PICK lines \in Leftovers(w) :
        /\ Append_(w, lines)
        /\ written' = written \cup {l \in ToSet(lines) : l.state = "whole"}
  BY DEF WorkerKilled
<1>2. /\ worker[w].at # "off" /\ worker' = [worker EXCEPT ![w] = Off]
      /\ run' = [run EXCEPT !.unharmed = FALSE] /\ leaked' = leaked \cup UnderWay({w})
      /\ UNCHANGED <<driver, bare, sandboxes, runs, glued, repeatable>>
  BY DEF WorkerKilled, Exit
<1>3. worker[w].at = "write" => Current(w) \in Hashes
  BY CurrentKnown DEF BatchInv
<1>4. RecordsOf(lines, Current(w)) /\ (lines = << >> \/ worker[w].at = "write")
  BY <1>3, LeftoversSound
<1>5. Off \in ProcessState /\ Off.at = "off" /\ Off.todo = {} /\ Off.done = {}
      /\ Off.processed = 0
  BY CommitsOfData DEF Off, ProcessState
<1>6. Off.processed + Cardinality(Off.todo) <= Len(Data)
  BY <1>5, CommitsOfData, FS_EmptySet
<1>7. /\ run' \in RunState /\ run'.phase = run.phase /\ run'.nproc = run.nproc
      /\ run'.limit = run.limit /\ run'.next = run.next /\ run'.failed = run.failed
      /\ run'.unharmed = FALSE
  BY <1>2 DEF BatchInv, BatchTypeOK, RunState
<1>8. /\ leaked \subseteq leaked' /\ leaked' \subseteq Hashes
      /\ worker[w].at = "work" /\ Current(w) \in sandboxes => Current(w) \in leaked'
  BY <1>2, UnderWaySound DEF BatchInv, BatchTypeOK
<1> DEFINE new == Whole(lines)
<1>9. written' = written \cup new
  BY <1>1 DEF Whole
<1> HIDE DEF new
<1>10. new \subseteq Whole(lines)
  BY DEF new
<1>11. Off.todo \subseteq worker[w].todo \ {Current(w)}
  BY <1>5
<1>12. QED
  BY <1>1, <1>2, <1>4, <1>5, <1>6, <1>7, <1>8, <1>9, <1>10, <1>11, ProcessWrites

--------------------------------------------------------------------------------
(* Invocations, merges, and the end of all processes                           *)

\* A worker that is not there.
LEMMA OffSound ==
  /\ Off \in ProcessState /\ Off.at = "off" /\ Off.todo = {} /\ Off.done = {}
  /\ Off.processed = 0 /\ Off.processed + Cardinality(Off.todo) <= Len(Data)
<1>1. /\ Off \in ProcessState /\ Off.at = "off" /\ Off.todo = {} /\ Off.done = {}
      /\ Off.processed = 0
  BY CommitsOfData DEF Off, ProcessState
<1>2. QED
  BY <1>1, CommitsOfData, FS_EmptySet

\* A worker that starts on a list.
LEMMA StartSound ==
  ASSUME NEW hs, hs \subseteq Hashes, NEW done, done \subseteq Hashes
  PROVE  LET r == [Off EXCEPT !.at = "item", !.todo = hs, !.done = done]
         IN  /\ r \in ProcessState /\ r.at = "item" /\ r.todo = hs /\ r.done = done
             /\ r.processed + Cardinality(r.todo) <= Len(Data)
<1> DEFINE r == [Off EXCEPT !.at = "item", !.todo = hs, !.done = done]
<1>1. r \in ProcessState /\ r.at = "item" /\ r.todo = hs /\ r.done = done /\ r.processed = 0
  BY OffSound DEF ProcessState
<1> HIDE DEF r
<1>2. r.processed + Cardinality(r.todo) <= Len(Data)
  BY <1>1, RestOfList
<1>3. QED
  BY <1>1, <1>2 DEF r

\* No invocation.
LEMMA NoRunSound == NoRun \in RunState /\ NoRun.phase = "none"
BY DEF NoRun, RunState

\* An invocation that has begun.
LEMMA RunSound ==
  ASSUME NEW n \in Procs, NEW l \in Limits,
         run' = [NoRun EXCEPT !.phase = "work", !.nproc = n, !.limit = l, !.next = 1]
  PROVE  /\ run' \in RunState /\ run'.phase = "work" /\ run'.nproc = n /\ run'.limit = l
         /\ run'.next = 1
BY NoRunSound DEF RunState

\* Where every commit may be there twice, nothing is doubled.
LEMMA OnceIfRepeatable ==
  ASSUME NEW f \in Seq(Line), NEW rep, LoadDoneHashes(f) \subseteq rep
  PROVE  OnceIn(f, rep)
<1>1. \A i \in 1..Len(f) : f[i] \in Line
  BY ElementOfSeq
<1>2. \A i \in 1..Len(f) : f[i].state = "whole" => f[i].hash \in LoadDoneHashes(f)
  BY <1>1, WholeLines
<1>3. QED
  BY <1>2 DEF OnceIn

\* What is not doubled is not doubled where more may be.
LEMMA OnceWider ==
  ASSUME NEW f, NEW rep, NEW more, OnceIn(f, rep), rep \subseteq more
  PROVE  OnceIn(f, more)
BY DEF OnceIn

\* Between invocations no process is there.
LEMMA NobodyAtRest ==
  ASSUME BatchInv, run.phase # "work"
  PROVE  \A w \in Workers : worker[w].at = "off" /\ worker[w].todo = {}
BY DEF BatchInv, ProcessesSound

\* The program starts with empty files.
LEMMA BatchInitSound == BatchInit => BatchInv
<1> SUFFICES ASSUME BatchInit PROVE BatchInv
  OBVIOUS
<1>1. /\ output = << >> /\ \A w \in Workers : part[w] = << >> /\ worker[w] = Off
      /\ run = NoRun /\ written = {} /\ sandboxes = {}
  BY DEF BatchInit
<1>2. /\ output \in Seq(Line) /\ part \in [Workers -> Seq(Line)]
      /\ worker \in [Workers -> ProcessState] /\ run \in RunState /\ run.phase = "none"
  BY OffSound, EmptyLines, NoRunSound DEF BatchInit
<1>3. BatchTypeOK
  BY <1>2, BatchAssumption DEF BatchInit, BatchTypeOK, ProcessState, RunState
<1>4. ProcessesSound
  BY <1>1, OffSound DEF ProcessesSound
<1>5. MergeSound /\ LinesKept /\ SandboxesKnown
  BY <1>1, <1>2 DEF MergeSound, LinesKept, SandboxesKnown
<1>6. PartsLeftOver
  BY <1>1, EmptyLines DEF PartsLeftOver
<1>7. RecordsApart
  BY <1>1, OffSound, EmptyLines DEF RecordsApart, Due
<1>8. CommitsAccountedFor
  BY <1>1, <1>2, OffSound DEF CommitsAccountedFor
<1>9. QED
  BY <1>3, <1>4, <1>5, <1>6, <1>7, <1>8 DEF BatchInv

\* A process that works alone (Runner.run_all).
LEMMA InvokeSerialSound ==
  ASSUME BatchInv, AtRest, NEW n \in Procs, n = 1, NEW l \in Limits, NEW resume \in BOOLEAN,
         runs < MaxRuns, runs' = runs + 1,
         run' = [NoRun EXCEPT !.phase = "work", !.nproc = n, !.limit = l, !.next = 1],
         InvokeSerial(resume), UNCHANGED <<driver, bare, sandboxes, written, glued, leaked>>
  PROVE  BatchInv'
<1> DEFINE done == IF resume THEN LoadDoneHashes(output) ELSE {}
           r == [Off EXCEPT !.at = "item", !.todo = Hashes, !.done = done]
<1>1. /\ output \in Seq(Line) /\ part \in [Workers -> Seq(Line)]
      /\ worker \in [Workers -> ProcessState]
  BY DEF BatchInv, BatchTypeOK, ProcessState
<1>2. LoadDoneHashes(output) \subseteq Hashes
  BY <1>1, WholeLines
<1>3. /\ r \in ProcessState /\ r.at = "item" /\ r.todo = Hashes /\ r.done = done
      /\ r.processed + Cardinality(r.todo) <= Len(Data)
  <2>1. done \subseteq Hashes
    BY <1>2
  <2> HIDE DEF done
  <2>2. QED
    BY <2>1, StartSound
<1>4. worker' = [worker EXCEPT ![1] = r] /\ output' = NewlineEnsured(output) /\ part' = part
      /\ repeatable' = repeatable \cup (IF resume THEN {} ELSE LoadDoneHashes(output))
  BY DEF InvokeSerial
<1> HIDE DEF r
<1>5. 1 \in Workers /\ run.phase # "work"
  BY DEF Workers, AtRest
<1>6. /\ worker' \in [Workers -> ProcessState] /\ worker'[1] = r
      /\ \A w \in Workers \ {1} : worker'[w] = worker[w]
  BY <1>1, <1>3, <1>4, <1>5
<1>7. \A w \in Workers \ {1} : worker'[w].at = "off" /\ worker'[w].todo = {}
  BY <1>5, <1>6, NobodyAtRest
<1>8. /\ output' \in Seq(Line) /\ ~IsOpen(output') /\ Whole(output') = Whole(output)
      /\ LoadDoneHashes(output') = LoadDoneHashes(output)
      /\ \A rep : OnceIn(output, rep) => OnceIn(output', rep)
  BY <1>1, <1>4, EnsuredLines
<1>9. run' \in RunState /\ run'.phase = "work" /\ run'.nproc = 1 /\ run'.next = 1
  BY RunSound
<1>10. BatchTypeOK'
  <2>1. runs' \in 0..MaxRuns
    BY BatchAssumption DEF BatchInv, BatchTypeOK
  <2>2. repeatable' \subseteq Hashes
    BY <1>2, <1>4 DEF BatchInv, BatchTypeOK
  <2>3. QED
    BY <1>1, <1>4, <1>6, <1>8, <1>9, <2>1, <2>2
      DEF BatchInv, BatchTypeOK, ProcessState, RunState
<1>11. ProcessesSound'
  <2>1. ASSUME NEW w \in Workers
        PROVE  /\ worker'[w].at # "off" => /\ run'.phase = "work" /\ w <= run'.nproc
                                           /\ ~IsOpen(output')
               /\ worker'[w].at \in {"off", "item"}
               /\ worker'[w].at = "off" => worker'[w].todo = {}
               /\ worker'[w].processed + Cardinality(worker'[w].todo) <= Len(Data)
    <3>1. CASE w = 1
      BY <3>1, <1>3, <1>6, <1>8, <1>9
    <3>2. CASE w # 1
      BY <3>2, <1>6, <1>7 DEF BatchInv, ProcessesSound
    <3>3. QED
      BY <3>1, <3>2
  <2>2. QED
    BY <2>1, <1>9 DEF ProcessesSound, FileOf, IsOpen
<1>12. MergeSound' /\ SandboxesKnown'
  <2>1. sandboxes \subseteq leaked
    BY <1>5, NobodyAtRest DEF BatchInv, SandboxesKnown
  <2>2. QED
    BY <2>1, <1>9 DEF MergeSound, SandboxesKnown
<1>13. LinesKept'
  BY <1>4, <1>8 DEF BatchInv, LinesKept, Whole
<1>14. \A w \in Workers : LoadDoneHashes(part[w]) \subseteq repeatable'
                          /\ repeatable \subseteq repeatable'
  BY <1>4 DEF BatchInv, PartsLeftOver
<1>15. PartsLeftOver'
  BY <1>4, <1>14 DEF PartsLeftOver, LoadDoneHashes, Whole
<1>16. RecordsApart'
  <2>1. ASSUME NEW w \in Workers
        PROVE  Due(w)' \cap LoadDoneHashes(output') \subseteq repeatable'
    <3>1. CASE w = 1
      BY <3>1, <1>3, <1>4, <1>6, <1>8 DEF Due
    <3>2. CASE w # 1
      BY <3>2, <1>7 DEF Due
    <3>3. QED
      BY <3>1, <3>2
  <2>2. OnceIn(output', repeatable')
    BY <1>8, <1>14, <1>5, OnceWider DEF BatchInv, RecordsApart
  <2>3. \A w \in Workers : OnceIn(part[w], repeatable')
    BY <1>1, <1>14, OnceIfRepeatable
  <2>4. \A v, w \in Workers : v # w => worker'[v].todo \cap worker'[w].todo = {}
    BY <1>7
  <2> HIDE DEF BatchInv
  <2>5. QED
    BY <1>4, <1>14, <2>1, <2>2, <2>3, <2>4 DEF RecordsApart, OnceIn, LoadDoneHashes, Whole
<1>17. CommitsAccountedFor'
  <2>1. Hashes \subseteq UNION {worker'[w].todo : w \in Workers}
    BY <1>3, <1>5, <1>6
  <2>2. ASSUME NEW w \in Workers PROVE worker'[w].done \subseteq LoadDoneHashes(output')
    BY <1>3, <1>6, <1>8 DEF BatchInv, CommitsAccountedFor
  <2>3. QED
    BY <2>1, <2>2 DEF CommitsAccountedFor, LoadDoneHashes, Whole
<1>18. QED
  BY <1>10, <1>11, <1>12, <1>13, <1>15, <1>16, <1>17 DEF BatchInv

\* Several workers (_run_parallel).
LEMMA InvokeParallelSound ==
  ASSUME BatchInv, AtRest, NEW n \in Procs, n # 1, NEW l \in Limits, NEW resume \in BOOLEAN,
         runs < MaxRuns, runs' = runs + 1,
         run' = [NoRun EXCEPT !.phase = "work", !.nproc = n, !.limit = l, !.next = 1],
         InvokeParallel(n, resume), UNCHANGED <<driver, bare, sandboxes, written, glued, leaked>>
  PROVE  BatchInv'
<1> DEFINE hs == HandedOut(resume)
           busy == {w \in Workers : w <= n /\ Shard(hs, n, w) # {}}
<1>1. /\ output \in Seq(Line) /\ part \in [Workers -> Seq(Line)]
  BY DEF BatchInv, BatchTypeOK
<1>2. LoadDoneHashes(output) \subseteq Hashes /\ hs \subseteq Hashes
      /\ Hashes \subseteq hs \cup LoadDoneHashes(output)
  BY <1>1, WholeLines DEF HandedOut
<1>3. /\ worker' = [w \in Workers |-> IF w \notin busy THEN Off
              ELSE [Off EXCEPT !.at = "item", !.todo = Shard(hs, n, w)]]
      /\ part' = [w \in Workers |-> IF w \in busy THEN NewlineEnsured(part[w]) ELSE part[w]]
      /\ output' = output
      /\ repeatable' = repeatable \cup
           (IF resume /\ driver = "train" THEN {} ELSE LoadDoneHashes(output))
  BY DEF InvokeParallel
<1>4. hs \cap LoadDoneHashes(output) \subseteq repeatable'
  BY <1>3 DEF HandedOut
<1>5. /\ \A w \in Workers : Shard(hs, n, w) \subseteq hs
      /\ \A v, w \in Workers : v # w => Shard(hs, n, v) \cap Shard(hs, n, w) = {}
      /\ \A h \in hs : \E w \in Workers : w <= n /\ h \in Shard(hs, n, w)
  BY <1>2, ShardsDivide
<1> HIDE DEF hs
<1>6. ASSUME NEW w \in Workers
      PROVE  /\ worker'[w] \in ProcessState /\ worker'[w].done = {}
             /\ worker'[w].at = IF w \in busy THEN "item" ELSE "off"
             /\ worker'[w].todo = IF w \in busy THEN Shard(hs, n, w) ELSE {}
             /\ worker'[w].processed + Cardinality(worker'[w].todo) <= Len(Data)
  <2>1. CASE w \in busy
    <3> DEFINE shard == Shard(hs, n, w)
               r == [Off EXCEPT !.at = "item", !.todo = shard, !.done = {}]
    <3>1. shard \subseteq Hashes /\ {} \subseteq Hashes
      BY <1>2, <1>5
    <3>2. /\ r \in ProcessState /\ r.at = "item" /\ r.todo = shard /\ r.done = {}
          /\ r.processed + Cardinality(r.todo) <= Len(Data)
      BY <3>1, StartSound
    <3>3. worker'[w] = [Off EXCEPT !.at = "item", !.todo = shard]
      BY <1>3, <2>1
    <3>4. [Off EXCEPT !.at = "item", !.todo = shard] = r
      BY OffSound DEF Off
    <3> HIDE DEF r, shard, busy
    <3>5. worker'[w] = r
      BY <3>3, <3>4
    <3>6. QED
      BY <3>2, <3>5, <2>1 DEF shard
  <2>2. CASE w \notin busy
    BY <1>3, <2>2, OffSound
  <2>3. QED
    BY <2>1, <2>2
<1>7. ASSUME NEW w \in Workers
      PROVE  /\ part'[w] \in Seq(Line) /\ Whole(part'[w]) = Whole(part[w])
             /\ LoadDoneHashes(part'[w]) = LoadDoneHashes(part[w])
             /\ w \in busy => ~IsOpen(part'[w])
  <2> HIDE DEF busy
  <2>1. CASE w \in busy
    BY <1>1, <1>3, <2>1, EnsuredLines
  <2>2. CASE w \notin busy
    BY <1>1, <1>3, <2>2
  <2>3. QED
    BY <2>1, <2>2
<1>8. run' \in RunState /\ run'.phase = "work" /\ run'.nproc = n /\ run'.next = 1
  BY RunSound
<1>9. /\ worker' \in [Workers -> ProcessState] /\ part' \in [Workers -> Seq(Line)]
  <2> HIDE DEF busy
  <2>1. worker' = [w \in Workers |-> worker'[w]] /\ part' = [w \in Workers |-> part'[w]]
    BY <1>3
  <2>2. QED
    BY <1>6, <1>7, <2>1
<1>10. \A w \in busy : w \in Workers /\ w <= n
  OBVIOUS
<1> HIDE DEF busy
<1>11. BatchTypeOK'
  <2>1. runs' \in 0..MaxRuns
    BY BatchAssumption DEF BatchInv, BatchTypeOK
  <2>2. repeatable' \subseteq Hashes
    BY <1>2, <1>3 DEF BatchInv, BatchTypeOK
  <2>3. QED
    BY <1>1, <1>3, <1>8, <1>9, <2>1, <2>2 DEF BatchInv, BatchTypeOK, ProcessState, RunState
<1>12. ProcessesSound'
  <2>1. ASSUME NEW w \in Workers
        PROVE  /\ worker'[w].at # "off" => /\ run'.phase = "work" /\ w <= run'.nproc
                                           /\ ~IsOpen(part'[w])
               /\ worker'[w].at \in {"off", "item"}
               /\ worker'[w].at = "off" => worker'[w].todo = {}
               /\ worker'[w].processed + Cardinality(worker'[w].todo) <= Len(Data)
    BY <1>6, <1>7, <1>8, <1>10
  <2>2. QED
    BY <2>1, <1>8 DEF ProcessesSound, FileOf, IsOpen
<1>13. MergeSound' /\ SandboxesKnown'
  <2>1. sandboxes \subseteq leaked
    BY NobodyAtRest DEF BatchInv, SandboxesKnown, AtRest
  <2>2. QED
    BY <2>1, <1>8 DEF MergeSound, SandboxesKnown
<1>14. LinesKept'
  <2>1. \A m \in written : /\ m.state = "whole"
                           /\ m \in glued \/ m \in Whole(output)
                              \/ \E w \in Workers : m \in Whole(part'[w])
    BY <1>7 DEF BatchInv, LinesKept
  <2>2. QED
    BY <2>1, <1>3 DEF LinesKept, Whole
<1>15. /\ repeatable \subseteq repeatable'
       /\ \A w \in Workers : LoadDoneHashes(part'[w]) \subseteq repeatable'
  BY <1>3, <1>7 DEF BatchInv, PartsLeftOver
<1>16. PartsLeftOver'
  BY <1>15 DEF PartsLeftOver, LoadDoneHashes, Whole
<1>17. RecordsApart'
  <2>1. \A w \in Workers : Due(w)' \cap LoadDoneHashes(output) \subseteq repeatable'
    BY <1>4, <1>5, <1>6 DEF Due
  <2>2. OnceIn(output, repeatable')
    BY <1>15, OnceWider DEF BatchInv, RecordsApart
  <2>3. \A w \in Workers : OnceIn(part'[w], repeatable')
    BY <1>7, <1>15, OnceIfRepeatable
  <2>4. \A v, w \in Workers : v # w => worker'[v].todo \cap worker'[w].todo = {}
    BY <1>5, <1>6
  <2> HIDE DEF BatchInv
  <2>5. \A v, w \in Workers :
          /\ Due(w)' \cap LoadDoneHashes(part'[v]) \subseteq repeatable'
          /\ LoadDoneHashes(part'[w]) \cap LoadDoneHashes(output) \subseteq repeatable'
          /\ LoadDoneHashes(part'[v]) \cap LoadDoneHashes(part'[w]) \subseteq repeatable'
    BY <1>15
  <2>6. output' = output
    BY <1>3
  <2>7. QED
    BY <2>1, <2>2, <2>3, <2>4, <2>5, <2>6 DEF RecordsApart, OnceIn, LoadDoneHashes, Whole
<1>18. CommitsAccountedFor'
  <2>1. ASSUME NEW h \in hs PROVE \E w \in Workers : h \in worker'[w].todo
    <3>1. PICK w \in Workers : w <= n /\ h \in Shard(hs, n, w)
      BY <1>5
    <3>2. w \in busy
      BY <3>1 DEF busy
    <3>3. QED
      BY <3>1, <3>2, <1>6
  <2>2. LoadDoneHashes(output)' = LoadDoneHashes(output)
    BY <1>3 DEF LoadDoneHashes, Whole
  <2>3. Hashes \subseteq Recorded' \cup UNION {worker'[w].todo : w \in Workers}
    BY <1>2, <2>1, <2>2 DEF Recorded
  <2>4. QED
    BY <2>3, <1>6 DEF CommitsAccountedFor
<1>19. QED
  BY <1>11, <1>12, <1>13, <1>14, <1>16, <1>17, <1>18 DEF BatchInv

\* The end of the last process: of the invocation, or the beginning of the merge.
LEMMA AllEndedSound ==
  ASSUME BatchInv, AllEnded
  PROVE  BatchInv'
<1> DEFINE phase == IF run.nproc = 1 THEN "finished" ELSE "merge"
<1>1. run \in RunState /\ run.phase = "work" /\ \A w \in Workers : worker[w].at = "off"
  BY DEF BatchInv, BatchTypeOK, RunState, AllEnded
<1>2. UNCHANGED <<driver, output, part, bare, sandboxes, worker, runs, written, glued,
                  repeatable, leaked>>
  BY DEF AllEnded, files, history
<1>3. /\ run' \in RunState /\ run'.phase = phase /\ run'.nproc = run.nproc
      /\ run'.limit = run.limit /\ run'.next = run.next /\ run'.failed = run.failed
      /\ run'.unharmed = run.unharmed
  <2>1. phase \in {"finished", "merge"}
    OBVIOUS
  <2>2. run' = [run EXCEPT !.phase = phase]
    BY DEF AllEnded
  <2> HIDE DEF phase
  <2>3. QED
    BY <1>1, <2>1, <2>2 DEF RunState
<1>4. run.nproc \in Nat \ {0} /\ run.next \in Nat
  BY WorkerNumbers DEF BatchInv
<1>5. BatchTypeOK'
  BY <1>2, <1>3 DEF BatchInv, BatchTypeOK, RunState
<1>6. ProcessesSound'
  BY <1>1, <1>2 DEF BatchInv, ProcessesSound
<1>7. MergeSound'
  <2>1. run.next = 1
    BY <1>1 DEF BatchInv, MergeSound
  <2>2. \A w \in Workers : ~(w < 1)
    BY WorkerNumbers
  <2>3. QED
    BY <1>2, <1>3, <1>4, <2>1, <2>2 DEF MergeSound
<1>8. LinesKept' /\ SandboxesKnown'
  BY <1>2 DEF BatchInv, LinesKept, SandboxesKnown, Whole, Current
<1>9. PartsLeftOver'
  BY <1>2, <1>3 DEF BatchInv, PartsLeftOver, LoadDoneHashes, Whole, AtRest
<1>10. RecordsApart'
  BY <1>1, <1>2, <1>3 DEF BatchInv, RecordsApart, LoadDoneHashes, Whole, OnceIn, Due
<1>11. CommitsAccountedFor'
  BY <1>1, <1>2, <1>3, <1>4
    DEF BatchInv, CommitsAccountedFor, Recorded, LoadDoneHashes, Whole, AtRest
<1>12. QED
  BY <1>5, <1>6, <1>7, <1>8, <1>9, <1>10, <1>11 DEF BatchInv

\* A part file is copied to the end of the output file.
LEMMA MergeStepSound ==
  ASSUME BatchInv, Merge
  PROVE  BatchInv'
<1> DEFINE lines == part[run.next]
           joined == IF IsOpen(output) /\ lines # << >> THEN {Head(lines)} ELSE {}
<1>1. /\ run \in RunState /\ run.phase = "merge" /\ run.next \in Workers
      /\ run.next <= run.nproc /\ run.nproc > 1
  BY DEF BatchInv, BatchTypeOK, RunState, Merge, Merging, MergeSound
<1>2. /\ output' = Appended(output, lines) /\ glued' = glued \cup joined
      /\ UNCHANGED <<driver, part, bare, sandboxes, worker, runs, written, repeatable, leaked>>
  BY DEF Merge
<1>3. /\ run' \in RunState /\ run'.phase = "remove" /\ run'.nproc = run.nproc
      /\ run'.limit = run.limit /\ run'.next = run.next /\ run'.failed = run.failed
      /\ run'.unharmed = run.unharmed
  BY <1>1 DEF Merge, RunState
<1>4. output \in Seq(Line) /\ lines \in Seq(Line)
  BY <1>1 DEF BatchInv, BatchTypeOK
<1>5. /\ output' \in Seq(Line) /\ Whole(output) \subseteq Whole(output')
      /\ Whole(output') \subseteq Whole(output) \cup Whole(lines)
      /\ Whole(lines) \subseteq Whole(output') \cup glued'
  <2> DEFINE a == Appended(output, lines)
  <2>a. /\ a \in Seq(Line) /\ Whole(output) \subseteq Whole(a)
        /\ Whole(a) \subseteq Whole(output) \cup Whole(lines)
    BY <1>4, AppendedLines
  <2>b. output' = a
    BY <1>2
  <2> HIDE DEF a, lines
  <2>1. /\ output' \in Seq(Line) /\ Whole(output) \subseteq Whole(output')
        /\ Whole(output') \subseteq Whole(output) \cup Whole(lines)
    BY <2>a, <2>b
  <2> USE DEF a, lines
  <2>2. ASSUME NEW l \in Whole(lines) PROVE l \in Whole(output') \cup glued'
    <3>1. \/ l \in Whole(Appended(output, lines))
          \/ IsOpen(output) /\ lines # << >> /\ l = Head(lines)
      BY <1>4, <2>2, AppendedLines
    <3>2. IsOpen(output) /\ lines # << >> => joined = {Head(lines)}
      OBVIOUS
    <3> HIDE DEF joined, lines
    <3>3. QED
      BY <3>1, <3>2, <1>2
  <2>3. QED
    BY <2>1, <2>2
<1>6. joined \subseteq Line
  BY <1>4, HeadTailProperties
<1>7. /\ LoadDoneHashes(output) \cap LoadDoneHashes(lines) \subseteq repeatable
      /\ OnceIn(output, repeatable) /\ OnceIn(lines, repeatable)
  BY <1>1 DEF BatchInv, RecordsApart
<1>8. OnceIn(output', repeatable)
  BY <1>2, <1>4, <1>7, AppendedOnce
<1>9. /\ LoadDoneHashes(output) \subseteq LoadDoneHashes(output')
      /\ LoadDoneHashes(output') \subseteq LoadDoneHashes(output) \cup LoadDoneHashes(lines)
  BY <1>5 DEF LoadDoneHashes
<1> HIDE DEF joined
<1>10. \A w \in Workers : worker[w].at = "off" /\ worker[w].todo = {}
  BY <1>1, NobodyAtRest
<1>11. BatchTypeOK'
  BY <1>2, <1>3, <1>5, <1>6 DEF BatchInv, BatchTypeOK, RunState
<1>12. ProcessesSound'
  BY <1>2, <1>10 DEF BatchInv, ProcessesSound
<1>13. MergeSound'
  <2>1. /\ run.nproc > 1 /\ run.next >= 1
        /\ \A w \in Workers : w < run.next => part[w] = << >>
    BY <1>1 DEF BatchInv, MergeSound
  <2>2. QED
    BY <1>1, <1>2, <1>3, <1>5, <2>1 DEF MergeSound, Whole
<1>14. LinesKept' /\ SandboxesKnown'
  BY <1>2, <1>5 DEF BatchInv, LinesKept, SandboxesKnown, Whole, Current
<1>15. PartsLeftOver'
  BY <1>1, <1>2, <1>3 DEF BatchInv, PartsLeftOver, LoadDoneHashes, Whole, AtRest
<1>16. RecordsApart'
  <2>1. ASSUME NEW w \in Workers, w # run.next
        PROVE  LoadDoneHashes(part[w]) \cap LoadDoneHashes(output') \subseteq repeatable
    BY <1>1, <1>9, <2>1 DEF BatchInv, RecordsApart
  <2>2. \A w \in Workers :
          /\ Due(w)' = {} /\ worker'[w].todo = {} /\ OnceIn(part[w], repeatable)
          /\ \A v \in Workers : v # w =>
               LoadDoneHashes(part[v]) \cap LoadDoneHashes(part[w]) \subseteq repeatable
    BY <1>2, <1>10 DEF BatchInv, RecordsApart, Due
  <2> HIDE DEF BatchInv, lines
  <2>3. QED
    BY <1>2, <1>3, <1>8, <2>1, <2>2 DEF RecordsApart, LoadDoneHashes, Whole, OnceIn
<1>17. CommitsAccountedFor'
  <2>1. Recorded \subseteq Recorded'
    <3>1. LoadDoneHashes(output)' = LoadDoneHashes(output') /\ part' = part
          /\ glued \subseteq glued' /\ ~AtRest'
      BY <1>2, <1>3 DEF LoadDoneHashes, Whole, AtRest
    <3>2. \A w \in Workers : LoadDoneHashes(part[w])' = LoadDoneHashes(part[w])
      BY <3>1 DEF LoadDoneHashes, Whole
    <3>3. QED
      BY <1>3, <1>9, <3>1, <3>2 DEF Recorded
  <2>2. \A w \in Workers : worker'[w].done \subseteq LoadDoneHashes(output')
    BY <1>2, <1>9 DEF BatchInv, CommitsAccountedFor
  <2>3. QED
    BY <1>1, <1>2, <1>3, <2>1, <2>2
      DEF BatchInv, CommitsAccountedFor, LoadDoneHashes, Whole
<1>18. QED
  BY <1>11, <1>12, <1>13, <1>14, <1>15, <1>16, <1>17 DEF BatchInv

\* ... and removed: what it held is in the output file, or joined to an open line.
LEMMA RemovePartSound ==
  ASSUME BatchInv, RemovePart
  PROVE  BatchInv'
<1> DEFINE k == run.next
<1>1. /\ run \in RunState /\ run.phase = "remove" /\ k \in Workers
      /\ k <= run.nproc /\ run.nproc > 1 /\ k \in Nat \ {0}
      /\ Whole(part[k]) \subseteq Whole(output) \cup glued
      /\ \A w \in Workers : w < k => part[w] = << >>
  BY WorkerNumbers DEF BatchInv, BatchTypeOK, RunState, RemovePart, MergeSound
<1>2. /\ part' = [part EXCEPT ![k] = << >>]
      /\ UNCHANGED <<driver, output, bare, sandboxes, worker, runs, written, glued,
                     repeatable, leaked>>
  BY DEF RemovePart, history
<1>3. /\ run' \in RunState /\ run'.phase = "merge" /\ run'.nproc = run.nproc
      /\ run'.limit = run.limit /\ run'.next = k + 1 /\ run'.failed = run.failed
      /\ run'.unharmed = run.unharmed
  <2>1. run' = [run EXCEPT !.phase = "merge", !.next = k + 1]
    BY DEF RemovePart
  <2>2. k + 1 \in Nat
    BY <1>1
  <2> HIDE DEF k
  <2>3. QED
    BY <1>1, <2>1, <2>2 DEF RunState
<1> HIDE DEF k
<1>4. part \in [Workers -> Seq(Line)]
  BY DEF BatchInv, BatchTypeOK
<1>5. /\ part' \in [Workers -> Seq(Line)] /\ part'[k] = << >>
      /\ \A w \in Workers \ {k} : part'[w] = part[w]
  BY <1>1, <1>2, <1>4, EmptyLines
<1>6. \A w \in Workers : worker[w].at = "off" /\ worker[w].todo = {}
  BY <1>1, NobodyAtRest
<1>7. BatchTypeOK'
  BY <1>2, <1>3, <1>5 DEF BatchInv, BatchTypeOK, RunState
<1>8. ProcessesSound'
  BY <1>2, <1>6 DEF BatchInv, ProcessesSound
<1>9. MergeSound'
  <2>1. \A w \in Workers : w < k + 1 => part'[w] = << >>
    BY <1>1, <1>5, WorkerNumbers
  <2>2. QED
    BY <1>1, <1>3, <2>1 DEF MergeSound
<1>10. LinesKept'
  <2>1. ASSUME NEW l \in written
        PROVE  l \in glued \/ l \in Whole(output) \/ \E w \in Workers : l \in Whole(part'[w])
    <3>1. l \in glued \/ l \in Whole(output) \/ \E w \in Workers : l \in Whole(part[w])
      BY <2>1 DEF BatchInv, LinesKept
    <3>2. QED
      BY <3>1, <1>1, <1>5
  <2>2. \A l \in written : l.state = "whole"
    BY DEF BatchInv, LinesKept
  <2>3. QED
    BY <1>2, <2>1, <2>2 DEF LinesKept, Whole
<1>11. SandboxesKnown'
  BY <1>2 DEF BatchInv, SandboxesKnown, Current
<1>12. \A w \in Workers : LoadDoneHashes(part'[w]) \subseteq LoadDoneHashes(part[w])
  BY <1>5, EmptyLines
<1>13. PartsLeftOver'
  <2>1. ASSUME NEW w \in Workers, w > run.nproc PROVE LoadDoneHashes(part'[w]) \subseteq repeatable
    BY <2>1, <1>12 DEF BatchInv, PartsLeftOver
  <2>2. run'.nproc # 1 /\ ~AtRest'
    BY <1>1, <1>3 DEF AtRest
  <2>3. QED
    BY <2>1, <2>2, <1>2, <1>3 DEF PartsLeftOver, LoadDoneHashes, Whole
<1>14. RecordsApart'
  <2>1. ASSUME NEW w \in Workers
        PROVE  LoadDoneHashes(part'[w]) \cap LoadDoneHashes(output) \subseteq repeatable
    <3>1. CASE w = k
      BY <3>1, <1>5, EmptyLines
    <3>2. CASE w # k
      BY <3>2, <1>5 DEF BatchInv, RecordsApart, k
    <3>3. QED
      BY <3>1, <3>2
  <2>2. ASSUME NEW w \in Workers
        PROVE  /\ Due(w)' = {} /\ worker'[w].todo = {}
               /\ \A v \in Workers : v # w =>
                    LoadDoneHashes(part'[v]) \cap LoadDoneHashes(part'[w]) \subseteq repeatable
    BY <1>2, <1>6, <1>12 DEF BatchInv, RecordsApart, Due
  <2>3. ASSUME NEW w \in Workers PROVE OnceIn(part'[w], repeatable)
    BY <1>5, EmptyLines DEF BatchInv, RecordsApart
  <2>4. OnceIn(output, repeatable)
    BY DEF BatchInv, RecordsApart
  <2> HIDE DEF BatchInv
  <2>5. QED
    BY <1>2, <2>1, <2>2, <2>3, <2>4 DEF RecordsApart, LoadDoneHashes, Whole, OnceIn
<1>15. CommitsAccountedFor'
  <2>1. LoadDoneHashes(part[k]) \subseteq LoadDoneHashes(output) \cup {l.hash : l \in glued}
    BY <1>1 DEF LoadDoneHashes
  <2>2. Recorded \subseteq Recorded'
    <3>1. /\ LoadDoneHashes(output)' = LoadDoneHashes(output) /\ glued' = glued
          /\ ~AtRest' /\ ~AtRest
      BY <1>1, <1>2, <1>3 DEF LoadDoneHashes, Whole, AtRest
    <3>2. \A w \in Workers : LoadDoneHashes(part[w])' = LoadDoneHashes(part'[w])
      BY DEF LoadDoneHashes, Whole
    <3>3. ASSUME NEW h \in Recorded PROVE h \in Recorded'
      <4>1. CASE h \in LoadDoneHashes(output) \cup run.failed \cup {l.hash : l \in glued}
        BY <4>1, <3>1, <1>3 DEF Recorded
      <4>2. CASE h \notin LoadDoneHashes(output) \cup run.failed \cup {l.hash : l \in glued}
        <5>1. PICK w \in Workers : w <= run.nproc /\ h \in LoadDoneHashes(part[w])
          BY <4>2, <3>3 DEF Recorded
        <5>2. w # k
          BY <4>2, <5>1, <2>1
        <5>3. h \in LoadDoneHashes(part'[w])
          BY <5>1, <5>2, <1>5
        <5>4. QED
          BY <5>1, <5>3, <3>1, <3>2, <1>1, <1>3 DEF Recorded
      <4>3. QED
        BY <4>1, <4>2
    <3>4. QED
      BY <3>3
  <2>3. QED
    BY <1>1, <1>2, <1>3, <2>2 DEF BatchInv, CommitsAccountedFor, LoadDoneHashes, Whole
<1>16. QED
  BY <1>7, <1>8, <1>9, <1>10, <1>11, <1>13, <1>14, <1>15 DEF BatchInv

\* The last part file has been removed.
LEMMA MergeEndsSound ==
  ASSUME BatchInv, MergeEnds
  PROVE  BatchInv'
<1>1. run \in RunState /\ run.phase = "merge" /\ run.nproc > 1 /\ ~Merging
      /\ run.next \in Nat /\ run.next >= 1 /\ run.nproc \in Nat
      /\ \A w \in Workers : w < run.next => part[w] = << >>
  BY WorkerNumbers DEF BatchInv, BatchTypeOK, RunState, MergeEnds, MergeSound
<1>2. UNCHANGED <<driver, output, part, bare, sandboxes, worker, runs, written, glued,
                  repeatable, leaked>>
  BY DEF MergeEnds, files, history
<1>3. /\ run' \in RunState /\ run'.phase = "finished" /\ run'.nproc = run.nproc
      /\ run'.limit = run.limit /\ run'.next = run.next /\ run'.failed = run.failed
      /\ run'.unharmed = run.unharmed
  BY <1>1 DEF MergeEnds, RunState
<1>4. \A w \in Workers : w <= run.nproc => part[w] = << >>
  <2>1. ASSUME NEW w \in Workers, w <= run.nproc PROVE w < run.next
    <3>1. w \in Nat \ {0} /\ run.nproc \in Procs
      BY <1>1, WorkerNumbers DEF RunState
    <3>2. SUFFICES ASSUME run.next <= w PROVE FALSE
      BY <1>1, <3>1
    <3>3. run.next <= run.nproc
      BY <1>1, <2>1, <3>1, <3>2
    <3>4. run.next \in Workers
      <4>1. CASE w = 1
        <5>1. run.next = 1
          BY <4>1, <3>2, <1>1
        <5>2. QED
          BY <5>1 DEF Workers
      <4>2. CASE w # 1
        <5>1. w \in 1..Len(Data)
          BY <4>2 DEF Workers
        <5>2. run.next \in 1..Len(Data)
          BY <5>1, <3>1, <3>2, <1>1, CommitsOfData
        <5>3. QED
          BY <5>2, <3>1, <3>3 DEF Workers
      <4>3. QED
        BY <4>1, <4>2
    <3>5. QED
      BY <1>1, <3>3, <3>4 DEF Merging
  <2>2. QED
    BY <2>1, <1>1
<1>5. \A w \in Workers : worker[w].at = "off" /\ worker[w].todo = {}
  BY <1>1, NobodyAtRest
<1>6. BatchTypeOK'
  BY <1>2, <1>3 DEF BatchInv, BatchTypeOK, RunState
<1>7. ProcessesSound'
  BY <1>2, <1>5 DEF BatchInv, ProcessesSound
<1>8. MergeSound'
  BY <1>3 DEF MergeSound
<1>9. LinesKept' /\ SandboxesKnown'
  BY <1>2 DEF BatchInv, LinesKept, SandboxesKnown, Whole, Current
<1>10. \A w \in Workers : LoadDoneHashes(part[w]) \subseteq repeatable
  <2>1. ASSUME NEW w \in Workers PROVE LoadDoneHashes(part[w]) \subseteq repeatable
    <3>1. CASE w <= run.nproc
      BY <3>1, <1>4, EmptyLines
    <3>2. CASE w > run.nproc
      BY <3>2 DEF BatchInv, PartsLeftOver
    <3>3. QED
      BY <3>1, <3>2, <1>1, WorkerNumbers
  <2>2. QED
    BY <2>1
<1>11. PartsLeftOver'
  BY <1>2, <1>10 DEF PartsLeftOver, LoadDoneHashes, Whole
<1>12. RecordsApart'
  BY <1>1, <1>2, <1>3 DEF BatchInv, RecordsApart, LoadDoneHashes, Whole, OnceIn, Due
<1>13. CommitsAccountedFor'
  <2>1. Recorded \subseteq Recorded'
    <3>1. LoadDoneHashes(output)' = LoadDoneHashes(output) /\ glued' = glued
      BY <1>2 DEF LoadDoneHashes, Whole
    <3>2. UNION {LoadDoneHashes(part[w]) : w \in {v \in Workers : v <= run.nproc}} = {}
      BY <1>4, EmptyLines
    <3>3. QED
      BY <3>1, <3>2, <1>3 DEF Recorded
  <2>2. QED
    BY <1>1, <1>2, <1>3, <2>1 DEF BatchInv, CommitsAccountedFor, LoadDoneHashes, Whole
<1>14. QED
  BY <1>6, <1>7, <1>8, <1>9, <1>11, <1>12, <1>13 DEF BatchInv

\* All processes of an invocation are killed: what they have written whole stays, and what
\* they leave in part files may be recorded again.
LEMMA KilledSound ==
  ASSUME BatchInv, Killed
  PROVE  BatchInv'
<1> DEFINE pieces == UNION {Leftovers(w) : w \in Workers}
<1>1. PICK lines \in [Workers -> pieces] :
        /\ \A w \in Workers : lines[w] \in Leftovers(w)
        /\ IF run.nproc = 1 THEN output' = Appended(output, lines[1]) /\ UNCHANGED part
           ELSE /\ part' = [w \in Workers |-> Appended(part[w], lines[w])]
                /\ \/ UNCHANGED output
                   \/ /\ Merging /\ part[run.next] # << >>
                      /\ \E copied \in Torn(part[run.next]) : output' = Appended(output, copied)
        /\ written' = written \cup UNION {Whole(lines[w]) : w \in Workers}
  BY DEF Killed
<1> HIDE DEF pieces
<1>2. /\ repeatable' = repeatable \cup UNION {LoadDoneHashes(part'[w]) : w \in Workers}
      /\ leaked' = leaked \cup UnderWay(Workers)
      /\ worker' = [w \in Workers |-> Off] /\ run' = NoRun
      /\ UNCHANGED <<driver, bare, sandboxes, runs, glued>>
  BY DEF Killed
<1>3. output \in Seq(Line) /\ part \in [Workers -> Seq(Line)] /\ 1 \in Workers
  BY DEF BatchInv, BatchTypeOK, Workers
<1>4. ASSUME NEW w \in Workers
      PROVE  /\ lines[w] \in Seq(Line) /\ RecordsOf(lines[w], Current(w))
             /\ lines[w] # << >> => /\ ~IsOpen(FileOf(w)) /\ w <= run.nproc
                                    /\ LoadDoneHashes(lines[w]) \subseteq Due(w)
  <2>1. worker[w].at = "write" => Current(w) \in Hashes
    BY CurrentKnown DEF BatchInv
  <2>2. RecordsOf(lines[w], Current(w)) /\ (lines[w] = << >> \/ worker[w].at = "write")
    BY <1>1, <2>1, LeftoversSound
  <2>3. worker[w].at = "write" => /\ ~IsOpen(FileOf(w)) /\ w <= run.nproc
                                  /\ Current(w) \in Due(w)
    BY CurrentKnown DEF BatchInv, ProcessesSound, Due
  <2>4. QED
    BY <2>2, <2>3 DEF RecordsOf
<1>5. ASSUME NEW w \in Workers
      PROVE  /\ part'[w] \in Seq(Line) /\ Whole(part[w]) \subseteq Whole(part'[w])
             /\ run.nproc # 1 => Whole(lines[w]) \subseteq Whole(part'[w])
  <2>1. CASE run.nproc = 1
    BY <2>1, <1>1, <1>3
  <2>2. CASE run.nproc # 1
    <3>1. part'[w] = Appended(part[w], lines[w])
      BY <2>2, <1>1
    <3>2. lines[w] # << >> => ~IsOpen(part[w])
      BY <2>2, <1>4 DEF FileOf
    <3>3. part[w] \in Seq(Line)
      BY <1>3
    <3>4. QED
      BY <1>4, <3>1, <3>2, <3>3, AppendedWhole
  <2>3. QED
    BY <2>1, <2>2
<1>6. part' \in [Workers -> Seq(Line)]
  <2>1. part' = [w \in Workers |-> part'[w]]
    BY <1>1, <1>3
  <2>2. QED
    BY <2>1, <1>5
<1>7. /\ repeatable \subseteq repeatable'
      /\ \A w \in Workers : LoadDoneHashes(part'[w]) \subseteq repeatable'
      /\ repeatable' \subseteq Hashes
  <2>1. \A w \in Workers : LoadDoneHashes(part'[w]) \subseteq Hashes
    BY <1>5, WholeLines
  <2>2. repeatable \subseteq Hashes
    BY DEF BatchInv, BatchTypeOK
  <2>3. QED
    BY <1>2, <2>1, <2>2
<1>8. OnceIn(output, repeatable')
  BY <1>7, OnceWider DEF BatchInv, RecordsApart
<1>9. /\ output' \in Seq(Line) /\ Whole(output) \subseteq Whole(output')
      /\ OnceIn(output', repeatable')
      /\ run.nproc = 1 => Whole(lines[1]) \subseteq Whole(output')
  <2>1. CASE run.nproc = 1
    <3>1. output' = Appended(output, lines[1]) /\ lines[1] \in Seq(Line)
      BY <2>1, <1>1, <1>3, <1>4
    <3>2. lines[1] # << >> => ~IsOpen(output)
      BY <2>1, <1>3, <1>4 DEF FileOf
    <3>3. LoadDoneHashes(output) \cap LoadDoneHashes(lines[1]) \subseteq repeatable'
      <4>1. CASE lines[1] = << >>
        BY <4>1, EmptyLines
      <4>2. CASE lines[1] # << >>
        BY <4>2, <1>3, <1>4, <1>7 DEF BatchInv, RecordsApart
      <4>3. QED
        BY <4>1, <4>2
    <3>4. OnceIn(lines[1], repeatable')
      BY <1>3, <1>4 DEF RecordsOf
    <3>5. OnceIn(output', repeatable')
      BY <1>3, <1>8, <3>1, <3>3, <3>4, AppendedOnce
    <3>6. QED
      BY <1>3, <3>1, <3>2, <3>5, AppendedWhole
  <2>2. CASE run.nproc # 1 /\ output' = output
    BY <2>2, <1>3, <1>8
  <2>3. CASE /\ run.nproc # 1 /\ Merging
             /\ \E copied \in Torn(part[run.next]) : output' = Appended(output, copied)
    <3>1. PICK copied \in Torn(part[run.next]) : output' = Appended(output, copied)
      BY <2>3
    <3>2. run.next \in Workers /\ part[run.next] \in Seq(Line)
      BY <2>3, <1>3 DEF Merging
    <3>3. PieceOf(copied, part[run.next])
      BY <3>2, TornSound
    <3>4. /\ copied \in Seq(Line)
          /\ LoadDoneHashes(copied) \subseteq LoadDoneHashes(part[run.next])
          /\ OnceIn(part[run.next], repeatable') => OnceIn(copied, repeatable')
      BY <3>2, <3>3, PieceLines
    <3>5. LoadDoneHashes(part[run.next]) \subseteq repeatable'
      BY <3>2, <1>5, <1>7 DEF LoadDoneHashes
    <3>6. OnceIn(part[run.next], repeatable')
      BY <3>2, <3>5, OnceIfRepeatable
    <3>7. LoadDoneHashes(output) \cap LoadDoneHashes(copied) \subseteq repeatable'
      BY <3>4, <3>5
    <3>8. OnceIn(output', repeatable')
      BY <1>3, <1>8, <3>1, <3>4, <3>6, <3>7, AppendedOnce
    <3>9. QED
      BY <1>3, <2>3, <3>1, <3>4, <3>8, AppendedLines
  <2>4. QED
    BY <1>1, <2>1, <2>2, <2>3
<1>10. /\ worker' \in [Workers -> ProcessState]
       /\ \A w \in Workers : /\ worker'[w].at = "off" /\ worker'[w].todo = {}
                             /\ worker'[w].done = {}
                             /\ worker'[w].processed + Cardinality(worker'[w].todo) <= Len(Data)
  BY <1>2, OffSound
<1>11. run' \in RunState /\ run'.phase = "none"
  BY <1>2, NoRunSound
<1>12. BatchTypeOK'
  <2>1. written' \subseteq Line
    <3>1. \A w \in Workers : Whole(lines[w]) \subseteq Line
      BY <1>4, WholeLines
    <3>2. written \subseteq Line
      BY DEF BatchInv, BatchTypeOK
    <3>3. QED
      BY <1>1, <3>1, <3>2
  <2>2. leaked' \subseteq Hashes
    BY <1>2, UnderWaySound DEF BatchInv, BatchTypeOK
  <2>3. QED
    BY <1>2, <1>6, <1>7, <1>9, <1>10, <1>11, <2>1, <2>2
      DEF BatchInv, BatchTypeOK, ProcessState, RunState
<1>13. ProcessesSound'
  BY <1>10 DEF ProcessesSound
<1>14. MergeSound'
  BY <1>11 DEF MergeSound
<1>15. LinesKept'
  <2>1. ASSUME NEW l \in written'
        PROVE  /\ l.state = "whole"
               /\ l \in glued \/ l \in Whole(output') \/ \E w \in Workers : l \in Whole(part'[w])
    <3>1. CASE l \in written
      BY <3>1, <1>5, <1>9 DEF BatchInv, LinesKept
    <3>2. CASE l \notin written
      <4>1. PICK w \in Workers : l \in Whole(lines[w])
        BY <3>2, <1>1, <2>1
      <4>2. lines[w] # << >>
        BY <4>1, EmptyLines
      <4>3. run.nproc = 1 => w = 1
        BY <4>2, <1>4, WorkerNumbers
      <4>4. l.state = "whole"
        BY <4>1, <1>4, WholeLines
      <4>5. QED
        BY <4>1, <4>3, <4>4, <1>5, <1>9
    <3>3. QED
      BY <3>1, <3>2
  <2>2. QED
    BY <2>1, <1>2 DEF LinesKept, Whole
<1>16. SandboxesKnown'
  <2>1. sandboxes \subseteq leaked'
    BY <1>2, UnderWaySound DEF BatchInv, SandboxesKnown
  <2>2. QED
    BY <2>1, <1>2 DEF SandboxesKnown
<1>17. PartsLeftOver'
  BY <1>7 DEF PartsLeftOver, LoadDoneHashes, Whole
<1>18. RecordsApart'
  <2>1. \A w \in Workers : Due(w)' = {}
    BY <1>10 DEF Due
  <2>2. \A w \in Workers : OnceIn(part'[w], repeatable')
    BY <1>5, <1>7, OnceIfRepeatable
  <2>3. \A v, w \in Workers :
          /\ LoadDoneHashes(part'[w]) \cap LoadDoneHashes(output') \subseteq repeatable'
          /\ LoadDoneHashes(part'[v]) \cap LoadDoneHashes(part'[w]) \subseteq repeatable'
    BY <1>7
  <2>4. OnceIn(output', repeatable') /\ \A w \in Workers : worker'[w].todo = {}
    BY <1>9, <1>10
  <2> HIDE DEF BatchInv
  <2>5. QED
    BY <2>1, <2>2, <2>3, <2>4 DEF RecordsApart, OnceIn, LoadDoneHashes, Whole
<1>19. CommitsAccountedFor'
  BY <1>10, <1>11 DEF CommitsAccountedFor
<1>20. QED
  BY <1>12, <1>13, <1>14, <1>15, <1>16, <1>17, <1>18, <1>19 DEF BatchInv

\* Each step of the batch programs keeps the invariant.
LEMMA BatchStepSound == BatchInv /\ [BatchNext]_batchVars => BatchInv'
<1> SUFFICES ASSUME BatchInv, [BatchNext]_batchVars PROVE BatchInv'
  OBVIOUS
<1>1. CASE UNCHANGED batchVars
  <2>1. UNCHANGED <<driver, output, part, bare, sandboxes, run, worker, runs, written, glued,
                    repeatable, leaked>>
    BY <1>1 DEF batchVars, files, history
  <2>2. BatchTypeOK' /\ ProcessesSound' /\ MergeSound' /\ LinesKept' /\ SandboxesKnown'
    BY <2>1 DEF BatchInv, BatchTypeOK, ProcessesSound, MergeSound, LinesKept, SandboxesKnown,
                IsOpen, FileOf, Current, Whole
  <2>3. PartsLeftOver' /\ RecordsApart' /\ CommitsAccountedFor'
    BY <2>1 DEF BatchInv, PartsLeftOver, RecordsApart, CommitsAccountedFor, AtRest, Due,
                Recorded, OnceIn, LoadDoneHashes, Whole
  <2>4. QED
    BY <2>2, <2>3 DEF BatchInv
<1>2. CASE Invoke
  <2>1. PICK n \in Procs, l \in Limits, resume \in BOOLEAN :
          /\ run' = [NoRun EXCEPT !.phase = "work", !.nproc = n, !.limit = l, !.next = 1]
          /\ IF n = 1 THEN InvokeSerial(resume) ELSE InvokeParallel(n, resume)
    BY <1>2 DEF Invoke
  <2>2. /\ AtRest /\ runs < MaxRuns /\ runs' = runs + 1
        /\ UNCHANGED <<driver, bare, sandboxes, written, glued, leaked>>
    BY <1>2 DEF Invoke
  <2>3. CASE n = 1
    BY <2>1, <2>2, <2>3, InvokeSerialSound
  <2>4. CASE n # 1
    BY <2>1, <2>2, <2>4, InvokeParallelSound
  <2>5. QED
    BY <2>3, <2>4
<1>3. CASE AllEnded \/ Merge \/ RemovePart \/ MergeEnds \/ Killed
  BY <1>3, AllEndedSound, MergeStepSound, RemovePartSound, MergeEndsSound, KilledSound
<1>4. ASSUME NEW w \in Workers, GoOn(w) \/ WorkerKilled(w) PROVE BatchInv'
  BY <1>4, TakeItemSound, CommitWorkSound, WriteSound, WorkerKilledSound DEF GoOn
<1>5. QED
  BY <1>1, <1>2, <1>3, <1>4 DEF BatchNext

\* Every reachable state of the batch programs of the pipeline is type correct.
THEOREM BatchTypeCorrect == BatchSpec => []BatchTypeOK
<1>1. BatchInv => BatchTypeOK
  BY DEF BatchInv
<1>2. QED
  BY <1>1, BatchInitSound, BatchStepSound, PTL DEF BatchSpec

\* A line that main.py or train_make_main.py has written whole stays on disk, whichever
\* processes are killed between and within the writes and the merges of part files, unless
\* a merge joins it to an open line.
THEOREM RecordsAreKept == BatchSpec => []NoRecordLost
<1>1. BatchInv => NoRecordLost
  <2> SUFFICES ASSUME BatchInv, NEW l \in written \ glued
               PROVE  l \in ToSet(output) \/ \E w \in Workers : l \in ToSet(part[w])
    BY DEF NoRecordLost
  <2>1. QED
    BY DEF BatchInv, LinesKept, Whole
<1>2. QED
  BY <1>1, BatchInitSound, BatchStepSound, PTL DEF BatchSpec

\* run_all records a commit once, however often it is invoked and interrupted, but for the
\* commits that an invocation without --resume or a left over part file repeats.
THEOREM CommitsAreRecordedOnce == BatchSpec => []RecordedOnce
<1>1. BatchInv => RecordedOnce
  <2> SUFFICES ASSUME BatchInv PROVE RecordedOnce
    OBVIOUS
  <2>1. OnceIn(output, repeatable)
    BY DEF BatchInv, RecordsApart
  <2>2. QED
    BY <2>1 DEF OnceIn, RecordedOnce
<1>2. QED
  BY <1>1, BatchInitSound, BatchStepSound, PTL DEF BatchSpec

\* An invocation that ends by itself has a record of every commit that did not fail,
\* whoever had a commit of the data, and whatever earlier invocations left.
THEOREM RunsAreComplete == BatchSpec => []RunComplete
<1>1. BatchInv => RunComplete
  <2> SUFFICES ASSUME BatchInv, run.phase = "finished", run.unharmed, run.limit = 0
               PROVE  Hashes \subseteq LoadDoneHashes(output) \cup run.failed
                                         \cup {l.hash : l \in glued}
    BY DEF RunComplete
  <2>1. Hashes \subseteq Recorded \cup UNION {worker[w].todo : w \in Workers}
    BY DEF BatchInv, CommitsAccountedFor
  <2>2. \A w \in Workers : worker[w].todo = {}
    BY NobodyAtRest
  <2>3. QED
    BY <2>1, <2>2 DEF Recorded, AtRest
<1>2. QED
  BY <1>1, BatchInitSound, BatchStepSound, PTL DEF BatchSpec

--------------------------------------------------------------------------------
(* The tasks that fill in code                                                 *)

\* A task at work in the repository found its file as it was, unless it is disturbed, and
\* then it works there alone.
FilesInOrder ==
  \A t \in Working : Direct(t) /\ FimFileOf[t] \notin disturbed =>
    /\ fim[t].original = {}
    /\ \A u \in Working : Direct(u) /\ FimFileOf[u] = FimFileOf[t] => u = t

\* Nothing is at work between batches, and the tasks that a batch leaves out have a trace.
TasksInOrder ==
  /\ batch \in {"none", "ended"} => \A t \in FimTasks : fim[t].at = "out"
  /\ batch \in {"running", "raised"} => \A t \in FimTasks : fim[t].at = "out" => HasTrace(t)

FimInv == FimTypeOK /\ FilesInOrder /\ TasksInOrder /\ NothingLeftBehind /\ TasksAccountedFor

FimState == [at : {"out", "waiting", "flow", "forced", "over"},
             attempt : 0..ForcedAttempts, original : SUBSET FimTasks]

\* The program starts on a repository that nothing masks.
LEMMA FimInitSound == FimInit => FimInv
<1> SUFFICES ASSUME FimInit PROVE FimInv
  OBVIOUS
<1>1. FimOut \in FimState /\ FimOut.at = "out"
  BY FimAssumption DEF FimOut, FimState
<1>2. FimTypeOK
  BY <1>1, FimAssumption DEF FimInit, FimTypeOK, FimState
<1>3. Working = {}
  BY <1>1 DEF FimInit, Working, AtWork
<1>4. FilesInOrder /\ NothingLeftBehind
  BY <1>3 DEF FilesInOrder, NothingLeftBehind, FimInit
<1>5. TasksInOrder /\ TasksAccountedFor
  BY <1>1 DEF TasksInOrder, TasksAccountedFor, FimInit
<1>6. QED
  BY <1>2, <1>4, <1>5 DEF FimInv

\* A trace directory (_has_existing_trace) stays.
LEMMA TracesStay ==
  ASSUME \A u \in FimTasks : traces[u] # "none" => traces'[u] # "none",
         NEW t \in FimTasks, HasTrace(t)
  PROVE  HasTrace(t)'
BY DEF HasTrace

\* A step that moves one task, to a place it does not work at, and cleans up after it keeps
\* the repository in order (the finally clause of run_fill_task).
LEMMA TaskLeaves ==
  ASSUME FimInv, NEW t \in FimTasks, NEW r \in FimState, r.at = "over",
         fim' = [fim EXCEPT ![t] = r],
         AtWork(t) => CleanUp(t, FALSE),
         ~AtWork(t) => UNCHANGED <<source, clones>>,
         UNCHANGED disturbed
  PROVE  /\ source' \in [FimFiles -> SUBSET FimTasks] /\ fim' \in [FimTasks -> FimState]
         /\ clones' \subseteq FimTasks
         /\ FilesInOrder' /\ NothingLeftBehind'
<1>1. fim \in [FimTasks -> FimState] /\ source \in [FimFiles -> SUBSET FimTasks]
      /\ clones \subseteq FimTasks
  BY DEF FimInv, FimTypeOK, FimState
<1>2. /\ fim' \in [FimTasks -> FimState] /\ fim'[t].at = "over"
      /\ \A u \in FimTasks \ {t} : fim'[u] = fim[u]
  BY <1>1
<1>3. /\ Working' = Working \ {t}
      /\ \A u \in Working' : fim'[u] = fim[u] /\ u \in FimTasks
  BY <1>2 DEF Working, AtWork
<1>4. fim[t].original \subseteq FimTasks
  BY <1>1 DEF FimState
<1>5. source' \in [FimFiles -> SUBSET FimTasks] /\ clones' \subseteq FimTasks
  BY <1>1, <1>4 DEF CleanUp
<1>6. FilesInOrder'
  BY <1>3 DEF FimInv, FilesInOrder, Direct
<1>7. clones' = Working' \cap Isolated
  BY <1>3 DEF FimInv, NothingLeftBehind, CleanUp, Working
<1>8. ASSUME NEW f \in FimFiles \ disturbed,
             \A u \in Working' : FimFileOf[u] = f => u \in Isolated
      PROVE  source'[f] = {}
  <2>1. CASE t \in Working /\ FimFileOf[t] = f /\ Direct(t)
    <3>1. fim[t].original = {}
      BY <2>1, <1>8 DEF FimInv, FilesInOrder
    <3>2. QED
      BY <2>1, <3>1, <1>1, <1>8 DEF CleanUp, Working
  <2>2. CASE ~(t \in Working /\ FimFileOf[t] = f /\ Direct(t))
    <3>1. \A u \in Working : FimFileOf[u] = f => u \in Isolated
      BY <2>2, <1>3, <1>8 DEF Direct
    <3>2. source[f] = {}
      BY <3>1, <1>8 DEF FimInv, NothingLeftBehind
    <3>3. source'[f] = source[f]
      BY <2>2, <1>1, <1>8 DEF CleanUp, Working
    <3>4. QED
      BY <3>2, <3>3
  <2>3. QED
    BY <2>1, <2>2
<1>9. NothingLeftBehind'
  BY <1>7, <1>8 DEF NothingLeftBehind
<1>10. QED
  BY <1>2, <1>5, <1>6, <1>9

\* A task that leaves keeps what the batch is to account for.
LEMMA TasksStayInOrder ==
  ASSUME FimInv, NEW t \in FimTasks, NEW r \in FimState, r.at # "out",
         fim' = [fim EXCEPT ![t] = r],
         \A u \in FimTasks : traces[u] # "none" => traces'[u] # "none",
         batch \in {"running", "raised"}, batch' \in {"running", "raised"}
  PROVE  TasksInOrder' /\ TasksAccountedFor'
<1>1. fim \in [FimTasks -> FimState]
  BY DEF FimInv, FimTypeOK, FimState
<1>2. ASSUME NEW u \in FimTasks, fim'[u].at = "out" PROVE HasTrace(u)'
  <2>1. fim[u].at = "out"
    BY <1>1, <1>2
  <2>2. HasTrace(u)
    BY <2>1 DEF FimInv, TasksInOrder
  <2>3. QED
    BY <2>2, TracesStay
<1>3. QED
  BY <1>2 DEF TasksInOrder, TasksAccountedFor

\* A trace that is written stays, whatever becomes of its task.
LEMMA TraceWritten ==
  ASSUME FimInv, NEW t \in FimTasks, NEW trace \in {"none", "partial", "whole"},
         trace = "none" => traces[t] = "none",
         traces' = [traces EXCEPT ![t] = trace]
  PROVE  /\ traces' \in [FimTasks -> {"none", "partial", "whole"}]
         /\ \A u \in FimTasks : traces[u] # "none" => traces'[u] # "none"
BY DEF FimInv, FimTypeOK

\* Each step of the batch and its tasks keeps the invariant.
LEMMA FimStepSound == FimInv /\ [FimNext]_fimVars => FimInv'
<1> SUFFICES ASSUME FimInv, [FimNext]_fimVars PROVE FimInv'
  OBVIOUS
<1>type. /\ fim \in [FimTasks -> FimState] /\ source \in [FimFiles -> SUBSET FimTasks]
         /\ clones \subseteq FimTasks /\ traces \in [FimTasks -> {"none", "partial", "whole"}]
         /\ \A t \in FimTasks : FimFileOf[t] \in FimFiles
  BY DEF FimInv, FimTypeOK, FimState, FimFiles
<1>out. FimOut \in FimState /\ FimOut.at = "out"
  BY FimAssumption DEF FimOut, FimState
<1>over. [FimOut EXCEPT !.at = "over"] \in FimState /\ [FimOut EXCEPT !.at = "over"].at = "over"
  BY FimAssumption DEF FimOut, FimState
<1>active. \A t \in FimTasks : fim[t].at # "out" => batch \in {"running", "raised"}
  BY DEF FimInv, FimTypeOK, TasksInOrder
<1>1. CASE UNCHANGED fimVars
  BY <1>1 DEF fimVars, FimInv, FimTypeOK, FilesInOrder, TasksInOrder, NothingLeftBehind,
              TasksAccountedFor, Working, AtWork, HasTrace, Direct
<1>2. ASSUME NEW resume \in BOOLEAN, BeginBatch(resume) PROVE FimInv'
  <2>1. [FimOut EXCEPT !.at = "waiting"] \in FimState
        /\ [FimOut EXCEPT !.at = "waiting"].at = "waiting"
    BY FimAssumption DEF FimOut, FimState
  <2>2. /\ fim' \in [FimTasks -> FimState]
        /\ \A t \in FimTasks : fim'[t].at \in {"out", "waiting"}
        /\ \A t \in FimTasks : fim'[t].at = "out" => HasTrace(t)
    BY <1>2, <1>out, <2>1 DEF BeginBatch
  <2>3. FimTypeOK'
    BY <1>2, <2>2, FimAssumption DEF BeginBatch, FimInv, FimTypeOK, FimState
  <2>4. Working = {} /\ Working' = {}
    BY <1>2, <2>2 DEF BeginBatch, Working, AtWork, FimInv, TasksInOrder
  <2>5. FilesInOrder' /\ NothingLeftBehind'
    BY <1>2, <2>4 DEF BeginBatch, FilesInOrder, NothingLeftBehind, FimInv
  <2>6. TasksInOrder' /\ TasksAccountedFor'
    BY <1>2, <2>2 DEF BeginBatch, TasksInOrder, TasksAccountedFor, HasTrace
  <2>7. QED
    BY <2>3, <2>5, <2>6 DEF FimInv
<1>3. CASE EndBatch
  <2>1. fim' \in [FimTasks -> FimState] /\ \A t \in FimTasks : fim'[t].at = "out"
    BY <1>3, <1>out DEF EndBatch
  <2>2. FimTypeOK'
    BY <1>3, <2>1 DEF EndBatch, FimInv, FimTypeOK, FimState
  <2>3. Working = {} /\ Working' = {}
    BY <1>3, <2>1 DEF EndBatch, Working, AtWork
  <2>4. FilesInOrder' /\ NothingLeftBehind'
    BY <1>3, <2>3 DEF EndBatch, FilesInOrder, NothingLeftBehind, FimInv
  <2>5. TasksInOrder' /\ TasksAccountedFor'
    BY <1>3, <2>1 DEF EndBatch, FimInv, TasksInOrder, TasksAccountedFor, HasTrace
  <2>6. QED
    BY <2>2, <2>4, <2>5 DEF FimInv
<1>4. CASE AbortBatch
  <2>1. fim' \in [FimTasks -> FimState] /\ \A t \in FimTasks : fim'[t].at = "out"
    BY <1>4, <1>out DEF AbortBatch
  <2>2. FimTypeOK'
    BY <1>4, <2>1 DEF AbortBatch, FimInv, FimTypeOK, FimState
  <2>3. Working = {} /\ Working' = {}
    BY <1>4, <2>1 DEF AbortBatch, Working, AtWork
  <2>4. FilesInOrder' /\ NothingLeftBehind'
    BY <1>4, <2>3 DEF AbortBatch, FilesInOrder, NothingLeftBehind, FimInv
  <2>5. TasksInOrder' /\ TasksAccountedFor'
    BY <1>4, <2>1 DEF AbortBatch, TasksInOrder, TasksAccountedFor
  <2>6. QED
    BY <2>2, <2>4, <2>5 DEF FimInv
<1>5. CASE KillBatch
  <2>1. fim' \in [FimTasks -> FimState] /\ \A t \in FimTasks : fim'[t].at = "out"
    BY <1>5, <1>out DEF KillBatch
  <2>2. traces' \in [FimTasks -> {"none", "partial", "whole"}]
    BY <1>5, <1>type DEF KillBatch
  <2>3. FimTypeOK'
    BY <1>5, <2>1, <2>2, <1>type DEF KillBatch, FimInv, FimTypeOK, FimState, Working
  <2>4. Working' = {}
    BY <2>1 DEF Working, AtWork
  <2>5. FilesInOrder'
    BY <2>4 DEF FilesInOrder
  <2>6. ASSUME NEW f \in FimFiles \ disturbed' PROVE source'[f] = {}
    <3>1. f \in FimFiles \ disturbed
          /\ \A t \in Working : FimFileOf[t] = f => t \in Isolated
      BY <1>5, <2>6 DEF KillBatch
    <3>2. source[f] = {}
      BY <3>1 DEF FimInv, NothingLeftBehind
    <3>3. QED
      BY <3>2, <1>5 DEF KillBatch
  <2>7. NothingLeftBehind'
    BY <1>5, <2>4, <2>6 DEF KillBatch, NothingLeftBehind
  <2>8. TasksInOrder' /\ TasksAccountedFor'
    BY <1>5, <2>1 DEF KillBatch, TasksInOrder, TasksAccountedFor
  <2>9. QED
    BY <2>3, <2>5, <2>7, <2>8 DEF FimInv
<1>6. ASSUME NEW t \in FimTasks, Prepare(t) PROVE FimInv'
  <2> DEFINE f == FimFileOf[t]
             o == IF Direct(t) THEN source[f] ELSE {}
             r == [fim[t] EXCEPT !.at = "flow", !.original = o]
  <2>1. f \in FimFiles /\ source[f] \subseteq FimTasks /\ o \subseteq FimTasks
    BY <1>type
  <2>a. fim' = [fim EXCEPT ![t] = r]
    BY <1>6, <1>type DEF Prepare, FimState
  <2>b. Direct(t) => o = source[f]
    OBVIOUS
  <2> HIDE DEF o
  <2>c. fim[t] \in FimState /\ o \in SUBSET FimTasks
    BY <1>type, <2>1
  <2>2. r \in FimState /\ r.at = "flow" /\ r.original = o
    BY <2>c DEF FimState
  <2>3. fim' = [fim EXCEPT ![t] = r] /\ batch = "running" /\ UNCHANGED <<batch, traces>>
        /\ fim[t].at = "waiting"
    BY <1>6, <2>a DEF Prepare
  <2>4. /\ source' = IF Direct(t) THEN [source EXCEPT ![f] = source[f] \cup {t}] ELSE source
        /\ clones' = IF Direct(t) THEN clones ELSE clones \cup {t}
        /\ disturbed' = disturbed \cup
             (IF Direct(t) /\ \E u \in Working : Direct(u) /\ FimFileOf[u] = f
              THEN {f} ELSE {})
        /\ UNCHANGED <<leftover, results, batches>>
    BY <1>6 DEF Prepare
  <2> HIDE DEF r
  <2>5. TasksInOrder' /\ TasksAccountedFor'
    BY <2>2, <2>3, TasksStayInOrder
  <2>6. /\ fim' \in [FimTasks -> FimState] /\ fim'[t] = r
        /\ \A u \in FimTasks \ {t} : fim'[u] = fim[u]
    BY <1>type, <2>2, <2>3
  <2>7. Working' = Working \cup {t} /\ t \notin Working
    BY <2>2, <2>3, <2>6 DEF Working, AtWork
  <2>8. FimTypeOK'
    BY <1>type, <2>1, <2>3, <2>4, <2>6 DEF FimInv, FimTypeOK, FimState
  <2>9. clones' = Working' \cap Isolated
    BY <2>4, <2>7 DEF FimInv, NothingLeftBehind, Direct
  <2>10. ASSUME NEW g \in FimFiles \ disturbed',
                \A u \in Working' : FimFileOf[u] = g => u \in Isolated
         PROVE  source'[g] = {}
    <3>1. source[g] = {}
      BY <2>4, <2>7, <2>10 DEF FimInv, NothingLeftBehind
    <3>2. Direct(t) => g # f
      BY <2>7, <2>10 DEF Direct
    <3>3. QED
      BY <3>1, <3>2, <2>4, <1>type, <2>10
  <2>11. NothingLeftBehind'
    BY <2>9, <2>10 DEF NothingLeftBehind
  <2>12. ASSUME NEW u \in Working', Direct(u), FimFileOf[u] \notin disturbed'
         PROVE  /\ fim'[u].original = {}
                /\ \A v \in Working' : Direct(v) /\ FimFileOf[v] = FimFileOf[u] => v = u
    <3>1. CASE u = t
      <4>1. \A v \in Working : ~(Direct(v) /\ FimFileOf[v] = f)
        BY <3>1, <2>12, <2>4
      <4>2. source[f] = {}
        BY <4>1, <2>1, <2>4, <2>12, <3>1 DEF FimInv, NothingLeftBehind, Direct
      <4>3. QED
        BY <3>1, <4>1, <4>2, <2>b, <2>2, <2>6, <2>7, <2>12
    <3>2. CASE u # t
      <4>1. u \in Working /\ FimFileOf[u] \notin disturbed /\ fim'[u] = fim[u]
        BY <3>2, <2>12, <2>4, <2>6, <2>7 DEF Working
      <4>2. ~(Direct(t) /\ f = FimFileOf[u])
        BY <4>1, <2>4, <2>12
      <4>3. QED
        BY <4>1, <4>2, <2>7, <2>12 DEF FimInv, FilesInOrder
    <3>3. QED
      BY <3>1, <3>2
  <2>13. FilesInOrder'
    BY <2>12 DEF FilesInOrder, Direct
  <2>14. QED
    BY <2>5, <2>8, <2>11, <2>13 DEF FimInv
<1>7. ASSUME NEW t \in FimTasks, PrepareFails(t) PROVE FimInv'
  <2> DEFINE r == [fim[t] EXCEPT !.at = "over"]
  <2>1. r \in FimState /\ r.at = "over"
    BY <1>type DEF FimState
  <2>2. /\ fim' = [fim EXCEPT ![t] = r] /\ batch = "running" /\ fim[t].at = "waiting"
        /\ UNCHANGED <<source, clones, traces, results, batch, batches, disturbed>>
        /\ leftover' \subseteq leftover \cup {t}
    BY <1>7 DEF PrepareFails, FimGoto
  <2> HIDE DEF r
  <2>3. ~AtWork(t)
    BY <2>2 DEF AtWork
  <2>4. TasksInOrder' /\ TasksAccountedFor'
    BY <2>1, <2>2, TasksStayInOrder
  <2>5. /\ source' \in [FimFiles -> SUBSET FimTasks] /\ fim' \in [FimTasks -> FimState]
        /\ clones' \subseteq FimTasks /\ FilesInOrder' /\ NothingLeftBehind'
    BY <2>1, <2>2, <2>3, TaskLeaves
  <2>6. FimTypeOK'
    BY <2>2, <2>5 DEF FimInv, FimTypeOK, FimState
  <2>7. QED
    BY <2>4, <2>5, <2>6 DEF FimInv
<1>8. ASSUME NEW t \in FimTasks, FlowEdits(t) PROVE FimInv'
  <2>1. PICK f \in FimFiles :
          /\ source' = [source EXCEPT ![f] = source[f] \cup {t}]
          /\ disturbed' = disturbed \cup (IF f = FimFileOf[t] THEN {} ELSE {f})
    BY <1>8 DEF FlowEdits
  <2>2. UNCHANGED <<leftover, clones, traces, results, fim, batch, batches>>
        /\ t \in Working /\ Direct(t)
    BY <1>8 DEF FlowEdits, Working, AtWork
  <2>3. FimTypeOK'
    BY <1>type, <2>1, <2>2 DEF FimInv, FimTypeOK
  <2>4. Working' = Working
    BY <2>2 DEF Working, AtWork
  <2>5. FilesInOrder'
    BY <2>1, <2>2, <2>4 DEF FimInv, FilesInOrder, Direct
  <2>6. NothingLeftBehind'
    BY <1>type, <2>1, <2>2, <2>4 DEF FimInv, NothingLeftBehind, Direct
  <2>7. TasksInOrder' /\ TasksAccountedFor'
    BY <2>2 DEF FimInv, TasksInOrder, TasksAccountedFor, HasTrace
  <2>8. QED
    BY <2>3, <2>5, <2>6, <2>7 DEF FimInv
<1>9. ASSUME NEW t \in FimTasks, ForceFinish(t) PROVE FimInv'
  <2> DEFINE r == [fim[t] EXCEPT !.at = "forced", !.attempt = fim[t].attempt + 1]
  <2>1. r \in FimState /\ r.at = "forced" /\ r.original = fim[t].original
    BY <1>type, <1>9, FimAssumption DEF FimState, ForceFinish
  <2>2. /\ fim' = [fim EXCEPT ![t] = r] /\ AtWork(t)
        /\ UNCHANGED <<leftover, source, clones, traces, results, batch, batches, disturbed>>
    BY <1>9, <1>type DEF ForceFinish, FimState
  <2> HIDE DEF r
  <2>3. batch \in {"running", "raised"}
    BY <1>active, <2>2 DEF AtWork
  <2>4. TasksInOrder' /\ TasksAccountedFor'
    BY <2>1, <2>2, <2>3, TasksStayInOrder
  <2>5. /\ fim' \in [FimTasks -> FimState] /\ fim'[t] = r
        /\ \A u \in FimTasks \ {t} : fim'[u] = fim[u]
    BY <1>type, <2>1, <2>2
  <2>6. /\ Working' = Working
        /\ \A u \in Working : fim'[u].original = fim[u].original
    BY <2>1, <2>2, <2>5 DEF Working, AtWork
  <2>7. FimTypeOK'
    BY <2>2, <2>5 DEF FimInv, FimTypeOK, FimState
  <2>8. FilesInOrder' /\ NothingLeftBehind'
    BY <2>2, <2>6 DEF FimInv, FilesInOrder, NothingLeftBehind, Direct
  <2>9. QED
    BY <2>4, <2>7, <2>8 DEF FimInv
<1>10. ASSUME NEW t \in FimTasks, Collect(t) PROVE FimInv'
  <2>1. /\ fim' = [fim EXCEPT ![t] = [FimOut EXCEPT !.at = "over"]] /\ AtWork(t)
        /\ CleanUp(t, FALSE) /\ UNCHANGED <<leftover, results, batch, batches, disturbed>>
        /\ traces' = [traces EXCEPT ![t] = "whole"]
    BY <1>10 DEF Collect, CleanUp
  <2>2. batch \in {"running", "raised"}
    BY <1>active, <2>1 DEF AtWork
  <2>3. /\ traces' \in [FimTasks -> {"none", "partial", "whole"}]
        /\ \A u \in FimTasks : traces[u] # "none" => traces'[u] # "none"
    BY <2>1, TraceWritten
  <2>4. TasksInOrder' /\ TasksAccountedFor'
    BY <1>over, <2>1, <2>2, <2>3, TasksStayInOrder
  <2>5. /\ source' \in [FimFiles -> SUBSET FimTasks] /\ fim' \in [FimTasks -> FimState]
        /\ clones' \subseteq FimTasks /\ FilesInOrder' /\ NothingLeftBehind'
    BY <1>over, <2>1, TaskLeaves
  <2>6. FimTypeOK'
    BY <2>1, <2>3, <2>5 DEF FimInv, FimTypeOK, FimState
  <2>7. QED
    BY <2>4, <2>5, <2>6 DEF FimInv
<1>11. ASSUME NEW t \in FimTasks, CollectRaises(t) PROVE FimInv'
  <2>1. /\ fim' = [fim EXCEPT ![t] = [FimOut EXCEPT !.at = "over"]] /\ AtWork(t)
        /\ CleanUp(t, FALSE) /\ UNCHANGED <<leftover, results, batches, disturbed>>
        /\ batch' = "raised"
    BY <1>11 DEF CollectRaises
  <2>2. PICK trace \in {traces[t], "partial"} :
          traces' = [traces EXCEPT ![t] = IF traces[t] = "whole" THEN traces[t] ELSE trace]
    BY <1>11 DEF CollectRaises
  <2>3. batch \in {"running", "raised"}
    BY <1>active, <2>1 DEF AtWork
  <2>4. /\ traces' \in [FimTasks -> {"none", "partial", "whole"}]
        /\ \A u \in FimTasks : traces[u] # "none" => traces'[u] # "none"
    BY <2>2, <1>type
  <2>5. TasksInOrder' /\ TasksAccountedFor'
    BY <1>over, <2>1, <2>3, <2>4, TasksStayInOrder
  <2>6. /\ source' \in [FimFiles -> SUBSET FimTasks] /\ fim' \in [FimTasks -> FimState]
        /\ clones' \subseteq FimTasks /\ FilesInOrder' /\ NothingLeftBehind'
    BY <1>over, <2>1, TaskLeaves
  <2>7. FimTypeOK'
    BY <2>1, <2>4, <2>6 DEF FimInv, FimTypeOK, FimState
  <2>8. QED
    BY <2>5, <2>6, <2>7 DEF FimInv
<1>12. ASSUME NEW t \in FimTasks, CancelTask(t) PROVE FimInv'
  <2>1. /\ fim' = [fim EXCEPT ![t] = [FimOut EXCEPT !.at = "over"]] /\ batch = "raised"
        /\ AtWork(t) => CleanUp(t, FALSE)
        /\ ~AtWork(t) => UNCHANGED <<source, clones>>
        /\ UNCHANGED <<leftover, traces, results, batch, batches, disturbed>>
    BY <1>12 DEF CancelTask
  <2>2. TasksInOrder' /\ TasksAccountedFor'
    BY <1>over, <2>1, TasksStayInOrder
  <2>3. /\ source' \in [FimFiles -> SUBSET FimTasks] /\ fim' \in [FimTasks -> FimState]
        /\ clones' \subseteq FimTasks /\ FilesInOrder' /\ NothingLeftBehind'
    BY <1>over, <2>1, TaskLeaves
  <2>4. FimTypeOK'
    BY <2>1, <2>3 DEF FimInv, FimTypeOK, FimState
  <2>5. QED
    BY <2>2, <2>3, <2>4 DEF FimInv
<1>13. QED
  BY <1>1, <1>2, <1>3, <1>4, <1>5, <1>6, <1>7, <1>8, <1>9, <1>10, <1>11, <1>12 DEF FimNext

\* run_fill_batch leaves the repository and the disk as they were, and every task
\* accounted for, in whatever order its tasks end, raise or are canceled.
THEOREM FillBatchCleansUp == FimSpec => []BatchCleansUp
<1>1. FimInv => BatchCleansUp
  BY DEF FimInv, BatchCleansUp
<1>2. QED
  BY <1>1, FimInitSound, FimStepSound, PTL DEF FimSpec

\* The programs put away the worktrees, clones and masks they have put up, for any steps of
\* the two side by side.
THEOREM ProgramsAlwaysCleanUp == BatchSpec /\ FimSpec => []ProgramsCleanUp
<1>1. BatchInv => NoSandboxLeft
  <2> SUFFICES ASSUME BatchInv, AtRest PROVE sandboxes \subseteq leaked
    BY DEF NoSandboxLeft
  <2>1. run.phase # "work"
    BY DEF AtRest
  <2>2. \A w \in Workers : worker[w].at = "off"
    BY <2>1, NobodyAtRest
  <2>3. QED
    BY <2>2 DEF BatchInv, SandboxesKnown
<1>2. FimInv => BatchCleansUp
  BY DEF FimInv, BatchCleansUp
<1>3. BatchInv /\ FimInv => ProgramsCleanUp
  BY <1>1, <1>2 DEF ProgramsCleanUp
<1>4. QED
  BY <1>3, BatchInitSound, BatchStepSound, FimInitSound, FimStepSound, PTL
    DEF BatchSpec, FimSpec

================================================================================
