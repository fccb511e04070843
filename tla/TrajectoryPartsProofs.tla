-------------------------- MODULE TrajectoryPartsProofs -------------------------
(***************************************************************************)
(* What is proved of the parts of a trajectory but its job, for every      *)
(* value of the constants.                                                 *)
(*                                                                         *)
(* Its tree: the nodes keep the order of get_all_nodes and their depths    *)
(* whatever is added, dropped, reset or cloned; a save and a load make a   *)
(* tree of any, and the same one where no two nodes share an id; the trees *)
(* that loops and searches grow share none; and a child that is added      *)
(* changes no count of the rewards below a node.                           *)
(*                                                                         *)
(* Its files: what an agent asked to see of a file or edited in it is      *)
(* visible, and its edits are in every later context, in files and in      *)
(* shadow mode.  Its tasks: they are as the actions have told.  Its        *)
(* messages: at every size each tool call is answered and each answer is   *)
(* one to a call, within the limit.  Its completions: requests and answers *)
(* are counted and bounded, and a retry answers what it asks again about.  *)
(***************************************************************************)
EXTENDS NodeTree, FileContext, VisibleSpans, TaskArtifacts, MessageHistory, Completion,
        FiniteSetTheorems, FunctionTheorems, SequenceTheorems, NaturalsInduction,
        WellFoundedInduction, TLAPS

--------------------------------------------------------------------------------
(* Numbers and sequences                                                       *)

\* What holds at 0 and passes from each number to the next holds up to a bound.
LEMMA CountsUp ==
  ASSUME NEW n \in Nat, NEW S, 0 \in S, \A k \in 0..n - 1 : k \in S => k + 1 \in S
  PROVE  \A k \in 0..n : k \in S
<1> DEFINE Less == OpToRel(<, Nat)
           Out  == {k \in 0..n : k \notin S}
<1>1. IsWellFoundedOn(Less, Nat)
  BY NatLessThanWellFounded
<1>2. \A k, l \in Nat : <<l, k>> \in Less <=> l < k
  BY DEF OpToRel
<1> HIDE DEF Less
<1>3. SUFFICES ASSUME Out # {} PROVE FALSE
  OBVIOUS
<1>4. Out \subseteq Nat
  OBVIOUS
<1>5. PICK k \in Out : \A l \in Out : ~(<<l, k>> \in Less)
  BY <1>1, <1>3, <1>4, WFMin
<1>6. k \in 0..n /\ k \notin S /\ k # 0
  BY <1>5
<1>7. k - 1 \in Nat /\ k - 1 \in 0..n - 1 /\ k - 1 < k
  BY <1>6
<1>8. k - 1 \notin Out
  BY <1>2, <1>4, <1>5, <1>7
<1>9. QED
  BY <1>6, <1>7, <1>8

\* What a sequence is, element by element.
LEMMA SeqParts ==
  ASSUME NEW S, NEW s \in Seq(S)
  PROVE  /\ Len(s) \in Nat /\ DOMAIN s = 1..Len(s) /\ \A i \in 1..Len(s) : s[i] \in S
         /\ s = [i \in 1..Len(s) |-> s[i]]
         /\ s = <<>> <=> Len(s) = 0
  BY ElementOfSeq, EmptySeq, LenProperties

\* A function on the numbers up to one is a sequence.
LEMMA SeqMade ==
  ASSUME NEW S, NEW n \in Nat, NEW f, f = [i \in 1..n |-> f[i]], \A i \in 1..n : f[i] \in S
  PROVE  f \in Seq(S) /\ Len(f) = n
<1>1. f \in [1..n -> S]
  BY Zenon
<1>2. QED
  BY <1>1

\* The numbers of a finite set, in their order.
LEMMA NumbersOrdered ==
  ASSUME NEW S, S \subseteq Nat, IsFiniteSet(S)
  PROVE  /\ Cardinality(S) \in Nat
         /\ InOrder(S) \in Seq(S) /\ Len(InOrder(S)) = Cardinality(S)
         /\ \A i \in S : \E k \in 1..Cardinality(S) : InOrder(S)[k] = i
         /\ \A k, l \in 1..Cardinality(S) : k < l => InOrder(S)[k] < InOrder(S)[l]
<1> DEFINE n == Cardinality(S)
           rank(i) == Cardinality({j \in S : j <= i})
           f == [i \in S |-> rank(i)]
<1>1. n \in Nat
  BY FS_CardinalityType
<1>2. ASSUME NEW i \in S PROVE rank(i) \in 1..n
  <2>1. {j \in S : j <= i} \in SUBSET S
    OBVIOUS
  <2>2. IsFiniteSet({j \in S : j <= i}) /\ rank(i) <= n
    BY <2>1, FS_Subset
  <2>3. i \in {j \in S : j <= i}
    OBVIOUS
  <2>4. rank(i) \in Nat /\ rank(i) # 0
    BY <2>2, <2>3, FS_CardinalityType, FS_EmptySet
  <2>5. QED
    BY <1>1, <2>2, <2>4
<1>3. ASSUME NEW i \in S, NEW j \in S, i < j PROVE rank(i) < rank(j)
  <2>1. {k \in S : k <= j} \in SUBSET S
    OBVIOUS
  <2>2. IsFiniteSet({k \in S : k <= j})
    BY <2>1, FS_Subset
  <2>3. {k \in S : k <= i} \in SUBSET {k \in S : k <= j}
    <3>1. \A k \in S : k \in Nat /\ i \in Nat /\ j \in Nat
      OBVIOUS
    <3>2. \A k \in S : k <= i => k <= j
      BY <1>3, <3>1
    <3>3. QED
      BY <3>2
  <2>4. j \in {k \in S : k <= j} /\ j \notin {k \in S : k <= i}
    BY <1>3
  <2>5. rank(i) <= rank(j) /\ rank(i) # rank(j)
    BY <2>2, <2>3, <2>4, FS_Subset
  <2>6. rank(i) \in Nat /\ rank(j) \in Nat
    BY <1>2
  <2>7. QED
    BY <2>5, <2>6
<1> HIDE DEF rank
<1>4. \A i, j \in S : rank(i) = rank(j) => i = j
  <2>1. SUFFICES ASSUME NEW i \in S, NEW j \in S, rank(i) = rank(j), i # j PROVE FALSE
    OBVIOUS
  <2>2. i \in Nat /\ j \in Nat /\ (i < j \/ j < i)
    BY <2>1
  <2>3. rank(i) \in Nat /\ rank(j) \in Nat
    BY <1>2
  <2>4. QED
    BY <1>3, <2>1, <2>2, <2>3
<1>5. f \in Surjection(S, 1..n)
  <2>1. f \in [S -> 1..n] /\ \A i \in S : f[i] = rank(i)
    BY <1>2
  <2>2. \A i, j \in S : f[i] = f[j] => i = j
    BY <1>4, <2>1
  <2> HIDE DEF f, n
  <2>3. f \in Injection(S, 1..n)
    BY <2>1, <2>2 DEF Injection, IsInjective
  <2>4. IsFiniteSet(1..n) /\ Cardinality(1..n) = n
    BY <1>1, FS_Interval
  <2>5. QED
    BY <2>3, <2>4, FS_Injection DEF n
<1>6. \A k \in 1..n : \E i \in S : rank(i) = k
  BY <1>5 DEF Surjection
<1>7. InOrder(S) = [k \in 1..n |-> CHOOSE i \in S : rank(i) = k]
  BY DEF InOrder, rank
<1>8. \A k \in 1..n : InOrder(S)[k] \in S /\ rank(InOrder(S)[k]) = k
  BY <1>6, <1>7
<1>9. InOrder(S) \in Seq(S) /\ Len(InOrder(S)) = n
  <2>1. InOrder(S) = [k \in 1..n |-> InOrder(S)[k]]
    BY <1>7
  <2>2. QED
    BY <1>1, <1>8, <2>1, SeqMade
<1>10. \A i \in S : rank(i) \in 1..n /\ InOrder(S)[rank(i)] = i
  BY <1>2, <1>4, <1>8
<1>11. ASSUME NEW k \in 1..n, NEW l \in 1..n, k < l PROVE InOrder(S)[k] < InOrder(S)[l]
  <2>1. PICK i \in S, j \in S : i = InOrder(S)[k] /\ j = InOrder(S)[l]
    BY <1>8
  <2>2. rank(i) = k /\ rank(j) = l /\ i \in Nat /\ j \in Nat
    BY <1>8, <2>1
  <2>3. ~(j < i) /\ i # j
    BY <1>3, <1>11, <2>2
  <2>4. QED
    BY <2>1, <2>2, <2>3
<1>12. QED
  BY <1>1, <1>9, <1>10, <1>11

\* Sequences one after the other: what the first ones make, up to each of them.
LEMMA Flattened ==
  ASSUME NEW S, NEW n \in Nat, n # 0, NEW ss \in [1..n -> Seq(S)]
  PROVE  \E flat \in [1..n -> Seq(S)] :
           /\ FlattenSeq(ss) = flat[n] /\ flat[1] = ss[1]
           /\ \A k \in 2..n : flat[k] = flat[k - 1] \o ss[k]
<1> DEFINE Rec(m, f) == f = [i \in 1..m |-> IF i = 1 THEN ss[i] ELSE f[i - 1] \o ss[i]]
           Good == {m \in 0..n : \E f \in [1..m -> Seq(S)] : Rec(m, f)}
<1>1. 0 \in Good
  <2> DEFINE none == [i \in 1..0 |-> ss[1]]
  <2>1. none \in [1..0 -> Seq(S)]
    OBVIOUS
  <2>2. Rec(0, none)
    OBVIOUS
  <2> HIDE DEF none, Rec
  <2>3. \E f \in [1..0 -> Seq(S)] : Rec(0, f)
    BY <2>1, <2>2
  <2>4. 0 \in 0..n
    OBVIOUS
  <2>5. QED
    BY <2>3, <2>4
<1>2. ASSUME NEW m \in 0..n - 1, m \in Good PROVE m + 1 \in Good
  <2>1. PICK f \in [1..m -> Seq(S)] : Rec(m, f)
    BY <1>2
  <2> DEFINE new == IF m = 0 THEN ss[1] ELSE f[m] \o ss[m + 1]
             g   == [i \in 1..m + 1 |-> IF i <= m THEN f[i] ELSE new]
  <2>2. new \in Seq(S)
    <3>1. ss[1] \in Seq(S) /\ ss[m + 1] \in Seq(S) /\ (m # 0 => f[m] \in Seq(S))
      OBVIOUS
    <3>2. QED
      BY <3>1, ConcatProperties
  <2>3. \A i \in 1..m + 1 : i <= m => i \in 1..m
    OBVIOUS
  <2>4. g \in [1..m + 1 -> Seq(S)]
    <3> HIDE DEF new
    <3>1. QED
      BY <2>2, <2>3
  <2>5. ASSUME NEW i \in 1..m + 1
        PROVE  g[i] = IF i = 1 THEN ss[i] ELSE g[i - 1] \o ss[i]
    <3>1. CASE i <= m
      <4>1. i \in 1..m /\ g[i] = f[i] /\ (i # 1 => g[i - 1] = f[i - 1])
        BY <3>1
      <4>2. QED
        BY <2>1, <4>1
    <3>2. CASE i = m + 1
      <4>1. g[i] = new /\ (m # 0 => g[i - 1] = f[m])
        BY <3>2
      <4>2. QED
        BY <3>2, <4>1
    <3>3. QED
      BY <3>1, <3>2
  <2>6. Rec(m + 1, g)
    <3>1. g = [i \in 1..m + 1 |-> g[i]]
      OBVIOUS
    <3> HIDE DEF g
    <3>2. QED
      BY <2>5, <3>1
  <2> HIDE DEF Rec, g
  <2>7. QED
    BY <2>4, <2>6
<1>3. n \in 0..n
  OBVIOUS
<1>4. n \in Good
  <2> HIDE DEF Good
  <2>1. QED
    BY <1>1, <1>2, <1>3, CountsUp
<1>5. PICK f \in [1..n -> Seq(S)] : Rec(n, f)
  BY <1>4
<1> DEFINE flat == CHOOSE g : Rec(n, g)
<1>6. Rec(n, flat)
  BY <1>5
<1>7. Len(ss) = n /\ n # 0
  BY SeqMade
<1>8. FlattenSeq(ss) = flat[n]
  BY <1>7 DEF FlattenSeq
<1> HIDE DEF flat
<1>9. flat[1] = ss[1] /\ \A k \in 2..n : flat[k] = flat[k - 1] \o ss[k]
  <2>1. flat[1] = ss[1]
    BY <1>6, 1 \in 1..n
  <2>2. ASSUME NEW k \in 2..n PROVE flat[k] = flat[k - 1] \o ss[k]
    <3>1. k \in 1..n /\ k # 1
      OBVIOUS
    <3>2. QED
      BY <1>6, <3>1
  <2>3. QED
    BY <2>1, <2>2
<1>10. flat \in [1..n -> Seq(S)]
  <2> DEFINE In == {m \in 0..n : m = 0 \/ flat[m] \in Seq(S)}
  <2>1. 0 \in In
    OBVIOUS
  <2>2. ASSUME NEW m \in 0..n - 1, m \in In PROVE m + 1 \in In
    <3>1. ss[m + 1] \in Seq(S)
      OBVIOUS
    <3>2. CASE m = 0
      BY <1>9, <3>1, <3>2
    <3>3. CASE m # 0
      <4>1. m + 1 \in 2..n /\ (m + 1) - 1 = m /\ flat[m] \in Seq(S)
        BY <2>2, <3>3
      <4>2. flat[m + 1] = flat[m] \o ss[m + 1]
        BY <1>9, <4>1
      <4>3. flat[m] \o ss[m + 1] \in Seq(S)
        BY <3>1, <4>1, ConcatProperties
      <4>4. flat[m + 1] \in Seq(S)
        BY <4>2, <4>3, Zenon
      <4>5. m + 1 \in 0..n
        OBVIOUS
      <4>6. QED
        BY <4>4, <4>5
    <3>4. QED
      BY <3>2, <3>3
  <2>3. \A m \in 0..n : m \in In
    <3> HIDE DEF In
    <3>1. QED
      BY <2>1, <2>2, CountsUp
  <2>4. \A k \in 1..n : flat[k] \in Seq(S)
    BY <2>3
  <2>5. flat = [k \in 1..n |-> flat[k]]
    BY <1>6
  <2>6. QED
    BY <2>4, <2>5
<1>11. QED
  BY <1>8, <1>9, <1>10

--------------------------------------------------------------------------------
(* Where the nodes of a tree are                                               *)

\* The subtree of a node at some depth: those after the node are deeper, each at most one
\* deeper than the one before it.
TreeAt(s, d) ==
  /\ s \in Seq(Node) /\ s # <<>> /\ s[1].depth = d
  /\ \A i \in 2..Len(s) : s[i].depth \in d + 1 .. s[i - 1].depth + 1

\* A tree as the flow keeps it; none is one, too.
Tree == {t \in Seq(Node) : t = <<>> \/ TreeAt(t, 0)}

\* Among some numbers that are bounded there is a greatest one, as there is a least one.
LEMMA ExtremesExist ==
  ASSUME NEW n \in Nat, NEW S, S \subseteq 0..n, S # {}
  PROVE  /\ \E k \in S : \A l \in S : k <= l
         /\ \E k \in S : \A l \in S : l <= k
<1>1. ASSUME NEW T, T \subseteq Nat, T # {} PROVE \E k \in T : \A l \in T : k <= l
  <2> DEFINE Less == OpToRel(<, Nat)
  <2>1. IsWellFoundedOn(Less, Nat)
    BY NatLessThanWellFounded
  <2>2. \A k, l \in Nat : <<l, k>> \in Less <=> l < k
    BY DEF OpToRel
  <2> HIDE DEF Less
  <2>3. PICK k \in T : \A l \in T : ~(<<l, k>> \in Less)
    BY <1>1, <2>1, WFMin
  <2>4. \A l \in T : l \in Nat /\ k \in Nat /\ ~(l < k)
    BY <1>1, <2>2, <2>3
  <2>5. QED
    BY <2>4
<1>2. S \subseteq Nat
  OBVIOUS
<1>3. PICK u \in {n - k : k \in S} : \A v \in {n - k : k \in S} : u <= v
  <2>1. {n - k : k \in S} \subseteq Nat
    <3>1. \A k \in S : k \in 0..n
      OBVIOUS
    <3>2. \A k \in 0..n : n - k \in Nat
      OBVIOUS
    <3>3. QED
      BY <3>1, <3>2
  <2>2. {n - k : k \in S} # {}
    OBVIOUS
  <2>3. QED
    BY <1>1, <2>1, <2>2
<1>4. PICK k \in S : u = n - k
  BY <1>3
<1>5. \A l \in S : l <= k
  <2>1. ASSUME NEW l \in S PROVE l <= k
    <3>1. n - l \in {n - m : m \in S}
      OBVIOUS
    <3>2. u <= n - l
      BY <1>3, <3>1
    <3>3. k \in Nat /\ l \in Nat
      BY <1>2
    <3>4. QED
      BY <1>4, <3>2, <3>3
  <2>2. QED
    BY <2>1
<1>6. QED
  BY <1>1, <1>2, <1>5

LEMMA NodeFields ==
  ASSUME NEW n \in Node
  PROVE  /\ n.id \in Nat /\ n.depth \in Nat /\ n.max \in Nat
         /\ n.steps \in 0..MaxSteps /\ n.done \in 0..MaxSteps
         /\ n.fin \in BOOLEAN /\ n.terminal \in BOOLEAN /\ n.error \in BOOLEAN
         /\ n.duplicate \in BOOLEAN /\ n.paid \in BOOLEAN
         /\ n.reward \in Rewards /\ n.visits \in Nat
  BY DEF Node

LEMMA NewNodeKnown ==
  ASSUME NEW id \in Nat, NEW depth \in Nat, NEW max \in Nat
  PROVE  NewNode(id, depth, max) \in Node
<1>1. 0 \in 0..MaxSteps /\ "none" \in Rewards
  BY NodeAssumption DEF Rewards
<1>2. QED
  BY <1>1 DEF NewNode, Node

\* The nodes below one are those that follow it, up to one that is not deeper.
LEMMA SubtreeIsContiguous ==
  ASSUME NEW t \in Seq(Node), NEW p \in 1..Len(t)
  PROVE  \E e \in p..Len(t) :
           /\ Descendants(t, p) = p + 1 .. e /\ ChildPosition(t, p) = e + 1
           /\ \A k \in p + 1 .. e : t[k].depth > t[p].depth
           /\ e < Len(t) => t[e + 1].depth <= t[p].depth
<1> DEFINE n   == Len(t)
           Out == {j \in p + 1 .. n : ~(t[j].depth > t[p].depth)}
<1>1. n \in Nat /\ p \in 1..n /\ \A j \in 1..n : t[j].depth \in Nat
  BY SeqParts, NodeFields
<1>2. ASSUME NEW e \in p..n, \A k \in p + 1 .. e : t[k].depth > t[p].depth,
             e < n => t[e + 1].depth <= t[p].depth
      PROVE  Descendants(t, p) = p + 1 .. e /\ ChildPosition(t, p) = e + 1
  <2>1. ASSUME NEW j \in Descendants(t, p) PROVE j \in p + 1 .. e
    <3>1. j \in p + 1 .. n /\ \A k \in p + 1 .. j : t[k].depth > t[p].depth
      BY DEF Descendants
    <3>2. SUFFICES ASSUME j > e PROVE FALSE
      BY <1>1, <3>1
    <3>3. e + 1 \in p + 1 .. j /\ e < n /\ e + 1 \in 1..n
      BY <1>1, <3>1, <3>2
    <3>4. t[e + 1].depth > t[p].depth /\ t[e + 1].depth <= t[p].depth
      BY <1>2, <3>1, <3>3
    <3>5. QED
      BY <1>1, <3>3, <3>4
  <2>2. ASSUME NEW j \in p + 1 .. e PROVE j \in Descendants(t, p)
    <3>1. j \in p + 1 .. n /\ \A k \in p + 1 .. j : k \in p + 1 .. e
      BY <1>1
    <3>2. QED
      BY <1>2, <3>1 DEF Descendants
  <2>3. Descendants(t, p) = p + 1 .. e
    BY <2>1, <2>2
  <2>4. Cardinality(p + 1 .. e) = e - p
    BY <1>1, FS_Interval
  <2>5. QED
    BY <1>1, <2>3, <2>4 DEF ChildPosition
<1>3. CASE Out = {}
  <2>1. \A k \in p + 1 .. n : t[k].depth > t[p].depth
    BY <1>3
  <2>2. n \in p..n
    BY <1>1
  <2>3. QED
    BY <1>2, <2>1, <2>2
<1>4. CASE Out # {}
  <2>1. Out \subseteq 0..n
    BY <1>1
  <2>2. PICK b \in Out : \A l \in Out : b <= l
    BY <1>1, <1>4, <2>1, ExtremesExist
  <2>3. b \in p + 1 .. n /\ ~(t[b].depth > t[p].depth)
    BY <2>2
  <2>4. b - 1 \in p..n /\ (b - 1) + 1 = b /\ \A k \in p + 1 .. b - 1 : k \notin Out
    BY <1>1, <2>2, <2>3
  <2>5. \A k \in p + 1 .. b - 1 : t[k].depth > t[p].depth
    BY <1>1, <2>3, <2>4
  <2>6. t[b].depth <= t[p].depth
    BY <1>1, <2>3
  <2>7. QED
    BY <1>2, <2>4, <2>5, <2>6
<1>5. QED
  BY <1>3, <1>4

\* In a tree every node but the first is the child of one that comes before it, and of no
\* other one.
LEMMA ParentIsThere ==
  ASSUME NEW t \in Seq(Node), NEW d \in Nat, TreeAt(t, d), NEW i \in 2..Len(t)
  PROVE  /\ ParentOf(t, i) \in 1 .. i - 1 /\ i \in ChildrenOf(t, ParentOf(t, i))
         /\ \A p \in 1..Len(t) : i \in ChildrenOf(t, p) => p = ParentOf(t, i)
<1> DEFINE n == Len(t)
           Higher == {j \in 1 .. i - 1 : t[j].depth < t[i].depth}
<1>1. /\ n \in Nat /\ i \in 1..n /\ i # 1 /\ \A j \in 1..n : t[j].depth \in Nat
      /\ t[1].depth = d /\ \A j \in 2..n : t[j].depth \in d + 1 .. t[j - 1].depth + 1
  BY SeqParts, NodeFields DEF TreeAt
<1>2. 1 \in Higher /\ Higher \subseteq 0..n
  <2>1. t[i].depth \in d + 1 .. t[i - 1].depth + 1
    BY <1>1
  <2>2. i - 1 \in 1..n
    BY <1>1
  <2>3. QED
    BY <1>1, <2>1, <2>2
<1>3. PICK p \in Higher : \A l \in Higher : l <= p
  <2>1. Higher # {}
    BY <1>2
  <2> HIDE DEF Higher
  <2>2. QED
    BY <1>1, <1>2, <2>1, ExtremesExist
<1>4. p \in 1 .. i - 1 /\ t[p].depth < t[i].depth
  BY <1>3
<1>5. \A k \in p + 1 .. i : k \in 1..n /\ ~(t[k].depth < t[i].depth)
  <2>1. ASSUME NEW k \in p + 1 .. i, k # i PROVE k \in 1..n /\ ~(t[k].depth < t[i].depth)
    <3>1. k \in 1 .. i - 1 /\ ~(k <= p) /\ k \in 1..n
      BY <1>1, <1>4, <2>1
    <3>2. k \notin Higher
      BY <1>3, <3>1
    <3>3. QED
      BY <3>1, <3>2
  <2>2. ~(t[i].depth < t[i].depth) /\ i \in 1..n
    BY <1>1
  <2>3. QED
    BY <2>1, <2>2
<1> HIDE DEF Higher
<1>6. t[i].depth = t[p].depth + 1
  <2>1. p + 1 \in p + 1 .. i /\ p + 1 \in 2..n /\ (p + 1) - 1 = p /\ p \in 1..n
    BY <1>1, <1>4
  <2>2. t[p + 1].depth <= t[p].depth + 1 /\ ~(t[p + 1].depth < t[i].depth)
    BY <1>1, <1>5, <2>1
  <2>3. t[p].depth \in Nat /\ t[i].depth \in Nat /\ t[p + 1].depth \in Nat
    <3>1. p \in 1..n /\ i \in 1..n /\ p + 1 \in 1..n
      BY <1>1, <2>1
    <3>2. QED
      BY <1>1, <3>1
  <2>4. QED
    BY <1>4, <2>2, <2>3
<1>7. i \in ChildrenOf(t, p)
  <2>1. i \in p + 1 .. n /\ \A k \in p + 1 .. i : t[k].depth > t[p].depth
    <3>1. p \in 1..n
      BY <1>1, <1>4
    <3>2. ASSUME NEW k \in p + 1 .. i PROVE t[k].depth > t[p].depth
      <4>1. t[k].depth \in Nat /\ t[i].depth \in Nat /\ t[p].depth \in Nat
            /\ ~(t[k].depth < t[i].depth)
        BY <1>1, <1>5, <3>1
      <4>2. QED
        BY <1>4, <4>1
    <3>3. QED
      BY <1>1, <1>4, <3>2
  <2>2. QED
    BY <1>6, <2>1 DEF ChildrenOf, Descendants
<1>8. ASSUME NEW q \in 1..n, NEW r \in 1..n, i \in ChildrenOf(t, q), i \in ChildrenOf(t, r)
      PROVE  ~(q < r)
  <2>1. SUFFICES ASSUME q < r PROVE FALSE
    OBVIOUS
  <2>2. /\ i \in r + 1 .. n /\ t[i].depth = t[q].depth + 1 /\ t[i].depth = t[r].depth + 1
        /\ \A k \in q + 1 .. i : t[k].depth > t[q].depth
    BY <1>8 DEF ChildrenOf, Descendants
  <2>3. r \in q + 1 .. i
    BY <2>1, <2>2
  <2>4. t[r].depth > t[q].depth /\ t[r].depth \in Nat /\ t[q].depth \in Nat
    BY <1>1, <2>2, <2>3
  <2>5. QED
    BY <2>2, <2>4
<1>9. \A q \in 1..n : i \in ChildrenOf(t, q) => q = p
  <2>1. p \in 1..n /\ \A q \in 1..n : q \in Nat /\ p \in Nat
    BY <1>1, <1>4
  <2>2. QED
    BY <1>7, <1>8, <2>1
<1>10. ParentOf(t, i) = p
  <2>1. \A q \in 1 .. i - 1 : q \in 1..n
    BY <1>1
  <2>2. ParentOf(t, i) = CHOOSE q \in 1 .. i - 1 : i \in ChildrenOf(t, q)
    BY <1>1 DEF ParentOf
  <2>3. QED
    BY <1>4, <1>7, <1>9, <2>1, <2>2
<1>11. QED
  BY <1>4, <1>7, <1>9, <1>10

--------------------------------------------------------------------------------
(* Changes of a tree                                                           *)

\* A node put behind the first ones.
Put(t, e, new) == SubSeq(t, 1, e) \o <<new>> \o SubSeq(t, e + 1, Len(t))

\* A node as a child of one at some depth.
Child(n, d) == [n EXCEPT !.depth = d + 1]

\* A node that is put between others.
LEMMA NodeInserted ==
  ASSUME NEW t \in Seq(Node), NEW e \in 1..Len(t), NEW new \in Node
  PROVE  LET u == Put(t, e, new)
         IN /\ u \in Seq(Node) /\ Len(u) = Len(t) + 1 /\ u[e + 1] = new
            /\ \A j \in 1..e : u[j] = t[j]
            /\ \A j \in e + 1 .. Len(t) : u[j + 1] = t[j]
            /\ \A j \in e + 2 .. Len(t) + 1 : u[j] = t[j - 1]
<1> DEFINE m == Len(t)
           u == Put(t, e, new)
<1>1. m \in Nat /\ e \in 1..m /\ \A j \in 1..m : t[j] \in Node
  BY SeqParts
<1>4. u = SubSeq(t, 1, e) \o <<new>> \o SubSeq(t, e + 1, m)
  BY DEF Put
<1> HIDE DEF m, u
<1>5. /\ SubSeq(t, 1, e) \in Seq(Node) /\ Len(SubSeq(t, 1, e)) = e
      /\ \A j \in 1..e : SubSeq(t, 1, e)[j] = t[j]
  <2>1. \A j \in 1..e : t[j] \in Node
    BY <1>1
  <2>2. 1 \in Int /\ e \in Int /\ 1 <= e
    BY <1>1
  <2>3. QED
    BY <2>1, <2>2, SubSeqProperties
<1>6. /\ SubSeq(t, e + 1, m) \in Seq(Node) /\ Len(SubSeq(t, e + 1, m)) = m - e
      /\ \A j \in 1 .. m - e : SubSeq(t, e + 1, m)[j] = t[e + j]
  <2>1. \A j \in e + 1 .. m : t[j] \in Node
    BY <1>1
  <2>2. e + 1 \in Int /\ m \in Int
    BY <1>1
  <2>3. /\ SubSeq(t, e + 1, m) \in Seq(Node)
        /\ Len(SubSeq(t, e + 1, m)) = IF e + 1 <= m THEN m - (e + 1) + 1 ELSE 0
        /\ \A j \in 1 .. m - (e + 1) + 1 : SubSeq(t, e + 1, m)[j] = t[e + 1 + j - 1]
    BY <2>1, <2>2, SubSeqProperties
  <2>4. m - (e + 1) + 1 = m - e /\ \A j \in 1 .. m - e : e + 1 + j - 1 = e + j
    BY <1>1
  <2>5. QED
    BY <1>1, <2>3, <2>4
<1> DEFINE a == SubSeq(t, 1, e)
           b == a \o <<new>>
           c == SubSeq(t, e + 1, m)
<1>7. <<new>> \in Seq(Node) /\ Len(<<new>>) = 1 /\ <<new>>[1] = new
  OBVIOUS
<1> HIDE DEF a, b, c
<1>8. /\ b \in Seq(Node) /\ Len(b) = e + 1 /\ b[e + 1] = new
      /\ \A j \in 1..e : b[j] = t[j]
  <2>1. a \in Seq(Node) /\ Len(a) = e /\ \A j \in 1..e : a[j] = t[j]
    BY <1>5 DEF a
  <2>2. /\ b \in Seq(Node) /\ Len(b) = Len(a) + 1
        /\ \A j \in 1 .. Len(a) + 1 : b[j] = IF j <= Len(a) THEN a[j] ELSE <<new>>[j - Len(a)]
    BY <1>7, <2>1, ConcatProperties DEF b
  <2>3. \A j \in 1..e : j \in 1..e + 1 /\ j <= e
    OBVIOUS
  <2>4. e + 1 \in 1 .. e + 1 /\ ~(e + 1 <= e) /\ (e + 1) - e = 1
    BY <1>1
  <2>5. QED
    BY <1>7, <2>1, <2>2, <2>3, <2>4
<1>9. /\ u \in Seq(Node) /\ Len(u) = m + 1
      /\ \A j \in 1 .. m + 1 : u[j] = IF j <= e + 1 THEN b[j] ELSE c[j - (e + 1)]
  <2>1. c \in Seq(Node) /\ Len(c) = m - e
    BY <1>6 DEF c
  <2>2. u = b \o c
    BY <1>4 DEF a, b, c
  <2>3. /\ u \in Seq(Node) /\ Len(u) = Len(b) + Len(c)
        /\ \A j \in 1 .. Len(b) + Len(c) : u[j] = IF j <= Len(b) THEN b[j] ELSE c[j - Len(b)]
    BY <1>8, <2>1, <2>2, ConcatProperties
  <2>4. (e + 1) + (m - e) = m + 1
    BY <1>1
  <2>5. QED
    BY <1>8, <2>1, <2>3, <2>4
<1>10. u[e + 1] = new /\ \A j \in 1..e : u[j] = t[j]
  <2>1. e + 1 \in 1 .. m + 1 /\ \A j \in 1..e : j \in 1 .. m + 1 /\ j <= e + 1
    BY <1>1
  <2>2. QED
    BY <1>8, <1>9, <2>1
<1>11. ASSUME NEW j \in e + 1 .. m PROVE u[j + 1] = t[j]
  <2>1. /\ j + 1 \in 1 .. m + 1 /\ ~(j + 1 <= e + 1) /\ (j + 1) - (e + 1) = j - e
        /\ j - e \in 1 .. m - e /\ e + (j - e) = j
    BY <1>1
  <2>2. QED
    BY <1>6, <1>9, <2>1 DEF c
<1>12. ASSUME NEW j \in e + 2 .. m + 1 PROVE u[j] = t[j - 1]
  <2>1. j - 1 \in e + 1 .. m /\ (j - 1) + 1 = j
    BY <1>1
  <2>2. QED
    BY <1>11, <2>1
<1>13. QED
  BY <1>9, <1>10, <1>11, <1>12 DEF m, u

\* A node that is added stands behind its parent's other descendants.
LEMMA AddedChild ==
  ASSUME NEW t \in Seq(Node), NEW p \in 1..Len(t), NEW n \in Node
  PROVE  LET u == AddChild(t, p, n)
         IN /\ Child(n, t[p].depth) \in Node /\ u \in Seq(Node) /\ Len(u) = Len(t) + 1
            /\ \E e \in p..Len(t) :
                 /\ Descendants(t, p) = p + 1 .. e /\ ChildPosition(t, p) = e + 1
                 /\ \A k \in p + 1 .. e : t[k].depth > t[p].depth
                 /\ e < Len(t) => t[e + 1].depth <= t[p].depth
                 /\ u[e + 1] = Child(n, t[p].depth)
                 /\ \A j \in 1..e : u[j] = t[j]
                 /\ \A j \in e + 1 .. Len(t) : u[j + 1] = t[j]
                 /\ \A j \in e + 2 .. Len(t) + 1 : u[j] = t[j - 1]
<1> DEFINE u == AddChild(t, p, n)
           new == Child(n, t[p].depth)
<1>1. Len(t) \in Nat /\ t[p] \in Node
  BY SeqParts
<1>2. PICK e \in p..Len(t) :
        /\ Descendants(t, p) = p + 1 .. e /\ ChildPosition(t, p) = e + 1
        /\ \A k \in p + 1 .. e : t[k].depth > t[p].depth
        /\ e < Len(t) => t[e + 1].depth <= t[p].depth
  BY SubtreeIsContiguous
<1>3. new \in Node
  <2>1. t[p].depth + 1 \in Nat
    BY <1>1, NodeFields
  <2>2. QED
    BY <2>1 DEF Node, Child
<1>4. e \in 1..Len(t)
  BY <1>1
<1>5. u = Put(t, e, new)
  <2>1. (e + 1) - 1 = e
    BY <1>1
  <2>2. QED
    BY <1>2, <2>1 DEF AddChild, Put, Child
<1> HIDE DEF u, new
<1>6. /\ u \in Seq(Node) /\ Len(u) = Len(t) + 1 /\ u[e + 1] = new
      /\ \A j \in 1..e : u[j] = t[j]
      /\ \A j \in e + 1 .. Len(t) : u[j + 1] = t[j]
      /\ \A j \in e + 2 .. Len(t) + 1 : u[j] = t[j - 1]
  BY <1>3, <1>4, <1>5, NodeInserted
<1>7. QED
  BY <1>2, <1>3, <1>6 DEF u, new

\* Its depth.
LEMMA ChildDepth ==
  ASSUME NEW n \in Node, NEW d \in Nat
  PROVE  Child(n, d).depth = d + 1 /\ \A f \in DOMAIN n \ {"depth"} : Child(n, d)[f] = n[f]
  BY DEF Node, Child

\* It leaves a tree.
LEMMA AddedChildInTree ==
  ASSUME NEW t \in Tree, NEW p \in 1..Len(t), NEW n \in Node
  PROVE  AddChild(t, p, n) \in Tree
<1> DEFINE m == Len(t)
<1>1. t \in Seq(Node) /\ m \in Nat /\ p \in 1..m /\ m # 0
  BY SeqParts DEF Tree
<1>2. TreeAt(t, 0)
  BY <1>1, EmptySeq DEF Tree
<1>3. t[p] \in Node /\ t[p].depth \in Nat
  BY <1>1, SeqParts, NodeFields
<1>a. Child(n, t[p].depth).depth = t[p].depth + 1
  BY <1>3, ChildDepth
<1> DEFINE u == AddChild(t, p, n)
<1>b. /\ u \in Seq(Node) /\ Len(u) = m + 1
      /\ \E e \in p..m :
           /\ \A k \in p + 1 .. e : t[k].depth > t[p].depth
           /\ e < m => t[e + 1].depth <= t[p].depth
           /\ u[e + 1] = Child(n, t[p].depth)
           /\ \A j \in 1..e : u[j] = t[j]
           /\ \A j \in e + 1 .. m : u[j + 1] = t[j]
           /\ \A j \in e + 2 .. m + 1 : u[j] = t[j - 1]
  BY <1>1, AddedChild
<1> HIDE DEF u
<1>c. PICK e \in p..m :
        /\ \A k \in p + 1 .. e : t[k].depth > t[p].depth
        /\ e < m => t[e + 1].depth <= t[p].depth
        /\ u[e + 1].depth = t[p].depth + 1
        /\ \A j \in 1..e : u[j] = t[j]
        /\ \A j \in e + 1 .. m : u[j + 1] = t[j]
        /\ \A j \in e + 2 .. m + 1 : u[j] = t[j - 1]
  BY <1>a, <1>b
<1>4. /\ t[1].depth = 0 /\ \A j \in 1..m : t[j].depth \in Nat
      /\ \A j \in 2..m : t[j].depth \in 1 .. t[j - 1].depth + 1
  BY <1>1, <1>2, SeqParts, NodeFields DEF TreeAt
<1> HIDE DEF m
<1>5. u[1].depth = 0
  <2>1. 1 \in 1..e
    BY <1>1, <1>c
  <2>2. u[1] = t[1]
    BY <1>c, <2>1
  <2>3. QED
    BY <1>4, <2>2
<1>6. ASSUME NEW j \in 2 .. m + 1 PROVE u[j].depth \in 1 .. u[j - 1].depth + 1
  <2>1. CASE j <= e
    <3>1. j \in 1..e /\ j - 1 \in 1..e /\ j \in 2..m
      BY <1>1, <2>1
    <3>2. QED
      BY <1>c, <1>4, <3>1
  <2>2. CASE j = e + 1
    <3>1. u[j].depth = t[p].depth + 1 /\ j - 1 = e /\ e \in 1..e /\ u[e] = t[e]
          /\ t[p].depth \in Nat /\ t[e].depth \in Nat
      BY <1>1, <1>b, <1>c, <1>4, <2>2
    <3>2. t[e].depth >= t[p].depth
      <4>1. CASE e = p
        BY <3>1, <4>1
      <4>2. CASE e # p
        <5>1. e \in p + 1 .. e
          BY <1>1, <4>2
        <5>2. QED
          BY <1>c, <3>1, <5>1
      <4>3. QED
        BY <4>1, <4>2
    <3>3. QED
      BY <3>1, <3>2
  <2>3. CASE j = e + 2
    <3>1. /\ j - 1 = e + 1 /\ e + 1 \in 2..m /\ e < m /\ (e + 2) - 1 = e + 1
          /\ j \in e + 2 .. m + 1 /\ p \in 1..m
      BY <1>1, <2>3
    <3>2. u[j] = t[e + 1] /\ u[j - 1].depth = t[p].depth + 1
      BY <1>c, <2>3, <3>1
    <3>3. t[e + 1].depth <= t[p].depth /\ t[e + 1].depth \in 1 .. t[(e + 1) - 1].depth + 1
          /\ t[p].depth \in Nat
      BY <1>c, <1>4, <3>1
    <3>4. QED
      BY <3>2, <3>3
  <2>4. CASE j > e + 2
    <3>1. /\ j \in e + 2 .. m + 1 /\ j - 1 \in e + 2 .. m + 1 /\ j - 1 \in 2..m
          /\ (j - 1) - 1 = j - 2
      BY <1>1, <2>4
    <3>2. u[j] = t[j - 1] /\ u[j - 1] = t[(j - 1) - 1]
      BY <1>c, <3>1
    <3>3. QED
      BY <1>4, <3>1, <3>2
  <2>5. QED
    BY <1>1, <2>1, <2>2, <2>3, <2>4
<1>7. u # <<>>
  BY <1>1, <1>b, EmptySeq
<1>8. TreeAt(u, 0)
  <2>1. 0 + 1 = 1
    OBVIOUS
  <2>2. QED
    BY <1>b, <1>5, <1>6, <1>7, <2>1 DEF TreeAt
<1>9. QED
  BY <1>b, <1>8 DEF Tree, u

\* What two adjacent parts of a sequence of nodes make, some nodes between them left out.
LEMMA CutOut ==
  ASSUME NEW t \in Seq(Node), NEW p \in 1..Len(t), NEW e \in p..Len(t)
  PROVE  LET u == SubSeq(t, 1, p) \o SubSeq(t, e + 1, Len(t))
         IN /\ u \in Seq(Node) /\ Len(u) = Len(t) - (e - p)
            /\ \A j \in 1..p : u[j] = t[j]
            /\ \A j \in p + 1 .. Len(t) - (e - p) : u[j] = t[j + (e - p)]
<1> DEFINE m == Len(t)
           a == SubSeq(t, 1, p)
           c == SubSeq(t, e + 1, m)
           u == a \o c
<1>1. m \in Nat /\ p \in 1..m /\ e \in p..m /\ \A j \in 1..m : t[j] \in Node
  BY SeqParts
<1>2. a \in Seq(Node) /\ Len(a) = p /\ \A j \in 1..p : a[j] = t[j]
  <2>1. \A j \in 1..p : t[j] \in Node
    BY <1>1
  <2>2. 1 \in Int /\ p \in Int /\ 1 <= p
    BY <1>1
  <2>3. QED
    BY <2>1, <2>2, SubSeqProperties
<1>3. c \in Seq(Node) /\ Len(c) = m - e /\ \A j \in 1 .. m - e : c[j] = t[e + j]
  <2>1. \A j \in e + 1 .. m : t[j] \in Node
    BY <1>1
  <2>2. e + 1 \in Int /\ m \in Int
    BY <1>1
  <2>3. /\ c \in Seq(Node) /\ Len(c) = IF e + 1 <= m THEN m - (e + 1) + 1 ELSE 0
        /\ \A j \in 1 .. m - (e + 1) + 1 : c[j] = t[e + 1 + j - 1]
    BY <2>1, <2>2, SubSeqProperties
  <2>4. m - (e + 1) + 1 = m - e /\ \A j \in 1 .. m - e : e + 1 + j - 1 = e + j
    BY <1>1
  <2>5. Len(c) = m - e
    BY <1>1, <2>3
  <2>6. ASSUME NEW j \in 1 .. m - e
        PROVE  c[j] = t[e + j]
    <3>1. j \in 1 .. m - (e + 1) + 1 /\ e + 1 + j - 1 = e + j
      BY <2>4
    <3>2. c[j] = t[e + 1 + j - 1]
      BY <2>3, <3>1
    <3>3. QED
      BY <3>1, <3>2
  <2>7. QED
    BY <2>3, <2>5, <2>6
<1> HIDE DEF m, a, c
<1>4. /\ u \in Seq(Node) /\ Len(u) = Len(a) + Len(c)
      /\ \A j \in 1 .. Len(a) + Len(c) : u[j] = IF j <= Len(a) THEN a[j] ELSE c[j - Len(a)]
  BY <1>2, <1>3, ConcatProperties
<1> HIDE DEF u
<1>5. p + (m - e) = m - (e - p)
  BY <1>1
<1>6. \A j \in 1..p : u[j] = t[j]
  <2>1. \A j \in 1..p : j \in 1 .. p + (m - e) /\ j <= p
    BY <1>1
  <2>2. QED
    BY <1>2, <1>3, <1>4, <2>1
<1>7. ASSUME NEW j \in p + 1 .. m - (e - p) PROVE u[j] = t[j + (e - p)]
  <2>1. /\ j \in 1 .. p + (m - e) /\ ~(j <= p) /\ j - p \in 1 .. m - e
        /\ e + (j - p) = j + (e - p)
    BY <1>1
  <2>2. QED
    BY <1>2, <1>3, <1>4, <2>1
<1>8. QED
  BY <1>2, <1>3, <1>4, <1>5, <1>6, <1>7 DEF u, m, a, c

\* Without what is below one of its nodes a tree is a tree.
LEMMA DroppedChildren ==
  ASSUME NEW t \in Tree, NEW p \in 1..Len(t)
  PROVE  LET u == DropChildren(t, p)
         IN /\ u \in Tree /\ p \in 1..Len(u)
            /\ \A j \in 1..p : u[j] = t[j]
            /\ \A j \in p + 1 .. Len(u) : \E k \in p + 1 .. Len(t) : u[j] = t[k]
            /\ Len(u) <= Len(t)
            /\ (\A k \in p + 1 .. Len(t) : t[k].depth > t[p].depth) => Len(u) = p
<1> DEFINE m == Len(t)
           u == DropChildren(t, p)
<1>1. /\ t \in Seq(Node) /\ m \in Nat /\ p \in 1..m /\ m # 0
      /\ \A j \in 1..m : t[j].depth \in Nat
  BY SeqParts, NodeFields DEF Tree
<1>2. TreeAt(t, 0)
  BY <1>1, EmptySeq DEF Tree
<1>3. PICK e \in p..m :
        /\ Descendants(t, p) = p + 1 .. e /\ ChildPosition(t, p) = e + 1
        /\ \A k \in p + 1 .. e : t[k].depth > t[p].depth
        /\ e < m => t[e + 1].depth <= t[p].depth
  BY <1>1, SubtreeIsContiguous
<1>4. u = SubSeq(t, 1, p) \o SubSeq(t, e + 1, m)
  BY <1>3 DEF DropChildren
<1> HIDE DEF u
<1>5. /\ u \in Seq(Node) /\ Len(u) = m - (e - p)
      /\ \A j \in 1..p : u[j] = t[j]
      /\ \A j \in p + 1 .. m - (e - p) : u[j] = t[j + (e - p)]
  BY <1>1, <1>4, CutOut
<1> DEFINE n == m - (e - p)
<1>6. n \in Nat /\ p \in 1..n /\ n <= m
  BY <1>1
<1> HIDE DEF m
<1>7. /\ t[1].depth = 0 /\ \A j \in 2..m : t[j].depth \in 1 .. t[j - 1].depth + 1
  BY <1>2 DEF TreeAt, m
<1>8. ASSUME NEW j \in 2..n PROVE u[j].depth \in 1 .. u[j - 1].depth + 1
  <2>1. CASE j <= p
    <3>1. j \in 1..p /\ j - 1 \in 1..p /\ j \in 2..m
      BY <1>1, <2>1
    <3>2. QED
      BY <1>5, <1>7, <3>1
  <2>2. CASE j = p + 1
    <3>1. /\ j \in p + 1 .. n /\ j + (e - p) = e + 1 /\ e < m /\ e + 1 \in 2..m
          /\ (e + 1) - 1 = e /\ j - 1 = p /\ p \in 1..p /\ p \in 1..m /\ e + 1 \in 1..m
      BY <1>1, <2>2
    <3>2. u[j] = t[e + 1] /\ u[j - 1] = t[p]
      BY <1>5, <3>1
    <3>3. t[e + 1].depth \in 1 .. t[e].depth + 1 /\ t[e + 1].depth <= t[p].depth
      BY <1>3, <1>7, <3>1
    <3>4. t[p].depth \in Nat
      BY <1>1, <3>1
    <3>5. QED
      BY <3>2, <3>3, <3>4
  <2>3. CASE j > p + 1
    <3>1. /\ j \in p + 1 .. n /\ j - 1 \in p + 1 .. n /\ j + (e - p) \in 2..m
          /\ (j - 1) + (e - p) = (j + (e - p)) - 1
      BY <1>1, <2>3
    <3>2. u[j] = t[j + (e - p)] /\ u[j - 1] = t[(j + (e - p)) - 1]
      BY <1>5, <3>1
    <3>3. QED
      BY <1>7, <3>1, <3>2
  <2>4. QED
    BY <1>1, <1>6, <2>1, <2>2, <2>3
<1>9. u[1].depth = 0 /\ u # <<>>
  <2>1. 1 \in 1..p /\ n # 0
    BY <1>1, <1>6
  <2>2. QED
    BY <1>5, <1>7, <2>1, EmptySeq
<1>10. u \in Tree
  <2>1. TreeAt(u, 0)
    BY <1>5, <1>8, <1>9, 0 + 1 = 1 DEF TreeAt
  <2>2. QED
    BY <1>5, <2>1 DEF Tree
<1>11. ASSUME NEW j \in p + 1 .. n PROVE \E k \in p + 1 .. m : u[j] = t[k]
  <2>1. j + (e - p) \in p + 1 .. m
    BY <1>1
  <2>2. QED
    BY <1>5, <2>1
<1>12. (\A k \in p + 1 .. m : t[k].depth > t[p].depth) => n = p
  <2>1. SUFFICES ASSUME \A k \in p + 1 .. m : t[k].depth > t[p].depth, e # m PROVE FALSE
    BY <1>1
  <2>2. e + 1 \in p + 1 .. m /\ e < m /\ e + 1 \in 1..m /\ p \in 1..m
    BY <1>1, <2>1
  <2>3. t[e + 1].depth > t[p].depth /\ t[e + 1].depth <= t[p].depth
    BY <1>3, <2>1, <2>2
  <2>4. QED
    BY <1>1, <2>2, <2>3
<1>13. QED
  BY <1>5, <1>6, <1>10, <1>11, <1>12 DEF u, m

\* A tree whose nodes are changed, but for their depths.
LEMMA SameDepths ==
  ASSUME NEW t \in Tree, NEW u \in Seq(Node), Len(u) = Len(t),
         \A i \in 1..Len(t) : u[i].depth = t[i].depth
  PROVE  u \in Tree /\ \A i \in 1..Len(t) : Descendants(u, i) = Descendants(t, i)
<1>1. Len(t) \in Nat /\ t \in Seq(Node)
  BY SeqParts DEF Tree
<1>2. \A i \in 1..Len(t) : Descendants(u, i) = Descendants(t, i)
  <2>1. \A i \in 1..Len(t) : \A j \in i + 1 .. Len(t) : \A k \in i + 1 .. j :
          k \in 1..Len(t)
    BY <1>1
  <2>2. QED
    BY <2>1 DEF Descendants
<1>3. CASE t = <<>>
  BY <1>1, <1>3, EmptySeq DEF Tree
<1>4. CASE t # <<>>
  <2>1. Len(t) # 0
    BY <1>1, <1>4, EmptySeq
  <2>2. 1 \in 1..Len(t) /\ \A j \in 2..Len(t) : j \in 1..Len(t) /\ j - 1 \in 1..Len(t)
    BY <1>1, <2>1
  <2>3. TreeAt(t, 0)
    BY <1>4 DEF Tree
  <2>4. TreeAt(u, 0)
    BY <1>1, <2>1, <2>2, <2>3, EmptySeq DEF TreeAt
  <2>5. QED
    BY <1>2, <2>4 DEF Tree
<1>5. QED
  BY <1>3, <1>4

\* A tree with another node in some place.
Updated(t, i, n) == [t EXCEPT ![i] = n]

\* A node of a tree that is changed, but for its depth.
LEMMA NodeChanged ==
  ASSUME NEW t \in Tree, NEW i \in 1..Len(t), NEW n \in Node, n.depth = t[i].depth
  PROVE  LET u == Updated(t, i, n)
         IN /\ u \in Tree /\ Len(u) = Len(t) /\ u[i] = n
            /\ \A j \in 1..Len(t) : j # i => u[j] = t[j]
            /\ \A j \in 1..Len(t) : Descendants(u, j) = Descendants(t, j)
<1> DEFINE u == Updated(t, i, n)
<1>1. t \in Seq(Node)
  BY DEF Tree
<1>2. /\ u \in Seq(Node) /\ Len(u) = Len(t) /\ u[i] = n
      /\ \A j \in 1..Len(t) : j # i => u[j] = t[j]
  BY <1>1, ExceptSeq DEF Updated
<1> HIDE DEF u
<1>3. \A j \in 1..Len(t) : u[j].depth = t[j].depth
  BY <1>2
<1>4. QED
  BY <1>2, <1>3, SameDepths DEF u

\* The visits of some nodes are counted.
LEMMA VisitedTree ==
  ASSUME NEW t \in Tree, NEW p
  PROVE  LET u == Visit(t, p)
         IN /\ u \in Tree /\ Len(u) = Len(t)
            /\ \A i \in 1..Len(t) :
                 /\ Descendants(u, i) = Descendants(t, i)
                 /\ u[i].visits = IF i \in PathTo(t, p) THEN t[i].visits + 1 ELSE t[i].visits
                 /\ \A f \in DOMAIN t[i] \ {"visits"} : u[i][f] = t[i][f]
<1> DEFINE u == Visit(t, p)
<1>1. /\ t \in Seq(Node) /\ Len(t) \in Nat /\ DOMAIN t = 1..Len(t)
      /\ \A i \in 1..Len(t) : t[i] \in Node
  BY SeqParts DEF Tree
<1>2. ASSUME NEW i \in 1..Len(t)
      PROVE  /\ u[i] \in Node /\ u[i].depth = t[i].depth
             /\ u[i].visits = IF i \in PathTo(t, p) THEN t[i].visits + 1 ELSE t[i].visits
             /\ \A f \in DOMAIN t[i] \ {"visits"} : u[i][f] = t[i][f]
  <2>1. u[i] = IF i \in PathTo(t, p) THEN [t[i] EXCEPT !.visits = @ + 1] ELSE t[i]
    BY <1>1 DEF Visit
  <2>2. t[i].visits \in Nat /\ t[i] \in Node
    BY <1>1, NodeFields
  <2>3. CASE i \in PathTo(t, p)
    <3>1. PICK n \in Node : n = t[i]
      BY <2>2
    <3>2. n.visits + 1 \in Nat /\ u[i] = [n EXCEPT !.visits = n.visits + 1]
      BY <2>1, <2>2, <2>3, <3>1
    <3>3. /\ u[i] \in Node /\ u[i].depth = n.depth /\ u[i].visits = n.visits + 1
          /\ \A f \in DOMAIN n \ {"visits"} : u[i][f] = n[f]
      BY <3>2 DEF Node
    <3>4. QED
      BY <2>3, <3>1, <3>3
  <2>4. CASE i \notin PathTo(t, p)
    BY <2>1, <2>2, <2>4
  <2>5. QED
    BY <2>3, <2>4
<1>3. u = [i \in 1..Len(t) |-> u[i]]
  BY <1>1 DEF Visit
<1> HIDE DEF u
<1>4. u \in Seq(Node) /\ Len(u) = Len(t)
  BY <1>1, <1>2, <1>3, SeqMade
<1>5. u \in Tree /\ \A i \in 1..Len(t) : Descendants(u, i) = Descendants(t, i)
  BY <1>2, <1>4, SameDepths
<1>6. QED
  BY <1>2, <1>4, <1>5 DEF u

LEMMA ResetKnown ==
  ASSUME NEW n \in Node, NEW rebuild \in BOOLEAN
  PROVE  LET r == ResetFields(n, rebuild)
         IN r \in Node /\ r.depth = n.depth /\ r.id = n.id /\ r.max = n.max
            /\ r.duplicate = FALSE /\ r.reward = "none" /\ r.visits = 0 /\ r.done = 0
            /\ r.steps \in {0, n.steps}
<1>1. /\ n.id \in Nat /\ n.depth \in Nat /\ n.max \in Nat /\ n.steps \in 0..MaxSteps
      /\ 0 \in 0..MaxSteps /\ "none" \in Rewards
  BY NodeFields, NodeAssumption DEF Rewards
<1>2. QED
  BY <1>1 DEF ResetFields, NewNode, Node

\* A node that is reset, and what was below it gone.
LEMMA ResetTree ==
  ASSUME NEW t \in Tree, NEW p \in 1..Len(t), NEW rebuild \in BOOLEAN
  PROVE  LET u == ResetNode(t, p, rebuild)
         IN /\ u \in Tree /\ p \in 1..Len(u) /\ Len(u) <= Len(t)
            /\ u[p] = ResetFields(t[p], rebuild)
            /\ \A j \in 1 .. p - 1 : u[j] = t[j]
            /\ \A j \in p + 1 .. Len(u) : \E k \in p + 1 .. Len(t) : u[j] = t[k]
            /\ (\A k \in p + 1 .. Len(t) : t[k].depth > t[p].depth) => Len(u) = p
<1> DEFINE d == DropChildren(t, p)
           u == ResetNode(t, p, rebuild)
<1>1. t \in Seq(Node) /\ Len(t) \in Nat /\ t[p] \in Node
  BY SeqParts DEF Tree
<1>2. /\ d \in Tree /\ p \in 1..Len(d) /\ Len(d) <= Len(t)
      /\ \A j \in 1..p : d[j] = t[j]
      /\ \A j \in p + 1 .. Len(d) : \E k \in p + 1 .. Len(t) : d[j] = t[k]
      /\ (\A k \in p + 1 .. Len(t) : t[k].depth > t[p].depth) => Len(d) = p
  BY DroppedChildren
<1>3. d[p] = t[p] /\ \A j \in 1 .. p - 1 : j \in 1..p /\ j # p
  BY <1>1, <1>2
<1>4. u = [d EXCEPT ![p] = ResetFields(t[p], rebuild)]
  BY <1>3 DEF ResetNode
<1>5. ResetFields(t[p], rebuild) \in Node /\ ResetFields(t[p], rebuild).depth = d[p].depth
  BY <1>1, <1>3, ResetKnown
<1> DEFINE r == ResetFields(t[p], rebuild)
<1> HIDE DEF d, u, r
<1>6. u \in Tree /\ Len(u) = Len(d) /\ u[p] = r /\ \A j \in 1..Len(d) : j # p => u[j] = d[j]
  <2>1. r \in Node /\ r.depth = d[p].depth /\ u = Updated(d, p, r)
    BY <1>4, <1>5 DEF r, Updated
  <2>2. QED
    BY <1>2, <2>1, NodeChanged
<1>7. \A j \in 1 .. p - 1 : j \in 1..Len(d) /\ j # p /\ j \in 1..p
  BY <1>1, <1>2, SeqParts DEF Tree
<1>8. \A j \in p + 1 .. Len(d) : j \in 1..Len(d) /\ j # p
  BY <1>1, <1>2, SeqParts DEF Tree
<1>9. QED
  BY <1>2, <1>3, <1>6, <1>7, <1>8 DEF u, r

\* A copy of a node beside it.
LEMMA ClonedTree ==
  ASSUME NEW t \in Tree, NEW i \in 2..Len(t)
  PROVE  LET u  == CloneNode(t, i)
             at == ChildPosition(t, ParentOf(t, i))
         IN u \in Tree /\ at \in 1..Len(u) /\ u[at].id \in Nat \ {0}
<1> DEFINE n == [t[i] EXCEPT !.id = Len(t) + 1]
           p == ParentOf(t, i)
<1>1. t \in Seq(Node) /\ Len(t) \in Nat /\ Len(t) # 0 /\ \A j \in 1..Len(t) : t[j] \in Node
  BY SeqParts DEF Tree
<1>2. i \in 1..Len(t) /\ TreeAt(t, 0)
  BY <1>1, EmptySeq DEF Tree
<1>3. p \in 1..Len(t)
  BY <1>1, <1>2, ParentIsThere
<1>4. n \in Node /\ n.id = Len(t) + 1
  <2>1. PICK o \in Node, id \in Nat : o = t[i] /\ id = Len(t) + 1
    BY <1>1, <1>2
  <2>2. [o EXCEPT !.id = id] \in Node /\ [o EXCEPT !.id = id].id = id
    BY DEF Node
  <2>3. QED
    BY <2>1, <2>2
<1>5. t[p].depth \in Nat
  BY <1>1, <1>3, NodeFields
<1> HIDE DEF n, p
<1>6. Child(n, t[p].depth).id = Len(t) + 1
  BY <1>4, <1>5 DEF Child, Node
<1> DEFINE u == AddChild(t, p, n)
<1>7. /\ u \in Tree /\ Len(u) = Len(t) + 1
      /\ \E e \in p..Len(t) : /\ ChildPosition(t, p) = e + 1
                              /\ u[e + 1] = Child(n, t[p].depth)
  BY <1>1, <1>3, <1>4, AddedChild, AddedChildInTree
<1>8. u = CloneNode(t, i)
  BY DEF CloneNode, n, p
<1> HIDE DEF u
<1>9. PICK e \in p..Len(t) : ChildPosition(t, p) = e + 1 /\ u[e + 1] = Child(n, t[p].depth)
  BY <1>7
<1>10. e + 1 \in 1..Len(u) /\ u[e + 1].id \in Nat \ {0}
  BY <1>1, <1>3, <1>6, <1>7, <1>9
<1>11. QED
  BY <1>7, <1>8, <1>9, <1>10 DEF p

--------------------------------------------------------------------------------
(* Saving and loading                                                          *)

\* Trees beside each other at some depth.
Forest(s, d) ==
  /\ s \in Seq(Node) /\ s # <<>> /\ s[1].depth = d
  /\ \A i \in 1..Len(s) : s[i].depth >= d
  /\ \A i \in 2..Len(s) : s[i].depth <= s[i - 1].depth + 1

LEMMA TreeIsForest ==
  ASSUME NEW d \in Nat, NEW s, TreeAt(s, d)
  PROVE  Forest(s, d)
<1>1. s \in Seq(Node) /\ Len(s) \in Nat /\ \A i \in 1..Len(s) : s[i].depth \in Nat
  BY SeqParts, NodeFields DEF TreeAt
<1>2. \A i \in 2..Len(s) : i \in 1..Len(s) /\ i - 1 \in 1..Len(s)
  BY <1>1
<1>3. \A i \in 2..Len(s) : s[i].depth >= d /\ s[i].depth <= s[i - 1].depth + 1
  BY <1>1, <1>2 DEF TreeAt
<1>4. \A i \in 1..Len(s) : i = 1 \/ i \in 2..Len(s)
  BY <1>1
<1>5. QED
  BY <1>1, <1>3, <1>4 DEF Forest, TreeAt

LEMMA ForestsTogether ==
  ASSUME NEW d \in Nat, NEW r, NEW s, Forest(r, d), Forest(s, d)
  PROVE  Forest(r \o s, d)
<1> DEFINE u == r \o s
           m == Len(r)
           n == Len(s)
<1>1. /\ r \in Seq(Node) /\ s \in Seq(Node) /\ m \in Nat \ {0} /\ n \in Nat \ {0}
      /\ \A i \in 1..m : r[i].depth \in Nat
      /\ \A i \in 1..n : s[i].depth \in Nat
  BY SeqParts, NodeFields DEF Forest
<1>2. /\ u \in Seq(Node) /\ Len(u) = m + n
      /\ \A i \in 1 .. m + n : u[i] = IF i <= m THEN r[i] ELSE s[i - m]
  BY <1>1, ConcatProperties
<1> HIDE DEF u, m, n
<1>3. \A i \in 1..m : u[i] = r[i]
  <2>1. \A i \in 1..m : i \in 1 .. m + n /\ i <= m
    BY <1>1
  <2>2. QED
    BY <1>2, <2>1
<1>4. \A i \in m + 1 .. m + n : i - m \in 1..n /\ u[i] = s[i - m]
  <2>1. \A i \in m + 1 .. m + n : i \in 1 .. m + n /\ ~(i <= m) /\ i - m \in 1..n
    BY <1>1
  <2>2. QED
    BY <1>2, <2>1
<1>5. /\ r[1].depth = d /\ s[1].depth = d
      /\ \A i \in 1..m : r[i].depth >= d
      /\ \A i \in 2..m : r[i].depth <= r[i - 1].depth + 1
      /\ \A i \in 1..n : s[i].depth >= d
      /\ \A i \in 2..n : s[i].depth <= s[i - 1].depth + 1
  BY DEF Forest, m, n
<1>6. u[1].depth = d /\ u # <<>>
  <2>1. 1 \in 1..m /\ m + n # 0
    BY <1>1
  <2>2. QED
    BY <1>2, <1>3, <1>5, <2>1, EmptySeq
<1>7. ASSUME NEW i \in 1..Len(u) PROVE u[i].depth >= d
  <2>1. i \in 1..m \/ i \in m + 1 .. m + n
    BY <1>1, <1>2
  <2>2. QED
    BY <1>3, <1>4, <1>5, <2>1
<1>8. ASSUME NEW i \in 2..Len(u) PROVE u[i].depth <= u[i - 1].depth + 1
  <2>1. CASE i <= m
    <3>1. i \in 1..m /\ i \in 2..m /\ i - 1 \in 1..m
      BY <1>1, <2>1
    <3>2. QED
      BY <1>3, <1>5, <3>1
  <2>2. CASE i = m + 1
    <3>1. i \in m + 1 .. m + n /\ i - m = 1 /\ i - 1 \in 1..m
      BY <1>1, <2>2
    <3>2. u[i].depth = d /\ u[i - 1].depth >= d /\ u[i - 1].depth \in Nat
      BY <1>1, <1>3, <1>4, <1>5, <3>1
    <3>3. QED
      BY <3>2
  <2>3. CASE i > m + 1
    <3>1. /\ i \in m + 1 .. m + n /\ i - 1 \in m + 1 .. m + n /\ i - m \in 2..n
          /\ (i - 1) - m = (i - m) - 1
      BY <1>1, <1>2, <2>3
    <3>2. u[i] = s[i - m] /\ u[i - 1] = s[(i - m) - 1]
      BY <1>4, <3>1
    <3>3. QED
      BY <1>5, <3>1, <3>2
  <2>4. QED
    BY <1>1, <1>2, <2>1, <2>2, <2>3
<1>9. QED
  BY <1>2, <1>6, <1>7, <1>8 DEF Forest, u

\* A node and the trees below it.
LEMMA RootedForest ==
  ASSUME NEW d \in Nat, NEW n \in Node, n.depth = d, NEW s, s = <<>> \/ Forest(s, d + 1)
  PROVE  TreeAt(<<n>> \o s, d)
<1> DEFINE u == <<n>> \o s
<1>1. s \in Seq(Node) /\ Len(s) \in Nat /\ \A i \in 1..Len(s) : s[i].depth \in Nat
  <2>1. s \in Seq(Node)
    <3>1. CASE s = <<>>
      BY <3>1
    <3>2. CASE Forest(s, d + 1)
      BY <3>2 DEF Forest
    <3>3. QED
      BY <3>1, <3>2
  <2>2. Len(s) \in Nat /\ \A i \in 1..Len(s) : s[i] \in Node
    BY <2>1, SeqParts
  <2>3. QED
    BY <2>1, <2>2, NodeFields
<1>2. <<n>> \in Seq(Node) /\ Len(<<n>>) = 1 /\ <<n>>[1] = n
  OBVIOUS
<1>3. /\ u \in Seq(Node) /\ Len(u) = 1 + Len(s)
      /\ \A i \in 1 .. 1 + Len(s) : u[i] = IF i <= 1 THEN <<n>>[i] ELSE s[i - 1]
  BY <1>1, <1>2, ConcatProperties
<1> HIDE DEF u
<1>4. u[1] = n /\ u # <<>>
  <2>1. 1 \in 1 .. 1 + Len(s) /\ 1 + Len(s) # 0
    BY <1>1
  <2>2. QED
    BY <1>2, <1>3, <2>1, EmptySeq
<1>5. \A i \in 2 .. 1 + Len(s) : i - 1 \in 1..Len(s) /\ u[i] = s[i - 1]
  <2>1. \A i \in 2 .. 1 + Len(s) : i \in 1 .. 1 + Len(s) /\ ~(i <= 1) /\ i - 1 \in 1..Len(s)
    BY <1>1
  <2>2. QED
    BY <1>3, <2>1
<1>6. ASSUME NEW i \in 2..Len(u) PROVE u[i].depth \in d + 1 .. u[i - 1].depth + 1
  <2>1. i \in 2 .. 1 + Len(s) /\ Len(s) # 0
    BY <1>1, <1>3
  <2>2. /\ s[1].depth = d + 1 /\ \A j \in 1..Len(s) : s[j].depth >= d + 1
        /\ \A j \in 2..Len(s) : s[j].depth <= s[j - 1].depth + 1
    BY <2>1, EmptySeq DEF Forest
  <2>3. CASE i = 2
    BY <1>4, <1>5, <2>1, <2>2, <2>3
  <2>4. CASE i # 2
    <3>1. i - 1 \in 2 .. 1 + Len(s) /\ i - 1 \in 2..Len(s) /\ i - 1 \in 1..Len(s)
          /\ (i - 1) - 1 \in 1..Len(s)
      BY <1>1, <2>1, <2>4
    <3>2. u[i] = s[i - 1] /\ u[i - 1] = s[(i - 1) - 1]
      BY <1>5, <2>1, <3>1
    <3>3. QED
      BY <1>1, <2>2, <3>1, <3>2
  <2>5. QED
    BY <2>3, <2>4
<1>7. QED
  BY <1>3, <1>4, <1>6 DEF TreeAt, u

\* The keys of a tree's nodes: the root's is the first of them, and each has an entry.
LEMMA KeysMet ==
  ASSUME NEW t \in Seq(Node), t # <<>>
  PROVE  /\ FirstMet(t) \subseteq 1..Len(t) /\ 1 \in FirstMet(t)
         /\ \A i \in 1..Len(t) : \E k \in 1..Len(t) :
              /\ t[k].id = t[i].id /\ \A j \in 1..Len(t) : t[j].id = t[i].id => j <= k
              /\ EntryOf(t, t[i].id) = Entry(t, k)
<1>1. Len(t) \in Nat /\ Len(t) # 0 /\ DOMAIN t = 1..Len(t)
  BY SeqParts
<1>2. FirstMet(t) \subseteq 1..Len(t) /\ 1 \in FirstMet(t)
  BY <1>1 DEF FirstMet
<1>3. ASSUME NEW i \in 1..Len(t)
      PROVE  \E k \in 1..Len(t) :
               /\ t[k].id = t[i].id /\ \A j \in 1..Len(t) : t[j].id = t[i].id => j <= k
               /\ EntryOf(t, t[i].id) = Entry(t, k)
  <2> DEFINE Same == {j \in 1..Len(t) : t[j].id = t[i].id}
  <2>1. i \in Same /\ Same \subseteq 0..Len(t)
    BY <1>1
  <2>2. PICK k \in Same : \A j \in Same : j <= k
    <3>1. Same # {}
      BY <2>1
    <3> HIDE DEF Same
    <3>2. QED
      BY <1>1, <2>1, <3>1, ExtremesExist
  <2> DEFINE Last1(m) == m \in 1..Len(t) /\ t[m].id = t[i].id
                         /\ \A j \in 1..Len(t) : t[j].id = t[i].id => j <= m
             c == CHOOSE m \in 1..Len(t) : t[m].id = t[i].id
                                           /\ \A j \in 1..Len(t) : t[j].id = t[i].id => j <= m
  <2>3. Last1(k)
    BY <2>2
  <2>4. Last1(c)
    BY <2>3
  <2>5. EntryOf(t, t[i].id) = Entry(t, c)
    BY <1>1 DEF EntryOf
  <2>6. QED
    BY <2>4, <2>5
<1>4. QED
  BY <1>2, <1>3

LEMMA EntryKnown ==
  ASSUME NEW t \in Seq(Node), NEW k \in 1..Len(t)
  PROVE  LET n == Entry(t, k).node
         IN n \in Node /\ n = [t[k] EXCEPT !.terminal = @ \/ t[k].fin]
<1>1. PICK o \in Node : o = t[k]
  BY SeqParts
<1>2. o.terminal \in BOOLEAN /\ o.fin \in BOOLEAN
  BY NodeFields
<1>3. [o EXCEPT !.terminal = o.terminal \/ o.fin] \in Node
  BY <1>2 DEF Node
<1>4. Entry(t, k).node = [o EXCEPT !.terminal = o.terminal \/ o.fin]
  BY <1>1 DEF Entry
<1>5. QED
  BY <1>1, <1>3, <1>4

\* The keys connected to one, in their order.
LEMMA ConnectedKeys ==
  ASSUME NEW t \in Seq(Node), t # <<>>, NEW i \in FirstMet(t)
  PROVE  LET kids == InOrder(Connected(t, i))
         IN /\ Connected(t, i) \subseteq FirstMet(t) /\ IsFiniteSet(Connected(t, i))
            /\ kids \in Seq(FirstMet(t)) /\ Len(kids) = Cardinality(Connected(t, i))
            /\ \A k \in 1..Len(kids) : kids[k] \in Connected(t, i)
<1>1. Connected(t, i) \subseteq FirstMet(t) /\ FirstMet(t) \subseteq 1..Len(t) /\ Len(t) \in Nat
  BY KeysMet, SeqParts DEF Connected
<1>2. IsFiniteSet(Connected(t, i)) /\ Connected(t, i) \subseteq Nat
  <2>1. IsFiniteSet(1..Len(t))
    BY <1>1, FS_Interval
  <2>2. Connected(t, i) \in SUBSET (1..Len(t))
    BY <1>1
  <2>3. QED
    BY <1>1, <2>1, <2>2, FS_Subset
<1>3. /\ InOrder(Connected(t, i)) \in Seq(Connected(t, i))
      /\ Len(InOrder(Connected(t, i))) = Cardinality(Connected(t, i))
  BY <1>2, NumbersOrdered
<1>4. InOrder(Connected(t, i)) \in Seq(FirstMet(t))
  BY <1>1, <1>3, SeqMonotonic
<1>5. \A k \in 1..Len(InOrder(Connected(t, i))) : InOrder(Connected(t, i))[k] \in Connected(t, i)
  BY <1>3, ElementOfSeq
<1>6. QED
  BY <1>1, <1>2, <1>3, <1>4, <1>5

\* Load is recursive in how far it may go down.
LEMMA LoadUnfolds ==
  ASSUME NEW t \in Seq(Node)
  PROVE  \E below :
           /\ Load(t) = below[Len(t)][1]
           /\ \A fuel \in 0..Len(t) :
                below[fuel] = [i \in FirstMet(t) |->
                  Below(t, i, fuel, IF fuel = 0 THEN <<>> ELSE below[fuel - 1])]
<1> DEFINE n == Len(t)
           Row(fuel, lower) == [i \in FirstMet(t) |-> Below(t, i, fuel, lower)]
           Rec(m, f) == f = [fuel \in 0..m |-> Row(fuel, IF fuel = 0 THEN <<>> ELSE f[fuel - 1])]
           Good == {m \in 0..n : \E f : Rec(m, f)}
<1>1. n \in Nat
  BY SeqParts
<1> HIDE DEF n, Row
<1>2. 0 \in Good
  <2> DEFINE f == [fuel \in 0..0 |-> Row(0, <<>>)]
  <2>1. Rec(0, f)
    OBVIOUS
  <2> HIDE DEF f, Rec
  <2>2. 0 \in 0..n
    BY <1>1
  <2>3. QED
    BY <2>1, <2>2
<1>3. ASSUME NEW m \in 0..n - 1, m \in Good PROVE m + 1 \in Good
  <2>1. PICK f : Rec(m, f)
    BY <1>3
  <2> DEFINE new == Row(m + 1, f[m])
             g == [fuel \in 0..m + 1 |-> IF fuel <= m THEN f[fuel] ELSE new]
  <2>2. ASSUME NEW fuel \in 0..m + 1
        PROVE  g[fuel] = Row(fuel, IF fuel = 0 THEN <<>> ELSE g[fuel - 1])
    <3>1. CASE fuel <= m
      <4>1. fuel \in 0..m /\ g[fuel] = f[fuel] /\ (fuel # 0 => g[fuel - 1] = f[fuel - 1])
        BY <1>1, <3>1
      <4>2. f[fuel] = Row(fuel, IF fuel = 0 THEN <<>> ELSE f[fuel - 1])
        BY <2>1, <4>1
      <4> HIDE DEF g
      <4>3. QED
        BY <4>1, <4>2
    <3>2. CASE fuel = m + 1
      <4>1. g[fuel] = new /\ g[fuel - 1] = f[m] /\ fuel # 0
        BY <1>1, <3>2
      <4> HIDE DEF g
      <4>2. QED
        BY <3>2, <4>1
    <3>3. QED
      BY <1>1, <3>1, <3>2
  <2>3. Rec(m + 1, g)
    <3>1. g = [fuel \in 0..m + 1 |-> g[fuel]]
      OBVIOUS
    <3> HIDE DEF g
    <3>2. QED
      BY <2>2, <3>1
  <2> HIDE DEF Rec, g
  <2>4. m + 1 \in 0..n
    BY <1>1
  <2>5. QED
    BY <2>3, <2>4
<1>4. n \in Good
  <2> HIDE DEF Good
  <2>1. n \in 0..n
    BY <1>1
  <2>2. QED
    BY <1>1, <1>2, <1>3, <2>1, CountsUp
<1> DEFINE below == CHOOSE f : Rec(n, f)
<1>5. Rec(n, below)
  <2>1. \E f : Rec(n, f)
    BY <1>4
  <2> HIDE DEF Rec
  <2>2. QED
    BY <2>1
<1>6. Load(t) = below[n][1]
  BY DEF Load, n, Row
<1> HIDE DEF below
<1>7. ASSUME NEW fuel \in 0..n
      PROVE  below[fuel] = [i \in FirstMet(t) |->
               Below(t, i, fuel, IF fuel = 0 THEN <<>> ELSE below[fuel - 1])]
  BY <1>5 DEF Row
<1>8. QED
  BY <1>6, <1>7 DEF n

\* The trees below a key, one after the other.
LEMMA TreesBelow ==
  ASSUME NEW F, NEW d \in Nat, NEW kids \in Seq(F), kids # <<>>, NEW lower,
         \A j \in F : TreeAt(lower[j], d)
  PROVE  Forest(FlattenSeq([k \in DOMAIN kids |-> lower[kids[k]]]), d)
<1> DEFINE n  == Len(kids)
           ss == [k \in DOMAIN kids |-> lower[kids[k]]]
<1>1. n \in Nat /\ n # 0 /\ DOMAIN kids = 1..n /\ \A k \in 1..n : kids[k] \in F
  BY SeqParts
<1> HIDE DEF n
<1>2. \A k \in 1..n : TreeAt(ss[k], d) /\ ss[k] \in Seq(Node) /\ Forest(ss[k], d)
  BY <1>1, TreeIsForest DEF TreeAt
<1>3. ss \in [1..n -> Seq(Node)]
  BY <1>1, <1>2
<1> HIDE DEF ss
<1>4. PICK flat \in [1..n -> Seq(Node)] :
        /\ FlattenSeq(ss) = flat[n] /\ flat[1] = ss[1]
        /\ \A k \in 2..n : flat[k] = flat[k - 1] \o ss[k]
  <2>1. n \in Nat /\ n # 0
    BY <1>1
  <2>2. \A r \in [1..n -> Seq(Node)] : \E f \in [1..n -> Seq(Node)] :
          /\ FlattenSeq(r) = f[n] /\ f[1] = r[1]
          /\ \A k \in 2..n : f[k] = f[k - 1] \o r[k]
    BY <2>1, Flattened
  <2>3. QED
    BY <1>3, <2>2
<1> DEFINE Good == {m \in 0..n : m = 0 \/ Forest(flat[m], d)}
<1>5. 0 \in Good
  BY <1>1
<1>6. ASSUME NEW m \in 0..n - 1, m \in Good PROVE m + 1 \in Good
  <2>1. m + 1 \in 1..n /\ Forest(ss[m + 1], d) /\ m + 1 \in 0..n
    BY <1>1, <1>2
  <2>2. CASE m = 0
    BY <1>4, <2>1, <2>2
  <2>3. CASE m # 0
    <3>1. m + 1 \in 2..n /\ (m + 1) - 1 = m /\ Forest(flat[m], d)
      BY <1>1, <1>6, <2>3
    <3>2. flat[m + 1] = flat[m] \o ss[m + 1]
      BY <1>4, <3>1
    <3>3. Forest(flat[m] \o ss[m + 1], d)
      BY <2>1, <3>1, ForestsTogether
    <3>4. QED
      BY <2>1, <3>2, <3>3
  <2>4. QED
    BY <2>2, <2>3
<1>7. n \in Good
  <2> HIDE DEF Good
  <2>1. n \in 0..n
    BY <1>1
  <2>2. QED
    BY <1>1, <1>5, <1>6, <2>1, CountsUp
<1>8. QED
  BY <1>1, <1>4, <1>7 DEF ss

\* What is loaded is a tree, whatever the list holds.
LEMMA LoadedTree ==
  ASSUME NEW t \in Seq(Node), t # <<>>
  PROVE  Load(t) \in Tree /\ Load(t) # <<>>
<1> DEFINE n == Len(t)
           F == FirstMet(t)
<1>1. PICK below :
        /\ Load(t) = below[n][1]
        /\ \A fuel \in 0..n :
             below[fuel] = [i \in F |->
               Below(t, i, fuel, IF fuel = 0 THEN <<>> ELSE below[fuel - 1])]
  BY LoadUnfolds
<1>2. n \in Nat /\ F \subseteq 1..n /\ 1 \in F
  BY SeqParts, KeysMet
<1> HIDE DEF n, F
<1>3. ASSUME NEW i \in F, NEW fuel \in 0..n, NEW lower,
             fuel # 0 => \A j \in F : TreeAt(lower[j], n - fuel + 1)
      PROVE  TreeAt(Below(t, i, fuel, lower), n - fuel)
  <2> DEFINE root == [EntryOf(t, t[i].id).node EXCEPT !.depth = n - fuel]
             kids == InOrder(Connected(t, i))
             rest == IF fuel = 0 THEN <<>>
                     ELSE FlattenSeq([k \in DOMAIN kids |-> lower[kids[k]]])
  <2>1. root \in Node /\ root.depth = n - fuel
    <3>1. PICK k \in 1..n : EntryOf(t, t[i].id) = Entry(t, k)
      BY <1>2, KeysMet DEF n
    <3>2. PICK o \in Node : o = EntryOf(t, t[i].id).node
      BY <3>1, EntryKnown DEF n
    <3>3. n - fuel \in Nat
      BY <1>2
    <3>4. QED
      BY <3>2, <3>3 DEF Node
  <2>2. kids \in Seq(F)
    BY ConnectedKeys DEF F
  <2>3. rest = <<>> \/ Forest(rest, n - fuel + 1)
    <3>1. CASE fuel = 0
      BY <3>1
    <3>2. CASE fuel # 0 /\ kids = <<>>
      <4> DEFINE none == [k \in DOMAIN kids |-> lower[kids[k]]]
      <4>1. none = <<>> /\ Len(none) = 0
        BY <3>2
      <4>2. FlattenSeq(none) = <<>>
        <5> HIDE DEF none
        <5>1. QED
          BY <4>1 DEF FlattenSeq
      <4>3. QED
        BY <3>2, <4>2
    <3>3. CASE fuel # 0 /\ kids # <<>>
      <4>1. n - fuel + 1 \in Nat
        BY <1>2
      <4> HIDE DEF kids
      <4>2. Forest(FlattenSeq([k \in DOMAIN kids |-> lower[kids[k]]]), n - fuel + 1)
        BY <1>3, <2>2, <3>3, <4>1, TreesBelow
      <4>3. QED
        BY <3>3, <4>2
    <3>4. QED
      BY <3>1, <3>2, <3>3
  <2>4. Below(t, i, fuel, lower) = <<root>> \o rest
    BY DEF Below, n
  <2> HIDE DEF root, rest
  <2>5. n - fuel \in Nat
    BY <1>2
  <2>6. QED
    BY <2>1, <2>3, <2>4, <2>5, RootedForest
<1> DEFINE Good == {m \in 0..n : \A i \in F : TreeAt(below[m][i], n - m)}
<1>4. 0 \in Good
  <2>1. 0 \in 0..n
    BY <1>2
  <2>2. below[0] = [i \in F |-> Below(t, i, 0, <<>>)]
    BY <1>1, <2>1
  <2>3. \A i \in F : TreeAt(Below(t, i, 0, <<>>), n - 0)
    BY <1>3, <2>1
  <2>4. QED
    BY <2>1, <2>2, <2>3
<1>5. ASSUME NEW m \in 0..n - 1, m \in Good PROVE m + 1 \in Good
  <2>1. m + 1 \in 0..n /\ m + 1 # 0 /\ (m + 1) - 1 = m /\ n - (m + 1) + 1 = n - m
    BY <1>2
  <2>2. below[m + 1] = [i \in F |-> Below(t, i, m + 1, below[m])]
    BY <1>1, <2>1
  <2>3. \A j \in F : TreeAt(below[m][j], n - (m + 1) + 1)
    BY <1>5, <2>1
  <2>4. \A i \in F : TreeAt(Below(t, i, m + 1, below[m]), n - (m + 1))
    BY <1>3, <2>1, <2>3
  <2>5. QED
    BY <2>1, <2>2, <2>4
<1>6. n \in Good
  <2> HIDE DEF Good
  <2>1. n \in 0..n
    BY <1>2
  <2>2. QED
    BY <1>2, <1>4, <1>5, <2>1, CountsUp
<1>7. TreeAt(Load(t), 0)
  <2>1. n - n = 0
    BY <1>2
  <2>2. QED
    BY <1>1, <1>2, <1>6, <2>1
<1>8. QED
  BY <1>7 DEF Tree, TreeAt

\* Where the subtree of a node ends.
EndOf(t, i) == i + Cardinality(Descendants(t, i))

LEMMA EndKnown ==
  ASSUME NEW t \in Seq(Node), NEW p \in 1..Len(t)
  PROVE  /\ EndOf(t, p) \in p..Len(t) /\ Descendants(t, p) = p + 1 .. EndOf(t, p)
         /\ ChildPosition(t, p) = EndOf(t, p) + 1
         /\ \A k \in p + 1 .. EndOf(t, p) : t[k].depth > t[p].depth
         /\ EndOf(t, p) < Len(t) => t[EndOf(t, p) + 1].depth <= t[p].depth
<1>1. PICK e \in p..Len(t) :
        /\ Descendants(t, p) = p + 1 .. e /\ ChildPosition(t, p) = e + 1
        /\ \A k \in p + 1 .. e : t[k].depth > t[p].depth
        /\ e < Len(t) => t[e + 1].depth <= t[p].depth
  BY SubtreeIsContiguous
<1>2. Len(t) \in Nat /\ p \in Nat /\ e \in Nat /\ p <= e
  BY SeqParts
<1>3. Cardinality(p + 1 .. e) = e - p
  BY <1>2, FS_Interval
<1>4. EndOf(t, p) = e
  BY <1>1, <1>2, <1>3 DEF EndOf
<1>5. QED
  BY <1>1, <1>4

\* The children of a node follow each other: the subtree of each ends where the next one
\* stands, and that of the last one where the node's own does.
LEMMA ChildrenFollow ==
  ASSUME NEW t \in Seq(Node), TreeAt(t, 0), NEW i \in 1..Len(t)
  PROVE  LET kids == InOrder(ChildrenOf(t, i))
             n    == Len(kids)
         IN /\ kids \in Seq(1..Len(t)) /\ n \in Nat
            /\ \A k \in 1..n : t[kids[k]].depth = t[i].depth + 1
            /\ IF n = 0 THEN EndOf(t, i) = i
               ELSE kids[1] = i + 1 /\ EndOf(t, kids[n]) = EndOf(t, i)
            /\ \A k \in 1 .. n - 1 : kids[k + 1] = EndOf(t, kids[k]) + 1
<1> DEFINE C    == ChildrenOf(t, i)
           kids == InOrder(C)
           n    == Len(kids)
           m    == Len(t)
           E    == [j \in 1..m |-> EndOf(t, j)]
<1>1. /\ m \in Nat /\ i \in 1..m /\ \A j \in 1..m : t[j].depth \in Nat
      /\ \A j \in 2..m : t[j].depth \in 1 .. t[j - 1].depth + 1
  BY SeqParts, NodeFields, 0 + 1 = 1 DEF TreeAt
<1>2. \A j \in 1..m : /\ E[j] \in j..m /\ Descendants(t, j) = j + 1 .. E[j]
                      /\ \A k \in j + 1 .. E[j] : t[k].depth > t[j].depth
                      /\ E[j] < m => t[E[j] + 1].depth <= t[j].depth
  BY EndKnown
<1>2a. \A j \in 1..m : E[j] = EndOf(t, j)
  OBVIOUS
<1> HIDE DEF E, m
<1>3. C = {j \in i + 1 .. E[i] : t[j].depth = t[i].depth + 1}
  BY <1>1, <1>2 DEF ChildrenOf
<1>4. C \subseteq 1..m /\ C \subseteq Nat /\ IsFiniteSet(C)
  <2>1. C \subseteq 1..m
    <3>1. E[i] \in i..m /\ i \in Nat /\ m \in Nat
      BY <1>1, <1>2
    <3>2. i + 1 .. E[i] \subseteq 1..m
      BY <3>1
    <3>3. QED
      BY <1>3, <3>2
  <2>2. IsFiniteSet(1..m)
    <3>1. 1 \in Int /\ m \in Int
      BY <1>1
    <3>2. QED
      BY <3>1, FS_Interval
  <2> HIDE DEF C
  <2>3. C \in SUBSET (1..m)
    BY <2>1
  <2>4. IsFiniteSet(C)
    BY <2>2, <2>3, FS_Subset
  <2>5. QED
    BY <1>1, <2>1, <2>4
<1> HIDE DEF C
<1>5. /\ kids \in Seq(C) /\ n = Cardinality(C) /\ n \in Nat
      /\ \A j \in C : \E k \in 1..n : kids[k] = j
      /\ \A k, l \in 1..n : k < l => kids[k] < kids[l]
  <2>1. Cardinality(C) \in Nat /\ kids \in Seq(C) /\ n = Cardinality(C)
    BY <1>4, NumbersOrdered
  <2>2. /\ \A j \in C : \E k \in 1..Cardinality(C) : kids[k] = j
        /\ \A k, l \in 1..Cardinality(C) : k < l => kids[k] < kids[l]
    BY <1>4, NumbersOrdered
  <2>3. QED
    BY <2>1, <2>2
<1>6. \A k \in 1..n : kids[k] \in C
  BY <1>5, ElementOfSeq
<1> HIDE DEF kids, n
\* Between a child and the end of its subtree there is no other child.
<1>7. ASSUME NEW c \in C
      PROVE  /\ c \in i + 1 .. E[i] /\ c \in 1..m /\ E[c] <= E[i]
             /\ \A j \in c + 1 .. E[c] : j \notin C
             /\ E[c] < E[i] => E[c] + 1 \in C
  <2>1. c \in i + 1 .. E[i] /\ c \in 1..m /\ t[c].depth = t[i].depth + 1
    BY <1>3, <1>4
  <2>2. t[i].depth \in Nat /\ E[i] \in i..m /\ E[c] \in c..m
    BY <1>1, <1>2, <2>1
  <2>2a. PICK x \in Nat, y \in Nat : x = E[i] /\ y = E[c] /\ c <= y /\ y <= m /\ i <= x /\ x <= m
    BY <1>1, <2>1, <2>2
  <2>2b. c \in Nat /\ m \in Nat /\ i \in Nat /\ i + 1 <= c /\ c <= x
    BY <1>1, <2>1, <2>2a
  <2>3. E[c] <= E[i]
    <3>1. SUFFICES ASSUME E[i] < E[c] PROVE FALSE
      BY <2>2
    <3>2. E[i] + 1 \in c + 1 .. E[c] /\ E[i] < m /\ E[i] + 1 \in 1..m
      BY <2>2a, <2>2b, <3>1
    <3>3. t[E[i] + 1].depth > t[c].depth /\ t[E[i] + 1].depth <= t[i].depth
      <4>1. \A k \in c + 1 .. E[c] : t[k].depth > t[c].depth
        BY <1>2, <2>1
      <4>2. E[i] < m => t[E[i] + 1].depth <= t[i].depth
        BY <1>1, <1>2
      <4>3. QED
        BY <3>2, <4>1, <4>2
    <3>4. t[E[i] + 1].depth \in Nat
      BY <1>1, <3>2
    <3>5. QED
      BY <2>1, <2>2, <3>3, <3>4
  <2>4. ASSUME NEW j \in c + 1 .. E[c] PROVE j \notin C
    <3>1. t[j].depth > t[c].depth /\ j \in 1..m
      BY <1>2, <2>1, <2>2a, <2>2b, <2>4
    <3>2. t[j].depth # t[i].depth + 1
      BY <1>1, <2>1, <2>2, <3>1
    <3>3. QED
      BY <1>3, <3>2
  <2>5. ASSUME E[c] < E[i] PROVE E[c] + 1 \in C
    <3>1. E[c] + 1 \in i + 1 .. E[i] /\ E[c] < m /\ E[c] + 1 \in 1..m
      BY <2>2a, <2>2b, <2>5
    <3>2. t[E[c] + 1].depth <= t[c].depth /\ t[E[c] + 1].depth > t[i].depth
      <4>1. \A k \in i + 1 .. E[i] : t[k].depth > t[i].depth
        BY <1>1, <1>2
      <4>2. E[c] < m => t[E[c] + 1].depth <= t[c].depth
        BY <1>2, <2>1
      <4>3. QED
        BY <3>1, <4>1, <4>2
    <3>3. t[E[c] + 1].depth \in Nat
      BY <1>1, <3>1
    <3>4. t[E[c] + 1].depth = t[i].depth + 1
      BY <2>1, <2>2, <3>2, <3>3
    <3>5. QED
      BY <1>3, <3>1, <3>4
  <2>6. QED
    BY <2>1, <2>3, <2>4, <2>5
<1>8. ASSUME E[i] # i PROVE i + 1 \in C
  <2>1. i + 1 \in i + 1 .. E[i] /\ i + 1 \in 2..m /\ (i + 1) - 1 = i /\ i + 1 \in 1..m
    BY <1>1, <1>2, <1>8
  <2>2. t[i + 1].depth > t[i].depth /\ t[i + 1].depth <= t[i].depth + 1
    BY <1>1, <1>2, <2>1
  <2>3. t[i].depth \in Nat /\ t[i + 1].depth \in Nat
    BY <1>1, <2>1
  <2>4. QED
    BY <1>3, <2>1, <2>2, <2>3
<1>9. CASE n = 0
  <2>1. C = {}
    BY <1>5, <1>9
  <2>2. E[i] = i
    BY <1>8, <2>1
  <2>3. kids \in Seq(1..m)
    BY <1>4, <1>5, SeqMonotonic
  <2>4. EndOf(t, i) = i
    BY <1>1, <1>2a, <2>2
  <2>5. \A k \in 1..n : FALSE
    BY <1>9
  <2>6. \A k \in 1 .. n - 1 : FALSE
    BY <1>9
  <2>7. n \in Nat
    BY <1>5
  <2>8. QED
    BY <1>9, <2>3, <2>4, <2>5, <2>6, <2>7 DEF m, n, kids, C
<1>10. CASE n # 0
  <2>1. 1 \in 1..n /\ n \in 1..n
    BY <1>5, <1>10
  <2>2. kids[1] = i + 1
    <3>1. kids[1] \in C /\ kids[1] \in i + 1 .. E[i]
      BY <1>6, <1>7, <2>1
    <3>2. E[i] # i /\ i \in Nat
      BY <1>1, <3>1
    <3>3. PICK k \in 1..n : kids[k] = i + 1
      BY <1>5, <1>8, <3>2
    <3>4. k = 1 \/ 1 < k
      BY <1>5
    <3>5. ~(1 < k)
      BY <1>5, <2>1, <3>1, <3>2, <3>3
    <3>6. QED
      BY <3>3, <3>4, <3>5
  <2>3. ASSUME NEW k \in 1..n, E[kids[k]] < E[i]
        PROVE  k + 1 \in 1..n /\ kids[k + 1] = E[kids[k]] + 1
    <3>1. kids[k] \in C /\ kids[k] \in 1..m /\ E[kids[k]] + 1 \in C
      BY <1>6, <1>7, <2>3
    <3>2. PICK l \in 1..n : kids[l] = E[kids[k]] + 1
      BY <1>5, <3>1
    <3>3. kids[k] < kids[l] /\ E[kids[k]] \in Nat /\ kids[k] \in Nat /\ kids[l] \in Nat
      BY <1>1, <1>2, <3>1, <3>2
    <3>4. k < l
      <4>1. l # k /\ ~(l < k)
        BY <1>5, <3>3
      <4>2. QED
        BY <1>5, <4>1
    <3>5. k + 1 \in 1..n /\ (k + 1 = l \/ k + 1 < l)
      BY <1>5, <3>4
    <3>6. ~(k + 1 < l)
      <4>1. SUFFICES ASSUME k + 1 < l PROVE FALSE
        OBVIOUS
      <4>2. kids[k] < kids[k + 1] /\ kids[k + 1] < kids[l] /\ kids[k + 1] \in C
        BY <1>5, <1>6, <3>5, <4>1
      <4>3. kids[k + 1] \in Nat
        BY <1>4, <4>2
      <4>4. kids[k + 1] \in kids[k] + 1 .. E[kids[k]]
        BY <3>2, <3>3, <4>2, <4>3
      <4>5. QED
        BY <1>7, <3>1, <4>2, <4>4
    <3>7. QED
      BY <3>2, <3>5, <3>6
  <2>4. E[kids[n]] = E[i]
    <3>1. kids[n] \in C /\ kids[n] \in 1..m /\ E[kids[n]] <= E[i]
      BY <1>6, <1>7, <2>1
    <3>2. E[kids[n]] \in Nat /\ E[i] \in Nat
      BY <1>1, <1>2, <3>1
    <3>3. ~(E[kids[n]] < E[i])
      <4>1. ~(n + 1 \in 1..n)
        BY <1>5
      <4>2. QED
        BY <2>1, <2>3, <4>1
    <3>4. QED
      BY <3>1, <3>2, <3>3
  <2>5. ASSUME NEW k \in 1 .. n - 1 PROVE kids[k + 1] = E[kids[k]] + 1
    <3>1. k \in 1..n /\ k + 1 \in 1..n /\ k < k + 1
      BY <1>5
    <3>2. /\ kids[k] \in C /\ kids[k + 1] \in C /\ kids[k] < kids[k + 1]
          /\ kids[k] \in 1..m /\ kids[k + 1] \in i + 1 .. E[i] /\ E[kids[k]] <= E[i]
      BY <1>5, <1>6, <1>7, <3>1
    <3>3. E[kids[k]] \in Nat /\ E[i] \in Nat /\ kids[k] \in Nat /\ kids[k + 1] \in Nat
      <4>1. \A j \in 1..m : E[j] \in Nat /\ j \in Nat
        <5>1. ASSUME NEW j \in 1..m PROVE E[j] \in Nat /\ j \in Nat
          <6>1. E[j] \in j..m
            BY <1>2
          <6>2. m \in Nat /\ j \in Nat
            BY <1>1
          <6>3. QED
            BY <6>1, <6>2
        <5>2. QED
          BY <5>1
      <4>2. kids[k + 1] \in 1..m
        BY <1>4, <3>2
      <4>3. kids[k] \in 1..m /\ i \in 1..m
        BY <1>1, <3>2
      <4>4. QED
        BY <4>1, <4>2, <4>3
    <3>4. E[kids[k]] # E[i]
      <4>1. SUFFICES ASSUME E[kids[k]] = E[i] PROVE FALSE
        OBVIOUS
      <4>2. kids[k + 1] \in kids[k] + 1 .. E[kids[k]]
        BY <3>2, <3>3, <4>1
      <4>3. QED
        BY <1>7, <3>2, <4>2
    <3>5. QED
      BY <2>3, <3>1, <3>2, <3>3, <3>4
  <2>6. kids \in Seq(1..m)
    BY <1>4, <1>5, SeqMonotonic
  <2>7. \A k \in 1..n : t[kids[k]].depth = t[i].depth + 1
    BY <1>3, <1>6
  <2>8. EndOf(t, kids[n]) = EndOf(t, i)
    BY <1>1, <1>2a, <1>4, <1>6, <2>1, <2>4
  <2>9. \A k \in 1 .. n - 1 : k \in 1..n /\ kids[k] \in 1..m
    <3>1. \A k \in 1 .. n - 1 : k \in 1..n
      BY <1>5
    <3>2. QED
      BY <1>4, <1>6, <3>1
  <2>10. \A k \in 1 .. n - 1 : kids[k + 1] = EndOf(t, kids[k]) + 1
    BY <1>2a, <2>5, <2>9
  <2>11. QED
    BY <1>5, <1>10, <2>2, <2>8, <2>10, <2>6, <2>7 DEF kids, n, m, C
<1>11. QED
  BY <1>9, <1>10

\* No node of a tree is as deep as it is far from the start.
LEMMA DepthBelowPosition ==
  ASSUME NEW t \in Seq(Node), TreeAt(t, 0)
  PROVE  \A i \in 1..Len(t) : t[i].depth \in 0 .. i - 1
<1> DEFINE n == Len(t)
           Good == {m \in 0..n : m = 0 \/ t[m].depth \in 0 .. m - 1}
<1>1. /\ n \in Nat /\ t[1].depth = 0 /\ \A i \in 1..n : t[i].depth \in Nat
      /\ \A i \in 2..n : t[i].depth \in 1 .. t[i - 1].depth + 1
  BY SeqParts, NodeFields, 0 + 1 = 1 DEF TreeAt
<1> HIDE DEF n
<1>2. 0 \in Good
  BY <1>1
<1>3. ASSUME NEW m \in 0..n - 1, m \in Good PROVE m + 1 \in Good
  <2>1. CASE m = 0
    BY <1>1, <2>1
  <2>2. CASE m # 0
    <3>1. m + 1 \in 2..n /\ (m + 1) - 1 = m /\ m \in 1..n
      BY <1>1, <2>2
    <3>2. t[m].depth \in 0 .. m - 1 /\ t[m + 1].depth \in 1 .. t[m].depth + 1
      BY <1>1, <1>3, <2>2, <3>1
    <3>3. t[m + 1].depth \in 0 .. (m + 1) - 1
      BY <3>1, <3>2
    <3>4. m + 1 \in 0..n
      BY <1>1
    <3>5. QED
      BY <3>3, <3>4
  <2>3. QED
    BY <2>1, <2>2
<1>4. \A m \in 0..n : m \in Good
  <2> HIDE DEF Good
  <2>1. QED
    BY <1>1, <1>2, <1>3, CountsUp
<1>5. QED
  BY <1>4 DEF n

\* No two nodes have the same id.
DistinctIds(t) == \A i, j \in 1..Len(t) : t[i].id = t[j].id => i = j

\* Where ids are different, the dictionary has every node under its own key and connects
\* it to its children.
LEMMA ChildrenConnected ==
  ASSUME NEW t \in Seq(Node), TreeAt(t, 0), DistinctIds(t)
  PROVE  /\ FirstMet(t) = 1..Len(t)
         /\ \A i \in 1..Len(t) : /\ EntryOf(t, t[i].id) = Entry(t, i)
                                 /\ Connected(t, i) = ChildrenOf(t, i)
<1> DEFINE n == Len(t)
<1>1. /\ t # <<>> /\ n \in Nat /\ DOMAIN t = 1..n
      /\ \A i \in 1..n : t[i].id \in Nat
  BY SeqParts, NodeFields DEF TreeAt
<1>2. FirstMet(t) = 1..n
  <2>1. ASSUME NEW i \in 1..n, NEW j \in 1 .. i - 1 PROVE t[j].id # t[i].id
    <3>1. j \in 1..n /\ j # i
      BY <1>1
    <3>2. QED
      BY <3>1 DEF DistinctIds
  <2>2. QED
    BY <1>1, <2>1 DEF FirstMet
<1>3. ASSUME NEW i \in 1..n PROVE EntryOf(t, t[i].id) = Entry(t, i)
  <2>1. PICK k \in 1..n : t[k].id = t[i].id /\ EntryOf(t, t[i].id) = Entry(t, k)
    BY <1>1, KeysMet
  <2>2. k = i
    BY <2>1 DEF DistinctIds
  <2>3. QED
    BY <2>1, <2>2
<1>4. ASSUME NEW i \in 1..n, NEW j \in 1..n
      PROVE  Entry(t, j).parent = t[i].id <=> j \in ChildrenOf(t, i)
  <2>1. CASE j = 1
    <3>1. Entry(t, j).parent = -1 /\ t[i].id \in Nat
      BY <1>1, <2>1 DEF Entry
    <3>2. i \in Nat /\ 1 \notin i + 1 .. n
      BY <1>1
    <3>3. 1 \notin ChildrenOf(t, i)
      BY <3>2 DEF ChildrenOf, Descendants
    <3>4. QED
      BY <2>1, <3>1, <3>3
  <2>2. CASE j # 1
    <3>1. j \in 2..n
      BY <1>1, <2>2
    <3>2. /\ ParentOf(t, j) \in 1 .. j - 1 /\ j \in ChildrenOf(t, ParentOf(t, j))
          /\ \A p \in 1..Len(t) : j \in ChildrenOf(t, p) => p = ParentOf(t, j)
      BY <3>1, ParentIsThere
    <3>3. ParentOf(t, j) \in 1..n
      BY <1>1, <3>2
    <3>4. Entry(t, j).parent = t[ParentOf(t, j)].id
      BY <2>2 DEF Entry
    <3>5. t[ParentOf(t, j)].id = t[i].id <=> i = ParentOf(t, j)
      BY <3>3 DEF DistinctIds
    <3>6. QED
      BY <3>2, <3>4, <3>5
  <2>3. QED
    BY <2>1, <2>2
<1>5. ASSUME NEW i \in 1..n PROVE Connected(t, i) = ChildrenOf(t, i)
  <2>1. Connected(t, i) = {j \in 1..n : j \in ChildrenOf(t, i)}
    BY <1>2, <1>3, <1>4 DEF Connected
  <2>2. i \in Nat /\ i + 1 .. n \subseteq 1..n
    BY <1>1
  <2>3. ChildrenOf(t, i) \subseteq i + 1 .. n
    BY DEF ChildrenOf, Descendants
  <2>4. QED
    BY <2>1, <2>2, <2>3
<1>6. QED
  BY <1>2, <1>3, <1>5

\* Adjacent stretches of a sequence, one after the other.
Stretches(s, from, to, n) == [k \in 1..n |-> SubSeq(s, from[k], to[k])]

Adjacent(s, from, to, n) ==
  /\ \A k \in 1..n : from[k] \in 1..Len(s) /\ to[k] \in from[k]..Len(s)
  /\ \A k \in 1 .. n - 1 : from[k + 1] = to[k] + 1

LEMMA StretchesTogether ==
  ASSUME NEW S, NEW s \in Seq(S), NEW n \in Nat, n # 0,
         NEW from, NEW to, Adjacent(s, from, to, n)
  PROVE  FlattenSeq(Stretches(s, from, to, n)) = SubSeq(s, from[1], to[n])
<1> DEFINE ss == Stretches(s, from, to, n)
<1> USE DEF Stretches, Adjacent
<1>1. Len(s) \in Nat /\ \A i \in 1..Len(s) : s[i] \in S
  BY SeqParts
<1>2. \A k \in 1..n : from[k] \in Nat /\ to[k] \in Nat
  <2>1. SUFFICES ASSUME NEW k \in 1..n PROVE from[k] \in Nat /\ to[k] \in Nat
    OBVIOUS
  <2>2. from[k] \in 1..Len(s) /\ to[k] \in from[k]..Len(s)
    OBVIOUS
  <2>3. QED
    BY <1>1, <2>2
<1>3. ASSUME NEW k \in 1..n PROVE ss[k] \in Seq(S)
  <2>1. \A i \in from[k]..to[k] : i \in 1..Len(s)
    BY <1>1, <1>2
  <2>2. \A i \in from[k]..to[k] : s[i] \in S
    BY <1>1, <2>1
  <2>3. SubSeq(s, from[k], to[k]) \in Seq(S)
    BY <1>2, <2>2, SubSeqProperties
  <2>4. QED
    BY <2>3
<1>4. ss \in [1..n -> Seq(S)]
  BY <1>3
<1>5. PICK flat \in [1..n -> Seq(S)] :
        /\ FlattenSeq(ss) = flat[n] /\ flat[1] = ss[1]
        /\ \A k \in 2..n : flat[k] = flat[k - 1] \o ss[k]
  <2> HIDE DEF ss
  <2>1. \A r \in [1..n -> Seq(S)] : \E flat \in [1..n -> Seq(S)] :
          /\ FlattenSeq(r) = flat[n] /\ flat[1] = r[1]
          /\ \A k \in 2..n : flat[k] = flat[k - 1] \o r[k]
    BY Flattened
  <2>2. QED
    BY <1>4, <2>1
<1> DEFINE Good == {k \in 0..n : k = 0 \/ (from[1] <= to[k] /\ flat[k] = SubSeq(s, from[1], to[k]))}
<1>6. 0 \in Good
  OBVIOUS
<1>7. ASSUME NEW k \in 0..n - 1, k \in Good PROVE k + 1 \in Good
  <2>1. k + 1 \in 0..n /\ k + 1 \in 1..n /\ 1 \in 1..n
    OBVIOUS
  <2>2. CASE k = 0
    <3>1. flat[1] = SubSeq(s, from[1], to[1])
      BY <1>5, <2>1
    <3>2. to[1] \in from[1]..Len(s) /\ from[1] \in Nat
      BY <1>2, <2>1
    <3>3. from[1] <= to[1]
      BY <1>1, <3>2
    <3>4. QED
      BY <2>1, <2>2, <3>1, <3>3
  <2>3. CASE k # 0
    <3>1. k + 1 \in 2..n /\ (k + 1) - 1 = k /\ k \in 1..n /\ k \in 1 .. n - 1
      BY <2>3
    <3>2. flat[k + 1] = SubSeq(s, from[1], to[k]) \o SubSeq(s, to[k] + 1, to[k + 1])
      <4>1. flat[k + 1] = flat[k] \o ss[k + 1]
        BY <1>5, <3>1
      <4>2. ss[k + 1] = SubSeq(s, from[k + 1], to[k + 1]) /\ from[k + 1] = to[k] + 1
        BY <2>1, <3>1
      <4>3. flat[k] = SubSeq(s, from[1], to[k])
        BY <1>7, <2>3
      <4>4. QED
        BY <4>1, <4>2, <4>3
    <3>3. /\ from[1] \in 1..Len(s) /\ to[k] \in Nat /\ from[1] <= to[k] /\ to[k + 1] \in Nat
          /\ to[k] + 1 <= to[k + 1] /\ to[k + 1] <= Len(s)
      <4>1. from[1] <= to[k] /\ from[k + 1] = to[k] + 1
        BY <1>7, <2>3, <3>1
      <4>2. to[k + 1] \in from[k + 1]..Len(s) /\ from[1] \in 1..Len(s)
        BY <2>1
      <4>3. to[k] \in Nat /\ to[k + 1] \in Nat
        BY <1>2, <2>1, <3>1
      <4>4. QED
        BY <1>1, <4>1, <4>2, <4>3
    <3>4. /\ from[1] \in 1..Len(s) + 1 /\ to[k] \in from[1] - 1 .. Len(s)
          /\ to[k + 1] \in to[k]..Len(s)
      <4>1. PICK x \in Nat, y \in Nat, z \in Nat : x = from[1] /\ y = to[k] /\ z = to[k + 1]
        BY <1>2, <2>1, <3>3
      <4>2. x \in 1..Len(s) /\ x <= y /\ y + 1 <= z /\ z <= Len(s)
        BY <3>3, <4>1
      <4>3. x \in 1..Len(s) + 1 /\ y \in x - 1 .. Len(s) /\ z \in y..Len(s)
        BY <1>1, <4>2
      <4>4. QED
        BY <4>1, <4>3
    <3>5. SubSeq(s, from[1], to[k]) \o SubSeq(s, to[k] + 1, to[k + 1]) =
            SubSeq(s, from[1], to[k + 1])
      BY <3>4, ConcatAdjacentSubSeq
    <3>6. from[1] <= to[k + 1]
      BY <1>1, <3>3
    <3>7. QED
      BY <2>1, <3>2, <3>5, <3>6
  <2>4. QED
    BY <2>2, <2>3
<1>8. n \in Good
  <2> HIDE DEF Good
  <2>1. n \in 0..n
    OBVIOUS
  <2>2. QED
    BY <1>6, <1>7, <2>1, CountsUp
<1>9. QED
  BY <1>5, <1>8

\* A tree without two nodes of one id is loaded as it was saved, but for the nodes whose
\* observation is terminal.
LEMMA LoadIsTree ==
  ASSUME NEW t \in Seq(Node), TreeAt(t, 0), DistinctIds(t)
  PROVE  Load(t) = [i \in 1..Len(t) |-> Entry(t, i).node]
<1> DEFINE n == Len(t)
           T == [i \in 1..n |-> Entry(t, i).node]
<1>1. n \in Nat /\ n # 0 /\ \A i \in 1..n : t[i].depth \in 0 .. i - 1
  BY SeqParts, DepthBelowPosition DEF TreeAt
<1>2. \A i \in 1..n : T[i] \in Node /\ T[i].depth = t[i].depth
  <2>1. SUFFICES ASSUME NEW i \in 1..n PROVE T[i] \in Node /\ T[i].depth = t[i].depth
    OBVIOUS
  <2>2. PICK o \in Node : o = t[i]
    BY SeqParts
  <2>3. T[i] \in Node /\ T[i] = [o EXCEPT !.terminal = o.terminal \/ o.fin]
    BY <2>2, EntryKnown
  <2>4. QED
    BY <2>2, <2>3 DEF Node
<1>3. T \in Seq(Node) /\ Len(T) = n
  <2>1. T = [i \in 1..n |-> T[i]]
    OBVIOUS
  <2> HIDE DEF T
  <2>2. QED
    BY <1>1, <1>2, <2>1, SeqMade
<1>4. /\ FirstMet(t) = 1..n
      /\ \A i \in 1..n : EntryOf(t, t[i].id).node = T[i] /\ Connected(t, i) = ChildrenOf(t, i)
  BY ChildrenConnected
<1> DEFINE F == FirstMet(t)
<1>5. PICK below :
        /\ Load(t) = below[n][1]
        /\ \A fuel \in 0..n :
             below[fuel] = [i \in F |->
               Below(t, i, fuel, IF fuel = 0 THEN <<>> ELSE below[fuel - 1])]
  BY LoadUnfolds
<1>6. \A i \in 1..n : EndOf(t, i) \in i..n
  BY EndKnown
<1>6a. F = 1..n
  BY <1>4
<1> HIDE DEF T, n, F
<1> DEFINE Good == {m \in 0..n : \A i \in 1..n :
                     t[i].depth = n - m => below[m][i] = SubSeq(T, i, EndOf(t, i))}
<1>7. 0 \in Good
  <2>1. \A i \in 1..n : t[i].depth # n - 0
    BY <1>1
  <2>2. QED
    BY <1>1, <2>1
<1>8. ASSUME NEW m \in 0..n - 1, m \in Good PROVE m + 1 \in Good
  <2>1. m + 1 \in 0..n /\ m + 1 # 0 /\ (m + 1) - 1 = m /\ m \in 0..n
    BY <1>1
  <2>2. SUFFICES ASSUME NEW i \in 1..n, t[i].depth = n - (m + 1)
                 PROVE  below[m + 1][i] = SubSeq(T, i, EndOf(t, i))
    BY <2>1
  <2> DEFINE kids == InOrder(ChildrenOf(t, i))
             root == [T[i] EXCEPT !.depth = n - (m + 1)]
             rest == [k \in DOMAIN kids |-> below[m][kids[k]]]
  <2>3. below[m + 1][i] = <<root>> \o FlattenSeq(rest)
    <3>1. below[m + 1] = [j \in 1..n |-> Below(t, j, m + 1, below[m])]
      BY <1>5, <1>6a, <2>1
    <3>2. below[m + 1][i] = Below(t, i, m + 1, below[m])
      BY <3>1
    <3>3. QED
      BY <1>4, <2>1, <3>2 DEF Below, n
  <2>4. root = T[i]
    <3>1. PICK o \in Node : o = T[i] /\ o.depth = n - (m + 1)
      BY <1>2, <2>2
    <3>2. [o EXCEPT !.depth = n - (m + 1)] = o
      BY <3>1 DEF Node
    <3>3. QED
      BY <3>1, <3>2
  <2>5. /\ kids \in Seq(1..n) /\ Len(kids) \in Nat
        /\ \A k \in 1..Len(kids) : t[kids[k]].depth = t[i].depth + 1
        /\ IF Len(kids) = 0 THEN EndOf(t, i) = i
           ELSE kids[1] = i + 1 /\ EndOf(t, kids[Len(kids)]) = EndOf(t, i)
        /\ \A k \in 1 .. Len(kids) - 1 : kids[k + 1] = EndOf(t, kids[k]) + 1
    <3>1. i \in 1..Len(t)
      BY DEF n
    <3>2. QED
      BY <3>1, ChildrenFollow DEF n
  <2> HIDE DEF root, kids
  <2>6. /\ DOMAIN kids = 1..Len(kids) /\ \A k \in 1..Len(kids) : kids[k] \in 1..n
    BY <2>5, SeqParts
  <2>7. \A k \in 1..Len(kids) : below[m][kids[k]] = SubSeq(T, kids[k], EndOf(t, kids[k]))
    <3>1. SUFFICES ASSUME NEW k \in 1..Len(kids)
                   PROVE  below[m][kids[k]] = SubSeq(T, kids[k], EndOf(t, kids[k]))
      OBVIOUS
    <3>2. kids[k] \in 1..n /\ t[kids[k]].depth = t[i].depth + 1
      BY <2>5, <2>6
    <3>3. t[kids[k]].depth = n - m
      BY <1>1, <2>2, <3>2
    <3>4. QED
      BY <1>8, <3>2, <3>3
  <2>8. i \in Nat /\ EndOf(t, i) \in i..Len(T) /\ i \in 1..Len(T)
    BY <1>1, <1>3, <1>6
  <2>9. FlattenSeq(rest) = SubSeq(T, i + 1, EndOf(t, i))
    <3>1. CASE Len(kids) = 0
      <4>1. rest = <<>> /\ Len(rest) = 0
        BY <2>6, <3>1
      <4>2. FlattenSeq(rest) = <<>>
        <5> HIDE DEF rest
        <5>1. QED
          BY <4>1 DEF FlattenSeq
      <4>3. EndOf(t, i) = i
        BY <2>5, <3>1
      <4>4. i \in Int /\ i + 1 \in Int /\ i < i + 1
        BY <2>8
      <4>5. SubSeq(T, i + 1, i) = <<>>
        BY <4>4, SubSeqEmpty
      <4>6. QED
        BY <4>2, <4>3, <4>5
    <3>2. CASE Len(kids) # 0
      <4> DEFINE to == [k \in 1..Len(kids) |-> EndOf(t, kids[k])]
      <4>1. \A k \in 1..Len(kids) : kids[k] \in 1..Len(T) /\ to[k] \in kids[k]..Len(T)
        BY <1>3, <1>6, <2>6
      <4>2. rest = [k \in 1..Len(kids) |-> SubSeq(T, kids[k], to[k])]
        BY <2>6, <2>7
      <4>3. \A k \in 1 .. Len(kids) - 1 : kids[k + 1] = to[k] + 1
        <5>1. \A k \in 1 .. Len(kids) - 1 : k \in 1..Len(kids)
          BY <2>5
        <5>2. QED
          BY <2>5, <5>1
      <4>4. to[Len(kids)] = EndOf(t, i) /\ kids[1] = i + 1
        BY <2>5, <3>2
      <4> HIDE DEF rest, to
      <4>5. FlattenSeq(rest) = SubSeq(T, kids[1], to[Len(kids)])
        <5> DEFINE l == Len(kids)
        <5>1. l \in Nat /\ l # 0
          BY <2>5, <3>2
        <5>2. \A k \in 1 .. l - 1 : kids[k + 1] = to[k] + 1
          BY <4>3
        <5>3. \A k \in 1..l : kids[k] \in 1..Len(T) /\ to[k] \in kids[k]..Len(T)
          BY <4>1
        <5>4. rest = [k \in 1..l |-> SubSeq(T, kids[k], to[k])]
          BY <4>2
        <5> HIDE DEF l
        <5>5. FlattenSeq(rest) = SubSeq(T, kids[1], to[l])
          <6>1. FlattenSeq(Stretches(T, kids, to, l)) = SubSeq(T, kids[1], to[l])
            <7>1. Adjacent(T, kids, to, l)
              BY <5>2, <5>3 DEF Adjacent
            <7>2. QED
              BY <1>3, <5>1, <7>1, StretchesTogether
          <6>2. QED
            BY <5>4, <6>1 DEF Stretches
        <5>6. QED
          BY <5>5 DEF l
      <4>6. QED
        BY <4>4, <4>5
    <3>3. QED
      BY <3>1, <3>2
  <2> HIDE DEF rest
  <2>10. SubSeq(T, i, EndOf(t, i)) = <<T[i]>> \o SubSeq(T, i + 1, EndOf(t, i))
    BY <1>3, <2>8, SubSeqRecursiveFirst
  <2>11. QED
    BY <2>3, <2>4, <2>9, <2>10
<1>9. n \in Good
  <2> HIDE DEF Good
  <2>1. n \in 0..n
    BY <1>1
  <2>2. QED
    BY <1>1, <1>7, <1>8, <2>1, CountsUp
<1>10. 1 \in 1..n /\ t[1].depth = n - n
  BY <1>1 DEF TreeAt
<1>11. EndOf(t, 1) = n
  <2>1. EndOf(t, 1) \in 1..n /\ (EndOf(t, 1) < n => t[EndOf(t, 1) + 1].depth <= t[1].depth)
    BY <1>10, EndKnown DEF n
  <2>2. \A i \in 2..n : t[i].depth >= 1
    <3>1. \A i \in 2..n : t[i].depth \in 0 + 1 .. t[i - 1].depth + 1
      BY DEF TreeAt, n
    <3>2. \A i \in 2..n : i - 1 \in 1..n /\ i \in 1..n
      BY <1>1
    <3>3. QED
      BY <1>1, <3>1, <3>2
  <2>3. t[1].depth = 0
    BY <1>1, <1>10
  <2>4. SUFFICES ASSUME EndOf(t, 1) < n PROVE FALSE
    BY <1>1, <2>1
  <2>5. EndOf(t, 1) + 1 \in 2..n
    BY <1>1, <2>1, <2>4
  <2>6. t[EndOf(t, 1) + 1].depth >= 1 /\ t[EndOf(t, 1) + 1].depth <= 0
    BY <2>1, <2>2, <2>3, <2>4, <2>5
  <2>7. t[EndOf(t, 1) + 1].depth \in Nat
    BY <1>1, <2>5
  <2>8. QED
    BY <2>6, <2>7
<1>12. Load(t) = SubSeq(T, 1, n)
  BY <1>5, <1>9, <1>10, <1>11
<1>13. Load(t) = T
  BY <1>3, <1>12, SubSeqFull
<1>14. QED
  BY <1>13 DEF T, n

--------------------------------------------------------------------------------
(* The trees of loops and of searches                                          *)

\* The nodes of a loop follow each other, each the child of the one before it.
Chain ==
  {t \in Tree : \A i \in 1..Len(t) : t[i].depth = i - 1 /\ t[i].id = i - 1 /\ ~t[i].duplicate}

\* A search numbers its nodes as they are made.
Numbered ==
  {t \in Tree : DistinctIds(t) /\ \A i \in 1..Len(t) : t[i].id < Len(t) /\ (i = 1 => t[i].id = 0)}

\* What is said about a tree may be about any tree, or only about those that no request has
\* numbered otherwise.
Kinds == {"any", "search", "loop"}

TreesOf(kind) == IF kind = "loop" THEN Chain ELSE IF kind = "search" THEN Numbered ELSE Tree

LEMMA TreeParts ==
  ASSUME NEW t \in Tree
  PROVE  /\ t \in Seq(Node) /\ Len(t) \in Nat /\ DOMAIN t = 1..Len(t)
         /\ \A i \in 1..Len(t) : t[i] \in Node /\ t[i].id \in Nat /\ t[i].depth \in Nat
         /\ t # <<>> => /\ TreeAt(t, 0) /\ Len(t) # 0 /\ 1 \in 1..Len(t)
                        /\ Len(t) \in 1..Len(t) /\ t[1].depth = 0
<1>1. /\ t \in Seq(Node) /\ Len(t) \in Nat /\ DOMAIN t = 1..Len(t)
      /\ (t = <<>> <=> Len(t) = 0) /\ \A i \in 1..Len(t) : t[i] \in Node
  BY SeqParts DEF Tree
<1>2. \A i \in 1..Len(t) : t[i].id \in Nat /\ t[i].depth \in Nat
  BY <1>1, NodeFields
<1>3. t # <<>> => TreeAt(t, 0) /\ t[1].depth = 0
  BY DEF Tree, TreeAt
<1>4. QED
  BY <1>1, <1>2, <1>3

\* Every kind of trees has the tree of a root alone, and none.
LEMMA KindsHaveRoots ==
  ASSUME NEW kind \in Kinds
  PROVE  TreesOf(kind) \subseteq Tree /\ <<>> \in TreesOf(kind) /\ <<Root>> \in TreesOf(kind)
<1>1. Root \in Node /\ Root.id = 0 /\ Root.depth = 0 /\ Root.duplicate = FALSE
  <2>1. Root \in Node
    BY NewNodeKnown DEF Root
  <2>2. QED
    BY <2>1 DEF Root, NewNode
<1>2. <<Root>> \in Seq(Node) /\ Len(<<Root>>) = 1 /\ <<Root>>[1] = Root
  BY <1>1
<1>3. <<Root>> \in Tree
  BY <1>1, <1>2 DEF Tree, TreeAt
<1>4. <<>> \in Tree /\ Len(<<>>) = 0
  BY DEF Tree
<1>5. \A i \in 1..Len(<<Root>>) : i = 1 /\ <<Root>>[i] = Root
  BY <1>2
<1>6. <<Root>> \in Chain /\ <<Root>> \in Numbered
  BY <1>1, <1>2, <1>3, <1>5 DEF Chain, Numbered, DistinctIds
<1>7. <<>> \in Chain /\ <<>> \in Numbered
  BY <1>4 DEF Chain, Numbered, DistinctIds
<1>8. Chain \subseteq Tree /\ Numbered \subseteq Tree
  BY DEF Chain, Numbered
<1>9. QED
  BY <1>3, <1>4, <1>6, <1>7, <1>8 DEF TreesOf

\* In a loop and in a search no two nodes have the same id.
LEMMA KindsHaveIds ==
  ASSUME NEW kind \in {"search", "loop"}, NEW t \in TreesOf(kind)
  PROVE  DistinctIds(t)
<1>1. ASSUME t \in Chain PROVE DistinctIds(t)
  <2>1. t \in Tree /\ \A i \in 1..Len(t) : t[i].id = i - 1
    BY <1>1 DEF Chain
  <2>2. \A i \in 1..Len(t) : i \in Nat
    BY <2>1, TreeParts
  <2>3. QED
    BY <2>1, <2>2 DEF DistinctIds
<1>2. QED
  BY <1>1 DEF TreesOf, Numbered

\* A tree of the same size whose nodes keep ids and depths, and in a loop are no duplicates.
LEMMA SameShape ==
  ASSUME NEW kind \in Kinds, NEW t \in TreesOf(kind), NEW u \in Tree, Len(u) = Len(t),
         \A i \in 1..Len(t) : u[i].id = t[i].id /\ u[i].depth = t[i].depth,
         kind = "loop" => \A i \in 1..Len(t) : ~u[i].duplicate
  PROVE  u \in TreesOf(kind)
<1>1. CASE kind = "any"
  BY <1>1 DEF TreesOf
<1>2. CASE kind = "search"
  <2>1. DistinctIds(t) /\ \A i \in 1..Len(t) : t[i].id < Len(t) /\ (i = 1 => t[i].id = 0)
    BY <1>2 DEF TreesOf, Numbered
  <2>2. DistinctIds(u)
    BY <2>1 DEF DistinctIds
  <2>3. QED
    BY <1>2, <2>1, <2>2 DEF TreesOf, Numbered
<1>3. CASE kind = "loop"
  BY <1>3 DEF TreesOf, Chain
<1>4. QED
  BY <1>1, <1>2, <1>3 DEF Kinds

LEMMA NodeChangedInKind ==
  ASSUME NEW kind \in Kinds, NEW t \in TreesOf(kind), NEW i \in 1..Len(t), NEW n \in Node,
         n.depth = t[i].depth, n.id = t[i].id, kind = "loop" => ~n.duplicate
  PROVE  LET u == Updated(t, i, n)
         IN u \in TreesOf(kind) /\ Len(u) = Len(t) /\ u[i] = n
            /\ \A j \in 1..Len(t) : j # i => u[j] = t[j]
<1> DEFINE u == Updated(t, i, n)
<1>1. t \in Tree
  BY KindsHaveRoots
<1>2. /\ u \in Tree /\ Len(u) = Len(t) /\ u[i] = n
      /\ \A j \in 1..Len(t) : j # i => u[j] = t[j]
  BY <1>1, NodeChanged
<1> HIDE DEF u
<1>3. \A j \in 1..Len(t) : u[j].id = t[j].id /\ u[j].depth = t[j].depth
  BY <1>2
<1>4. kind = "loop" => \A j \in 1..Len(t) : ~u[j].duplicate
  <2>1. kind = "loop" => \A j \in 1..Len(t) : ~t[j].duplicate
    BY DEF TreesOf, Chain
  <2>2. QED
    BY <1>2, <2>1
<1>5. u \in TreesOf(kind)
  BY <1>2, <1>3, <1>4, SameShape
<1>6. QED
  BY <1>2, <1>5 DEF u

LEMMA VisitedInKind ==
  ASSUME NEW kind \in Kinds, NEW t \in TreesOf(kind), NEW p
  PROVE  Visit(t, p) \in TreesOf(kind) /\ Len(Visit(t, p)) = Len(t)
<1> DEFINE u == Visit(t, p)
<1>1. t \in Tree
  BY KindsHaveRoots
<1>2. /\ u \in Tree /\ Len(u) = Len(t)
      /\ \A i \in 1..Len(t) : \A f \in DOMAIN t[i] \ {"visits"} : u[i][f] = t[i][f]
  BY <1>1, VisitedTree
<1>3. \A i \in 1..Len(t) : {"id", "depth", "duplicate"} \subseteq DOMAIN t[i] \ {"visits"}
  <2>1. \A o \in Node : {"id", "depth", "duplicate"} \subseteq DOMAIN o \ {"visits"}
    BY DEF Node
  <2>2. QED
    BY <1>1, <2>1, TreeParts
<1> HIDE DEF u
<1>4. \A i \in 1..Len(t) : /\ u[i].id = t[i].id /\ u[i].depth = t[i].depth
                           /\ u[i].duplicate = t[i].duplicate
  BY <1>2, <1>3
<1>5. kind = "loop" => \A i \in 1..Len(t) : ~t[i].duplicate
  BY DEF TreesOf, Chain
<1>6. u \in TreesOf(kind)
  BY <1>2, <1>4, <1>5, SameShape
<1>7. QED
  BY <1>2, <1>6 DEF u

\* What is loaded from a file is of the kind that was saved.
LEMMA LoadedInKind ==
  ASSUME NEW kind \in Kinds, NEW t \in TreesOf(kind), t # <<>>
  PROVE  /\ Load(t) \in TreesOf(kind) /\ Load(t) # <<>>
         /\ kind # "any" => Len(Load(t)) = Len(t)
<1>1. t \in Tree /\ t \in Seq(Node) /\ TreeAt(t, 0)
  BY KindsHaveRoots, TreeParts
<1>2. Load(t) \in Tree /\ Load(t) # <<>>
  BY <1>1, LoadedTree
<1>3. CASE kind = "any"
  BY <1>2, <1>3 DEF TreesOf
<1>4. CASE kind # "any"
  <2>1. Load(t) = [i \in 1..Len(t) |-> Entry(t, i).node]
    BY <1>1, <1>4, KindsHaveIds, LoadIsTree DEF Kinds
  <2>2. Len(t) \in Nat
    BY <1>1, SeqParts
  <2>3. \A i \in 1..Len(t) : Load(t)[i] = Entry(t, i).node
    BY <2>1
  <2>4. Len(Load(t)) = Len(t)
    <3>1. DOMAIN Load(t) = 1..Len(t) /\ DOMAIN Load(t) = 1..Len(Load(t)) /\ Len(Load(t)) \in Nat
      BY <1>2, <2>1, TreeParts
    <3>2. QED
      BY <2>2, <3>1
  <2>5. \A i \in 1..Len(t) : /\ Load(t)[i].id = t[i].id /\ Load(t)[i].depth = t[i].depth
                             /\ Load(t)[i].duplicate = t[i].duplicate
    <3>1. SUFFICES ASSUME NEW i \in 1..Len(t)
                   PROVE  /\ Load(t)[i].id = t[i].id /\ Load(t)[i].depth = t[i].depth
                          /\ Load(t)[i].duplicate = t[i].duplicate
      OBVIOUS
    <3>2. PICK o \in Node : o = t[i]
      BY <1>1, TreeParts
    <3>3. Load(t)[i] = [o EXCEPT !.terminal = o.terminal \/ o.fin]
      BY <1>1, <2>3, <3>2, EntryKnown
    <3>4. QED
      BY <3>2, <3>3 DEF Node
  <2>6. kind = "loop" => \A i \in 1..Len(t) : ~t[i].duplicate
    BY DEF TreesOf, Chain
  <2>7. kind = "loop" => \A i \in 1..Len(t) : ~Load(t)[i].duplicate
    BY <2>5, <2>6
  <2>8. Load(t) \in TreesOf(kind)
    BY <1>2, <2>4, <2>5, <2>7, SameShape
  <2>9. QED
    BY <1>2, <2>4, <2>8
<1>5. QED
  BY <1>3, <1>4

\* A child that is numbered by the size of the tree; in a loop it stands at the end.
LEMMA GrownInKind ==
  ASSUME NEW kind \in Kinds, NEW t \in TreesOf(kind), NEW p \in 1..Len(t), NEW n \in Node,
         n.id = Len(t), kind = "loop" => p = Len(t) /\ ~n.duplicate
  PROVE  LET u  == AddChild(t, p, n)
             at == ChildPosition(t, p)
         IN /\ u \in TreesOf(kind) /\ Len(u) = Len(t) + 1
            /\ at \in 2..Len(u) /\ u[at] = Child(n, t[p].depth)
            /\ kind = "loop" => at = Len(u)
<1> DEFINE u == AddChild(t, p, n)
           c == Child(n, t[p].depth)
<1>1. t \in Tree /\ t \in Seq(Node) /\ Len(t) \in Nat /\ p \in Nat
  BY KindsHaveRoots, TreeParts
<1>2. /\ c \in Node /\ u \in Seq(Node) /\ Len(u) = Len(t) + 1
      /\ \E e \in p..Len(t) :
           /\ ChildPosition(t, p) = e + 1
           /\ u[e + 1] = c
           /\ \A j \in 1..e : u[j] = t[j]
           /\ \A j \in e + 2 .. Len(t) + 1 : u[j] = t[j - 1]
  BY <1>1, AddedChild
<1>3. u \in Tree
  BY <1>1, AddedChildInTree
<1>4. c.depth = t[p].depth + 1 /\ c.id = n.id /\ c.duplicate = n.duplicate
  <2>1. t[p].depth \in Nat /\ {"id", "duplicate"} \subseteq DOMAIN n \ {"depth"}
    BY <1>1, TreeParts DEF Node
  <2>2. QED
    BY <2>1, ChildDepth
<1> HIDE DEF u, c
<1>5. PICK e \in p..Len(t) :
        /\ ChildPosition(t, p) = e + 1
        /\ u[e + 1] = c
        /\ \A j \in 1..e : u[j] = t[j]
        /\ \A j \in e + 2 .. Len(t) + 1 : u[j] = t[j - 1]
  BY <1>2
<1>6. e \in Nat /\ 1 <= e /\ e <= Len(t)
  BY <1>1
<1>7. \A j \in 1..Len(u) :
        j \in 1..e \/ j = e + 1 \/ (j \in e + 2 .. Len(t) + 1 /\ j - 1 \in 1..Len(t))
  BY <1>1, <1>2, <1>6
<1>8. e + 1 \in 2..Len(u)
  BY <1>1, <1>2, <1>6
<1>9. kind = "loop" => e = Len(t)
  BY <1>1, <1>6
<1>10. CASE kind = "any"
  BY <1>2, <1>3, <1>5, <1>8, <1>10 DEF TreesOf, u, c
<1>11. CASE kind = "search"
  <2>1. t \in Numbered
    BY <1>11 DEF TreesOf
  <2>2. /\ \A i, j \in 1..Len(t) : t[i].id = t[j].id => i = j
        /\ \A i \in 1..Len(t) : t[i].id < Len(t) /\ t[i].id \in Nat /\ (i = 1 => t[i].id = 0)
    BY <1>1, <2>1, TreeParts DEF Numbered, DistinctIds
  <2>3. \A i \in 1..Len(t) : t[i].id # c.id
    BY <1>1, <1>4, <2>2
  <2>4. ASSUME NEW j \in 1..Len(u) PROVE u[j].id < Len(u) /\ (j = 1 => u[j].id = 0)
    <3>1. CASE j \in 1..e
      <4>1. u[j] = t[j] /\ j \in 1..Len(t)
        BY <1>5, <1>6, <3>1
      <4>2. t[j].id < Len(t) /\ t[j].id \in Nat /\ (j = 1 => t[j].id = 0)
        BY <2>2, <4>1
      <4>3. QED
        BY <1>1, <1>2, <4>1, <4>2
    <3>2. CASE j = e + 1
      <4>1. u[j].id = Len(t) /\ j # 1
        BY <1>4, <1>5, <1>6, <3>2
      <4>2. QED
        BY <1>1, <1>2, <4>1
    <3>3. CASE j \in e + 2 .. Len(t) + 1 /\ j - 1 \in 1..Len(t)
      <4>1. u[j] = t[j - 1] /\ j # 1
        BY <1>5, <1>6, <3>3
      <4>2. t[j - 1].id < Len(t) /\ t[j - 1].id \in Nat
        BY <2>2, <3>3
      <4>3. QED
        BY <1>1, <1>2, <4>1, <4>2
    <3>4. QED
      BY <1>7, <3>1, <3>2, <3>3
  <2>5. ASSUME NEW i \in 1..Len(u), NEW j \in 1..Len(u), u[i].id = u[j].id PROVE i = j
    <3> DEFINE Old(k) == IF k <= e THEN k ELSE k - 1
    <3>1. ASSUME NEW k \in 1..Len(u), k # e + 1
          PROVE  Old(k) \in 1..Len(t) /\ u[k] = t[Old(k)]
      <4>1. CASE k \in 1..e
        BY <1>1, <1>5, <1>6, <4>1
      <4>2. CASE k \in e + 2 .. Len(t) + 1 /\ k - 1 \in 1..Len(t)
        BY <1>1, <1>5, <1>6, <4>2
      <4>3. QED
        BY <1>7, <3>1, <4>1, <4>2
    <3>2. CASE i = e + 1 /\ j = e + 1
      BY <3>2
    <3>3. CASE i = e + 1 /\ j # e + 1
      <4>1. Old(j) \in 1..Len(t) /\ u[j] = t[Old(j)] /\ u[i] = c
        BY <1>5, <3>1, <3>3
      <4>2. QED
        BY <2>3, <2>5, <4>1
    <3>4. CASE i # e + 1 /\ j = e + 1
      <4>1. Old(i) \in 1..Len(t) /\ u[i] = t[Old(i)] /\ u[j] = c
        BY <1>5, <3>1, <3>4
      <4>2. QED
        BY <2>3, <2>5, <4>1
    <3>5. CASE i # e + 1 /\ j # e + 1
      <4>1. /\ Old(i) \in 1..Len(t) /\ u[i] = t[Old(i)]
            /\ Old(j) \in 1..Len(t) /\ u[j] = t[Old(j)]
        BY <3>1, <3>5
      <4> HIDE DEF Old
      <4>2. Old(i) = Old(j)
        BY <2>2, <2>5, <4>1
      <4>3. i \in Nat /\ j \in Nat
        BY <1>1, <1>2
      <4>4. QED
        BY <1>6, <3>5, <4>2, <4>3 DEF Old
    <3>6. QED
      BY <3>2, <3>3, <3>4, <3>5
  <2>6. u \in Numbered
    BY <1>3, <2>4, <2>5 DEF Numbered, DistinctIds
  <2>7. QED
    BY <1>2, <1>5, <1>8, <1>11, <2>6 DEF TreesOf, u, c
<1>12. CASE kind = "loop"
  <2>1. \A i \in 1..Len(t) : t[i].depth = i - 1 /\ t[i].id = i - 1 /\ ~t[i].duplicate
    BY <1>12 DEF TreesOf, Chain
  <2>2. e = Len(t) /\ p = Len(t)
    BY <1>9, <1>12
  <2>3. c.depth = Len(t) /\ c.id = Len(t) /\ ~c.duplicate
    BY <1>1, <1>4, <1>12, <2>1, <2>2
  <2>4. ASSUME NEW j \in 1..Len(u)
        PROVE  u[j].depth = j - 1 /\ u[j].id = j - 1 /\ ~u[j].duplicate
    <3>1. CASE j \in 1..Len(t)
      BY <1>5, <2>1, <2>2, <3>1
    <3>2. CASE j = Len(t) + 1
      BY <1>1, <1>5, <2>2, <2>3, <3>2
    <3>3. Len(u) = Len(t) + 1 /\ Len(t) \in Nat
      BY <1>1, <1>2
    <3>4. j \in 1..Len(t) \/ j = Len(t) + 1
      BY <3>3
    <3>5. QED
      BY <3>1, <3>2, <3>4
  <2>5. u \in Chain
    BY <1>3, <2>4 DEF Chain
  <2>6. QED
    BY <1>2, <1>5, <1>8, <1>12, <2>2, <2>5 DEF TreesOf, u, c
<1>13. QED
  BY <1>10, <1>11, <1>12 DEF Kinds

\* What the requests do to trees that they do not number: the last node is reset, or all
\* that is below the root goes.
LEMMA CutInKind ==
  ASSUME NEW kind \in Kinds, NEW t \in TreesOf(kind), t # <<>>
  PROVE  /\ \A rebuild \in BOOLEAN : ResetNode(t, Len(t), rebuild) \in TreesOf(kind)
         /\ DropChildren(t, 1) \in TreesOf(kind)
         /\ kind = "loop" => \A p \in 1..Len(t), rebuild \in BOOLEAN :
                               ResetNode(t, p, rebuild) \in TreesOf(kind)
<1>1. t \in Tree /\ Len(t) \in Nat /\ TreeAt(t, 0) /\ 1 \in 1..Len(t) /\ Len(t) \in 1..Len(t)
  BY KindsHaveRoots, TreeParts
<1>2. \A i \in 1..Len(t) : t[i] \in Node /\ t[i].id \in Nat /\ t[i].depth \in Nat
  BY <1>1, TreeParts
<1>3. ASSUME NEW p \in 1..Len(t), NEW rebuild \in BOOLEAN,
             \A k \in p + 1 .. Len(t) : t[k].depth > t[p].depth,
             kind = "search" => p = Len(t)
      PROVE  ResetNode(t, p, rebuild) \in TreesOf(kind)
  <2> DEFINE u == ResetNode(t, p, rebuild)
             r == ResetFields(t[p], rebuild)
  <2>1. /\ u \in Tree /\ Len(u) = p /\ u[p] = r /\ \A j \in 1 .. p - 1 : u[j] = t[j]
    BY <1>1, <1>3, ResetTree
  <2>2. r.id = t[p].id /\ r.depth = t[p].depth /\ r.duplicate = FALSE
    BY <1>2, ResetKnown
  <2> HIDE DEF u, r
  <2>3. \A j \in 1..Len(u) : /\ j \in 1..Len(t) /\ u[j].id = t[j].id /\ u[j].depth = t[j].depth
                             /\ (t[j].duplicate = FALSE => u[j].duplicate = FALSE)
    <3>1. SUFFICES ASSUME NEW j \in 1..Len(u)
                   PROVE /\ j \in 1..Len(t) /\ u[j].id = t[j].id /\ u[j].depth = t[j].depth
                         /\ (t[j].duplicate = FALSE => u[j].duplicate = FALSE)
      OBVIOUS
    <3>2. j = p \/ j \in 1 .. p - 1
      BY <1>1, <2>1
    <3>3. j \in 1..Len(t)
      BY <1>1, <2>1
    <3>4. QED
      BY <2>1, <2>2, <3>2, <3>3
  <2>4. CASE kind = "any"
    BY <2>1, <2>4 DEF TreesOf, u
  <2>5. CASE kind = "search"
    <3>1. /\ \A i, j \in 1..Len(t) : t[i].id = t[j].id => i = j
          /\ \A i \in 1..Len(t) : t[i].id < Len(t) /\ (i = 1 => t[i].id = 0)
      BY <2>5 DEF TreesOf, Numbered, DistinctIds
    <3>2. Len(u) = Len(t)
      BY <1>3, <2>1, <2>5
    <3>3. u \in Numbered
      BY <2>1, <2>3, <3>1, <3>2 DEF Numbered, DistinctIds
    <3>4. QED
      BY <2>5, <3>3 DEF TreesOf, u
  <2>6. CASE kind = "loop"
    <3>1. \A i \in 1..Len(t) : t[i].depth = i - 1 /\ t[i].id = i - 1 /\ t[i].duplicate = FALSE
      <4>1. \A i \in 1..Len(t) : t[i].depth = i - 1 /\ t[i].id = i - 1 /\ ~t[i].duplicate
        BY <2>6 DEF TreesOf, Chain
      <4>2. \A i \in 1..Len(t) : t[i].duplicate \in BOOLEAN
        BY <1>2, NodeFields
      <4>3. QED
        BY <4>1, <4>2
    <3>2. u \in Chain
      BY <2>1, <2>3, <3>1 DEF Chain
    <3>3. QED
      BY <2>6, <3>2 DEF TreesOf, u
  <2>7. QED
    BY <2>4, <2>5, <2>6 DEF Kinds
<1>4. ASSUME NEW rebuild \in BOOLEAN PROVE ResetNode(t, Len(t), rebuild) \in TreesOf(kind)
  <2>1. \A k \in Len(t) + 1 .. Len(t) : t[k].depth > t[Len(t)].depth
    BY <1>1
  <2>2. QED
    BY <1>1, <1>3, <2>1
<1>5. ASSUME kind = "loop", NEW p \in 1..Len(t), NEW rebuild \in BOOLEAN
      PROVE  ResetNode(t, p, rebuild) \in TreesOf(kind)
  <2>1. \A i \in 1..Len(t) : t[i].depth = i - 1
    BY <1>5 DEF TreesOf, Chain
  <2>2. \A k \in p + 1 .. Len(t) : t[k].depth > t[p].depth
    BY <1>1, <2>1
  <2>3. QED
    BY <1>3, <1>5, <2>2
<1>6. DropChildren(t, 1) \in TreesOf(kind)
  <2> DEFINE u == DropChildren(t, 1)
  <2>1. \A k \in 2..Len(t) : t[k].depth > t[1].depth
    <3>1. \A k \in 2..Len(t) : t[k].depth \in 0 + 1 .. t[k - 1].depth + 1
      BY <1>1 DEF TreeAt
    <3>2. t[1].depth = 0 /\ \A k \in 2..Len(t) : k \in 1..Len(t)
      BY <1>1 DEF TreeAt
    <3>3. QED
      BY <1>2, <3>1, <3>2
  <2>2. u \in Tree /\ Len(u) = 1 /\ u[1] = t[1]
    <3>1. \A k \in 1 + 1 .. Len(t) : t[k].depth > t[1].depth
      BY <2>1
    <3>2. /\ u \in Tree /\ 1 \in 1..Len(u) /\ \A j \in 1..1 : u[j] = t[j]
          /\ (\A k \in 1 + 1 .. Len(t) : t[k].depth > t[1].depth) => Len(u) = 1
      BY <1>1, DroppedChildren
    <3> HIDE DEF u
    <3>3. QED
      BY <3>1, <3>2
  <2> HIDE DEF u
  <2>3. \A i \in 1..Len(u) : i = 1
    BY <2>2
  <2>4. CASE kind = "any"
    <3>1. u \in TreesOf(kind)
      BY <2>2, <2>4 DEF TreesOf
    <3>2. QED
      BY <3>1 DEF u
  <2>5. CASE kind = "search"
    <3>1. t[1].id = 0
      BY <1>1, <2>5 DEF TreesOf, Numbered
    <3>2. DistinctIds(u)
      BY <2>3 DEF DistinctIds
    <3>3. \A i \in 1..Len(u) : u[i].id = 0
      BY <2>2, <2>3, <3>1
    <3>4. u \in Numbered
      <4>1. \A i \in 1..Len(u) : u[i].id < Len(u) /\ (i = 1 => u[i].id = 0)
        BY <2>2, <3>3
      <4>2. QED
        BY <2>2, <3>2, <4>1 DEF Numbered
    <3>5. QED
      BY <2>5, <3>4 DEF TreesOf, u
  <2>6. CASE kind = "loop"
    <3>1. t[1].depth = 1 - 1 /\ t[1].id = 1 - 1 /\ ~t[1].duplicate
      BY <1>1, <2>6 DEF TreesOf, Chain
    <3>2. u \in Chain
      BY <2>2, <2>3, <3>1 DEF Chain
    <3>3. QED
      BY <2>6, <3>2 DEF TreesOf, u
  <2>7. QED
    BY <2>4, <2>5, <2>6 DEF Kinds
<1>7. QED
  BY <1>4, <1>5, <1>6

--------------------------------------------------------------------------------
(* What the agent does to a node                                               *)

GeneratedIn(t, i, n, billed) == [t EXCEPT ![i].steps = n, ![i].paid = billed]

NodeGenerated(o, n, billed) == [o EXCEPT !.steps = n, !.paid = billed]

RejectedIn(t, i, billed) == [t EXCEPT ![i].error = TRUE, ![i].paid = @ \/ billed]

NodeRejected(o, billed) == [o EXCEPT !.error = TRUE, !.paid = @ \/ billed]

RaisedIn(t, i, terminal, billed) ==
  [t EXCEPT ![i].error = TRUE, ![i].terminal = @ \/ terminal, ![i].paid = @ \/ billed]

NodeRaised(o, terminal, billed) ==
  [o EXCEPT !.error = TRUE, !.terminal = @ \/ terminal, !.paid = @ \/ billed]

ActedIn(t, i, done, here, fin, terminal) ==
  [t EXCEPT ![i].done = done, ![i].fin = IF here THEN fin ELSE @,
            ![i].terminal = @ \/ fin \/ terminal]

NodeActed(o, done, here, fin, terminal) ==
  [o EXCEPT !.done = done, !.fin = IF here THEN fin ELSE @, !.terminal = @ \/ fin \/ terminal]

RatedIn(t, i, reward) == [t EXCEPT ![i].reward = reward]

NodeRated(o, reward) == [o EXCEPT !.reward = reward]

LEMMA GeneratedChange ==
  ASSUME NEW t \in Seq(Node), NEW i \in 1..Len(t), NEW n \in 0..MaxSteps, NEW billed \in BOOLEAN
  PROVE  LET o == NodeGenerated(t[i], n, billed)
         IN /\ GeneratedIn(t, i, n, billed) = Updated(t, i, o)
            /\ o \in Node /\ o.id = t[i].id /\ o.depth = t[i].depth
            /\ o.duplicate = t[i].duplicate
<1>1. PICK o \in Node : o = t[i]
  BY SeqParts
<1>2. [o EXCEPT !.steps = n, !.paid = billed] \in Node
  BY DEF Node
<1>3. DOMAIN t = 1..Len(t)
  BY SeqParts
<1>4. [t EXCEPT ![i].steps = n, ![i].paid = billed]
        = Updated(t, i, [t[i] EXCEPT !.steps = n, !.paid = billed])
  BY <1>3 DEF Updated
<1>5. QED
  BY <1>1, <1>2, <1>4 DEF Node, NodeGenerated, GeneratedIn

LEMMA RejectedChange ==
  ASSUME NEW t \in Seq(Node), NEW i \in 1..Len(t), NEW billed \in BOOLEAN
  PROVE  LET o == NodeRejected(t[i], billed)
         IN /\ RejectedIn(t, i, billed) = Updated(t, i, o)
            /\ o \in Node /\ o.id = t[i].id /\ o.depth = t[i].depth
            /\ o.duplicate = t[i].duplicate
<1>1. PICK o \in Node : o = t[i]
  BY SeqParts
<1>2. o.paid \in BOOLEAN
  BY NodeFields
<1>3. [o EXCEPT !.error = TRUE, !.paid = @ \/ billed] \in Node
  BY <1>2 DEF Node
<1>4. DOMAIN t = 1..Len(t)
  BY SeqParts
<1>5. [t EXCEPT ![i].error = TRUE, ![i].paid = @ \/ billed]
        = Updated(t, i, [t[i] EXCEPT !.error = TRUE, !.paid = @ \/ billed])
  BY <1>1, <1>4 DEF Updated
<1>6. QED
  BY <1>1, <1>3, <1>5 DEF Node, NodeRejected, RejectedIn

LEMMA RaisedChange ==
  ASSUME NEW t \in Seq(Node), NEW i \in 1..Len(t), NEW billed \in BOOLEAN, NEW terminal \in BOOLEAN
  PROVE  LET o == NodeRaised(t[i], terminal, billed)
         IN /\ RaisedIn(t, i, terminal, billed) = Updated(t, i, o)
            /\ o \in Node /\ o.id = t[i].id /\ o.depth = t[i].depth
            /\ o.duplicate = t[i].duplicate
<1>1. PICK o \in Node : o = t[i]
  BY SeqParts
<1>2. o.paid \in BOOLEAN /\ o.terminal \in BOOLEAN
  BY NodeFields
<1>3. [o EXCEPT !.error = TRUE, !.terminal = @ \/ terminal, !.paid = @ \/ billed] \in Node
  BY <1>2 DEF Node
<1>4. DOMAIN t = 1..Len(t)
  BY SeqParts
<1>5. [t EXCEPT ![i].error = TRUE, ![i].terminal = @ \/ terminal, ![i].paid = @ \/ billed]
        = Updated(t, i, [t[i] EXCEPT !.error = TRUE, !.terminal = @ \/ terminal,
                                     !.paid = @ \/ billed])
  BY <1>1, <1>4 DEF Updated
<1>6. QED
  BY <1>1, <1>3, <1>5 DEF Node, NodeRaised, RaisedIn

LEMMA ActedChange ==
  ASSUME NEW t \in Seq(Node), NEW i \in 1..Len(t), NEW done \in 0..MaxSteps,
         NEW here \in BOOLEAN, NEW fin \in BOOLEAN, NEW terminal \in BOOLEAN
  PROVE  LET o == NodeActed(t[i], done, here, fin, terminal)
         IN /\ ActedIn(t, i, done, here, fin, terminal) = Updated(t, i, o)
            /\ o \in Node /\ o.id = t[i].id /\ o.depth = t[i].depth
            /\ o.duplicate = t[i].duplicate /\ o.steps = t[i].steps
<1>1. PICK o \in Node : o = t[i]
  BY SeqParts
<1>2. o.fin \in BOOLEAN /\ o.terminal \in BOOLEAN
  BY NodeFields
<1>3. [o EXCEPT !.done = done, !.fin = IF here THEN fin ELSE @,
                !.terminal = @ \/ fin \/ terminal] \in Node
  BY <1>2 DEF Node
<1>4. DOMAIN t = 1..Len(t)
  BY SeqParts
<1>5. [t EXCEPT ![i].done = done, ![i].fin = IF here THEN fin ELSE @,
                ![i].terminal = @ \/ fin \/ terminal]
        = Updated(t, i, [t[i] EXCEPT !.done = done, !.fin = IF here THEN fin ELSE @,
                                     !.terminal = @ \/ fin \/ terminal])
  BY <1>1, <1>4 DEF Updated
<1>6. QED
  BY <1>1, <1>3, <1>5 DEF Node, NodeActed, ActedIn

\* The same of an error that ends the work on a node, of one that is only noted, of a
\* duplicate, of a reward, and of a node that is not terminal any more.
LEMMA MarkedChange ==
  ASSUME NEW t \in Seq(Node), NEW i \in 1..Len(t)
  PROVE  /\ [t EXCEPT ![i].error = TRUE, ![i].terminal = TRUE]
              = Updated(t, i, [t[i] EXCEPT !.error = TRUE, !.terminal = TRUE])
         /\ [t EXCEPT ![i].error = TRUE] = Updated(t, i, [t[i] EXCEPT !.error = TRUE])
         /\ [t EXCEPT ![i].terminal = FALSE] = Updated(t, i, [t[i] EXCEPT !.terminal = FALSE])
         /\ \A o \in {[t[i] EXCEPT !.error = TRUE, !.terminal = TRUE],
                      [t[i] EXCEPT !.error = TRUE], [t[i] EXCEPT !.terminal = FALSE]} :
              /\ o \in Node /\ o.id = t[i].id /\ o.depth = t[i].depth
              /\ o.duplicate = t[i].duplicate
<1>1. PICK o \in Node : o = t[i]
  BY SeqParts
<1>2. DOMAIN t = 1..Len(t)
  BY SeqParts
<1>3. /\ [t EXCEPT ![i].error = TRUE, ![i].terminal = TRUE]
           = Updated(t, i, [t[i] EXCEPT !.error = TRUE, !.terminal = TRUE])
      /\ [t EXCEPT ![i].error = TRUE] = Updated(t, i, [t[i] EXCEPT !.error = TRUE])
      /\ [t EXCEPT ![i].terminal = FALSE] = Updated(t, i, [t[i] EXCEPT !.terminal = FALSE])
  BY <1>2 DEF Updated
<1>4. \A m \in {[o EXCEPT !.error = TRUE, !.terminal = TRUE],
                [o EXCEPT !.error = TRUE], [o EXCEPT !.terminal = FALSE]} :
        m \in Node /\ m.id = o.id /\ m.depth = o.depth /\ m.duplicate = o.duplicate
  BY DEF Node
<1>5. QED
  BY <1>1, <1>3, <1>4

LEMMA RatedChange ==
  ASSUME NEW t \in Seq(Node), NEW i \in 1..Len(t), NEW reward \in Rewards
  PROVE  LET o == NodeRated(t[i], reward)
         IN /\ RatedIn(t, i, reward) = Updated(t, i, o)
            /\ o \in Node /\ o.id = t[i].id /\ o.depth = t[i].depth
            /\ o.duplicate = t[i].duplicate
<1>1. PICK o \in Node : o = t[i]
  BY SeqParts
<1>2. DOMAIN t = 1..Len(t)
  BY SeqParts
<1>3. RatedIn(t, i, reward) = Updated(t, i, NodeRated(t[i], reward))
  BY <1>2 DEF Updated, RatedIn, NodeRated
<1>4. QED
  BY <1>1, <1>3 DEF Node, NodeRated

LEMMA DuplicateChange ==
  ASSUME NEW t \in Seq(Node), NEW i \in 1..Len(t)
  PROVE  LET d == [t[i] EXCEPT !.duplicate = TRUE]
         IN /\ [t EXCEPT ![i].duplicate = TRUE] = Updated(t, i, d)
            /\ d \in Node /\ d.id = t[i].id /\ d.depth = t[i].depth
<1>1. PICK o \in Node : o = t[i]
  BY SeqParts
<1>2. DOMAIN t = 1..Len(t)
  BY SeqParts
<1>3. [t EXCEPT ![i].duplicate = TRUE] = Updated(t, i, [t[i] EXCEPT !.duplicate = TRUE])
  BY <1>2 DEF Updated
<1>4. QED
  BY <1>1, <1>3 DEF Node

--------------------------------------------------------------------------------
(* Rewards and visits                                                          *)

\* The nodes whose rewards the visits of one count, but for those that are due.
Counted(t, i, due) == {j \in {i} \cup Descendants(t, i) : t[j].reward # "none"} \ due

\* No reward is counted twice, and no more than d are not.
VisitsWithin(t, due, d) ==
  \A i \in 1..Len(t) : /\ t[i].visits <= Cardinality(Counted(t, i, due))
                       /\ Cardinality(Counted(t, i, due)) <= t[i].visits + d

\* A node that has a reward has been observed.
RewardsEarned(t) == \A i \in 1..Len(t) : t[i].reward # "none" => Observed(t[i])

LEMMA CountedKnown ==
  ASSUME NEW t \in Seq(Node), NEW i \in 1..Len(t), NEW due
  PROVE  /\ Counted(t, i, due) \subseteq 1..Len(t) /\ IsFiniteSet(Counted(t, i, due))
         /\ Cardinality(Counted(t, i, due)) \in Nat /\ t[i].visits \in Nat
<1>1. Counted(t, i, due) \subseteq 1..Len(t)
  BY DEF Counted, Descendants
<1>2. Len(t) \in Nat /\ t[i] \in Node
  OBVIOUS
<1>3. IsFiniteSet(1..Len(t))
  BY <1>2, FS_Interval
<1>4. QED
  BY <1>1, <1>2, <1>3, FS_Subset, FS_CardinalityType, NodeFields

\* What is within some visits is within more.
LEMMA WithinMore ==
  ASSUME NEW t \in Seq(Node), NEW due, NEW d \in Int, NEW e \in Int, d <= e,
         VisitsWithin(t, due, d)
  PROVE  VisitsWithin(t, due, e)
<1> SUFFICES ASSUME NEW i \in 1..Len(t)
             PROVE  /\ t[i].visits <= Cardinality(Counted(t, i, due))
                    /\ Cardinality(Counted(t, i, due)) <= t[i].visits + e
  BY DEF VisitsWithin
<1>1. /\ t[i].visits <= Cardinality(Counted(t, i, due))
      /\ Cardinality(Counted(t, i, due)) <= t[i].visits + d
  BY DEF VisitsWithin
<1>2. Cardinality(Counted(t, i, due)) \in Nat /\ t[i].visits \in Nat
  BY CountedKnown
<1>3. QED
  BY <1>1, <1>2

\* A reward that will never be propagated is one more that is not counted.
LEMMA WithinUndue ==
  ASSUME NEW t \in Seq(Node), NEW p, NEW d \in Int, VisitsWithin(t, {p}, d)
  PROVE  VisitsWithin(t, {}, d + 1)
<1> SUFFICES ASSUME NEW i \in 1..Len(t)
             PROVE  /\ t[i].visits <= Cardinality(Counted(t, i, {}))
                    /\ Cardinality(Counted(t, i, {})) <= t[i].visits + (d + 1)
  BY DEF VisitsWithin
<1> DEFINE a == Counted(t, i, {})
           b == Counted(t, i, {p})
<1>1. t[i].visits <= Cardinality(b) /\ Cardinality(b) <= t[i].visits + d
  BY DEF VisitsWithin
<1>2. /\ Cardinality(a) \in Nat /\ Cardinality(b) \in Nat /\ t[i].visits \in Nat
      /\ IsFiniteSet(a)
  BY CountedKnown
<1>3. b = a \ {p}
  BY DEF Counted
<1>4. Cardinality(b) = IF p \in a THEN Cardinality(a) - 1 ELSE Cardinality(a)
  BY <1>2, <1>3, FS_RemoveElement
<1>5. QED
  BY <1>1, <1>2, <1>4

\* A tree with the same rewards and visits.
LEMMA WithinSame ==
  ASSUME NEW t \in Tree, NEW u \in Tree, Len(u) = Len(t),
         \A i \in 1..Len(t) : /\ u[i].depth = t[i].depth /\ u[i].reward = t[i].reward
                              /\ u[i].visits = t[i].visits,
         NEW due, NEW d, VisitsWithin(t, due, d)
  PROVE  VisitsWithin(u, due, d)
<1>1. u \in Seq(Node)
  BY TreeParts
<1>2. \A i \in 1..Len(t) : Descendants(u, i) = Descendants(t, i)
  BY <1>1, SameDepths
<1>3. ASSUME NEW i \in 1..Len(t)
      PROVE  Counted(u, i, due) = Counted(t, i, due)
  <2>1. {i} \cup Descendants(t, i) \subseteq 1..Len(t)
    BY DEF Descendants
  <2>2. QED
    BY <1>2, <2>1 DEF Counted
<1>4. QED
  BY <1>3 DEF VisitsWithin

\* A node without a reward gets one: its visit is due.
LEMMA WithinRated ==
  ASSUME NEW t \in Tree, NEW u \in Tree, Len(u) = Len(t), NEW p \in 1..Len(t),
         \A i \in 1..Len(t) : /\ u[i].depth = t[i].depth /\ u[i].visits = t[i].visits
                              /\ i # p => u[i].reward = t[i].reward,
         t[p].reward = "none", NEW d, VisitsWithin(t, {}, d)
  PROVE  VisitsWithin(u, {p}, d)
<1>1. u \in Seq(Node)
  BY TreeParts
<1>2. \A i \in 1..Len(t) : Descendants(u, i) = Descendants(t, i)
  BY <1>1, SameDepths
<1>3. ASSUME NEW i \in 1..Len(t)
      PROVE  Counted(u, i, {p}) = Counted(t, i, {})
  <2>1. {i} \cup Descendants(t, i) \subseteq 1..Len(t)
    BY DEF Descendants
  <2>2. QED
    BY <1>2, <2>1 DEF Counted
<1>4. QED
  BY <1>3 DEF VisitsWithin

\* The visit that is due is made.
LEMMA WithinVisited ==
  ASSUME NEW t \in Tree, NEW p \in 1..Len(t), t[p].reward # "none",
         NEW d \in Int, VisitsWithin(t, {p}, d)
  PROVE  VisitsWithin(Visit(t, p), {}, d)
<1> DEFINE u == Visit(t, p)
<1>1. /\ u \in Tree /\ Len(u) = Len(t)
      /\ \A i \in 1..Len(t) :
           /\ Descendants(u, i) = Descendants(t, i)
           /\ u[i].visits = IF i \in PathTo(t, p) THEN t[i].visits + 1 ELSE t[i].visits
           /\ \A f \in DOMAIN t[i] \ {"visits"} : u[i][f] = t[i][f]
  BY VisitedTree
<1>2. t \in Seq(Node)
  BY TreeParts
<1>3. \A i \in 1..Len(t) : u[i].reward = t[i].reward
  <2>1. \A i \in 1..Len(t) : t[i] \in Node
    BY <1>2
  <2>2. \A n \in Node : "reward" \in DOMAIN n \ {"visits"}
    BY DEF Node
  <2>3. QED
    BY <1>1, <2>1, <2>2
<1> HIDE DEF u
<1> SUFFICES ASSUME NEW i \in 1..Len(t)
             PROVE  /\ u[i].visits <= Cardinality(Counted(u, i, {}))
                    /\ Cardinality(Counted(u, i, {})) <= u[i].visits + d
  BY <1>1 DEF VisitsWithin, u
<1> DEFINE a == Counted(t, i, {})
           b == Counted(t, i, {p})
<1>4. t[i].visits <= Cardinality(b) /\ Cardinality(b) <= t[i].visits + d
  BY DEF VisitsWithin
<1>5. /\ Cardinality(a) \in Nat /\ Cardinality(b) \in Nat /\ t[i].visits \in Nat
      /\ IsFiniteSet(a)
  BY <1>2, CountedKnown
<1>6. Counted(u, i, {}) = a
  <2>1. {i} \cup Descendants(t, i) \subseteq 1..Len(t)
    BY DEF Descendants
  <2>2. QED
    BY <1>1, <1>3, <2>1 DEF Counted
<1>7. p \in a <=> i \in PathTo(t, p)
  <2>1. p \in a <=> p = i \/ p \in Descendants(t, i)
    BY DEF Counted
  <2>2. p \in Descendants(t, i) => i \in 1 .. p - 1
    BY DEF Descendants
  <2>3. i \in PathTo(t, p) <=> i = p \/ (i \in 1 .. p - 1 /\ p \in Descendants(t, i))
    BY DEF PathTo
  <2>4. QED
    BY <2>1, <2>2, <2>3
<1>8. b = a \ {p}
  BY DEF Counted
<1>9. Cardinality(b) = IF p \in a THEN Cardinality(a) - 1 ELSE Cardinality(a)
  BY <1>5, <1>8, FS_RemoveElement
<1>10. u[i].visits = IF p \in a THEN t[i].visits + 1 ELSE t[i].visits
  BY <1>1, <1>7
<1> HIDE DEF a, b
<1>11. QED
  BY <1>4, <1>5, <1>6, <1>9, <1>10

\* Where the nodes of a tree stand once one is put behind the first e of them.
Moved(e, i) == IF i <= e THEN i ELSE i + 1

\* What is below a node stays below it when a child is added.
LEMMA MovedDescendants ==
  ASSUME NEW t \in Seq(Node), NEW u \in Seq(Node), Len(u) = Len(t) + 1,
         NEW e \in 1..Len(t), NEW d \in Nat,
         e < Len(t) => t[e + 1].depth <= d,
         u[e + 1].depth = d + 1,
         \A i \in 1..Len(t) : u[Moved(e, i)] = t[i]
  PROVE  \A i, j \in 1..Len(t) :
           Moved(e, j) \in Descendants(u, Moved(e, i)) <=> j \in Descendants(t, i)
<1> SUFFICES ASSUME NEW i \in 1..Len(t), NEW j \in 1..Len(t)
             PROVE  Moved(e, j) \in Descendants(u, Moved(e, i)) <=> j \in Descendants(t, i)
  OBVIOUS
<1>1. /\ Len(t) \in Nat /\ e \in Nat /\ i \in Nat /\ j \in Nat
      /\ Moved(e, i) \in 1..Len(u) /\ Moved(e, j) \in 1..Len(u)
  BY DEF Moved
<1>2. \A k \in 1..Len(t) : t[k].depth \in Nat
  BY NodeFields
<1>3. ASSUME Moved(e, j) \in Descendants(u, Moved(e, i))
      PROVE  j \in Descendants(t, i)
  <2>1. /\ Moved(e, j) \in Moved(e, i) + 1 .. Len(u)
        /\ \A k \in Moved(e, i) + 1 .. Moved(e, j) : u[k].depth > u[Moved(e, i)].depth
    BY <1>3 DEF Descendants
  <2>2. j \in i + 1 .. Len(t)
    BY <1>1, <2>1 DEF Moved
  <2>3. ASSUME NEW k \in i + 1 .. j
        PROVE  t[k].depth > t[i].depth
    <3>1. k \in 1..Len(t) /\ Moved(e, k) \in Moved(e, i) + 1 .. Moved(e, j)
      BY <1>1, <2>2 DEF Moved
    <3>2. u[Moved(e, k)] = t[k] /\ u[Moved(e, i)] = t[i]
      BY <3>1
    <3>3. QED
      BY <2>1, <3>1, <3>2
  <2>4. QED
    BY <2>2, <2>3 DEF Descendants
<1>4. ASSUME j \in Descendants(t, i)
      PROVE  Moved(e, j) \in Descendants(u, Moved(e, i))
  <2>1. j \in i + 1 .. Len(t) /\ \A k \in i + 1 .. j : t[k].depth > t[i].depth
    BY <1>4 DEF Descendants
  <2>2. Moved(e, j) \in Moved(e, i) + 1 .. Len(u)
    BY <1>1, <2>1 DEF Moved
  <2>3. ASSUME NEW k \in Moved(e, i) + 1 .. Moved(e, j)
        PROVE  u[k].depth > u[Moved(e, i)].depth
    <3>1. u[Moved(e, i)] = t[i]
      OBVIOUS
    <3>2. CASE k = e + 1
      <4>1. e + 1 \in i + 1 .. j /\ e < Len(t)
        BY <1>1, <2>1, <3>2 DEF Moved
      <4>2. t[e + 1].depth > t[i].depth /\ t[e + 1].depth <= d
        BY <2>1, <4>1
      <4>3. t[e + 1].depth \in Nat /\ t[i].depth \in Nat
        BY <1>1, <1>2, <4>1
      <4>4. d + 1 > t[i].depth
        BY <4>2, <4>3
      <4>5. QED
        BY <3>1, <3>2, <4>4
    <3>3. CASE k # e + 1
      <4>1. PICK l \in i + 1 .. j : k = Moved(e, l)
        <5>1. CASE k <= e
          BY <1>1, <2>1, <5>1 DEF Moved
        <5>2. CASE k > e
          <6>1. k - 1 \in i + 1 .. j /\ k = Moved(e, k - 1)
            BY <1>1, <2>1, <3>3, <5>2 DEF Moved
          <6>2. QED
            BY <6>1
        <5>3. QED
          BY <1>1, <5>1, <5>2
      <4>2. l \in 1..Len(t)
        BY <1>1, <2>1
      <4>3. u[k] = t[l]
        BY <4>1, <4>2
      <4>4. QED
        BY <2>1, <3>1, <4>3
    <3>4. QED
      BY <3>2, <3>3
  <2>4. QED
    BY <2>2, <2>3 DEF Descendants
<1>5. QED
  BY <1>3, <1>4

\* Where a child has been put, and what that is next to.
LEMMA GrownParts ==
  ASSUME NEW t \in Tree, NEW p \in 1..Len(t), NEW n \in Node
  PROVE  LET u == AddChild(t, p, n)
         IN /\ u \in Seq(Node) /\ Len(u) = Len(t) + 1
            /\ \E e \in p..Len(t) :
                 /\ e < Len(t) => t[e + 1].depth <= t[p].depth
                 /\ u[e + 1] = Child(n, t[p].depth)
                 /\ \A j \in 1..Len(t) : u[Moved(e, j)] = t[j]
<1> DEFINE u == AddChild(t, p, n)
<1>1. t \in Seq(Node) /\ Len(t) \in Nat
  BY TreeParts
<1>2. PICK e \in p..Len(t) :
        /\ Len(u) = Len(t) + 1
        /\ Descendants(t, p) = p + 1 .. e
        /\ u[e + 1] = Child(n, t[p].depth)
        /\ \A j \in 1..e : u[j] = t[j]
        /\ \A j \in e + 2 .. Len(t) + 1 : u[j] = t[j - 1]
  BY <1>1, AddedChild
<1>3. u \in Seq(Node)
  BY <1>1, AddedChild
<1> HIDE DEF u
<1>4. e < Len(t) => t[e + 1].depth <= t[p].depth
  <2>1. PICK f \in p..Len(t) :
          /\ Descendants(t, p) = p + 1 .. f
          /\ f < Len(t) => t[f + 1].depth <= t[p].depth
    BY <1>1, SubtreeIsContiguous
  <2>2. e = f
    BY <1>1, <1>2, <2>1
  <2>3. QED
    BY <2>1, <2>2
<1>5. ASSUME NEW i \in 1..Len(t)
      PROVE  u[Moved(e, i)] = t[i]
  <2>1. CASE i <= e
    BY <1>1, <1>2, <2>1 DEF Moved
  <2>2. CASE i > e
    <3>1. i + 1 \in e + 2 .. Len(t) + 1 /\ i + 1 - 1 = i
      BY <1>1, <2>2
    <3>2. u[i + 1] = t[i]
      BY <1>2, <3>1
    <3>3. QED
      BY <1>1, <2>2, <3>2 DEF Moved
  <2>3. QED
    BY <1>1, <2>1, <2>2
<1>6. QED
  BY <1>2, <1>3, <1>4, <1>5 DEF u

\* A child without a reward changes no count.
LEMMA WithinGrown ==
  ASSUME NEW t \in Tree, NEW p \in 1..Len(t), NEW n \in Node, n.reward = "none", n.visits = 0,
         NEW d \in Nat, VisitsWithin(t, {}, d)
  PROVE  VisitsWithin(AddChild(t, p, n), {}, d)
<1> DEFINE u == AddChild(t, p, n)
<1>1. t \in Seq(Node) /\ Len(t) \in Nat
  BY TreeParts
<1>2. u \in Seq(Node) /\ Len(u) = Len(t) + 1
  BY GrownParts
<1>3. PICK e \in p..Len(t) :
        /\ e < Len(t) => t[e + 1].depth <= t[p].depth
        /\ u[e + 1] = Child(n, t[p].depth)
        /\ \A j \in 1..Len(t) : u[Moved(e, j)] = t[j]
  BY GrownParts
<1> HIDE DEF u
<1>4. e \in 1..Len(t) /\ t[p].depth \in Nat
  BY <1>1, NodeFields
<1>5. /\ u[e + 1].depth = t[p].depth + 1 /\ u[e + 1].reward = "none" /\ u[e + 1].visits = 0
  BY <1>3, <1>4, ChildDepth DEF Child, Node
<1>6. \A i \in 1..Len(t) : u[Moved(e, i)] = t[i]
  BY <1>3
<1>7. \A i, j \in 1..Len(t) :
        Moved(e, j) \in Descendants(u, Moved(e, i)) <=> j \in Descendants(t, i)
  <2>1. PICK m \in Nat : m = t[p].depth
    BY <1>4
  <2>2. (e < Len(t) => t[e + 1].depth <= m) /\ u[e + 1].depth = m + 1
    BY <1>3, <1>5, <2>1
  <2>3. QED
    BY <1>1, <1>2, <1>4, <1>6, <2>2, MovedDescendants
<1>8. \A i, j \in 1..Len(t) : Moved(e, i) = Moved(e, j) <=> i = j
  BY <1>1, <1>4 DEF Moved
<1>9. \A k \in 1..Len(u) : k = e + 1 \/ \E i \in 1..Len(t) : k = Moved(e, i)
  <2> SUFFICES ASSUME NEW k \in 1..Len(u), k # e + 1
               PROVE  \E i \in 1..Len(t) : k = Moved(e, i)
    OBVIOUS
  <2>1. CASE k <= e
    BY <1>1, <1>4, <2>1 DEF Moved
  <2>2. CASE k > e
    <3>1. k - 1 \in 1..Len(t) /\ k = Moved(e, k - 1)
      BY <1>1, <1>2, <1>4, <2>2 DEF Moved
    <3>2. QED
      BY <3>1
  <2>3. QED
    BY <1>1, <1>2, <1>4, <2>1, <2>2
<1>10. ASSUME NEW i \in 1..Len(t)
       PROVE  Cardinality(Counted(u, Moved(e, i), {})) = Cardinality(Counted(t, i, {}))
  <2> DEFINE a == Counted(t, i, {})
             b == Counted(u, Moved(e, i), {})
             f == [j \in a |-> Moved(e, j)]
  <2>1. a \subseteq 1..Len(t) /\ IsFiniteSet(a)
    BY <1>1, CountedKnown
  <2>2. Moved(e, i) \in 1..Len(u)
    BY <1>1, <1>2, <1>4 DEF Moved
  <2>3. b \subseteq 1..Len(u)
    BY <1>2, <2>2, CountedKnown
  <2>4. \A j \in 1..Len(t) : Moved(e, j) \in b <=> j \in a
    BY <1>6, <1>7, <1>8 DEF Counted
  <2>5. e + 1 \notin b
    BY <1>5 DEF Counted
  <2> HIDE DEF a, b
  <2>6. f \in [a -> b]
    BY <2>1, <2>4
  <2>7. \A j, k \in a : f[j] = f[k] => j = k
    BY <2>1, <1>8
  <2>8. \A k \in b : \E j \in a : f[j] = k
    <3> SUFFICES ASSUME NEW k \in b
                 PROVE  \E j \in a : Moved(e, j) = k
      OBVIOUS
    <3>1. PICK j \in 1..Len(t) : k = Moved(e, j)
      BY <1>9, <2>3, <2>5
    <3>2. QED
      BY <2>4, <3>1
  <2> HIDE DEF f
  <2>9. f \in Bijection(a, b)
    BY <2>6, <2>7, <2>8, Fun_IsBij
  <2>10. ExistsBijection(a, b)
    BY <2>9 DEF ExistsBijection
  <2>11. QED
    BY <2>1, <2>10, FS_Bijection DEF a, b
<1>11. Counted(u, e + 1, {}) = {}
  <2>1. ASSUME NEW j \in Descendants(u, e + 1)
        PROVE  FALSE
    <3>1. /\ j \in e + 2 .. Len(u) /\ \A k \in e + 2 .. j : u[k].depth > u[e + 1].depth
      BY <2>1, <1>4 DEF Descendants
    <3>2. e + 1 \in 1..Len(t) /\ e < Len(t) /\ e + 2 \in e + 2 .. j
      BY <1>1, <1>2, <1>4, <3>1
    <3>3. u[e + 2] = t[e + 1]
      BY <1>3, <1>4, <3>2 DEF Moved
    <3>4. t[e + 1].depth > t[p].depth + 1 /\ t[e + 1].depth <= t[p].depth
      BY <1>3, <1>5, <3>1, <3>2, <3>3
    <3>5. t[e + 1].depth \in Nat
      BY <1>1, <3>2, NodeFields
    <3>6. QED
      BY <1>4, <3>4, <3>5
  <2>2. QED
    BY <1>5, <2>1 DEF Counted
<1> SUFFICES ASSUME NEW k \in 1..Len(u)
             PROVE  /\ u[k].visits <= Cardinality(Counted(u, k, {}))
                    /\ Cardinality(Counted(u, k, {})) <= u[k].visits + d
  BY DEF VisitsWithin, u
<1>12. CASE k = e + 1
  <2>1. Cardinality(Counted(u, k, {})) = 0 /\ u[k].visits = 0
    BY <1>5, <1>11, <1>12, FS_EmptySet
  <2>2. QED
    BY <2>1
<1>13. ASSUME NEW i \in 1..Len(t), k = Moved(e, i)
       PROVE  /\ u[k].visits <= Cardinality(Counted(u, k, {}))
              /\ Cardinality(Counted(u, k, {})) <= u[k].visits + d
  BY <1>6, <1>10, <1>13 DEF VisitsWithin
<1>14. QED
  BY <1>9, <1>12, <1>13

LEMMA EarnedGrown ==
  ASSUME NEW t \in Tree, NEW p \in 1..Len(t), NEW n \in Node, n.reward = "none",
         RewardsEarned(t)
  PROVE  RewardsEarned(AddChild(t, p, n))
<1> DEFINE u == AddChild(t, p, n)
<1>1. t \in Seq(Node) /\ Len(t) \in Nat
  BY TreeParts
<1>2. u \in Seq(Node) /\ Len(u) = Len(t) + 1
  BY GrownParts
<1>2a. PICK e \in p..Len(t) :
         /\ u[e + 1] = Child(n, t[p].depth)
         /\ \A j \in 1..Len(t) : u[Moved(e, j)] = t[j]
  BY GrownParts
<1>3. Child(n, t[p].depth).reward = "none"
  BY DEF Child, Node
<1> HIDE DEF u
<1> SUFFICES ASSUME NEW k \in 1..Len(u), u[k].reward # "none"
             PROVE  Observed(u[k])
  BY DEF RewardsEarned, u
<1>4. CASE k <= e
  <2>1. k \in 1..Len(t) /\ u[k] = t[k]
    BY <1>1, <1>2, <1>2a, <1>4 DEF Moved
  <2>2. QED
    BY <2>1 DEF RewardsEarned
<1>5. CASE k = e + 1
  BY <1>2a, <1>3, <1>5
<1>6. CASE k > e + 1
  <2>1. k - 1 \in 1..Len(t) /\ Moved(e, k - 1) = k
    BY <1>1, <1>2, <1>6 DEF Moved
  <2>2. u[k] = t[k - 1]
    BY <1>2a, <2>1
  <2>3. QED
    BY <2>1, <2>2 DEF RewardsEarned
<1>7. QED
  BY <1>1, <1>2, <1>4, <1>5, <1>6

--------------------------------------------------------------------------------
(* What is visible of a file                                                   *)

\* Bounded numbers have a maximum.
LEMMA MaxBounds ==
  ASSUME NEW n \in Nat, NEW S, S \subseteq 0..n, S # {}
  PROVE  Max(S) \in S /\ \A k \in S : Max(S) >= k
<1>1. PICK k \in S : \A l \in S : l <= k
  BY ExtremesExist
<1>2. \A l \in S : k >= l
  BY <1>1
<1>3. QED
  BY <1>2 DEF Max

TextLine == [span : Spans, says : {"def", "old", "new"}]

LEMMA ContentsFormed ==
  ASSUME NEW t \in Contents
  PROVE  /\ WellFormed(t) /\ t \in Seq(TextLine) /\ t # <<>>
         /\ Len(t) \in Nat /\ DOMAIN t = 1..Len(t) /\ \A i \in 1..Len(t) : t[i] \in TextLine
<1>1. WellFormed(t)
  BY VisibleSpansAssumption
<1>2. t \in Seq(TextLine) /\ t # <<>>
  BY <1>1 DEF WellFormed, TextLine
<1>3. QED
  BY <1>1, <1>2, SeqParts

\* Two texts have a longest prefix in common, so that the lines where they differ have numbers.
LEMMA PrefixLength ==
  ASSUME NEW S, NEW a \in Seq(S), NEW b \in Seq(S)
  PROVE  Len(LongestCommonPrefix({a, b})) \in Nat
<1> DEFINE C == CommonPrefixes({a, b})
           N == {Len(p) : p \in C}
<1>1. C = {p \in Prefixes(a) \cup Prefixes(b) : IsPrefix(p, a) /\ IsPrefix(p, b)}
  BY DEF CommonPrefixes
<1>2. ASSUME NEW c \in {a, b} PROVE \A p \in Prefixes(c) : Len(p) \in 0..Len(c)
  <2>1. c \in Seq(S) /\ Len(c) \in Nat /\ \A i \in 1..Len(c) : c[i] \in S
    BY SeqParts
  <2>2. ASSUME NEW l \in 0..Len(c) PROVE Len(SubSeq(c, 1, l)) \in 0..Len(c)
    <3>1. Len(SubSeq(c, 1, l)) = IF 1 <= l THEN l - 1 + 1 ELSE 0
      BY <2>1, SubSeqProperties
    <3>2. QED
      BY <2>1, <3>1
  <2>3. QED
    BY <2>2 DEF Prefixes
<1>3. <<>> \in C
  <2>1. SubSeq(a, 1, 0) = <<>> /\ SubSeq(b, 1, 0) = <<>> /\ SubSeq(<<>>, 1, 0) = <<>>
    BY SubSeqEmpty
  <2>2. Len(a) \in Nat /\ Len(b) \in Nat /\ Len(<<>>) = 0
    BY SeqParts
  <2>3. <<>> \in Prefixes(a)
    BY <2>1, <2>2 DEF Prefixes
  <2>4. IsPrefix(<<>>, a) /\ IsPrefix(<<>>, b)
    BY <2>1, <2>2 DEF IsPrefix
  <2>5. QED
    BY <1>1, <2>3, <2>4
<1>4. Len(a) \in Nat /\ Len(b) \in Nat
  BY SeqParts
<1>5. PICK n \in Nat : N \subseteq 0..n
  <2>1. \A p \in C : Len(p) \in 0..Len(a) + Len(b)
    <3>1. \A p \in C : Len(p) \in 0..Len(a) \/ Len(p) \in 0..Len(b)
      BY <1>1, <1>2
    <3>2. QED
      BY <1>4, <3>1
  <2>2. Len(a) + Len(b) \in Nat
    BY <1>4
  <2>3. QED
    BY <2>1, <2>2
<1> HIDE DEF C
<1>6. N # {}
  BY <1>3
<1>7. PICK m \in N : \A k \in N : k <= m
  <2> HIDE DEF N
  <2>1. QED
    BY <1>5, <1>6, ExtremesExist
<1>8. PICK p \in C : Len(p) = m
  BY <1>7
<1>9. \A q \in C : Len(q) <= Len(p)
  BY <1>7, <1>8
<1>10. LongestCommonPrefix({a, b}) \in C
  BY <1>8, <1>9 DEF LongestCommonPrefix, C
<1>11. QED
  BY <1>5, <1>10

LEMMA DifferingNumbers ==
  ASSUME NEW old \in Contents, NEW new \in Contents
  PROVE  Differing(old, new).from \in Int /\ LastChanged(old, new) \in Int
<1> DEFINE p == Len(LongestCommonPrefix({old, new}))
           u == SubSeq(old, p + 1, Len(old))
           v == SubSeq(new, p + 1, Len(new))
           s == Len(LongestCommonPrefix({Reverse(u), Reverse(v)}))
<1>1. /\ old \in Seq(TextLine) /\ Len(old) \in Nat /\ \A i \in 1..Len(old) : old[i] \in TextLine
      /\ new \in Seq(TextLine) /\ Len(new) \in Nat /\ \A i \in 1..Len(new) : new[i] \in TextLine
  BY ContentsFormed
<1>2. p \in Nat
  BY <1>1, PrefixLength
<1>3. u \in Seq(TextLine) /\ v \in Seq(TextLine)
  <2> HIDE DEF p
  <2>1. p + 1 \in Int /\ (\A i \in p + 1..Len(old) : i \in 1..Len(old))
                      /\ \A i \in p + 1..Len(new) : i \in 1..Len(new)
    BY <1>1, <1>2
  <2>2. QED
    BY <1>1, <2>1, SubSeqProperties
<1>4. s \in Nat
  <2> HIDE DEF u, v
  <2>1. Reverse(u) \in Seq(TextLine) /\ Reverse(v) \in Seq(TextLine)
    <3>1. \A w \in Seq(TextLine) : Reverse(w) \in Seq(TextLine)
      <4>1. SUFFICES ASSUME NEW w \in Seq(TextLine) PROVE Reverse(w) \in Seq(TextLine)
        OBVIOUS
      <4>2. Len(w) \in Nat /\ \A i \in 1..Len(w) : w[i] \in TextLine
        BY SeqParts
      <4>3. \A i \in 1..Len(w) : w[(Len(w) - i) + 1] \in TextLine
        BY <4>2
      <4> DEFINE f == [i \in 1..Len(w) |-> w[(Len(w) - i) + 1]]
      <4>4. f = [i \in 1..Len(w) |-> f[i]] /\ \A i \in 1..Len(w) : f[i] \in TextLine
        BY <4>3
      <4> HIDE DEF f
      <4>5. f \in Seq(TextLine)
        BY <4>2, <4>4, SeqMade
      <4>6. QED
        BY <4>5 DEF f, Reverse
    <3>2. QED
      BY <1>3, <3>1
  <2>2. QED
    BY <2>1, PrefixLength
<1>5. Differing(old, new) = [from |-> p + 1, old |-> Len(old) - s, new |-> Len(new) - s]
  BY DEF Differing
<1> HIDE DEF p, u, v, s
<1>6. /\ Differing(old, new).from \in Int /\ Differing(old, new).old \in Int
      /\ Differing(old, new).new \in Int
  BY <1>1, <1>2, <1>4, <1>5
<1>7. QED
  BY <1>6 DEF LastChanged

LEMMA ClassesKnown ==
  ASSUME NEW id \in Spans
  PROVE  /\ ClassOf[id] \in Structures \cup {NoSpan} /\ ClassOf[id] \in Spans \cup {NoSpan}
         /\ ClassOf[id] # NoSpan => ClassOf[ClassOf[id]] = NoSpan
  BY VisibleSpansAssumption

\* Above what is in a class there is its header.
LEMMA ClassHeader ==
  ASSUME NEW t \in Contents, NEW i \in 1..Len(t), ClassOf[t[i].span] # NoSpan
  PROVE  \E k \in 1..i - 1 : t[k].span = ClassOf[t[i].span] /\ t[k].says = "def"
<1> DEFINE C == ClassOf[t[i].span]
           K == {k \in 1..i : C \in {t[k].span, ClassOf[t[k].span]}}
<1>1. /\ WellFormed(t) /\ Len(t) \in Nat /\ DOMAIN t = 1..Len(t)
      /\ \A k \in 1..Len(t) : t[k].span \in Spans
  BY ContentsFormed DEF TextLine
<1>2. i \in K /\ K \subseteq 0..i /\ i \in Nat
  BY <1>1
<1>3. PICK k \in K : \A l \in K : k <= l
  <2>1. K # {}
    BY <1>2
  <2> HIDE DEF K
  <2>2. QED
    BY <1>2, <2>1, ExtremesExist
<1>4. k \in 1..i /\ k \in 1..Len(t) /\ k \in Nat /\ C \in {t[k].span, ClassOf[t[k].span]}
  BY <1>1, <1>3
<1>5. k - 1 \notin K
  BY <1>2, <1>3, <1>4
<1>6. k > 1 => k - 1 \in 1..Len(t) /\ C # t[k - 1].span /\ C # ClassOf[t[k - 1].span]
  BY <1>1, <1>4, <1>5
<1>7. k = 1 \/ t[k - 1].span # t[k].span
  BY <1>4, <1>6
<1>8. t[k].span = C
  <2>1. SUFFICES ASSUME t[k].span # C PROVE FALSE
    OBVIOUS
  <2>2. ClassOf[t[k].span] = C /\ C # NoSpan
    BY <1>4, <2>1
  <2>3. k > 1 /\ ClassOf[t[k].span] \in {t[k - 1].span, ClassOf[t[k - 1].span]}
    BY <1>1, <1>4, <1>7, <2>2 DEF WellFormed
  <2>4. QED
    BY <1>6, <2>2, <2>3
<1>9. t[k].says = "def"
  <2>1. C \in Structures
    BY <1>1, ClassesKnown
  <2>2. QED
    BY <1>1, <1>4, <1>7, <1>8, <2>1 DEF WellFormed
<1>10. k # i
  BY <1>1, <1>8, ClassesKnown
<1>11. QED
  BY <1>4, <1>8, <1>9, <1>10

\* The lines of what a block begins.
Block(t, i) == {j \in DOMAIN t : t[i].span \in {t[j].span, ClassOf[t[j].span]}}

LEMMA BlockEnds ==
  ASSUME NEW t \in Contents, NEW i \in 1..Len(t)
  PROVE  /\ BlockEnd(t, i) \in Nat /\ BlockEnd(t, i) >= i
         /\ t[i].says = "def" => /\ BlockEnd(t, i) \in Block(t, i)
                                 /\ \A j \in Block(t, i) : BlockEnd(t, i) >= j
<1>1. Len(t) \in Nat /\ DOMAIN t = 1..Len(t)
  BY ContentsFormed
<1>2. Block(t, i) \subseteq 0..Len(t) /\ i \in Block(t, i) /\ i \in Nat
  BY <1>1 DEF Block
<1>3. Max(Block(t, i)) \in Block(t, i) /\ \A j \in Block(t, i) : Max(Block(t, i)) >= j
  BY <1>1, <1>2, MaxBounds
<1>4. BlockEnd(t, i) = IF t[i].says # "def" THEN i ELSE Max(Block(t, i))
  BY DEF BlockEnd, Block
<1>5. QED
  BY <1>2, <1>3, <1>4

\* A class ends where what is in it has ended.
LEMMA ClassEnds ==
  ASSUME NEW t \in Contents, NEW i \in 1..Len(t), NEW k \in 1..Len(t),
         t[k].span = ClassOf[t[i].span], t[k].says = "def", ClassOf[t[i].span] # NoSpan
  PROVE  BlockEnd(t, i) <= BlockEnd(t, k)
<1>1. DOMAIN t = 1..Len(t) /\ \A j \in 1..Len(t) : t[j].span \in Spans
  BY ContentsFormed DEF TextLine
<1>2. BlockEnd(t, i) \in Block(t, k)
  <2>1. CASE t[i].says # "def"
    BY <1>1, <2>1 DEF BlockEnd, Block
  <2>2. CASE t[i].says = "def"
    <3> DEFINE m == BlockEnd(t, i)
    <3>1. m \in Block(t, i)
      BY <2>2, BlockEnds
    <3> HIDE DEF m
    <3>2. m \in 1..Len(t) /\ t[i].span \in {t[m].span, ClassOf[t[m].span]}
      BY <1>1, <3>1 DEF Block
    <3>3. t[i].span # ClassOf[t[m].span]
      <4>1. ClassOf[t[m].span] # NoSpan => ClassOf[ClassOf[t[m].span]] = NoSpan
        BY <1>1, <3>2, ClassesKnown
      <4>2. t[i].span # NoSpan
        BY <1>1, VisibleSpansAssumption
      <4>3. QED
        BY <4>1, <4>2
    <3>4. m \in Block(t, k)
      BY <1>1, <3>2, <3>3 DEF Block
    <3>5. QED
      BY <3>4 DEF m
  <2>3. QED
    BY <2>1, <2>2
<1>3. BlockEnd(t, i) \in Nat /\ BlockEnd(t, k) \in Nat /\ BlockEnd(t, k) >= BlockEnd(t, i)
  BY <1>2, BlockEnds
<1>4. QED
  BY <1>3

\* Spans with the classes of those that are in one.
WithClasses(S) == \A id \in S : ClassOf[id] \in S \cup {NoSpan}

\* What is found by lines is found with its class.
LEMMA FoundWithClasses ==
  ASSUME NEW t \in Contents, NEW from \in Int, NEW to \in Int
  PROVE  /\ SpansAt(t, from, to) \subseteq IdsIn(t) \cap Spans
         /\ WithClasses(SpansAt(t, from, to))
<1>1. /\ Len(t) \in Nat /\ DOMAIN t = 1..Len(t)
      /\ \A i \in 1..Len(t) : t[i].span \in Spans
  BY ContentsFormed DEF TextLine
<1>2. \A i \in 1..Len(t) - 1 : i \in 1..Len(t)
  BY <1>1
<1>3. SpansAt(t, from, to) \subseteq IdsIn(t) \cap Spans
  BY <1>1, <1>2 DEF SpansAt, IdsIn
<1>4. ASSUME NEW i \in 1..Len(t) - 1, i <= to, BlockEnd(t, i) >= from, ClassOf[t[i].span] # NoSpan
      PROVE  ClassOf[t[i].span] \in SpansAt(t, from, to)
  <2>1. i \in 1..Len(t)
    BY <1>2
  <2>2. PICK k \in 1..i - 1 : t[k].span = ClassOf[t[i].span] /\ t[k].says = "def"
    BY <1>4, <2>1, ClassHeader
  <2>3. k \in 1..Len(t) - 1 /\ k \in 1..Len(t) /\ k <= to
    BY <1>1, <1>4, <2>1, <2>2
  <2>4. BlockEnd(t, i) <= BlockEnd(t, k)
    BY <1>4, <2>1, <2>2, <2>3, ClassEnds
  <2>5. BlockEnd(t, i) \in Nat /\ BlockEnd(t, k) \in Nat
    BY <2>1, <2>3, BlockEnds
  <2>6. BlockEnd(t, k) >= from
    BY <1>4, <2>4, <2>5
  <2>7. QED
    BY <2>2, <2>3, <2>6 DEF SpansAt
<1>5. WithClasses(SpansAt(t, from, to))
  <2>1. SUFFICES ASSUME NEW id \in SpansAt(t, from, to), ClassOf[id] # NoSpan
                 PROVE  ClassOf[id] \in SpansAt(t, from, to)
    BY DEF WithClasses
  <2>2. PICK i \in 1..Len(t) - 1 : i <= to /\ BlockEnd(t, i) >= from /\ id = t[i].span
    BY DEF SpansAt
  <2>3. QED
    BY <1>4, <2>1, <2>2
<1>6. QED
  BY <1>3, <1>5

\* What is asked for by lines is found by them.
LEMMA AskedIsFound ==
  ASSUME NEW t \in Contents, NEW within \in Contents, NEW from \in Int, NEW to \in Int
  PROVE  SpansOf(t, from, to, within) \subseteq SpansAt(within, from, to) \cap IdsIn(t)
<1>1. /\ DOMAIN t = 1..Len(t) /\ Len(within) \in Nat
  BY ContentsFormed
<1>2. ASSUME NEW id \in SpansOf(t, from, to, within)
      PROVE  id \in SpansAt(within, from, to) \cap IdsIn(t)
  <2>1. PICK i \in from..to \cap DOMAIN t :
          i < Len(within) /\ within[i].span = t[i].span /\ id = t[i].span
    BY DEF SpansOf
  <2>2. i \in DOMAIN t /\ i \in 1..Len(within) - 1 /\ i \in 1..Len(within) /\ from <= i /\ i <= to
    BY <1>1, <2>1
  <2>3. BlockEnd(within, i) \in Nat /\ BlockEnd(within, i) >= i
    BY <2>2, BlockEnds
  <2>4. BlockEnd(within, i) >= from
    BY <2>2, <2>3
  <2>5. QED
    BY <2>1, <2>2, <2>4 DEF SpansAt, IdsIn
<1>3. QED
  BY <1>2

\* Spans are added with their classes.
LEMMA AddedWithClasses ==
  ASSUME NEW t, NEW seen \in SUBSET Spans, NEW ids, WithClasses(seen), IdsIn(t) \subseteq Spans
  PROVE  /\ WithSpans(t, seen, ids) \subseteq Spans /\ WithClasses(WithSpans(t, seen, ids))
         /\ seen \subseteq WithSpans(t, seen, ids)
         /\ ids \cap IdsIn(t) \subseteq WithSpans(t, seen, ids)
<1> DEFINE there   == ids \cap IdsIn(t)
           classes == {ClassOf[id] : id \in there \ seen} \ (seen \cup there \cup {NoSpan})
           first   == {id \in Constructors \cap IdsIn(t) : ClassOf[id] \in classes}
<1>1. WithSpans(t, seen, ids) = seen \cup there \cup classes \cup first
  BY DEF WithSpans
<1>2. there \subseteq Spans /\ first \subseteq Spans
  OBVIOUS
<1>3. \A id \in classes : id \in Spans /\ ClassOf[id] = NoSpan
  <2>1. SUFFICES ASSUME NEW id \in there \ seen, ClassOf[id] # NoSpan
                 PROVE  ClassOf[id] \in Spans /\ ClassOf[ClassOf[id]] = NoSpan
    OBVIOUS
  <2>2. QED
    BY <1>2, <2>1, ClassesKnown
<1>4. \A id \in there : ClassOf[id] \in seen \cup there \cup classes \cup {NoSpan}
  BY DEF WithClasses
<1>5. \A id \in first : ClassOf[id] \in classes
  OBVIOUS
<1>6. \A id \in seen : ClassOf[id] \in seen \cup {NoSpan}
  BY DEF WithClasses
<1> HIDE DEF there, classes, first
<1>7. WithClasses(seen \cup there \cup classes \cup first)
  BY <1>3, <1>4, <1>5, <1>6 DEF WithClasses
<1>8. QED
  BY <1>1, <1>2, <1>3, <1>7 DEF there

\* What the module of the file, and what is visible, keep.
SpansInv ==
  /\ repoText \in Contents /\ fileText \in Contents /\ parsed \in Contents \cup {Unparsed}
  /\ visible \subseteq Spans /\ asked \subseteq Spans
  /\ spanEdits \in 0..MaxChanges /\ opened \in BOOLEAN /\ allVisible \in BOOLEAN
  /\ ModuleIsCurrent /\ ClassIsSeen /\ AskedIsSeen

LEMMA ParsedKnown ==
  ASSUME SpansInv
  PROVE  /\ Parsed \in Contents /\ IdsIn(Parsed) \subseteq Spans /\ IdsIn(repoText) \subseteq Spans
         /\ IdsIn(fileText) \subseteq Spans
         /\ Parsed = fileText \/ fileText = repoText
<1>1. Parsed \in Contents
  BY DEF SpansInv, Parsed
<1>2. \A t \in Contents : IdsIn(t) \subseteq Spans
  BY ContentsFormed DEF IdsIn, TextLine
<1>3. Unparsed \notin Contents
  BY ContentsFormed DEF Unparsed
<1>4. QED
  BY <1>1, <1>2, <1>3 DEF SpansInv, Parsed, ModuleIsCurrent

\* An edit, with whatever module was there.
LEMMA MarkedSpans ==
  ASSUME SpansInv, NEW updated \in Contents, NEW module \in Contents \cup {Unparsed},
         MarkChanges(updated, module)
  PROVE  SpansInv'
<1> DEFINE within == IF module = Unparsed THEN updated ELSE module
           from == Differing(repoText, updated).from
           last == LastChanged(repoText, updated)
<1>1. within \in Contents /\ from \in Int /\ last \in Int
  BY DifferingNumbers DEF SpansInv
<1>2. /\ spanEdits < MaxChanges /\ spanEdits' = spanEdits + 1
      /\ fileText' = updated /\ opened' = TRUE
      /\ visible' = IF updated # repoText THEN visible \cup SpansAt(within, from, last) ELSE visible
      /\ parsed' = IF updated # repoText THEN Unparsed ELSE module
      /\ asked' = IF updated # repoText THEN SpansOf(updated, from, last, within) ELSE {}
      /\ repoText' = repoText /\ allVisible' = allVisible
  BY DEF MarkChanges, ModuleAfter
<1> HIDE DEF within, from, last
<1>3. /\ SpansAt(within, from, last) \subseteq Spans
      /\ WithClasses(SpansAt(within, from, last))
      /\ SpansOf(updated, from, last, within) \subseteq SpansAt(within, from, last)
  BY <1>1, FoundWithClasses, AskedIsFound
<1>4. visible' \subseteq Spans /\ asked' \subseteq visible'
  BY <1>2, <1>3 DEF SpansInv
<1>5. ClassIsSeen'
  BY <1>2, <1>3 DEF SpansInv, ClassIsSeen, WithClasses
<1>6. ModuleIsCurrent' /\ AskedIsSeen'
  BY <1>2, <1>4 DEF ModuleIsCurrent, AskedIsSeen
<1>7. spanEdits' \in 0..MaxChanges
  BY <1>2, VisibleSpansAssumption DEF SpansInv
<1>8. QED
  BY <1>2, <1>4, <1>5, <1>6, <1>7 DEF SpansInv

\* A view of spans, whatever of it the module has.
LEMMA ViewedSpans ==
  ASSUME SpansInv, NEW seen \in SUBSET Spans, NEW ids, WithClasses(seen), visible \subseteq seen,
         AddFileContext(seen, ids), parsed' \in {parsed, Parsed}
  PROVE  /\ visible' \subseteq Spans /\ ClassIsSeen' /\ ModuleIsCurrent'
         /\ seen \subseteq visible' /\ ids \cap IdsIn(Parsed) \subseteq visible'
         /\ AskedIsSeen' /\ asked' \subseteq Spans => SpansInv'
<1>1. Parsed \in Contents /\ IdsIn(Parsed) \subseteq Spans
  BY ParsedKnown
<1>2. /\ visible' = WithSpans(Parsed, seen, ids) /\ opened' = TRUE
      /\ repoText' = repoText /\ fileText' = fileText /\ allVisible' = allVisible
      /\ spanEdits' = spanEdits
  BY DEF AddFileContext
<1>3. /\ visible' \subseteq Spans /\ WithClasses(visible')
      /\ seen \subseteq visible' /\ ids \cap IdsIn(Parsed) \subseteq visible'
  <2>1. QED
    BY <1>1, <1>2, AddedWithClasses
<1>4. ClassIsSeen'
  BY <1>3 DEF ClassIsSeen, WithClasses
<1>5. ModuleIsCurrent'
  BY <1>2 DEF SpansInv, ModuleIsCurrent, Parsed, Unparsed
<1>6. QED
  BY <1>1, <1>2, <1>3, <1>4, <1>5 DEF SpansInv

LEMMA SpansStart == SpansInit => SpansInv
<1> SUFFICES ASSUME SpansInit PROVE SpansInv
  OBVIOUS
<1>1. /\ repoText \in Contents /\ fileText = repoText /\ parsed = Unparsed /\ spanEdits = 0
      /\ visible = {} /\ asked = {} /\ opened = FALSE /\ allVisible = FALSE /\ MaxChanges \in Nat
  BY VisibleSpansAssumption DEF SpansInit
<1>2. ModuleIsCurrent /\ ClassIsSeen /\ AskedIsSeen
  BY <1>1 DEF ModuleIsCurrent, ClassIsSeen, AskedIsSeen
<1>3. spanEdits \in 0..MaxChanges
  BY <1>1
<1>4. /\ fileText \in Contents /\ parsed \in Contents \cup {Unparsed} /\ visible \subseteq Spans
      /\ asked \subseteq Spans /\ opened \in BOOLEAN /\ allVisible \in BOOLEAN
  BY <1>1
<1>5. QED
  BY <1>1, <1>2, <1>3, <1>4 DEF SpansInv

LEMMA SpansStep == SpansInv /\ [SpansNext]_spanVars => SpansInv'
<1> SUFFICES ASSUME SpansInv, [SpansNext]_spanVars PROVE SpansInv'
  OBVIOUS
<1> USE DEF SpansInv
<1>1. /\ Parsed \in Contents /\ IdsIn(Parsed) \subseteq Spans /\ DOMAIN fileText \subseteq Nat
      /\ IdsIn(fileText) \subseteq Spans
  BY ParsedKnown, ContentsFormed
<1>2. visible \in SUBSET Spans /\ WithClasses(visible)
  BY DEF ClassIsSeen, WithClasses
<1>3. ASSUME NEW i \in DOMAIN fileText, NEW j \in DOMAIN fileText, ViewLines(i, j) PROVE SpansInv'
  <2> DEFINE ids == SpansAt(repoText, i, j)
  <2>1. i \in Int /\ j \in Int
    BY <1>1
  <2>2. /\ AddFileContext(visible, ids)
        /\ parsed' = IF ids \subseteq visible THEN parsed ELSE Parsed
        /\ asked' = SpansOf(fileText, i, j, repoText)
    BY <1>3 DEF ViewLines
  <2>3. asked' \subseteq ids \cap IdsIn(fileText)
    BY <2>1, <2>2, AskedIsFound
  <2> HIDE DEF ids
  <2>4. /\ visible \subseteq visible' /\ ids \cap IdsIn(Parsed) \subseteq visible'
        /\ AskedIsSeen' /\ asked' \subseteq Spans => SpansInv'
    BY <1>2, <2>2, ViewedSpans
  <2>5. AskedIsSeen'
    <3>1. CASE ids \subseteq visible
      BY <2>3, <2>4, <3>1 DEF AskedIsSeen
    <3>2. CASE ~(ids \subseteq visible)
      <4>1. parsed' = Parsed /\ Parsed # Unparsed /\ fileText' = fileText
        BY <1>1, <2>2, <3>2, ContentsFormed DEF Unparsed, AddFileContext
      <4>2. QED
        BY <2>3, <2>4, <4>1 DEF AskedIsSeen, Unparsed
    <3>3. QED
      BY <3>1, <3>2
  <2>6. QED
    BY <1>1, <2>3, <2>4, <2>5
<1>4. ASSUME NEW i \in DOMAIN fileText, NEW j \in DOMAIN fileText, ReadFile(i, j) PROVE SpansInv'
  <2>1. i \in Int /\ j \in Int
    BY <1>1
  <2>2. /\ visible' = visible \cup SpansAt(Parsed, i, j)
        /\ parsed' = Parsed /\ opened' = TRUE
        /\ asked' = SpansOf(fileText, i, j, Parsed)
        /\ UNCHANGED <<repoText, fileText, allVisible, spanEdits>>
    BY <1>4 DEF ReadFile
  <2>3. /\ SpansAt(Parsed, i, j) \subseteq Spans /\ WithClasses(SpansAt(Parsed, i, j))
        /\ SpansOf(fileText, i, j, Parsed) \subseteq SpansAt(Parsed, i, j)
    BY <1>1, <2>1, FoundWithClasses, AskedIsFound
  <2>4. visible' \subseteq Spans /\ asked' \subseteq visible'
    BY <2>2, <2>3
  <2>5. ClassIsSeen'
    BY <2>2, <2>3 DEF ClassIsSeen, WithClasses
  <2>6. ModuleIsCurrent' /\ AskedIsSeen'
    BY <2>2, <2>4 DEF ModuleIsCurrent, AskedIsSeen, Parsed, Unparsed
  <2>7. QED
    BY <1>1, <2>2, <2>4, <2>5, <2>6
<1>5. ASSUME NEW i \in DOMAIN fileText, InsertLines(i) PROVE SpansInv'
  <2>1. PICK updated \in Contents : MarkChanges(updated, IF allVisible THEN parsed ELSE Parsed)
    BY <1>5 DEF InsertLines
  <2>2. (IF allVisible THEN parsed ELSE Parsed) \in Contents \cup {Unparsed}
    BY <1>1
  <2>3. QED
    BY <2>1, <2>2, MarkedSpans
<1>6. ASSUME NEW id \in Spans, ViewSpan(id) PROVE SpansInv'
  <2> DEFINE parts == {i \in IdsIn(Parsed) : id = ClassOf[i]}
             ids == IdsIn(repoText) \cap
                      ({id} \cup parts \cup IF parts = {} THEN {} ELSE {ImportSpan})
  <2>1. AddFileContext(visible, ids) /\ parsed' = Parsed /\ asked' = {}
    BY <1>6 DEF ViewSpan
  <2> HIDE DEF ids
  <2>2. AskedIsSeen' /\ asked' \subseteq Spans => SpansInv'
    BY <1>2, <2>1, ViewedSpans
  <2>3. QED
    BY <2>1, <2>2 DEF AskedIsSeen
<1>7. ASSUME NEW id \in Spans, SearchSpan(id) PROVE SpansInv'
  <2> DEFINE seen == IF opened THEN visible ELSE visible \cup ({ImportSpan} \cap IdsIn(fileText))
  <2>1. AddFileContext(seen, {id}) /\ parsed' = Parsed /\ asked' = {}
    BY <1>7 DEF SearchSpan
  <2>2. seen \in SUBSET Spans /\ WithClasses(seen) /\ visible \subseteq seen
    BY <1>2, VisibleSpansAssumption DEF WithClasses
  <2> HIDE DEF seen
  <2>3. AskedIsSeen' /\ asked' \subseteq Spans => SpansInv'
    BY <2>1, <2>2, ViewedSpans
  <2>4. QED
    BY <2>1, <2>3 DEF AskedIsSeen
<1>8. CASE ReplaceLines
  <2>1. PICK updated \in Contents : MarkChanges(updated, IF allVisible THEN parsed ELSE Parsed)
    BY <1>8 DEF ReplaceLines
  <2>2. (IF allVisible THEN parsed ELSE Parsed) \in Contents \cup {Unparsed}
    BY <1>1
  <2>3. QED
    BY <2>1, <2>2, MarkedSpans
<1>9. CASE AppendLines
  <2>1. PICK updated \in Contents : MarkChanges(updated, parsed)
    BY <1>9 DEF AppendLines
  <2>2. QED
    BY <2>1, MarkedSpans
<1>10. CASE ViewFile
  BY <1>10 DEF ViewFile, ModuleIsCurrent, ClassIsSeen, AskedIsSeen
<1>11. CASE Prompt
  BY <1>1, <1>11 DEF Prompt, ModuleIsCurrent, ClassIsSeen, AskedIsSeen, Parsed, Unparsed
<1>12. CASE CloneFile
  BY <1>12 DEF CloneFile, ModuleIsCurrent, ClassIsSeen, AskedIsSeen
<1>13. CASE RemoveFile
  BY <1>13 DEF RemoveFile, ModuleIsCurrent, ClassIsSeen, AskedIsSeen
<1>14. CASE UNCHANGED spanVars
  BY <1>14 DEF spanVars, ModuleIsCurrent, ClassIsSeen, AskedIsSeen
<1>15. QED
  BY <1>3, <1>4, <1>5, <1>6, <1>7, <1>8, <1>9, <1>10, <1>11, <1>12, <1>13, <1>14 DEF SpansNext

LEMMA SpansInvariant == SpansSpec => []SpansInv
  BY SpansStart, SpansStep, PTL DEF SpansSpec

\* Every reachable state of VisibleSpans is type correct.
THEOREM SpansTypeCorrect == SpansSpec => []SpansTypeOK
<1>1. SpansInv => SpansTypeOK
  BY DEF SpansInv, SpansTypeOK
<1>2. QED
  BY <1>1, SpansInvariant, PTL

--------------------------------------------------------------------------------
(* What a file says                                                            *)

TextChar == Lines \cup {Char}

LEMMA TextParts ==
  ASSUME NEW t \in Text
  PROVE  /\ t \in Seq(TextChar) /\ Len(t) \in Nat /\ DOMAIN t = 1..Len(t)
         /\ \A i \in 1..Len(t) : t[i] \in TextChar
         /\ t = <<>> <=> Len(t) = 0
  BY SeqParts DEF Text, TextChar

\* A piece of a text.
LEMMA TextPiece ==
  ASSUME NEW t \in Text, NEW m \in Nat, NEW n \in Nat, m <= n, n <= Len(t)
  PROVE  /\ SubSeq(t, m + 1, n) \in Text /\ Len(SubSeq(t, m + 1, n)) = n - m
         /\ \A i \in 1..n - m : SubSeq(t, m + 1, n)[i] = t[m + i]
<1>1. \A i \in m + 1..n : t[i] \in TextChar
  BY TextParts
<1>2. /\ SubSeq(t, m + 1, n) \in Seq(TextChar)
      /\ Len(SubSeq(t, m + 1, n)) = IF m + 1 <= n THEN n - (m + 1) + 1 ELSE 0
      /\ \A i \in 1..n - (m + 1) + 1 : SubSeq(t, m + 1, n)[i] = t[m + 1 + i - 1]
  BY <1>1, SubSeqProperties
<1>3. n - (m + 1) + 1 = n - m /\ \A i \in Int : m + 1 + i - 1 = m + i
  OBVIOUS
<1>4. Len(SubSeq(t, m + 1, n)) = n - m
  BY <1>2
<1>5. \A i \in 1..n - m : SubSeq(t, m + 1, n)[i] = t[m + i]
  BY <1>2, <1>3
<1>6. QED
  BY <1>2, <1>4, <1>5 DEF Text, TextChar

LEMMA TextStart ==
  ASSUME NEW t \in Text, NEW n \in Nat, n <= Len(t)
  PROVE  /\ SubSeq(t, 1, n) \in Text /\ Len(SubSeq(t, 1, n)) = n
         /\ \A i \in 1..n : SubSeq(t, 1, n)[i] = t[i]
<1>1. /\ SubSeq(t, 0 + 1, n) \in Text /\ Len(SubSeq(t, 0 + 1, n)) = n - 0
      /\ \A i \in 1..n - 0 : SubSeq(t, 0 + 1, n)[i] = t[0 + i]
  BY TextPiece
<1>2. n - 0 = n /\ 0 + 1 = 1 /\ \A i \in 1..n : 0 + i = i
  OBVIOUS
<1>3. QED
  BY <1>1, <1>2

LEMMA TextEqual ==
  ASSUME NEW s \in Text, NEW t \in Text, Len(s) = Len(t), \A i \in 1..Len(s) : s[i] = t[i]
  PROVE  s = t
  BY TextParts, SeqEqual

LEMMA TextsJoined ==
  ASSUME NEW s \in Text, NEW t \in Text
  PROVE  /\ s \o t \in Text /\ Len(s \o t) = Len(s) + Len(t)
         /\ \A i \in 1..Len(s) : (s \o t)[i] = s[i]
         /\ \A i \in 1..Len(t) : (s \o t)[Len(s) + i] = t[i]
<1>1. s \in Seq(TextChar) /\ t \in Seq(TextChar) /\ Len(s) \in Nat /\ Len(t) \in Nat
  BY TextParts
<1>2. /\ s \o t \in Seq(TextChar) /\ Len(s \o t) = Len(s) + Len(t)
      /\ \A i \in 1..Len(s) + Len(t) : (s \o t)[i] = IF i <= Len(s) THEN s[i] ELSE t[i - Len(s)]
  BY <1>1, ConcatProperties
<1>3. \A i \in 1..Len(s) : (s \o t)[i] = s[i]
  BY <1>1, <1>2
<1>4. ASSUME NEW i \in 1..Len(t) PROVE (s \o t)[Len(s) + i] = t[i]
  <2>1. Len(s) + i \in 1..Len(s) + Len(t) /\ ~(Len(s) + i <= Len(s)) /\ Len(s) + i - Len(s) = i
    BY <1>1
  <2>2. QED
    BY <1>2, <2>1
<1>5. QED
  BY <1>2, <1>3, <1>4 DEF Text, TextChar

\* A text is what another one has from one line to another.
Piece(t, w, m, n) ==
  /\ t \in Text /\ m \in Nat /\ n \in Nat /\ m <= n /\ Len(t) = n - m
  /\ \A i \in 1..n - m : t[i] = w[m + i]

\* Two pieces that follow each other are one.
LEMMA JoinedPieces ==
  ASSUME NEW s, NEW t, NEW w, NEW k, NEW m, NEW n, Piece(s, w, k, m), Piece(t, w, m, n)
  PROVE  Piece(s \o t, w, k, n)
<1>1. /\ s \in Text /\ t \in Text /\ k \in Nat /\ m \in Nat /\ n \in Nat /\ k <= m /\ m <= n
      /\ Len(s) = m - k /\ Len(t) = n - m
      /\ (\A i \in 1..m - k : s[i] = w[k + i]) /\ \A i \in 1..n - m : t[i] = w[m + i]
  BY DEF Piece
<1>2. /\ s \o t \in Text /\ Len(s \o t) = Len(s) + Len(t)
      /\ \A i \in 1..Len(s) : (s \o t)[i] = s[i]
      /\ \A i \in 1..Len(t) : (s \o t)[Len(s) + i] = t[i]
  BY <1>1, TextsJoined
<1>3. Len(s \o t) = n - k /\ k <= n
  BY <1>1, <1>2
<1>4. ASSUME NEW i \in 1..n - k PROVE (s \o t)[i] = w[k + i]
  <2>1. CASE i <= m - k
    BY <1>1, <1>2, <2>1
  <2>2. CASE i > m - k
    <3> DEFINE j == i - (m - k)
    <3>1. k \in Nat /\ m \in Nat /\ n \in Nat /\ k <= m /\ m <= n /\ Len(s) = m - k
      BY <1>1
    <3>2. j \in 1..n - m /\ Len(s) + j = i /\ m + j = k + i
      BY <2>2, <3>1
    <3> HIDE DEF j
    <3>3. QED
      BY <1>1, <1>2, <3>2
  <2>3. QED
    BY <1>1, <2>1, <2>2
<1>5. QED
  BY <1>1, <1>2, <1>3, <1>4 DEF Piece

LEMMA WholePiece ==
  ASSUME NEW t, NEW w \in Text, Piece(t, w, 0, Len(w))
  PROVE  t = w
<1>1. Len(w) \in Nat
  BY TextParts
<1>2. t \in Text /\ Len(t) = Len(w) /\ \A i \in 1..Len(w) : t[i] = w[i]
  <2>1. Len(w) - 0 = Len(w) /\ \A i \in 1..Len(w) : 0 + i = i
    BY <1>1
  <2>2. QED
    BY <2>1 DEF Piece
<1>3. QED
  BY <1>2, TextEqual

LEMMA PrefixAlike ==
  ASSUME NEW x \in Text, NEW y \in Text
  PROVE  /\ CommonPrefix(x, y) \in Nat /\ CommonPrefix(x, y) <= Len(x)
         /\ CommonPrefix(x, y) <= Len(y)
         /\ \A i \in 1..CommonPrefix(x, y) : x[i] = y[i]
<1> DEFINE N == {n \in 0..Least(Len(x), Len(y)) : SubSeq(x, 1, n) = SubSeq(y, 1, n)}
<1>1. Len(x) \in Nat /\ Len(y) \in Nat
  BY TextParts
<1>2. /\ Least(Len(x), Len(y)) \in Nat /\ Least(Len(x), Len(y)) <= Len(x)
      /\ Least(Len(x), Len(y)) <= Len(y)
  BY <1>1 DEF Least
<1>3. 0 \in N
  <2>1. SubSeq(x, 1, 0) = <<>> /\ SubSeq(y, 1, 0) = <<>>
    BY SubSeqEmpty
  <2>2. QED
    BY <1>2, <2>1
<1>4. N \subseteq 0..Least(Len(x), Len(y))
  OBVIOUS
<1>5. CommonPrefix(x, y) = Max(N)
  BY DEF CommonPrefix
<1>6. Max(N) \in N
  <2> HIDE DEF N
  <2>1. N # {}
    BY <1>3
  <2>2. QED
    BY <1>2, <1>4, <2>1, MaxBounds
<1>7. PICK n \in Nat : /\ n = CommonPrefix(x, y) /\ n <= Len(x) /\ n <= Len(y)
                       /\ SubSeq(x, 1, n) = SubSeq(y, 1, n)
  <2>1. /\ CommonPrefix(x, y) \in 0..Least(Len(x), Len(y))
        /\ SubSeq(x, 1, CommonPrefix(x, y)) = SubSeq(y, 1, CommonPrefix(x, y))
    BY <1>5, <1>6
  <2>2. CommonPrefix(x, y) \in Nat /\ CommonPrefix(x, y) <= Len(x) /\ CommonPrefix(x, y) <= Len(y)
    BY <1>1, <1>2, <2>1
  <2>3. QED
    BY <2>1, <2>2
<1>8. /\ \A i \in 1..n - 0 : SubSeq(x, 0 + 1, n)[i] = x[0 + i]
      /\ \A i \in 1..n - 0 : SubSeq(y, 0 + 1, n)[i] = y[0 + i]
  BY <1>7, TextPiece
<1>9. \A i \in 1..n : x[i] = y[i]
  <2>1. ASSUME NEW i \in 1..n PROVE x[i] = y[i]
    <3>1. i \in 1..n - 0 /\ 0 + 1 = 1 /\ 0 + i = i
      OBVIOUS
    <3>2. QED
      BY <1>7, <1>8, <3>1
  <2>2. QED
    BY <2>1
<1>10. QED
  BY <1>7, <1>9

LEMMA Reversed ==
  ASSUME NEW t \in Text
  PROVE  /\ Reverse(t) \in Text /\ Len(Reverse(t)) = Len(t)
         /\ \A i \in 1..Len(t) : Reverse(t)[i] = t[Len(t) - i + 1]
<1>1. Len(t) \in Nat /\ \A i \in 1..Len(t) : t[i] \in TextChar
  BY TextParts
<1> DEFINE r == [i \in 1..Len(t) |-> t[(Len(t) - i) + 1]]
<1>2. \A i \in 1..Len(t) : t[(Len(t) - i) + 1] \in TextChar
  BY <1>1
<1>3. r = [i \in 1..Len(t) |-> r[i]] /\ \A i \in 1..Len(t) : r[i] \in TextChar
  BY <1>2
<1>4. \A i \in 1..Len(t) : r[i] = t[Len(t) - i + 1]
  OBVIOUS
<1>5. Reverse(t) = r
  BY DEF Reverse
<1> HIDE DEF r
<1>6. r \in Seq(TextChar) /\ Len(r) = Len(t)
  BY <1>1, <1>3, SeqMade
<1>7. QED
  BY <1>4, <1>5, <1>6 DEF Text, TextChar

\* Two texts that begin with p lines that are alike, and end with s others.
Alike(old, new, p, s) ==
  /\ p \in Nat /\ s \in Nat /\ p + s <= Len(old) /\ p + s <= Len(new)
  /\ \A i \in 1..p : old[i] = new[i]
  /\ \A k \in 1..s : old[Len(old) - k + 1] = new[Len(new) - k + 1]

\* The hunk that leaves these lines.
HunkOf(old, new, p, s) ==
  [at |-> p - Least(p, Hunk),
   before |-> SubSeq(old, p - Least(p, Hunk) + 1, p),
   gone |-> SubSeq(old, p + 1, Len(old) - s),
   added |-> SubSeq(new, p + 1, Len(new) - s),
   after |-> SubSeq(old, Len(old) - s + 1, Len(old) - s + Least(s, Hunk))]

\* All but the last lines of all but the first.
LEMMA Middle ==
  ASSUME NEW t \in Text, NEW p \in Nat, NEW s \in Nat, p + s <= Len(t)
  PROVE  But(After(t, p), s) = SubSeq(t, p + 1, Len(t) - s)
<1>1. Len(t) \in Nat
  BY TextParts
<1>2. /\ After(t, p) \in Text /\ Len(After(t, p)) = Len(t) - p
      /\ \A i \in 1..Len(t) - p : After(t, p)[i] = t[p + i]
  BY <1>1, TextPiece DEF After
<1>3. Len(t) - p - s \in Nat /\ Len(t) - s \in Nat /\ p <= Len(t) - s /\ Len(t) - s <= Len(t)
  BY <1>1
<1> DEFINE u == After(t, p)
           n == Len(t) - p - s
<1>4. But(u, s) = SubSeq(u, 1, n)
  BY <1>2 DEF But
<1>5. n <= Len(u) /\ n \in Nat /\ u \in Text
  BY <1>1, <1>2, <1>3
<1>6. /\ SubSeq(u, 1, n) \in Text /\ Len(SubSeq(u, 1, n)) = n
      /\ \A i \in 1..n : SubSeq(u, 1, n)[i] = u[i]
  <2> HIDE DEF u, n
  <2>1. /\ SubSeq(u, 0 + 1, n) \in Text /\ Len(SubSeq(u, 0 + 1, n)) = n - 0
        /\ \A i \in 1..n - 0 : SubSeq(u, 0 + 1, n)[i] = u[0 + i]
    BY <1>5, TextPiece
  <2>2. n - 0 = n /\ 0 + 1 = 1 /\ \A i \in 1..n : 0 + i = i
    BY <1>5
  <2>3. QED
    BY <2>1, <2>2
<1>7. /\ SubSeq(t, p + 1, Len(t) - s) \in Text /\ Len(SubSeq(t, p + 1, Len(t) - s)) = Len(t) - s - p
      /\ \A i \in 1..Len(t) - s - p : SubSeq(t, p + 1, Len(t) - s)[i] = t[p + i]
  BY <1>3, TextPiece
<1>8. Len(t) - s - p = n /\ \A i \in 1..n : i \in 1..Len(t) - p
  BY <1>1
<1>9. \A i \in 1..n : SubSeq(u, 1, n)[i] = SubSeq(t, p + 1, Len(t) - s)[i]
  BY <1>2, <1>6, <1>7, <1>8
<1>10. SubSeq(u, 1, n) = SubSeq(t, p + 1, Len(t) - s)
  <2> HIDE DEF u, n
  <2>1. QED
    BY <1>6, <1>7, <1>8, <1>9, TextEqual
<1>11. QED
  BY <1>4, <1>10

\* A difference is such a hunk.
LEMMA DifferenceHunk ==
  ASSUME NEW old \in Text, NEW new \in Text, old # new
  PROVE  \E p, s \in Nat : Alike(old, new, p, s) /\ Difference(old, new) = HunkOf(old, new, p, s)
<1> DEFINE p == CommonPrefix(old, new)
           u == After(old, p)
           v == After(new, p)
           s == CommonPrefix(Reverse(u), Reverse(v))
<1>1. Len(old) \in Nat /\ Len(new) \in Nat
  BY TextParts
<1>2. p \in Nat /\ p <= Len(old) /\ p <= Len(new) /\ \A i \in 1..p : old[i] = new[i]
  BY PrefixAlike
<1>3. /\ u \in Text /\ Len(u) = Len(old) - p /\ \A i \in 1..Len(old) - p : u[i] = old[p + i]
      /\ v \in Text /\ Len(v) = Len(new) - p /\ \A i \in 1..Len(new) - p : v[i] = new[p + i]
  <2> HIDE DEF p
  <2>1. QED
    BY <1>1, <1>2, TextPiece DEF After
<1>4. /\ Reverse(u) \in Text /\ Len(Reverse(u)) = Len(u)
      /\ \A i \in 1..Len(u) : Reverse(u)[i] = u[Len(u) - i + 1]
      /\ Reverse(v) \in Text /\ Len(Reverse(v)) = Len(v)
      /\ \A i \in 1..Len(v) : Reverse(v)[i] = v[Len(v) - i + 1]
  <2> HIDE DEF u, v
  <2>1. QED
    BY <1>3, Reversed
<1>5. s \in Nat /\ s <= Len(u) /\ s <= Len(v) /\ \A i \in 1..s : Reverse(u)[i] = Reverse(v)[i]
  <2> HIDE DEF u, v
  <2>1. QED
    BY <1>4, PrefixAlike
<1>6. p + s <= Len(old) /\ p + s <= Len(new)
  <2> HIDE DEF p, s, u, v
  <2>1. QED
    BY <1>1, <1>2, <1>3, <1>5
<1>7. \A k \in 1..s : old[Len(old) - k + 1] = new[Len(new) - k + 1]
  <2> HIDE DEF p, s, u, v
  <2>1. ASSUME NEW k \in 1..s PROVE old[Len(old) - k + 1] = new[Len(new) - k + 1]
    <3>1. k \in 1..Len(u) /\ k \in 1..Len(v)
      BY <1>1, <1>2, <1>3, <1>5
    <3>2. u[Len(u) - k + 1] = v[Len(v) - k + 1]
      BY <1>4, <1>5, <3>1
    <3>3. /\ Len(u) - k + 1 \in 1..Len(old) - p /\ p + (Len(u) - k + 1) = Len(old) - k + 1
          /\ Len(v) - k + 1 \in 1..Len(new) - p /\ p + (Len(v) - k + 1) = Len(new) - k + 1
      BY <1>1, <1>2, <1>3, <3>1
    <3>4. QED
      BY <1>3, <3>2, <3>3
  <2>2. QED
    BY <2>1
<1>8. Alike(old, new, p, s)
  BY <1>2, <1>5, <1>6, <1>7 DEF Alike
<1>9. Difference(old, new) =
        [at |-> p - Least(p, Hunk), before |-> SubSeq(old, p - Least(p, Hunk) + 1, p),
         gone |-> But(u, s), added |-> But(v, s),
         after |-> SubSeq(old, Len(old) - s + 1, Len(old) - s + Least(s, Hunk))]
  BY DEF Difference
<1>10. /\ But(u, s) = SubSeq(old, p + 1, Len(old) - s)
       /\ But(v, s) = SubSeq(new, p + 1, Len(new) - s)
  <2> HIDE DEF p, s
  <2>1. QED
    BY <1>2, <1>5, <1>6, Middle
<1> HIDE DEF p, s, u, v
<1>11. Difference(old, new) = HunkOf(old, new, p, s)
  BY <1>9, <1>10 DEF HunkOf
<1>12. QED
  BY <1>2, <1>5, <1>8, <1>11

\* What the pieces of a hunk are.
HunkShape(P, old, new, p, s) ==
  LET a == p - Least(p, Hunk)
      h == Least(s, Hunk)
  IN  /\ a \in Nat /\ a <= p /\ (p # 0 => a < p) /\ h \in Nat /\ h <= s /\ (s # 0 => h # 0)
      /\ P.at = a
      /\ P.before \in Text /\ Len(P.before) = p - a
      /\ \A i \in 1..p - a : P.before[i] = old[a + i]
      /\ P.gone \in Text /\ Len(P.gone) = Len(old) - s - p
      /\ \A i \in 1..Len(old) - s - p : P.gone[i] = old[p + i]
      /\ P.added \in Text /\ Len(P.added) = Len(new) - s - p
      /\ \A i \in 1..Len(new) - s - p : P.added[i] = new[p + i]
      /\ P.after \in Text /\ Len(P.after) = h
      /\ \A i \in 1..h : P.after[i] = old[Len(old) - s + i]

LEMMA HunkParts ==
  ASSUME NEW old \in Text, NEW new \in Text, NEW p, NEW s, Alike(old, new, p, s)
  PROVE  HunkShape(HunkOf(old, new, p, s), old, new, p, s)
<1> DEFINE P == HunkOf(old, new, p, s)
           a == p - Least(p, Hunk)
           h == Least(s, Hunk)
<1>1. Len(old) \in Nat /\ Len(new) \in Nat
  BY TextParts
<1>2. p \in Nat /\ s \in Nat /\ p + s <= Len(old) /\ p + s <= Len(new)
  BY DEF Alike
<1>3. a \in Nat /\ a <= p /\ (p # 0 => a < p) /\ h \in Nat /\ h <= s /\ (s # 0 => h # 0)
  <2>1. Hunk \in Nat \ {0}
    BY FileContextAssumption
  <2>2. QED
    BY <1>2, <2>1 DEF Least
<1>4. /\ P.at = a /\ P.before = SubSeq(old, a + 1, p)
      /\ P.gone = SubSeq(old, p + 1, Len(old) - s) /\ P.added = SubSeq(new, p + 1, Len(new) - s)
      /\ P.after = SubSeq(old, Len(old) - s + 1, Len(old) - s + h)
  BY DEF HunkOf
<1> HIDE DEF P, a, h
<1>5. /\ Len(old) - s \in Nat /\ p <= Len(old) - s /\ Len(old) - s <= Len(old)
      /\ Len(new) - s \in Nat /\ p <= Len(new) - s /\ Len(new) - s <= Len(new)
      /\ p <= Len(old) /\ Len(old) - s + h \in Nat /\ Len(old) - s <= Len(old) - s + h
      /\ Len(old) - s + h <= Len(old) /\ Len(old) - s + h - (Len(old) - s) = h
  BY <1>1, <1>2, <1>3
<1>6. /\ P.before \in Text /\ Len(P.before) = p - a
      /\ \A i \in 1..p - a : P.before[i] = old[a + i]
  BY <1>2, <1>3, <1>4, <1>5, TextPiece
<1>7. /\ P.gone \in Text /\ Len(P.gone) = Len(old) - s - p
      /\ \A i \in 1..Len(old) - s - p : P.gone[i] = old[p + i]
  <2> DEFINE n == Len(old) - s
  <2>1. n \in Nat /\ p <= n /\ n <= Len(old) /\ P.gone = SubSeq(old, p + 1, n)
    BY <1>4, <1>5
  <2> HIDE DEF n
  <2>2. P.gone \in Text /\ Len(P.gone) = n - p /\ \A i \in 1..n - p : P.gone[i] = old[p + i]
    BY <1>2, <2>1, TextPiece
  <2>3. QED
    BY <2>2 DEF n
<1>8. /\ P.added \in Text /\ Len(P.added) = Len(new) - s - p
      /\ \A i \in 1..Len(new) - s - p : P.added[i] = new[p + i]
  <2> DEFINE n == Len(new) - s
  <2>1. n \in Nat /\ p <= n /\ n <= Len(new) /\ P.added = SubSeq(new, p + 1, n)
    BY <1>4, <1>5
  <2> HIDE DEF n
  <2>2. P.added \in Text /\ Len(P.added) = n - p /\ \A i \in 1..n - p : P.added[i] = new[p + i]
    BY <1>2, <2>1, TextPiece
  <2>3. QED
    BY <2>2 DEF n
<1>9. /\ P.after \in Text /\ Len(P.after) = h
      /\ \A i \in 1..h : P.after[i] = old[Len(old) - s + i]
  <2> DEFINE m == Len(old) - s
             n == Len(old) - s + h
  <2>1. m \in Nat /\ n \in Nat /\ m <= n /\ n <= Len(old) /\ n - m = h
    BY <1>1, <1>2, <1>3
  <2>2. P.after = SubSeq(old, m + 1, n)
    BY <1>4
  <2> HIDE DEF m, n
  <2>3. /\ P.after \in Text /\ Len(P.after) = n - m
        /\ \A i \in 1..n - m : P.after[i] = old[m + i]
    BY <2>1, <2>2, TextPiece
  <2>4. QED
    BY <2>1, <2>3 DEF m
<1>10. QED
  BY <1>3, <1>4, <1>6, <1>7, <1>8, <1>9 DEF P, a, h, HunkShape

\* A text that has the lines of a hunk where the hunk has them, and as many lines.
LEMMA Rebuilt ==
  ASSUME NEW old \in Text, NEW new \in Text, NEW p, NEW s, Alike(old, new, p, s),
         NEW c \in {old, new}, Len(c) = Len(old)
  PROVE  Apply(c, HunkOf(old, new, p, s)) = new
<1> DEFINE P == HunkOf(old, new, p, s)
           a == p - Least(p, Hunk)
           h == Least(s, Hunk)
           g == Len(old) - s
           A == SubSeq(c, 1, a)
           B == P.before
           D == P.added
           E == After(c, g)
<1>1. c \in Text /\ Len(c) \in Nat /\ Len(new) \in Nat /\ Len(old) \in Nat
  BY TextParts
<1>2. /\ p \in Nat /\ s \in Nat /\ p + s <= Len(old) /\ p + s <= Len(new)
      /\ \A i \in 1..p : old[i] = new[i]
      /\ \A k \in 1..s : old[Len(old) - k + 1] = new[Len(new) - k + 1]
  BY DEF Alike
<1>3. /\ a \in Nat /\ a <= p /\ h \in Nat /\ h <= s
      /\ P.at = a
      /\ B \in Text /\ Len(B) = p - a /\ \A i \in 1..p - a : B[i] = old[a + i]
      /\ Len(P.gone) = Len(old) - s - p
      /\ D \in Text /\ Len(D) = Len(new) - s - p
      /\ \A i \in 1..Len(new) - s - p : D[i] = new[p + i]
      /\ P.after \in Text /\ Len(P.after) = h
      /\ \A i \in 1..h : P.after[i] = old[Len(old) - s + i]
  BY HunkParts DEF HunkShape
<1>4. \A i \in 1..p : c[i] = new[i] /\ c[i] = old[i]
  BY <1>2
<1>5. \A k \in 1..s : c[g + k] = old[g + k] /\ c[g + k] = new[Len(new) - s + k]
  <2>1. ASSUME NEW k \in 1..s
        PROVE  c[g + k] = old[g + k] /\ old[g + k] = new[Len(new) - s + k]
    <3> DEFINE j == s - k + 1
    <3>1. j \in 1..s /\ g + k = Len(old) - j + 1 /\ Len(new) - s + k = Len(new) - j + 1
      BY <1>1, <1>2
    <3>2. old[g + k] = new[Len(new) - s + k]
      BY <1>2, <3>1
    <3>3. c = new => Len(new) - j + 1 = Len(old) - j + 1
      OBVIOUS
    <3> HIDE DEF g, j
    <3>4. c[g + k] = old[g + k]
      <4>1. CASE c = old
        BY <4>1
      <4>2. CASE c = new
        <5>1. c[g + k] = new[Len(new) - s + k]
          BY <3>1, <3>3, <4>2
        <5>2. QED
          BY <3>2, <5>1
      <4>3. QED
        BY <4>1, <4>2
    <3>5. QED
      BY <3>2, <3>4
  <2>2. QED
    BY <2>1
<1> HIDE DEF P, a, h, B, D
<1>6. /\ g \in Nat /\ g <= Len(c) /\ p <= g /\ g + h <= Len(c) /\ Len(c) - g = s
      /\ g + h - g = h /\ p <= Len(c) /\ a <= Len(c)
      /\ a + Len(B) + Len(P.gone) = g /\ a + Len(B) = p
  <2>1. /\ a \in Nat /\ a <= p /\ h \in Nat /\ h <= s /\ Len(B) = p - a
        /\ Len(P.gone) = Len(old) - s - p
    BY <1>3
  <2>2. QED
    BY <1>1, <1>2, <2>1
<1> HIDE DEF g
<1>7. HunkFits(c, P)
  <2>1. HasAt(c, B, a)
    <3>1. /\ SubSeq(c, a + 1, p) \in Text /\ Len(SubSeq(c, a + 1, p)) = p - a
          /\ \A i \in 1..p - a : SubSeq(c, a + 1, p)[i] = c[a + i]
      BY <1>1, <1>2, <1>3, <1>6, TextPiece
    <3>2. \A i \in 1..p - a : a + i \in 1..p
      BY <1>2, <1>3
    <3>3. \A i \in 1..p - a : SubSeq(c, a + 1, p)[i] = B[i]
      BY <1>3, <1>4, <3>1, <3>2
    <3>4. SubSeq(c, a + 1, p) = B
      BY <1>3, <3>1, <3>3, TextEqual
    <3>5. QED
      BY <1>6, <3>4 DEF HasAt
  <2>2. HasAt(c, P.after, g)
    <3>1. /\ SubSeq(c, g + 1, g + h) \in Text /\ Len(SubSeq(c, g + 1, g + h)) = h
          /\ \A i \in 1..h : SubSeq(c, g + 1, g + h)[i] = c[g + i]
      <4> DEFINE n == g + h
      <4>1. n \in Nat /\ g <= n /\ n <= Len(c) /\ n - g = h
        BY <1>3, <1>6
      <4> HIDE DEF n
      <4>2. /\ SubSeq(c, g + 1, n) \in Text /\ Len(SubSeq(c, g + 1, n)) = n - g
            /\ \A i \in 1..n - g : SubSeq(c, g + 1, n)[i] = c[g + i]
        BY <1>1, <1>6, <4>1, TextPiece
      <4>3. QED
        BY <4>1, <4>2 DEF n
    <3>2. \A i \in 1..h : i \in 1..s
      BY <1>2, <1>3
    <3>3. \A i \in 1..h : SubSeq(c, g + 1, g + h)[i] = P.after[i]
      BY <1>3, <1>5, <3>1, <3>2 DEF g
    <3>4. SubSeq(c, g + 1, g + h) = P.after
      BY <1>3, <3>1, <3>3, TextEqual
    <3>5. QED
      BY <1>3, <1>6, <3>4 DEF HasAt
  <2>3. QED
    BY <1>3, <1>6, <2>1, <2>2 DEF HunkFits, B
<1>8. Patched(c, P) = A \o B \o D \o E
  BY <1>3, <1>6 DEF Patched, B, D
<1>9. A \in Text /\ Len(A) = a /\ \A i \in 1..a : A[i] = c[i]
  BY <1>1, <1>3, <1>6, TextStart
<1>10. E \in Text /\ Len(E) = s /\ \A i \in 1..s : E[i] = c[g + i]
  BY <1>1, <1>6, TextPiece DEF After
<1> HIDE DEF A, E
<1>11. Piece(A, new, 0, a)
  <2>1. \A i \in 1..a : A[i] = new[0 + i]
    BY <1>2, <1>3, <1>4, <1>9
  <2>2. QED
    BY <1>3, <1>9, <2>1 DEF Piece
<1>12. Piece(B, new, a, p)
  <2>1. ASSUME NEW i \in 1..p - a PROVE B[i] = new[a + i]
    <3>1. a \in Nat /\ a <= p /\ B[i] = old[a + i]
      BY <1>3
    <3>2. a + i \in 1..p
      BY <1>2, <3>1
    <3>3. QED
      BY <1>2, <3>1, <3>2
  <2>2. QED
    BY <1>2, <1>3, <2>1 DEF Piece
<1> DEFINE m == Len(new) - s
<1>13. m \in Nat /\ p <= m /\ m <= Len(new) /\ Len(new) - m = s /\ Len(new) - s - p = m - p
  BY <1>1, <1>2
<1>14. Piece(D, new, p, m)
  <2> HIDE DEF m
  <2>1. Len(D) = m - p /\ \A i \in 1..m - p : D[i] = new[p + i]
    BY <1>3, <1>13
  <2>2. QED
    BY <1>2, <1>3, <1>13, <2>1 DEF Piece
<1>15. Piece(E, new, m, Len(new))
  <2>1. \A i \in 1..s : E[i] = new[m + i]
    BY <1>5, <1>10
  <2> HIDE DEF m
  <2>2. QED
    BY <1>1, <1>10, <1>13, <2>1 DEF Piece
<1> HIDE DEF m
<1>16. Piece(A \o B \o D \o E, new, 0, Len(new))
  <2>1. Piece(A \o B, new, 0, p)
    BY <1>11, <1>12, JoinedPieces
  <2>2. Piece((A \o B) \o D, new, 0, m)
    BY <1>14, <2>1, JoinedPieces
  <2>3. QED
    BY <1>15, <2>2, JoinedPieces
<1>17. A \o B \o D \o E = new
  BY <1>16, WholePiece
<1>18. QED
  BY <1>7, <1>8, <1>17 DEF Apply, P

\* A difference makes the new text of the old one.
LEMMA Applied ==
  ASSUME NEW old \in Text, NEW new \in Text, old # new
  PROVE  Apply(old, Difference(old, new)) = new
<1>1. PICK p, s \in Nat : Alike(old, new, p, s) /\ Difference(old, new) = HunkOf(old, new, p, s)
  BY DifferenceHunk
<1>2. QED
  BY <1>1, Rebuilt

\* A difference is a patch, and none if there is none; one that leaves nothing has nothing
\* before it.
LEMMA DifferenceKnown ==
  ASSUME NEW old \in Text, NEW new \in Text, Len(new) <= MaxLines
  PROVE  /\ Difference(old, new) \in Patch \cup {None}
         /\ Known(Difference(old, new)) <=> old # new
         /\ new = <<>> /\ old # new => Difference(old, new).before = <<>>
<1>1. CASE old = new
  BY <1>1 DEF Difference, Known
<1>2. CASE old # new
  <2>1. PICK p, s \in Nat : Alike(old, new, p, s) /\ Difference(old, new) = HunkOf(old, new, p, s)
    BY <1>2, DifferenceHunk
  <2> DEFINE P == HunkOf(old, new, p, s)
             a == p - Least(p, Hunk)
  <2>2. /\ a \in Nat /\ a <= p /\ P.at = a
        /\ P.before \in Text /\ Len(P.before) = p - a
        /\ P.gone \in Text /\ P.added \in Text /\ P.after \in Text
    BY <2>1, HunkParts DEF HunkShape
  <2>3. p <= Len(new) /\ Len(new) \in Nat /\ MaxLines \in Nat
    <3>1. p + s <= Len(new)
      BY <2>1 DEF Alike
    <3>2. QED
      BY <3>1, TextParts, FileContextAssumption
  <2>4. P = [at |-> P.at, before |-> P.before, gone |-> P.gone, added |-> P.added,
             after |-> P.after]
    BY DEF HunkOf
  <2> HIDE DEF P, a
  <2>5. P.at \in 0..MaxLines
    BY <2>2, <2>3
  <2>6. P \in Patch
    BY <2>2, <2>4, <2>5 DEF Patch
  <2>7. P # None
    BY <2>6, FileContextAssumption
  <2>8. new = <<>> => P.before = <<>>
    <3>1. SUFFICES ASSUME new = <<>> PROVE P.before = <<>>
      OBVIOUS
    <3>2. Len(new) = 0
      BY <3>1, TextParts
    <3>3. Len(P.before) = 0
      BY <2>2, <2>3, <3>2
    <3>4. QED
      BY <2>2, <3>3, TextParts
  <2>9. QED
    BY <1>2, <2>1, <2>6, <2>7, <2>8 DEF P, Known
<1>3. QED
  BY <1>1, <1>2

\* A difference inside of a text whose lines differ does no harm to what it has made.
LEMMA Reapplied ==
  ASSUME NEW old \in Text, NEW new \in Text, old # new, IsInjective(new),
         Inside(Difference(old, new))
  PROVE  Apply(new, Difference(old, new)) = new
<1>1. PICK p, s \in Nat : Alike(old, new, p, s) /\ Difference(old, new) = HunkOf(old, new, p, s)
  BY DifferenceHunk
<1> DEFINE P == HunkOf(old, new, p, s)
           a == p - Least(p, Hunk)
           h == Least(s, Hunk)
           g == Len(old) - s
<1>2. /\ a \in Nat /\ a <= p /\ h \in Nat /\ h <= s /\ P.at = a
      /\ P.before \in Text /\ Len(P.before) = p - a
      /\ \A i \in 1..p - a : P.before[i] = old[a + i]
      /\ P.gone \in Text /\ Len(P.gone) = Len(old) - s - p
      /\ \A i \in 1..Len(old) - s - p : P.gone[i] = old[p + i]
      /\ P.after \in Text /\ Len(P.after) = h
      /\ \A i \in 1..h : P.after[i] = old[Len(old) - s + i]
  <2>1. Alike(old, new, p, s)
    BY <1>1
  <2>2. HunkShape(HunkOf(old, new, p, s), old, new, p, s)
    BY <2>1, HunkParts
  <2>3. QED
    BY <2>2 DEF HunkShape
<1>3. /\ Len(old) \in Nat /\ Len(new) \in Nat /\ DOMAIN new = 1..Len(new)
      /\ p + s <= Len(old) /\ p + s <= Len(new)
      /\ \A i \in 1..p : old[i] = new[i]
      /\ \A k \in 1..s : old[Len(old) - k + 1] = new[Len(new) - k + 1]
  BY <1>1, TextParts DEF Alike
<1>4. a < p /\ h > 0 /\ s > 0
  <2>1. P.before # <<>> /\ P.after # <<>>
    BY <1>1 DEF Inside
  <2>2. Len(P.before) # 0 /\ Len(P.after) # 0
    BY <1>2, <2>1, TextParts
  <2> HIDE DEF P, a, h
  <2>3. QED
    BY <1>2, <2>2
<1> HIDE DEF P, a, h
<1>5. old[a + 1] = new[a + 1] /\ a + 1 \in 1..Len(new)
  <2>1. a + 1 \in 1..p
    BY <1>2, <1>4
  <2>2. QED
    BY <1>3, <2>1
<1>6. old[g + 1] = new[Len(new) - s + 1] /\ Len(new) - s + 1 \in 1..Len(new)
  <2>1. s \in 1..s /\ g + 1 = Len(old) - s + 1
    BY <1>3, <1>4
  <2>2. old[Len(old) - s + 1] = new[Len(new) - s + 1]
    BY <1>3, <2>1
  <2>3. QED
    BY <1>3, <1>4, <2>1, <2>2
<1>7. /\ p \in Nat /\ s \in Nat /\ a \in Nat /\ a < p /\ h \in Nat /\ h > 0 /\ h <= s
      /\ Len(old) \in Nat /\ Len(new) \in Nat
      /\ g \in Nat /\ p <= g /\ g + s = Len(old) /\ a + (p - a) + (g - p) = g
  <2>1. /\ p \in Nat /\ s \in Nat /\ a \in Nat /\ a < p /\ h \in Nat /\ h > 0 /\ h <= s
        /\ Len(old) \in Nat /\ Len(new) \in Nat /\ p + s <= Len(old)
    BY <1>2, <1>3, <1>4
  <2>2. QED
    BY <2>1
<1>8. CASE Len(new) = Len(old)
  BY <1>1, <1>8, Rebuilt
<1>9. CASE Len(new) # Len(old)
  <2>1. ~HunkFits(new, P)
    <3>1. SUFFICES ASSUME HunkFits(new, P) PROVE FALSE
      OBVIOUS
    <3>2. P.at + Len(P.before) + Len(P.gone) = g
      BY <1>2, <1>7
    <3>3. HasAt(new, P.after, g)
      BY <3>1, <3>2 DEF HunkFits
    <3>4. g + h <= Len(new) /\ SubSeq(new, g + 1, g + h) = P.after
      BY <1>2, <3>3 DEF HasAt
    <3> DEFINE n == g + h
    <3>5. n \in Nat /\ g <= n /\ n <= Len(new) /\ 1 \in 1..n - g
      <4>1. g + h <= Len(new)
        BY <3>4
      <4> HIDE DEF g
      <4>2. QED
        BY <1>7, <4>1
    <3>6. SubSeq(new, g + 1, n)[1] = new[g + 1]
      <4> HIDE DEF g, n
      <4>1. QED
        BY <1>7, <3>5, TextPiece
    <3>7. P.after[1] = old[g + 1]
      BY <1>2, <1>4
    <3>8. new[g + 1] = new[Len(new) - s + 1] /\ g + 1 \in 1..Len(new)
      <4>1. SubSeq(new, g + 1, n)[1] = P.after[1]
        BY <3>4
      <4>2. g + 1 \in 1..Len(new)
        <5> HIDE DEF g
        <5>1. QED
          BY <1>7, <3>5
      <4> HIDE DEF g, n
      <4>3. QED
        BY <1>6, <3>6, <3>7, <4>1, <4>2
    <3>9. g + 1 = Len(new) - s + 1
      BY <1>3, <1>6, <3>8 DEF IsInjective
    <3>10. QED
      BY <1>3, <1>9, <3>9
  <2> DEFINE sought == P.before \o P.gone \o P.after
             n == g + h
  <2>2. n \in Nat /\ a <= n /\ g < n /\ g <= n /\ n - g = h /\ 1 \in 1..n - a
        /\ g + 1 - a \in 1..n - a /\ a + (g + 1 - a) = g + 1
    <3> HIDE DEF g
    <3>1. QED
      BY <1>7
  <2>3. Piece(sought, old, a, n)
    <3>1. Piece(P.before, old, a, p)
      BY <1>2 DEF Piece
    <3>2. Piece(P.gone, old, p, g)
      BY <1>2, <1>7 DEF Piece
    <3>3. Piece(P.after, old, g, n)
      <4>1. \A i \in 1..h : P.after[i] = old[g + i]
        BY <1>2
      <4>2. P.after \in Text /\ Len(P.after) = h /\ g <= n
        BY <1>2, <1>7, <2>2
      <4> HIDE DEF g, n
      <4>3. QED
        BY <1>7, <2>2, <4>1, <4>2 DEF Piece
    <3> HIDE DEF g, n
    <3>4. Piece(P.before \o P.gone, old, a, g)
      BY <3>1, <3>2, JoinedPieces
    <3>5. QED
      BY <3>3, <3>4, JoinedPieces
  <2>4. ASSUME NEW q \in 0..Len(new), HasAt(new, sought, q) PROVE FALSE
    <3> DEFINE r == q + (n - a)
    <3>1. Len(sought) = n - a /\ (\A i \in 1..n - a : sought[i] = old[a + i])
      BY <2>3 DEF Piece
    <3> HIDE DEF sought
    <3>2. r <= Len(new) /\ SubSeq(new, q + 1, r) = sought
      BY <2>4, <3>1 DEF HasAt
    <3>3. r \in Nat /\ q \in Nat /\ q <= r /\ r - q = n - a
      <4>1. n \in Nat /\ a \in Nat /\ a <= n /\ q \in Nat
        BY <1>2, <1>3, <2>2
      <4> HIDE DEF n, a
      <4>2. QED
        BY <4>1
    <3>4. \A i \in 1..n - a : sought[i] = new[q + i]
      <4> HIDE DEF r, n
      <4>1. \A i \in 1..r - q : SubSeq(new, q + 1, r)[i] = new[q + i]
        BY <3>2, <3>3, TextPiece
      <4>2. QED
        BY <3>2, <3>3, <4>1
    <3>5. \A i \in 1..n - a : new[q + i] = old[a + i] /\ q + i \in 1..Len(new)
      <4>1. \A i \in 1..n - a : q + i \in 1..Len(new)
        <5> HIDE DEF n
        <5>1. r <= Len(new) /\ r = q + (n - a) /\ n \in Nat /\ a \in Nat /\ a <= n
          BY <1>2, <2>2, <3>2
        <5> HIDE DEF r
        <5>2. QED
          BY <1>3, <3>3, <5>1
      <4>2. QED
        BY <3>1, <3>4, <4>1
    <3>6. q = a
      <4>1. 1 \in 1..n - a
        BY <2>2
      <4>2. new[q + 1] = new[a + 1] /\ q + 1 \in 1..Len(new)
        BY <1>5, <3>5, <4>1
      <4>3. q + 1 = a + 1
        BY <1>3, <1>5, <4>2 DEF IsInjective
      <4>4. QED
        BY <1>2, <3>3, <4>3
    <3>7. g + 1 - a \in 1..n - a /\ a + (g + 1 - a) = g + 1
      BY <2>2
    <3>8. new[g + 1] = new[Len(new) - s + 1] /\ g + 1 \in 1..Len(new)
      <4> HIDE DEF n, g
      <4>1. new[q + (g + 1 - a)] = old[a + (g + 1 - a)] /\ q + (g + 1 - a) \in 1..Len(new)
        BY <3>5, <3>7
      <4>2. QED
        BY <1>6, <3>6, <3>7, <4>1
    <3>9. g + 1 = Len(new) - s + 1
      BY <1>3, <1>6, <3>8 DEF IsInjective
    <3>10. QED
      BY <1>3, <1>9, <3>9
  <2>5. Guessed(new, P) = new
    BY <2>4 DEF Guessed
  <2>6. QED
    BY <1>1, <2>1, <2>5 DEF Apply, P
<1>10. QED
  BY <1>8, <1>9

LEMMA EmptyText == <<>> \in Text /\ Len(<<>>) = 0
  BY EmptySeq DEF Text

LEMMA WrittenText ==
  ASSUME NEW d \in Text \cup {None}
  PROVE  Written(d) \in Text
  BY EmptyText DEF Written, Known

LEMMA TextKnown ==
  ASSUME NEW t \in Text
  PROVE  Known(t) /\ Written(t) = t
  BY FileContextAssumption DEF Known, Written

\* Whatever is patched is a text.
LEMMA AppliedText ==
  ASSUME NEW t \in Text, NEW P \in Patch
  PROVE  Apply(t, P) \in Text
<1>1. /\ P.at \in Nat /\ P.before \in Text /\ P.gone \in Text /\ P.added \in Text
      /\ P.after \in Text
  <2>1. 0..MaxLines \subseteq Nat
    BY FileContextAssumption
  <2>2. QED
    BY <2>1 DEF Patch
<1>2. Len(P.before) \in Nat /\ Len(P.gone) \in Nat /\ Len(t) \in Nat
  BY <1>1, TextParts
<1>3. ASSUME HunkFits(t, P) PROVE Patched(t, P) \in Text
  <2> DEFINE g == P.at + Len(P.before) + Len(P.gone)
  <2>1. g <= Len(t) /\ g \in Nat /\ P.at <= Len(t)
    BY <1>1, <1>2, <1>3 DEF HunkFits
  <2> HIDE DEF g
  <2>2. SubSeq(t, 1, P.at) \in Text /\ After(t, g) \in Text
    BY <1>1, <1>2, <2>1, TextStart, TextPiece DEF After
  <2>3. SubSeq(t, 1, P.at) \o P.before \in Text
    BY <1>1, <2>2, TextsJoined
  <2>4. SubSeq(t, 1, P.at) \o P.before \o P.added \in Text
    BY <1>1, <2>3, TextsJoined
  <2>5. SubSeq(t, 1, P.at) \o P.before \o P.added \o After(t, g) \in Text
    BY <2>2, <2>4, TextsJoined
  <2>6. QED
    BY <2>5 DEF Patched, g
<1>4. Guessed(t, P) \in Text
  <2> DEFINE sought == P.before \o P.gone \o P.after
             places == {at \in 0..Len(t) : HasAt(t, sought, at)}
             m == Min(places)
  <2>1. sought \in Text
    BY <1>1, TextsJoined
  <2>2. Len(sought) \in Nat
    BY <2>1, TextParts
  <2>3. ASSUME places # {} PROVE SubSeq(t, 1, m) \o <<Char>> \o After(t, m + Len(sought)) \in Text
    <3>1. places \subseteq 0..Len(t)
      OBVIOUS
    <3>2. PICK k \in places : \A l \in places : k <= l
      <4> HIDE DEF places
      <4>1. QED
        BY <1>2, <2>3, <3>1, ExtremesExist
    <3>3. m \in places
      <4> HIDE DEF places
      <4>1. QED
        BY <3>2 DEF Min
    <3> HIDE DEF m, sought
    <3> DEFINE n == m + Len(sought)
    <3>4. m \in Nat /\ n <= Len(t)
      BY <3>3 DEF HasAt
    <3>5. m <= Len(t) /\ n \in Nat
      BY <1>2, <2>2, <3>4
    <3> HIDE DEF n
    <3>6. SubSeq(t, 1, m) \in Text /\ After(t, n) \in Text
      BY <1>2, <3>4, <3>5, TextStart, TextPiece DEF After
    <3>7. <<Char>> \in Text
      BY DEF Text
    <3>8. SubSeq(t, 1, m) \o <<Char>> \in Text
      BY <3>6, <3>7, TextsJoined
    <3>9. SubSeq(t, 1, m) \o <<Char>> \o After(t, n) \in Text
      BY <3>6, <3>8, TextsJoined
    <3>10. QED
      BY <3>9 DEF n
  <2>4. Guessed(t, P) = IF sought = <<>> \/ places = {} THEN t
                        ELSE SubSeq(t, 1, m) \o <<Char>> \o After(t, m + Len(sought))
    BY DEF Guessed
  <2> HIDE DEF sought, places, m
  <2>5. QED
    BY <2>3, <2>4
<1>5. QED
  BY <1>3, <1>4 DEF Apply

--------------------------------------------------------------------------------
(* What the contexts hold                                                      *)

Context == [parent : Nat, file : File \cup {None}, own : Text \cup {None}, failed : BOOLEAN]

LEMMA ContextFields ==
  ASSUME NEW x \in Context
  PROVE  /\ x = [parent |-> x.parent, file |-> x.file, own |-> x.own, failed |-> x.failed]
         /\ x.parent \in Nat /\ x.file \in File \cup {None} /\ x.own \in Text \cup {None}
         /\ x.failed \in BOOLEAN
  BY DEF Context

\* A context with another file and other lines.
ContextWith(y, x, f, o) == y = [x EXCEPT !.file = f, !.own = o]

LEMMA OtherContext ==
  ASSUME NEW x \in Context, NEW y, NEW f, NEW o, ContextWith(y, x, f, o)
  PROVE  /\ y.file = f /\ y.own = o /\ y.parent = x.parent /\ y.failed = x.failed
         /\ f \in File \cup {None} /\ o \in Text \cup {None} => y \in Context
<1>1. PICK p \in Nat, g \in File \cup {None}, w \in Text \cup {None}, e \in BOOLEAN :
        x = [parent |-> p, file |-> g, own |-> w, failed |-> e]
  BY ContextFields
<1>2. y = [parent |-> p, file |-> f, own |-> o, failed |-> e]
  BY <1>1 DEF ContextWith
<1>3. QED
  BY <1>1, <1>2 DEF Context

\* A file has been read, or has not.
IsRead(f) == Known(f) => (Known(f.base) <=> Known(f.content))

\* What a context in shadow mode has of a file of the repository.
InShadow(x, d) ==
  /\ ~Known(x.file) => x.own = d
  /\ Known(x.file) => /\ x.file.base \in {None, Written(d)}
                      /\ x.file.content \in {None, Written(x.own)}
                      /\ x.file.patch = Difference(Written(d), Written(x.own))
                      /\ Known(x.file.patch) <=> Written(d) # Written(x.own)

\* What the last context has of a file of the working tree: a patch that has made what is
\* there, and what it has read; if it has failed, a patch that leaves nothing.
OnDisk(x, d) ==
  LET f == x.file
  IN  Known(f) =>
        /\ x.failed => /\ Known(f.patch) => f.patch.before = <<>>
                       /\ ~Known(f.patch) => f.content \in {None, Written(d)}
        /\ ~x.failed =>
             /\ Known(f.patch) =>
                  /\ Written(d) # <<>>
                  /\ \E b \in Text : b # Written(d) /\ f.patch = Difference(b, Written(d))
             /\ f.content \in {None, Written(d)} \/
                  /\ Known(f.patch) /\ f.base = Written(d)
                  /\ f.content = Apply(Written(d), f.patch)

FileKnown ==
  /\ storing \in {"shadow", "files"} /\ storing \in Storing
  /\ disk \in Text \cup {None} /\ edits \in 0..MaxEdits
  /\ contexts \in Seq(Context) /\ Len(contexts) \in 1..MaxContexts
  /\ \A c \in 1..Len(contexts) :
       /\ contexts[c].parent \in 0..c - 1 /\ (c > 1 => contexts[c].parent # 0)
       /\ storing = "files" => contexts[c].parent = c - 1
       /\ IsRead(contexts[c].file)

FilesInv ==
  /\ FileKnown
  /\ storing = "shadow" => \A c \in 1..Len(contexts) : InShadow(contexts[c], disk)
  /\ storing = "files" => OnDisk(contexts[Len(contexts)], disk)

LEMMA FileFields ==
  ASSUME NEW f \in File
  PROVE  /\ Known(f) /\ f.base \in Text \cup {None} /\ f.content \in Text \cup {None}
         /\ f.patch \in Patch \cup {None}
         /\ f = [base |-> f.base, content |-> f.content, patch |-> f.patch]
<1>1. f # None
  BY FileContextAssumption
<1>2. QED
  BY <1>1 DEF File, Known

\* A file that is read.
LEMMA CachedFile ==
  ASSUME NEW f \in File, IsRead(f), disk \in Text \cup {None}
  PROVE  /\ Cached(f) \in File /\ Known(Cached(f).base) /\ Known(Cached(f).content)
         /\ Cached(f).content = Content(f) /\ Content(f) \in Text /\ Cached(f).base \in Text
         /\ Cached(f).patch = f.patch
         /\ Known(f.content) => Cached(f) = f
         /\ ~Known(f.content) =>
              /\ Cached(f).base = Written(disk)
              /\ Content(f) = IF Known(f.patch) THEN Apply(Written(disk), f.patch)
                              ELSE Written(disk)
<1>1. /\ Known(f) /\ f.base \in Text \cup {None} /\ f.content \in Text \cup {None}
      /\ f.patch \in Patch \cup {None}
      /\ f = [base |-> f.base, content |-> f.content, patch |-> f.patch]
  BY FileFields
<1>2. CASE Known(f.content)
  <2>1. Known(f.base)
    BY <1>1, <1>2 DEF IsRead
  <2>2. Cached(f) = f /\ Content(f) = f.content
    BY <1>2 DEF Cached, Content
  <2>3. f.base \in Text /\ f.content \in Text
    BY <1>1, <1>2, <2>1 DEF Known
  <2>4. QED
    BY <1>2, <2>1, <2>2, <2>3
<1>3. CASE ~Known(f.content)
  <2>1. ~Known(f.base)
    BY <1>1, <1>3 DEF IsRead
  <2>2. BaseContent(f) = Written(disk)
    BY <2>1 DEF BaseContent
  <2>3. Content(f) = IF Known(f.patch) THEN Apply(Written(disk), f.patch) ELSE Written(disk)
    BY <1>3, <2>2 DEF Content
  <2>4. Written(disk) \in Text
    BY WrittenText
  <2>5. Content(f) \in Text
    BY <1>1, <2>3, <2>4, AppliedText DEF Known
  <2>6. Cached(f) = [base |-> Written(disk), content |-> Content(f), patch |-> f.patch]
    <3>1. Cached(f) = [f EXCEPT !.base = Written(disk), !.content = Content(f)]
      BY <1>3, <2>2 DEF Cached
    <3>2. QED
      BY <1>1, <3>1
  <2>7. Known(Written(disk)) /\ Known(Content(f))
    BY <2>4, <2>5, TextKnown
  <2>8. Cached(f) \in File
    BY <1>1, <2>4, <2>5, <2>6 DEF File
  <2>9. QED
    BY <1>3, <2>3, <2>4, <2>5, <2>6, <2>7, <2>8
<1>4. QED
  BY <1>2, <1>3

\* What a file that is not there is read as.
LEMMA FileUnread ==
  ASSUME NEW P \in Patch \cup {None}
  PROVE  /\ FileOf(P) \in File /\ IsRead(FileOf(P)) /\ Known(FileOf(P))
         /\ FileOf(P).base = None /\ FileOf(P).content = None /\ FileOf(P).patch = P
<1>1. FileOf(P) = [base |-> None, content |-> None, patch |-> P]
  BY DEF FileOf
<1>2. FileOf(P) \in File
  BY <1>1 DEF File
<1>3. QED
  BY <1>1, <1>2, FileFields DEF IsRead, Known

FileWith(base, content, patch) == [base |-> base, content |-> content, patch |-> patch]

\* A file with the patch that makes one text another.
Changes(g, b, u, P) ==
  /\ Known(P) <=> b # u
  /\ b # u => Apply(b, P) = u
  /\ g = FileWith(b, IF Known(P) THEN None ELSE u, P)

\* A file that is read after a change.
LEMMA ChangeRead ==
  ASSUME NEW b \in Text, NEW u \in Text, NEW P, NEW g, Changes(g, b, u, P)
  PROVE  Cached(g) = FileWith(b, u, P)
<1>1. /\ g.base = b /\ g.patch = P /\ g.content = IF Known(P) THEN None ELSE u
      /\ Known(P) <=> b # u
      /\ b # u => Apply(b, P) = u
  BY DEF Changes, FileWith
<1>2. Known(b) /\ Known(u) /\ ~Known(None)
  BY TextKnown DEF Known
<1>3. CASE b = u
  <2>1. g = FileWith(b, u, P)
    BY <1>1, <1>3 DEF Changes
  <2>2. Known(g.content)
    BY <1>1, <1>2, <1>3
  <2>3. QED
    BY <2>1, <2>2 DEF Cached
<1>4. CASE b # u
  <2>1. ~Known(g.content) /\ Known(g.patch) /\ Apply(b, g.patch) = u
    BY <1>1, <1>2, <1>4
  <2>2. BaseContent(g) = b
    BY <1>1, <1>2 DEF BaseContent
  <2>3. Content(g) = u
    BY <2>1, <2>2 DEF Content
  <2>4. Cached(g) = [g EXCEPT !.base = b, !.content = u]
    BY <2>1, <2>2, <2>3 DEF Cached
  <2>5. g = [base |-> b, content |-> None, patch |-> P]
    BY <1>1, <1>4 DEF Changes, FileWith
  <2>6. Cached(g) = [base |-> b, content |-> u, patch |-> P]
    BY <2>4, <2>5
  <2>7. QED
    BY <2>6 DEF FileWith
<1>5. QED
  BY <1>3, <1>4

FileChanged(g, f, b, u, P) ==
  g = [f EXCEPT !.base = b, !.patch = P, !.content = IF Known(P) THEN None ELSE u]

\* A file that is changed: its patch is the change, and what it says was written.
LEMMA ChangedFile ==
  ASSUME NEW f \in File, NEW b \in Text, NEW u \in Text, Len(u) <= MaxLines, NEW g,
         FileChanged(g, f, b, u, Difference(b, u))
  PROVE  /\ Cached(g) = FileWith(b, u, Difference(b, u))
         /\ Cached(g) \in File /\ IsRead(Cached(g))
<1> DEFINE P == Difference(b, u)
<1>1. f = [base |-> f.base, content |-> f.content, patch |-> f.patch]
  BY FileFields
<1>2. P \in Patch \cup {None} /\ (Known(P) <=> b # u)
  BY DifferenceKnown
<1>3. b # u => Apply(b, P) = u
  BY Applied
<1>4. g = FileWith(b, IF Known(P) THEN None ELSE u, P)
  BY <1>1 DEF FileWith, FileChanged
<1> HIDE DEF P
<1>5. Changes(g, b, u, P)
  BY <1>2, <1>3, <1>4 DEF Changes
<1>6. Cached(g) = FileWith(b, u, P)
  BY <1>5, ChangeRead
<1>7. Cached(g) \in File
  BY <1>2, <1>6 DEF File, FileWith
<1>8. Cached(g).base = b /\ Cached(g).content = u
  BY <1>6 DEF FileWith
<1>9. Known(b) /\ Known(u)
  BY TextKnown
<1>10. IsRead(Cached(g))
  BY <1>8, <1>9 DEF IsRead
<1>11. QED
  BY <1>6, <1>7, <1>10 DEF P

\* What a file of a context in shadow mode says.
LEMMA ShadowContent ==
  ASSUME NEW x \in Context, InShadow(x, disk), disk \in Text \cup {None}, IsRead(x.file),
         Known(x.file)
  PROVE  Content(x.file) = Written(x.own) /\ BaseContent(x.file) = Written(disk)
<1> DEFINE f == x.file
           d == Written(disk)
           o == Written(x.own)
<1>1. x.file \in File /\ x.own \in Text \cup {None}
  BY DEF Context, Known
<1>2. d \in Text /\ o \in Text
  BY <1>1, WrittenText
<1>3. f.base \in {None, d} /\ f.content \in {None, o} /\ f.patch = Difference(d, o)
  BY DEF InShadow
<1>4. Known(d) /\ Known(o) /\ ~Known(None) /\ (Known(f.base) <=> Known(f.content))
  BY <1>2, TextKnown DEF Known, IsRead
<1>5. BaseContent(f) = d
  BY <1>3, <1>4 DEF BaseContent, Known
<1>6. (~Known(f.patch) => d = o) /\ (Known(f.patch) => Apply(d, f.patch) = o)
  <2>1. Known(f.patch) <=> d # o
    BY DEF InShadow
  <2>2. d # o => Apply(d, f.patch) = o
    BY <1>2, <1>3, Applied
  <2>3. QED
    BY <2>1, <2>2
<1>7. Content(f) = o
  BY <1>3, <1>4, <1>5, <1>6 DEF Content, Known
<1>8. QED
  BY <1>5, <1>7

--------------------------------------------------------------------------------
(* The steps                                                                   *)

\* Of several contexts one is replaced.
OneReplaced(c, x) ==
  /\ c \in 1..Len(contexts) /\ x \in Context
  /\ contexts' = [contexts EXCEPT ![c] = x]

LEMMA Replacing ==
  ASSUME contexts \in Seq(Context), NEW c, NEW x, OneReplaced(c, x)
  PROVE  /\ contexts' \in Seq(Context) /\ Len(contexts') = Len(contexts) /\ contexts'[c] = x
         /\ \A d \in 1..Len(contexts) : d # c => contexts'[d] = contexts[d]
<1>1. /\ Len(contexts) \in Nat /\ DOMAIN contexts = 1..Len(contexts)
      /\ \A d \in 1..Len(contexts) : contexts[d] \in Context
  BY SeqParts
<1>2. c \in 1..Len(contexts) /\ x \in Context /\ contexts' = [contexts EXCEPT ![c] = x]
  BY DEF OneReplaced
<1>3. /\ DOMAIN contexts' = 1..Len(contexts) /\ contexts'[c] = x
      /\ \A d \in 1..Len(contexts) : d # c => contexts'[d] = contexts[d]
  BY <1>1, <1>2
<1>4. \A d \in 1..Len(contexts) : contexts'[d] \in Context
  BY <1>1, <1>2, <1>3
<1>5. contexts' = [d \in 1..Len(contexts) |-> contexts'[d]]
  BY <1>2, <1>3, Zenon
<1> DEFINE n == Len(contexts)
<1>6. contexts' \in Seq(Context) /\ Len(contexts') = n
  BY <1>1, <1>4, <1>5, SeqMade
<1>7. QED
  BY <1>3, <1>6

\* What of a context, and of the working tree, is as it should be.
WellPlaced(c, x, d) ==
  /\ IsRead(x.file)
  /\ storing = "shadow" => d = disk /\ InShadow(x, d)
  /\ storing = "files" => c = Len(contexts) /\ OnDisk(x, d)

\* A context is replaced by one that is as it should be.
LEMMA FilesKept ==
  ASSUME FilesInv, NEW c, NEW x, OneReplaced(c, x), x.parent = contexts[c].parent,
         storing' = storing, edits' \in 0..MaxEdits, disk' \in Text \cup {None},
         WellPlaced(c, x, disk')
  PROVE  FilesInv'
<1>1. /\ contexts \in Seq(Context) /\ Len(contexts) \in 1..MaxContexts
      /\ storing \in {"shadow", "files"} /\ storing \in Storing
      /\ \A d \in 1..Len(contexts) :
           /\ contexts[d].parent \in 0..d - 1 /\ (d > 1 => contexts[d].parent # 0)
           /\ storing = "files" => contexts[d].parent = d - 1
           /\ IsRead(contexts[d].file)
  BY DEF FilesInv, FileKnown
<1>2. /\ contexts' \in Seq(Context) /\ Len(contexts') = Len(contexts) /\ contexts'[c] = x
      /\ \A d \in 1..Len(contexts) : d # c => contexts'[d] = contexts[d]
  BY <1>1, Replacing
<1>3. c \in 1..Len(contexts)
  BY DEF OneReplaced
<1>4. FileKnown'
  <2>1. ASSUME NEW d \in 1..Len(contexts)
        PROVE  /\ contexts'[d].parent \in 0..d - 1 /\ (d > 1 => contexts'[d].parent # 0)
               /\ storing = "files" => contexts'[d].parent = d - 1
               /\ IsRead(contexts'[d].file)
    <3>1. contexts'[d].parent = contexts[d].parent
      BY <1>2
    <3>2. IsRead(contexts'[d].file)
      BY <1>1, <1>2 DEF WellPlaced
    <3>3. QED
      BY <1>1, <3>1, <3>2
  <2>2. QED
    BY <1>1, <1>2, <2>1 DEF FileKnown
<1>5. storing' = "shadow" => \A d \in 1..Len(contexts') : InShadow(contexts'[d], disk')
  <2>1. SUFFICES ASSUME storing = "shadow", NEW d \in 1..Len(contexts)
                 PROVE  InShadow(contexts'[d], disk')
    BY <1>2
  <2>2. InShadow(contexts[d], disk) /\ disk' = disk /\ InShadow(x, disk')
    BY <2>1 DEF FilesInv, WellPlaced
  <2>3. QED
    BY <1>2, <2>2
<1>6. storing' = "files" => OnDisk(contexts'[Len(contexts')], disk')
  BY <1>2 DEF WellPlaced
<1>7. QED
  BY <1>4, <1>5, <1>6 DEF FilesInv

\* A clone has what the context has, and has not been read.
LEMMA FileCloned ==
  ASSUME NEW x \in Context, NEW y, NEW d, y.file = Clone(x.file), y.own = x.own
  PROVE  /\ y.file \in File \cup {None} /\ IsRead(y.file)
         /\ InShadow(x, d) => InShadow(y, d)
         /\ y.failed = x.failed /\ OnDisk(x, d) => OnDisk(y, d)
<1>1. CASE ~Known(x.file)
  <2>1. ~Known(y.file) /\ y.file = None
    BY <1>1 DEF Clone, Known
  <2>2. QED
    BY <1>1, <2>1 DEF IsRead, InShadow, OnDisk
<1>2. CASE Known(x.file)
  <2>1. x.file \in File
    BY <1>2 DEF Context, Known
  <2>2. x.file.patch \in Patch \cup {None} /\ y.file = FileOf(x.file.patch)
    BY <1>2, <2>1, FileFields DEF Clone
  <2>3. /\ y.file \in File /\ IsRead(y.file) /\ Known(y.file)
        /\ y.file.base = None /\ y.file.content = None /\ y.file.patch = x.file.patch
    BY <2>2, FileUnread
  <2>4. InShadow(x, d) => InShadow(y, d)
    BY <1>2, <2>3 DEF InShadow
  <2>5. y.failed = x.failed /\ OnDisk(x, d) => OnDisk(y, d)
    BY <1>2, <2>3 DEF OnDisk
  <2>6. QED
    BY <2>3, <2>4, <2>5
<1>3. QED
  BY <1>1, <1>2

\* The context an agent works in, which is the last one if it writes to the working tree.
LEMMA WorkKnown ==
  ASSUME FilesInv, NEW c, AtWork(c)
  PROVE  /\ c \in 1..Len(contexts) /\ contexts[c] \in Context /\ ~contexts[c].failed
         /\ IsRead(contexts[c].file) /\ disk \in Text \cup {None} /\ contexts \in Seq(Context)
         /\ storing \in {"shadow", "files"} /\ edits \in 0..MaxEdits
         /\ storing = "shadow" => InShadow(contexts[c], disk)
         /\ storing = "files" => c = Len(contexts) /\ OnDisk(contexts[c], disk)
<1>1. /\ contexts \in Seq(Context) /\ storing \in {"shadow", "files"}
      /\ edits \in 0..MaxEdits /\ disk \in Text \cup {None}
      /\ \A d \in 1..Len(contexts) :
           /\ storing = "files" => contexts[d].parent = d - 1
           /\ IsRead(contexts[d].file)
  BY DEF FilesInv, FileKnown
<1>2. Len(contexts) \in Nat /\ DOMAIN contexts = 1..Len(contexts)
      /\ \A d \in 1..Len(contexts) : contexts[d] \in Context
  BY <1>1, SeqParts
<1>3. c \in 1..Len(contexts) /\ ~contexts[c].failed
  BY <1>2 DEF AtWork
<1>4. ASSUME storing = "files" PROVE c = Len(contexts)
  <2>1. SUFFICES ASSUME c # Len(contexts) PROVE FALSE
    OBVIOUS
  <2> DEFINE n == Len(contexts)
             d == c + 1
  <2>2. d \in 1..n /\ d - 1 = c
    <3>1. n \in Nat /\ c \in 1..n /\ c # n
      BY <1>2, <1>3, <2>1
    <3> HIDE DEF n
    <3>2. QED
      BY <3>1
  <2>3. contexts[d].parent = c
    <3>1. contexts[d].parent = d - 1
      BY <1>1, <1>4, <2>2
    <3>2. QED
      BY <2>2, <3>1
  <2>4. QED
    BY <1>2, <2>2, <2>3 DEF AtWork
<1>5. QED
  BY <1>1, <1>2, <1>3, <1>4 DEF FilesInv

\* A file of the repository, before it is read.
LEMMA FileThere ==
  ASSUME NEW x \in Context, NEW y, IsRead(x.file), disk \in Text \cup {None},
         Known(ContextFile(x.file)), y.file = ContextFile(x.file), y.own = x.own,
         y.failed = x.failed
  PROVE  /\ y.file \in File /\ IsRead(y.file)
         /\ InShadow(x, disk) => InShadow(y, disk)
         /\ OnDisk(x, disk) => OnDisk(y, disk)
<1>1. CASE Known(x.file)
  <2>1. y.file = x.file /\ x.file \in File
    BY <1>1 DEF ContextFile, Context, Known
  <2>2. QED
    BY <2>1 DEF InShadow, OnDisk
<1>2. CASE ~Known(x.file)
  <2>1. Known(disk) /\ y.file = FileOf(None)
    BY <1>2 DEF ContextFile, Known
  <2>2. /\ y.file \in File /\ IsRead(y.file) /\ Known(y.file)
        /\ y.file.base = None /\ y.file.content = None /\ y.file.patch = None
    BY <2>1, FileUnread
  <2>3. ~Known(None)
    BY DEF Known
  <2>4. InShadow(x, disk) => InShadow(y, disk)
    <3>1. SUFFICES ASSUME InShadow(x, disk) PROVE InShadow(y, disk)
      OBVIOUS
    <3>2. y.own = disk
      BY <1>2, <3>1 DEF InShadow
    <3>3. Difference(Written(disk), Written(disk)) = None
      BY DEF Difference
    <3>4. QED
      BY <2>2, <2>3, <3>2, <3>3 DEF InShadow
  <2>5. OnDisk(y, disk)
    BY <2>2, <2>3 DEF OnDisk
  <2>6. QED
    BY <2>2, <2>4, <2>5
<1>3. QED
  BY <1>1, <1>2

\* A file of a context, when it is read.
LEMMA FileLoaded ==
  ASSUME NEW x \in Context, NEW y, x.file \in File, IsRead(x.file), disk \in Text \cup {None},
         y.file = Cached(x.file), y.own = x.own, y.failed = x.failed
  PROVE  /\ InShadow(x, disk) => InShadow(y, disk)
         /\ ~x.failed /\ OnDisk(x, disk) => OnDisk(y, disk)
<1> DEFINE f == x.file
           w == Written(disk)
<1>1. /\ y.file \in File /\ y.file.content = Content(f) /\ y.file.patch = f.patch
      /\ Known(f.content) => y.file = f
      /\ ~Known(f.content) =>
           /\ y.file.base = w
           /\ Content(f) = IF Known(f.patch) THEN Apply(w, f.patch) ELSE w
  BY CachedFile
<1>2. Known(x.file) /\ Known(y.file)
  BY <1>1, FileFields
<1>3. CASE Known(f.content)
  BY <1>1, <1>2, <1>3 DEF InShadow, OnDisk
<1>4. CASE ~Known(f.content)
  <2>1. InShadow(x, disk) => InShadow(y, disk)
    <3>1. SUFFICES ASSUME InShadow(x, disk) PROVE InShadow(y, disk)
      OBVIOUS
    <3>2. Content(f) = Written(x.own)
      BY <1>2, <3>1, ShadowContent
    <3>3. QED
      BY <1>1, <1>2, <1>4, <3>1, <3>2 DEF InShadow
  <2>2. ~x.failed /\ OnDisk(x, disk) => OnDisk(y, disk)
    <3>1. SUFFICES ASSUME ~x.failed, OnDisk(x, disk) PROVE OnDisk(y, disk)
      OBVIOUS
    <3>2. Known(f.patch) =>
            /\ w # <<>>
            /\ \E b \in Text : b # w /\ f.patch = Difference(b, w)
      BY <1>2, <3>1 DEF OnDisk
    <3>3. y.file.content \in {None, w} \/
            /\ Known(f.patch) /\ y.file.base = w
            /\ y.file.content = Apply(w, f.patch)
      BY <1>1, <1>4
    <3>4. QED
      BY <1>1, <1>2, <3>1, <3>2, <3>3 DEF OnDisk
  <2>3. QED
    BY <2>1, <2>2
<1>5. QED
  BY <1>3, <1>4

\* A file that an agent reads.
LEMMA FileViewed ==
  ASSUME NEW x \in Context, NEW y, IsRead(x.file), disk \in Text \cup {None},
         Known(ContextFile(x.file)), y.file = Cached(ContextFile(x.file)), y.own = x.own,
         y.failed = x.failed
  PROVE  /\ y.file \in File /\ IsRead(y.file) /\ Known(y.file.content)
         /\ y.file.content = Content(ContextFile(x.file)) /\ y.file.content \in Text
         /\ y.file.base \in Text /\ BaseContent(y.file) = y.file.base
         /\ InShadow(x, disk) => InShadow(y, disk)
         /\ ~x.failed /\ OnDisk(x, disk) => OnDisk(y, disk)
<1> DEFINE f == ContextFile(x.file)
           z == [x EXCEPT !.file = f]
<1>1. z.file = f /\ z.own = x.own /\ z.failed = x.failed /\ z.parent = x.parent
      /\ z = [parent |-> x.parent, file |-> f, own |-> x.own, failed |-> x.failed]
      /\ x.own \in Text \cup {None} /\ x.parent \in Nat /\ x.failed \in BOOLEAN
  BY DEF Context
<1> HIDE DEF z
<1>2. /\ z.file \in File /\ IsRead(z.file)
      /\ InShadow(x, disk) => InShadow(z, disk)
      /\ OnDisk(x, disk) => OnDisk(z, disk)
  BY <1>1, FileThere
<1>3. z \in Context
  BY <1>1, <1>2 DEF Context
<1>4. /\ y.file \in File /\ Known(y.file.base) /\ Known(y.file.content)
      /\ y.file.content = Content(f) /\ Content(f) \in Text /\ y.file.base \in Text
  BY <1>1, <1>2, CachedFile
<1>5. /\ InShadow(z, disk) => InShadow(y, disk)
      /\ ~z.failed /\ OnDisk(z, disk) => OnDisk(y, disk)
  <2>1. y.file = Cached(z.file) /\ y.own = z.own /\ y.failed = z.failed
    BY <1>1
  <2>2. QED
    BY <1>2, <1>3, <2>1, FileLoaded
<1>6. IsRead(y.file) /\ BaseContent(y.file) = y.file.base
  BY <1>4 DEF IsRead, BaseContent
<1>7. QED
  BY <1>1, <1>2, <1>4, <1>5, <1>6

\* What a file is when it is changed: it was read, or nothing of it was there.
Changeable(c, f, b, u) ==
  /\ f \in File /\ b \in Text /\ u \in Text /\ BaseContent(f) = b
  /\ storing = "shadow" => b = Written(disk)
  /\ u = <<>> => /\ IsRead(f) /\ Known(f.content) /\ Known(f.base)
                 /\ storing = "files" /\ b = <<>> => f.content \in {None, Written(disk)}

\* An edit that is saved.
LEMMA SavedKept ==
  ASSUME FilesInv, NEW c, AtWork(c), NEW f, NEW b, NEW u, Changeable(c, f, b, u),
         ApplyChanges(c, f, u), storing = "shadow" \/ u # <<>>
  PROVE  FilesInv'
<1> DEFINE P == Difference(b, u)
           g == [f EXCEPT !.base = b, !.patch = P, !.content = IF Known(P) THEN None ELSE u]
           x == [contexts[c] EXCEPT !.file = Cached(g), !.own = u]
<1>1. /\ f \in File /\ b \in Text /\ u \in Text /\ BaseContent(f) = b
      /\ storing = "shadow" => b = Written(disk)
  BY DEF Changeable
<1>2. /\ c \in 1..Len(contexts) /\ contexts[c] \in Context /\ ~contexts[c].failed
      /\ disk \in Text \cup {None} /\ contexts \in Seq(Context)
      /\ storing \in {"shadow", "files"} /\ edits \in 0..MaxEdits
      /\ storing = "files" => c = Len(contexts)
  BY WorkKnown
<1>3. /\ edits < MaxEdits /\ edits' = edits + 1 /\ Len(u) <= MaxLines
      /\ contexts' = [contexts EXCEPT ![c].file = Cached(g), ![c].own = u]
      /\ disk' = (IF storing = "shadow" THEN disk ELSE u) /\ storing' = storing
  <2>1. ~(storing # "shadow" /\ u = <<>>)
    OBVIOUS
  <2>2. NewPatch(f, u) = P
    BY <1>1 DEF NewPatch
  <2>3. QED
    BY <1>1, <2>1, <2>2 DEF ApplyChanges
<1>4. Cached(g) = FileWith(b, u, P) /\ Cached(g) \in File /\ IsRead(Cached(g))
  <2>1. FileChanged(g, f, b, u, P)
    BY DEF FileChanged
  <2> HIDE DEF g
  <2>2. QED
    BY <1>1, <1>3, <2>1, ChangedFile
<1>5. contexts' = [contexts EXCEPT ![c] = x]
  BY <1>3
<1> DEFINE y == contexts[c]
<1>6. /\ x = [parent |-> y.parent, file |-> Cached(g), own |-> u, failed |-> FALSE]
      /\ y.parent \in Nat
  <2>1. /\ y = [parent |-> y.parent, file |-> y.file, own |-> y.own, failed |-> FALSE]
        /\ y.parent \in Nat
    BY <1>2, ContextFields
  <2> DEFINE h == Cached(g)
  <2>2. x = [y EXCEPT !.file = h, !.own = u]
    BY DEF y
  <2> HIDE DEF x, y, h
  <2>3. PICK p, q, o : y = [parent |-> p, file |-> q, own |-> o, failed |-> FALSE]
    BY <2>1
  <2>4. x = [parent |-> p, file |-> h, own |-> u, failed |-> FALSE]
    BY <2>2, <2>3
  <2>5. QED
    BY <2>1, <2>3, <2>4 DEF h
<1> HIDE DEF x, g
<1>7. x.parent = contexts[c].parent /\ x.file = Cached(g) /\ x.own = u /\ x.failed = FALSE
  BY <1>6
<1>8. x \in Context
  BY <1>1, <1>4, <1>6 DEF Context
<1>9. OneReplaced(c, x)
  BY <1>2, <1>5, <1>8 DEF OneReplaced
<1>10. x.file.base = b /\ x.file.content = u /\ x.file.patch = P /\ Known(x.file)
  BY <1>4, <1>7, FileFields DEF FileWith
<1>11. Known(P) <=> b # u
  BY <1>1, <1>3, DifferenceKnown
<1>12. Written(u) = u
  BY <1>1, TextKnown
<1>13. storing = "shadow" => disk' = disk /\ InShadow(x, disk')
  BY <1>1, <1>3, <1>7, <1>10, <1>11, <1>12 DEF InShadow
<1>14. storing = "files" => OnDisk(x, disk')
  <2>1. SUFFICES ASSUME storing = "files" PROVE OnDisk(x, disk')
    OBVIOUS
  <2>2. disk' = u /\ u # <<>>
    BY <1>3, <2>1
  <2>3. Known(P) => \E a \in Text : a # u /\ P = Difference(a, u)
    BY <1>1, <1>11
  <2> HIDE DEF P
  <2>4. QED
    BY <1>7, <1>10, <1>12, <2>2, <2>3 DEF OnDisk
<1>15. edits' \in 0..MaxEdits /\ disk' \in Text \cup {None}
  <2>1. MaxEdits \in Nat
    BY FileContextAssumption
  <2>2. QED
    BY <1>1, <1>2, <1>3, <2>1
<1>16. WellPlaced(c, x, disk')
  BY <1>2, <1>4, <1>7, <1>13, <1>14 DEF WellPlaced
<1>17. QED
  BY <1>3, <1>7, <1>9, <1>15, <1>16, FilesKept

\* One that leaves nothing cannot be saved in the working tree.
LEMMA UnsavedKept ==
  ASSUME FilesInv, NEW c, AtWork(c), NEW f, NEW b, NEW u, Changeable(c, f, b, u),
         ApplyChanges(c, f, u), storing # "shadow", u = <<>>
  PROVE  FilesInv'
<1> DEFINE P == Difference(b, u)
           g == [f EXCEPT !.base = b, !.patch = P]
           x == [contexts[c] EXCEPT !.file = g, !.failed = TRUE]
<1>1. /\ f \in File /\ b \in Text /\ u \in Text /\ BaseContent(f) = b
      /\ IsRead(f) /\ Known(f.content)
      /\ storing = "files" /\ b = <<>> => f.content \in {None, Written(disk)}
  BY DEF Changeable
<1>2. /\ c \in 1..Len(contexts) /\ contexts[c] \in Context /\ ~contexts[c].failed
      /\ disk \in Text \cup {None} /\ contexts \in Seq(Context)
      /\ storing \in {"shadow", "files"} /\ edits \in 0..MaxEdits
      /\ storing = "files" => c = Len(contexts)
  BY WorkKnown
<1>3. /\ edits < MaxEdits /\ edits' = edits + 1 /\ Len(u) <= MaxLines
      /\ contexts' = [contexts EXCEPT ![c].file = g, ![c].failed = TRUE]
      /\ disk' = disk /\ storing' = storing
  <2>1. NewPatch(f, u) = P
    BY <1>1 DEF NewPatch
  <2>2. QED
    BY <1>1, <2>1 DEF ApplyChanges
<1>4. P \in Patch \cup {None} /\ (Known(P) <=> b # u) /\ (b # u => P.before = <<>>)
  BY <1>1, <1>3, DifferenceKnown
<1>5. contexts' = [contexts EXCEPT ![c] = x]
  BY <1>3
<1> DEFINE y == contexts[c]
<1>6. /\ x = [parent |-> y.parent, file |-> g, own |-> y.own, failed |-> TRUE]
      /\ y.parent \in Nat /\ y.own \in Text \cup {None}
  <2>1. /\ y = [parent |-> y.parent, file |-> y.file, own |-> y.own, failed |-> y.failed]
        /\ y.parent \in Nat /\ y.own \in Text \cup {None}
    BY <1>2, ContextFields
  <2> HIDE DEF g, y
  <2>2. x = [y EXCEPT !.file = g, !.failed = TRUE]
    BY DEF y
  <2> HIDE DEF x
  <2>3. QED
    BY <2>1, <2>2
<1> HIDE DEF x, P
<1>7. /\ f = [base |-> f.base, content |-> f.content, patch |-> f.patch]
      /\ f.content \in Text \cup {None}
  BY <1>1, FileFields
<1>8. g = [base |-> b, content |-> f.content, patch |-> P]
  <2>1. g = [f EXCEPT !.base = b, !.patch = P]
    OBVIOUS
  <2> HIDE DEF g
  <2>2. QED
    BY <1>7, <2>1
<1> HIDE DEF g
<1>9. g \in File
  BY <1>1, <1>4, <1>7, <1>8 DEF File
<1>10. g.base = b /\ g.content = f.content /\ g.patch = P /\ Known(b) /\ IsRead(g)
  BY <1>1, <1>8, TextKnown DEF IsRead
<1>11. x.parent = contexts[c].parent /\ x.file = g /\ x.failed = TRUE
  BY <1>6
<1>12. x \in Context
  BY <1>6, <1>9 DEF Context
<1>13. OneReplaced(c, x)
  BY <1>2, <1>5, <1>12 DEF OneReplaced
<1>14. OnDisk(x, disk)
  BY <1>1, <1>2, <1>4, <1>10, <1>11 DEF OnDisk
<1>15. edits' \in 0..MaxEdits /\ disk' \in Text \cup {None}
  <2>1. MaxEdits \in Nat
    BY FileContextAssumption
  <2>2. QED
    BY <1>2, <1>3, <2>1
<1>16. WellPlaced(c, x, disk')
  BY <1>2, <1>3, <1>10, <1>11, <1>14 DEF WellPlaced
<1>17. QED
  BY <1>3, <1>11, <1>13, <1>15, <1>16, FilesKept

LEMMA ChangesKept ==
  ASSUME FilesInv, NEW c, AtWork(c), NEW f, NEW b, NEW u, Changeable(c, f, b, u),
         ApplyChanges(c, f, u)
  PROVE  FilesInv'
  BY SavedKept, UnsavedKept

\* What an action writes.
LEMMA LineText ==
  ASSUME NEW line \in Lines
  PROVE  <<line>> \in Text /\ <<line>> # <<>>
<1>1. <<line>> \in Text /\ Len(<<line>>) = 1
  BY DEF Text
<1>2. QED
  BY <1>1, TextParts

LEMMA ReplacedText ==
  ASSUME NEW t \in Text, NEW u \in Replaced(t)
  PROVE  u \in Text
<1>1. PICK i \in 1..Len(t) :
        \E j \in i..Len(t), text \in Replacements : u = Rewritten(t, i, j, text)
  BY DEF Replaced
<1>2. PICK j \in i..Len(t), text \in Replacements : u = Rewritten(t, i, j, text)
  BY <1>1
<1>3. text \in Text
  <2>1. text = <<>> \/ \E line \in Lines : text = <<line>>
    BY DEF Replacements
  <2>2. QED
    BY <2>1, EmptyText, LineText
<1>4. Len(t) \in Nat
  BY TextParts
<1> DEFINE m == i - 1
<1>5. m \in Nat /\ m <= Len(t) /\ j \in Nat /\ j <= Len(t)
  BY <1>4
<1> HIDE DEF m
<1>6. SubSeq(t, 1, m) \in Text /\ After(t, j) \in Text
  BY <1>4, <1>5, TextStart, TextPiece DEF After
<1>7. SubSeq(t, 1, m) \o text \in Text
  BY <1>3, <1>6, TextsJoined
<1>8. SubSeq(t, 1, m) \o text \o After(t, j) \in Text
  BY <1>6, <1>7, TextsJoined
<1>9. QED
  BY <1>2, <1>8 DEF m, Rewritten

LEMMA InsertedText ==
  ASSUME NEW t \in Text, NEW u \in Inserted(t)
  PROVE  u \in Text
<1> DEFINE Made(i, line) == SubSeq(t, 1, i) \o <<line>> \o After(t, i)
<1>1. Inserted(t) = {Made(i, line) : i \in 0..Len(t), line \in Lines}
  BY DEF Inserted
<1> HIDE DEF Made
<1>2. PICK i \in 0..Len(t), line \in Lines : u = Made(i, line)
  BY <1>1
<1>3. Len(t) \in Nat /\ <<line>> \in Text
  BY TextParts, LineText
<1>4. i \in Nat /\ i <= Len(t)
  BY <1>3
<1>5. SubSeq(t, 1, i) \in Text /\ After(t, i) \in Text
  BY <1>3, <1>4, TextStart, TextPiece DEF After
<1>6. SubSeq(t, 1, i) \o <<line>> \in Text
  BY <1>3, <1>5, TextsJoined
<1>7. SubSeq(t, 1, i) \o <<line>> \o After(t, i) \in Text
  BY <1>5, <1>6, TextsJoined
<1>8. QED
  BY <1>2, <1>7 DEF Made

LEMMA ContentText ==
  ASSUME FilesInv, NEW c, AtWork(c), Known(ContextFile(contexts[c].file))
  PROVE  Content(ContextFile(contexts[c].file)) \in Text
<1> DEFINE x == contexts[c]
           f == ContextFile(x.file)
<1>1. x \in Context /\ IsRead(x.file) /\ disk \in Text \cup {None}
  BY WorkKnown
<1>2. f \in File /\ IsRead(f)
  <2> DEFINE y == [x EXCEPT !.file = f]
  <2>1. y.file = f /\ y.own = x.own /\ y.failed = x.failed
    BY <1>1, ContextFields
  <2> HIDE DEF y
  <2>2. y.file \in File /\ IsRead(y.file)
    BY <1>1, <2>1, FileThere
  <2>3. QED
    BY <2>1, <2>2
<1>3. QED
  BY <1>1, <1>2, CachedFile

\* What an agent edits, it has read.
LEMMA EditKept ==
  ASSUME FilesInv, NEW c, AtWork(c), Known(ContextFile(contexts[c].file)), NEW u \in Text,
         Edit(c, u)
  PROVE  FilesInv'
<1> DEFINE x == contexts[c]
           f == Cached(ContextFile(x.file))
           y == [x EXCEPT !.file = f]
           w == Written(disk)
<1>1. /\ x \in Context /\ ~x.failed /\ IsRead(x.file) /\ disk \in Text \cup {None}
      /\ storing \in {"shadow", "files"}
      /\ storing = "shadow" => InShadow(x, disk)
      /\ storing = "files" => OnDisk(x, disk)
  BY WorkKnown
<1>2. y.file = f /\ y.own = x.own /\ y.failed = x.failed
  BY <1>1, ContextFields
<1> HIDE DEF y
<1>3. /\ y.file \in File /\ IsRead(y.file) /\ Known(y.file.content)
      /\ y.file.base \in Text /\ BaseContent(y.file) = y.file.base
      /\ InShadow(x, disk) => InShadow(y, disk)
      /\ ~x.failed /\ OnDisk(x, disk) => OnDisk(y, disk)
  BY <1>1, <1>2, FileViewed
<1>4. f \in File /\ IsRead(f) /\ Known(f.content) /\ f.base \in Text /\ BaseContent(f) = f.base
  BY <1>2, <1>3
<1>5. Known(f) /\ Known(f.base) /\ ~Known(None)
  BY <1>4, FileFields, TextKnown DEF Known
<1>6. storing = "shadow" => f.base = w
  <2>1. SUFFICES ASSUME storing = "shadow" PROVE f.base = w
    OBVIOUS
  <2>2. InShadow(y, disk)
    BY <1>1, <1>3, <2>1
  <2>3. f.base \in {None, w}
    BY <1>2, <1>5, <2>2 DEF InShadow
  <2>4. QED
    BY <1>5, <2>3
<1>7. storing = "files" /\ f.base = <<>> => f.content \in {None, w}
  <2>1. SUFFICES ASSUME storing = "files", f.base = <<>>, f.content \notin {None, w} PROVE FALSE
    OBVIOUS
  <2>2. OnDisk(y, disk)
    BY <1>1, <1>3, <2>1
  <2>3. /\ Known(f.patch) => w # <<>>
        /\ f.content \in {None, w} \/ (Known(f.patch) /\ f.base = w)
    BY <1>1, <1>2, <1>5, <2>2 DEF OnDisk
  <2>4. QED
    BY <2>1, <2>3
<1>8. ApplyChanges(c, f, u)
  BY DEF Edit
<1> HIDE DEF f
<1>9. Changeable(c, f, f.base, u)
  BY <1>4, <1>5, <1>6, <1>7 DEF Changeable
<1>10. QED
  BY <1>8, <1>9, ChangesKept

LEMMA ReplaceKept ==
  ASSUME FilesInv, NEW c, StringReplace(c)
  PROVE  FilesInv'
<1> DEFINE f == ContextFile(contexts[c].file)
<1>1. AtWork(c) /\ Known(f)
  BY DEF StringReplace, CanEdit
<1>2. PICK u \in Replaced(Content(f)) : Edit(c, u)
  BY DEF StringReplace
<1>3. Content(f) \in Text
  BY <1>1, ContentText
<1>4. u \in Text
  BY <1>2, <1>3, ReplacedText
<1>5. QED
  BY <1>1, <1>2, <1>4, EditKept

LEMMA InsertKept ==
  ASSUME FilesInv, NEW c, InsertLine(c)
  PROVE  FilesInv'
<1> DEFINE f == ContextFile(contexts[c].file)
<1>1. AtWork(c) /\ Known(f)
  BY DEF InsertLine, CanEdit
<1>2. PICK u \in Inserted(Content(f)) : Edit(c, u)
  BY DEF InsertLine
<1>3. Content(f) \in Text
  BY <1>1, ContentText
<1>4. u \in Text
  BY <1>2, <1>3, InsertedText
<1>5. QED
  BY <1>1, <1>2, <1>4, EditKept

\* A new file.
LEMMA CreateKept ==
  ASSUME FilesInv, NEW c, NEW line \in Lines, CreateFile(c, line)
  PROVE  FilesInv'
<1> DEFINE f == FileOf(None)
           u == <<line>>
<1>1. AtWork(c) /\ ~Known(disk) /\ ApplyChanges(c, f, u)
  BY DEF CreateFile
<1>2. f \in File /\ f.base = None /\ u \in Text /\ u # <<>>
  BY FileUnread, LineText
<1>3. BaseContent(f) = Written(disk) /\ Written(disk) = <<>>
  BY <1>1, <1>2 DEF BaseContent, Known, Written
<1> HIDE DEF f, u
<1>4. Changeable(c, f, <<>>, u)
  BY <1>2, <1>3, EmptyText DEF Changeable
<1>5. QED
  BY <1>1, <1>4, ChangesKept

\* A file is read.
LEMMA ViewKept ==
  ASSUME FilesInv, NEW c, ViewCode(c)
  PROVE  FilesInv'
<1> DEFINE x == contexts[c]
           f == Cached(ContextFile(x.file))
           y == [x EXCEPT !.file = f]
<1>1. /\ AtWork(c) /\ Known(ContextFile(x.file)) /\ contexts' = [contexts EXCEPT ![c].file = f]
      /\ storing' = storing /\ disk' = disk /\ edits' = edits
  BY DEF ViewCode
<1>2. /\ c \in 1..Len(contexts) /\ x \in Context /\ ~x.failed /\ IsRead(x.file)
      /\ disk \in Text \cup {None} /\ storing \in {"shadow", "files"} /\ edits \in 0..MaxEdits
      /\ storing = "shadow" => InShadow(x, disk)
      /\ storing = "files" => c = Len(contexts) /\ OnDisk(x, disk)
  BY <1>1, WorkKnown
<1>3. contexts' = [contexts EXCEPT ![c] = y]
  BY <1>1
<1>4. /\ y.file = f /\ y.own = x.own /\ y.failed = x.failed /\ y.parent = x.parent
      /\ y = [parent |-> y.parent, file |-> y.file, own |-> y.own, failed |-> y.failed]
      /\ y.own \in Text \cup {None} /\ y.failed \in BOOLEAN /\ y.parent \in Nat
  BY <1>2, ContextFields
<1> HIDE DEF y
<1>5. /\ y.file \in File /\ IsRead(y.file)
      /\ InShadow(x, disk) => InShadow(y, disk)
      /\ ~x.failed /\ OnDisk(x, disk) => OnDisk(y, disk)
  BY <1>1, <1>2, <1>4, FileViewed
<1>6. OneReplaced(c, y)
  BY <1>2, <1>3, <1>4, <1>5 DEF OneReplaced, Context
<1>7. WellPlaced(c, y, disk')
  BY <1>1, <1>2, <1>5 DEF WellPlaced
<1>8. storing' = storing /\ edits' \in 0..MaxEdits /\ disk' \in Text \cup {None}
  BY <1>1, <1>2
<1>9. QED
  BY <1>4, <1>6, <1>7, <1>8, FilesKept

\* A file leaves the context.
LEMMA CleanupKept ==
  ASSUME FilesInv, NEW c, CleanupContext(c)
  PROVE  FilesInv'
<1> DEFINE x == contexts[c]
           y == [x EXCEPT !.file = None, !.own = disk]
<1>1. /\ AtWork(c) /\ contexts' = [contexts EXCEPT ![c].file = None, ![c].own = disk]
      /\ storing' = storing /\ disk' = disk /\ edits' = edits
  BY DEF CleanupContext
<1>2. /\ c \in 1..Len(contexts) /\ x \in Context
      /\ disk \in Text \cup {None} /\ storing \in {"shadow", "files"} /\ edits \in 0..MaxEdits
      /\ storing = "files" => c = Len(contexts)
  BY <1>1, WorkKnown
<1>3. contexts' = [contexts EXCEPT ![c] = y]
  BY <1>1
<1>4. /\ y.file = None /\ y.own = disk /\ y.parent = x.parent /\ y.failed = x.failed
      /\ y \in Context
  <2>1. ContextWith(y, x, None, disk)
    BY DEF ContextWith
  <2> HIDE DEF y
  <2>2. QED
    BY <1>2, <2>1, OtherContext
<1> HIDE DEF y
<1>5. ~Known(y.file)
  BY <1>4 DEF Known
<1>6. IsRead(y.file) /\ InShadow(y, disk) /\ OnDisk(y, disk)
  BY <1>4, <1>5 DEF IsRead, InShadow, OnDisk
<1>7. OneReplaced(c, y)
  BY <1>2, <1>3, <1>4 DEF OneReplaced
<1>8. WellPlaced(c, y, disk')
  BY <1>1, <1>2, <1>6 DEF WellPlaced
<1>9. storing' = storing /\ edits' \in 0..MaxEdits /\ disk' \in Text \cup {None}
  BY <1>1, <1>2
<1>10. QED
  BY <1>4, <1>7, <1>8, <1>9, FilesKept

\* What an older context has, for an agent in shadow mode.
LEMMA ContextKnown ==
  ASSUME FilesInv, NEW c \in 1..Len(contexts)
  PROVE  /\ contexts[c] \in Context /\ IsRead(contexts[c].file) /\ contexts[c].parent \in 0..c - 1
         /\ c > 1 => contexts[c].parent # 0
         /\ storing = "shadow" => InShadow(contexts[c], disk)
<1>1. contexts \in Seq(Context)
  BY DEF FilesInv, FileKnown
<1>2. contexts[c] \in Context
  BY <1>1, SeqParts
<1>3. QED
  BY <1>2 DEF FilesInv, FileKnown

\* A node is reset.
LEMMA ResetKept ==
  ASSUME FilesInv, NEW c, Reset(c)
  PROVE  FilesInv'
<1> DEFINE x == contexts[c]
           p == x.parent
           z == contexts[p]
           y == [x EXCEPT !.file = Clone(z.file), !.own = z.own]
<1>1. /\ AtWork(c) /\ c > 1 /\ storing = "shadow"
      /\ contexts' = [contexts EXCEPT ![c].file = Clone(z.file), ![c].own = z.own]
      /\ storing' = storing /\ disk' = disk /\ edits' = edits
  BY DEF Reset
<1>2. /\ c \in 1..Len(contexts) /\ x \in Context /\ ~x.failed
      /\ disk \in Text \cup {None} /\ contexts \in Seq(Context) /\ edits \in 0..MaxEdits
  BY <1>1, WorkKnown
<1>3. p \in 1..Len(contexts)
  <2>1. p \in 0..c - 1 /\ p # 0
    BY <1>1, <1>2, ContextKnown
  <2>2. Len(contexts) \in Nat
    BY <1>2, SeqParts
  <2> HIDE DEF p
  <2>3. QED
    BY <1>2, <2>1, <2>2
<1>4. z \in Context /\ InShadow(z, disk) /\ z.own \in Text \cup {None}
  <2> HIDE DEF p
  <2>1. z \in Context /\ InShadow(z, disk)
    BY <1>1, <1>3, ContextKnown
  <2>2. QED
    BY <2>1, ContextFields
<1>5. contexts' = [contexts EXCEPT ![c] = y]
  BY <1>1
<1>6. /\ y.file = Clone(z.file) /\ y.own = z.own /\ y.parent = x.parent
      /\ Clone(z.file) \in File \cup {None} => y \in Context
  <2>1. ContextWith(y, x, Clone(z.file), z.own)
    BY DEF ContextWith
  <2> HIDE DEF y, z
  <2>2. QED
    BY <1>2, <1>4, <2>1, OtherContext
<1> HIDE DEF y, z, p
<1>7. y.file \in File \cup {None} /\ IsRead(y.file) /\ InShadow(y, disk)
  BY <1>4, <1>6, FileCloned
<1>8. OneReplaced(c, y)
  BY <1>2, <1>5, <1>6, <1>7 DEF OneReplaced
<1>9. WellPlaced(c, y, disk')
  BY <1>1, <1>7 DEF WellPlaced
<1>10. storing' = storing /\ edits' \in 0..MaxEdits /\ disk' \in Text \cup {None}
  BY <1>1, <1>2
<1>11. QED
  BY <1>6, <1>8, <1>9, <1>10, FilesKept

\* A child is created.
LEMMA ChildKept ==
  ASSUME FilesInv, NEW c, CreateChild(c)
  PROVE  FilesInv'
<1> DEFINE n == Len(contexts)
           x == contexts[c]
           y == [x EXCEPT !.parent = c, !.file = Clone(x.file)]
<1>1. /\ c \in DOMAIN contexts /\ ~x.failed /\ n < MaxContexts /\ (storing # "shadow" => c = n)
      /\ contexts' = Append(contexts, y) /\ storing' = storing /\ disk' = disk /\ edits' = edits
  BY DEF CreateChild
<1>2. /\ storing \in {"shadow", "files"} /\ storing \in Storing /\ disk \in Text \cup {None}
      /\ edits \in 0..MaxEdits /\ contexts \in Seq(Context) /\ n \in 1..MaxContexts
  BY DEF FilesInv, FileKnown
<1>3. DOMAIN contexts = 1..n /\ c \in 1..n /\ n \in Nat /\ n + 1 \in Nat /\ c \in Nat /\ c # 0
  BY <1>1, <1>2, SeqParts
<1>4. x \in Context /\ IsRead(x.file) /\ (storing = "shadow" => InShadow(x, disk))
  BY <1>3, ContextKnown
<1>5. y.file = Clone(x.file) /\ y.own = x.own /\ y.parent = c /\ y.failed = FALSE
      /\ (y.file \in File \cup {None} => y \in Context)
  <2>1. PICK p \in Nat, g \in File \cup {None}, w \in Text \cup {None} :
          x = [parent |-> p, file |-> g, own |-> w, failed |-> FALSE]
    BY <1>1, <1>4, ContextFields
  <2> DEFINE h == Clone(x.file)
  <2>2. y = [x EXCEPT !.parent = c, !.file = h]
    OBVIOUS
  <2> HIDE DEF x, y, h
  <2>3. y = [parent |-> c, file |-> h, own |-> w, failed |-> FALSE] /\ x.own = w
    BY <2>1, <2>2
  <2>4. y.file = h /\ y.own = x.own /\ y.parent = c /\ y.failed = FALSE
    BY <2>3
  <2>5. y.file \in File \cup {None} => y \in Context
    BY <1>3, <2>3, <2>4 DEF Context
  <2>6. QED
    BY <2>4, <2>5 DEF h
<1> HIDE DEF y
<1>6. /\ y.file \in File \cup {None} /\ IsRead(y.file)
      /\ InShadow(x, disk) => InShadow(y, disk)
      /\ OnDisk(x, disk) => OnDisk(y, disk)
  <2>1. y.failed = x.failed
    BY <1>1, <1>4, <1>5, ContextFields
  <2> HIDE DEF x
  <2>2. QED
    BY <1>4, <1>5, <2>1, FileCloned
<1>7. y \in Context
  BY <1>5, <1>6
<1>8. /\ contexts' \in Seq(Context) /\ Len(contexts') = n + 1 /\ contexts'[n + 1] = y
      /\ \A d \in 1..n : contexts'[d] = contexts[d]
  BY <1>1, <1>2, <1>7, AppendProperties
<1>9. n + 1 \in 1..MaxContexts
  BY <1>1, <1>2, <1>3, FileContextAssumption
<1>10. storing = "files" => c = n /\ OnDisk(x, disk)
  BY <1>1 DEF FilesInv
<1> HIDE DEF n, x
<1>11. ASSUME NEW d \in 1..n + 1
       PROVE  /\ contexts'[d].parent \in 0..d - 1 /\ (d > 1 => contexts'[d].parent # 0)
              /\ storing = "files" => contexts'[d].parent = d - 1
              /\ IsRead(contexts'[d].file)
              /\ storing = "shadow" => InShadow(contexts'[d], disk)
  <2>1. CASE d = n + 1
    <3>1. contexts'[d] = y
      BY <1>8, <2>1
    <3>2. c \in 0..d - 1 /\ (storing = "files" => c = d - 1)
      BY <1>3, <1>10, <2>1
    <3>3. QED
      BY <1>3, <1>4, <1>5, <1>6, <3>1, <3>2
  <2>2. CASE d # n + 1
    <3>1. d \in 1..n
      BY <1>3, <2>2
    <3>2. contexts'[d] = contexts[d]
      BY <1>8, <3>1
    <3>3. storing = "files" => contexts[d].parent = d - 1
      BY <3>1 DEF FilesInv, FileKnown, n
    <3>4. QED
      BY <3>1, <3>2, <3>3, ContextKnown DEF n
  <2>3. QED
    BY <2>1, <2>2
<1>12. FileKnown'
  BY <1>1, <1>2, <1>8, <1>9, <1>11 DEF FileKnown
<1>13. storing' = "shadow" => \A d \in 1..Len(contexts') : InShadow(contexts'[d], disk')
  BY <1>1, <1>8, <1>11
<1>14. storing' = "files" => OnDisk(contexts'[Len(contexts')], disk')
  BY <1>1, <1>6, <1>8, <1>10
<1>15. QED
  BY <1>12, <1>13, <1>14 DEF FilesInv

\* The trajectory is read again.
LEMMA ReloadKept ==
  ASSUME FilesInv, Reload
  PROVE  FilesInv'
<1> DEFINE n == Len(contexts)
<1>1. /\ contexts' = [c \in DOMAIN contexts |-> [contexts[c] EXCEPT !.file = Clone(@)]]
      /\ storing' = storing /\ disk' = disk /\ edits' = edits
  BY DEF Reload
<1>2. /\ storing \in {"shadow", "files"} /\ storing \in Storing /\ disk \in Text \cup {None}
      /\ edits \in 0..MaxEdits /\ contexts \in Seq(Context) /\ n \in 1..MaxContexts
  BY DEF FilesInv, FileKnown
<1>3. DOMAIN contexts = 1..n /\ n \in Nat
  BY <1>2, SeqParts
<1>4. ASSUME NEW c \in 1..n
      PROVE  /\ contexts'[c] \in Context /\ IsRead(contexts'[c].file)
             /\ contexts'[c].parent = contexts[c].parent
             /\ InShadow(contexts[c], disk) => InShadow(contexts'[c], disk)
             /\ OnDisk(contexts[c], disk) => OnDisk(contexts'[c], disk)
  <2> DEFINE x == contexts[c]
             y == contexts'[c]
  <2>1. x \in Context
    BY <1>4, ContextKnown
  <2>2. y = [x EXCEPT !.file = Clone(x.file)]
    BY <1>1, <1>3
  <2> HIDE DEF x, y
  <2>3. PICK p \in Nat, g \in File \cup {None}, w \in Text \cup {None}, e \in BOOLEAN :
          x = [parent |-> p, file |-> g, own |-> w, failed |-> e]
    BY <2>1, ContextFields
  <2>4. y = [parent |-> p, file |-> Clone(x.file), own |-> w, failed |-> e]
    BY <2>2, <2>3
  <2>5. /\ y.file = Clone(x.file) /\ y.own = x.own /\ y.failed = x.failed /\ y.parent = x.parent
        /\ y.file \in File \cup {None} => y \in Context
    <3>1. x.own = w /\ x.failed = e /\ x.parent = p
      BY <2>3
    <3>2. y.file = Clone(x.file) /\ y.own = w /\ y.failed = e /\ y.parent = p
      BY <2>4
    <3>3. y.file \in File \cup {None} => y \in Context
      BY <2>3, <2>4, <3>2 DEF Context
    <3>4. QED
      BY <3>1, <3>2, <3>3
  <2>6. /\ y.file \in File \cup {None} /\ IsRead(y.file)
        /\ InShadow(x, disk) => InShadow(y, disk)
        /\ OnDisk(x, disk) => OnDisk(y, disk)
    BY <2>1, <2>5, FileCloned
  <2>7. QED
    BY <2>5, <2>6 DEF x, y
<1>5. contexts' = [c \in 1..n |-> contexts'[c]]
  BY <1>1, <1>3
<1>6. contexts' \in Seq(Context) /\ Len(contexts') = n
  <2> HIDE DEF n
  <2>1. \A c \in 1..n : contexts'[c] \in Context
    BY <1>4
  <2>2. QED
    BY <1>3, <1>5, <2>1, SeqMade
<1>7. ASSUME NEW c \in 1..n
      PROVE  /\ contexts'[c].parent \in 0..c - 1 /\ (c > 1 => contexts'[c].parent # 0)
             /\ storing = "files" => contexts'[c].parent = c - 1
             /\ IsRead(contexts'[c].file)
             /\ storing = "shadow" => InShadow(contexts'[c], disk)
  <2>1. storing = "files" => contexts[c].parent = c - 1
    BY DEF FilesInv, FileKnown
  <2>2. QED
    BY <1>4, <2>1, ContextKnown
<1>8. FileKnown'
  BY <1>1, <1>2, <1>6, <1>7 DEF FileKnown
<1>9. storing' = "shadow" => \A c \in 1..Len(contexts') : InShadow(contexts'[c], disk')
  BY <1>1, <1>6, <1>7
<1>10. storing' = "files" => OnDisk(contexts'[Len(contexts')], disk')
  <2>1. SUFFICES ASSUME storing = "files" PROVE OnDisk(contexts'[n], disk)
    BY <1>1, <1>6
  <2>2. OnDisk(contexts[n], disk)
    BY <2>1 DEF FilesInv
  <2>3. n \in 1..n
    BY <1>2
  <2> HIDE DEF n
  <2>4. QED
    BY <1>4, <2>2, <2>3
<1>11. QED
  BY <1>8, <1>9, <1>10 DEF FilesInv

LEMMA FilesStart ==
  ASSUME FileInit
  PROVE  FilesInv
<1> DEFINE x == [parent |-> 0, file |-> None, own |-> disk, failed |-> FALSE]
<1>1. /\ storing \in Storing /\ disk \in Originals /\ contexts = <<x>> /\ edits = 0
  BY DEF FileInit
<1>2. /\ Storing \subseteq {"shadow", "files"} /\ Originals \subseteq Text \cup {None}
      /\ MaxContexts \in Nat \ {0} /\ MaxEdits \in Nat \ {0}
  BY FileContextAssumption
<1>3. x \in Context /\ x.parent = 0 /\ x.file = None /\ x.own = disk
  BY <1>1, <1>2 DEF Context
<1> HIDE DEF x
<1>4. contexts \in Seq(Context) /\ Len(contexts) = 1 /\ contexts[1] = x
  BY <1>1, <1>3
<1>5. ~Known(x.file) /\ IsRead(x.file) /\ InShadow(x, disk) /\ OnDisk(x, disk)
  BY <1>3 DEF Known, IsRead, InShadow, OnDisk
<1>6. FileKnown
  <2>1. storing \in {"shadow", "files"} /\ disk \in Text \cup {None} /\ edits \in 0..MaxEdits
        /\ Len(contexts) \in 1..MaxContexts
    BY <1>1, <1>2, <1>4
  <2>2. ASSUME NEW c \in 1..Len(contexts)
        PROVE  /\ contexts[c].parent \in 0..c - 1 /\ (c > 1 => contexts[c].parent # 0)
               /\ storing = "files" => contexts[c].parent = c - 1
               /\ IsRead(contexts[c].file)
    <3>1. c = 1 /\ contexts[c] = x
      BY <1>4
    <3>2. QED
      BY <1>3, <1>5, <3>1
  <2>3. QED
    BY <1>1, <1>4, <2>1, <2>2 DEF FileKnown
<1>7. \A c \in 1..Len(contexts) : contexts[c] = x
  BY <1>4
<1>8. QED
  BY <1>4, <1>5, <1>6, <1>7 DEF FilesInv

LEMMA FilesStep ==
  FilesInv /\ [FileNext]_fileVars => FilesInv'
<1> SUFFICES ASSUME FilesInv, [FileNext]_fileVars PROVE FilesInv'
  OBVIOUS
<1>1. ASSUME NEW c \in 1..MaxContexts, CreateChild(c) PROVE FilesInv'
  BY <1>1, ChildKept
<1>2. ASSUME NEW c \in 1..MaxContexts, Reset(c) PROVE FilesInv'
  BY <1>2, ResetKept
<1>3. ASSUME NEW c \in 1..MaxContexts, ViewCode(c) PROVE FilesInv'
  BY <1>3, ViewKept
<1>4. ASSUME NEW c \in 1..MaxContexts, StringReplace(c) PROVE FilesInv'
  BY <1>4, ReplaceKept
<1>5. ASSUME NEW c \in 1..MaxContexts, InsertLine(c) PROVE FilesInv'
  BY <1>5, InsertKept
<1>6. ASSUME NEW c \in 1..MaxContexts, CleanupContext(c) PROVE FilesInv'
  BY <1>6, CleanupKept
<1>7. ASSUME NEW c \in 1..MaxContexts, NEW line \in Lines, CreateFile(c, line) PROVE FilesInv'
  BY <1>7, CreateKept
<1>8. ASSUME Reload PROVE FilesInv'
  BY <1>8, ReloadKept
<1>9. ASSUME UNCHANGED fileVars PROVE FilesInv'
  BY <1>9 DEF FilesInv, FileKnown, fileVars, InShadow, OnDisk
<1>10. QED
  BY <1>1, <1>2, <1>3, <1>4, <1>5, <1>6, <1>7, <1>8, <1>9 DEF FileNext

LEMMA FilesInvariant == FileSpec => []FilesInv
<1>1. FileInit => FilesInv
  BY FilesStart
<1>2. QED
  BY <1>1, FilesStep, PTL DEF FileSpec

\* The contexts of the nodes and what their files have are of the declared types: a file
\* whose content is kept has the text it is made of, and a context comes after the one it
\* was cloned from (file_context.py).
THEOREM FilesTypeCorrect == FileSpec => []FileTypeOK
<1>1. FilesInv => FileTypeOK
  <2> SUFFICES ASSUME FilesInv PROVE FileTypeOK
    OBVIOUS
  <2>1. /\ storing \in Storing /\ edits \in 0..MaxEdits /\ contexts \in Seq(Context)
        /\ Len(contexts) \in 1..MaxContexts
    BY DEF FilesInv, FileKnown
  <2>2. ASSUME NEW c \in DOMAIN contexts
        PROVE  /\ contexts[c].parent \in 0..c - 1
               /\ Known(contexts[c].file) =>
                    /\ contexts[c].file.patch \in Patch \cup {None}
                    /\ Known(contexts[c].file.content) => Known(contexts[c].file.base)
    <3>1. c \in 1..Len(contexts)
      BY <2>1, SeqParts
    <3>2. contexts[c] \in Context /\ IsRead(contexts[c].file) /\ contexts[c].parent \in 0..c - 1
      BY <3>1, ContextKnown
    <3>3. Known(contexts[c].file) => contexts[c].file \in File
      BY <3>2, ContextFields DEF Known
    <3>4. QED
      BY <3>2, <3>3, FileFields DEF IsRead
  <2>3. QED
    BY <2>1, <2>2 DEF FileTypeOK
<1>2. QED
  BY <1>1, FilesInvariant, PTL

\* What a file says, cached or not.
LEMMA SaysOnly ==
  ASSUME NEW f \in File, NEW w \in Text, Content(f) = w, Content(FileOf(f.patch)) = w
  PROVE  Says(f) = {w}
<1>1. Clone(f) = FileOf(f.patch)
  BY FileFields DEF Clone
<1>2. QED
  BY <1>1 DEF Says

\* What a file says whose caches are gone.
LEMMA UnreadContent ==
  ASSUME NEW P \in Patch \cup {None}
  PROVE  Content(FileOf(P)) = IF Known(P) THEN Apply(Written(disk), P) ELSE Written(disk)
<1>1. FileOf(P).base = None /\ FileOf(P).content = None /\ FileOf(P).patch = P /\ ~Known(None)
  BY FileUnread DEF Known
<1>2. BaseContent(FileOf(P)) = Written(disk)
  BY <1>1 DEF BaseContent
<1>3. QED
  BY <1>1, <1>2 DEF Content

LEMMA EditsSeenInShadow ==
  ASSUME FilesInv, storing = "shadow", NEW c \in 1..Len(contexts),
         Known(ContextFile(contexts[c].file))
  PROVE  Says(ContextFile(contexts[c].file)) = {Written(contexts[c].own)}
<1> DEFINE x == contexts[c]
           f == ContextFile(x.file)
           y == [x EXCEPT !.file = f, !.own = x.own]
           z == [x EXCEPT !.file = Clone(f), !.own = x.own]
<1>1. x \in Context /\ IsRead(x.file) /\ InShadow(x, disk)
  BY ContextKnown
<1>2. disk \in Text \cup {None}
  BY DEF FilesInv, FileKnown
<1>3. /\ y.file = f /\ y.own = x.own /\ y.failed = x.failed
      /\ f \in File \cup {None} => y \in Context
  <2>1. ContextWith(y, x, f, x.own) /\ x.own \in Text \cup {None}
    BY <1>1, ContextFields DEF ContextWith
  <2> HIDE DEF x, y, f
  <2>2. QED
    BY <1>1, <2>1, OtherContext
<1>4. /\ z.file = Clone(f) /\ z.own = x.own
      /\ Clone(f) \in File \cup {None} => z \in Context
  <2>1. ContextWith(z, x, Clone(f), x.own) /\ x.own \in Text \cup {None}
    BY <1>1, ContextFields DEF ContextWith
  <2> HIDE DEF x, z, f
  <2>2. QED
    BY <1>1, <2>1, OtherContext
<1> HIDE DEF y, z
<1>5. y.file \in File /\ IsRead(y.file) /\ InShadow(y, disk)
  BY <1>1, <1>2, <1>3, FileThere
<1>6. f \in File /\ y \in Context
  BY <1>3, <1>5
<1>7. Known(y.file) /\ Content(y.file) = Written(y.own)
  BY <1>2, <1>3, <1>5, <1>6, FileFields, ShadowContent
<1>8. z.file \in File \cup {None} /\ IsRead(z.file) /\ InShadow(z, disk)
  <2>1. z.file = Clone(y.file) /\ z.own = y.own
    BY <1>3, <1>4
  <2>2. QED
    BY <1>5, <1>6, <2>1, FileCloned
<1>9. f.patch \in Patch \cup {None} /\ Clone(f) = FileOf(f.patch) /\ Known(Clone(f))
  BY <1>6, FileFields, FileUnread DEF Clone
<1>10. Content(z.file) = Written(z.own)
  BY <1>2, <1>4, <1>8, <1>9, ShadowContent
<1>11. Written(x.own) \in Text
  BY <1>1, ContextFields, WrittenText
<1>12. QED
  BY <1>3, <1>4, <1>6, <1>7, <1>9, <1>10, <1>11, SaysOnly

LEMMA EditsSeenOnDisk ==
  ASSUME FilesInv, storing = "files", IsInjective(Written(disk)), Known(AtEnd),
         Known(AtEnd.patch) => Inside(AtEnd.patch)
  PROVE  Says(AtEnd) = {Written(disk)}
<1> DEFINE x == contexts[Len(contexts)]
           f == x.file
           w == Written(disk)
<1>1. /\ disk \in Text \cup {None} /\ Len(contexts) \in 1..Len(contexts)
      /\ OnDisk(x, disk)
  BY DEF FilesInv, FileKnown
<1>2. x \in Context /\ IsRead(f) /\ f = AtEnd /\ Known(f)
  BY <1>1, ContextKnown DEF AtEnd
<1>3. w \in Text /\ f \in File
  BY <1>1, <1>2, WrittenText, ContextFields DEF Known
<1>4. Known(f.patch) => Inside(f.patch)
  BY <1>2
<1>5. f.patch \in Patch \cup {None} /\ Known(w) /\ ~Known(None)
  BY <1>3, FileFields, TextKnown DEF Known
<1>6. Known(f.patch) => ~x.failed /\ Apply(w, f.patch) = w
  <2>1. SUFFICES ASSUME Known(f.patch) PROVE ~x.failed /\ Apply(w, f.patch) = w
    OBVIOUS
  <2>2. f.patch.before # <<>>
    BY <1>4, <2>1 DEF Inside
  <2>3. ~x.failed
    BY <1>1, <1>2, <2>1, <2>2 DEF OnDisk
  <2>4. PICK b \in Text : b # w /\ f.patch = Difference(b, w)
    BY <1>1, <1>2, <2>1, <2>3 DEF OnDisk
  <2>5. Apply(w, Difference(b, w)) = w
    BY <1>3, <1>4, <2>1, <2>4, Reapplied
  <2>6. QED
    BY <2>3, <2>4, <2>5
<1>7. f.content \in {None, w}
  BY <1>1, <1>2, <1>6 DEF OnDisk
<1>8. Content(FileOf(f.patch)) = w
  BY <1>5, <1>6, UnreadContent
<1>9. Content(f) = w
  <2>1. CASE f.content = w
    BY <1>5, <2>1 DEF Content
  <2>2. CASE f.content = None
    <3>1. ~Known(f.content) /\ ~Known(f.base)
      BY <1>2, <1>5, <2>2 DEF IsRead
    <3>2. BaseContent(f) = w
      BY <3>1 DEF BaseContent
    <3>3. QED
      BY <1>6, <3>1, <3>2 DEF Content
  <2>3. QED
    BY <1>7, <2>1, <2>2
<1>10. QED
  BY <1>2, <1>3, <1>8, <1>9, SaysOnly

LEMMA EditsSeen ==
  ASSUME FilesInv
  PROVE  EditsAreSeen
<1>1. DOMAIN contexts = 1..Len(contexts)
  BY SeqParts DEF FilesInv, FileKnown
<1>2. QED
  BY <1>1, EditsSeenInShadow, EditsSeenOnDisk DEF EditsAreSeen

--------------------------------------------------------------------------------
(* The tasks of an agent                                                       *)

States == {"open", "completed", NoTask}

Tasks == [TaskIds -> States]

\* What the next access finds, if nothing fails.
Truth == IF unsaved THEN artifacts ELSE Stored

TasksKnown ==
  /\ artifacts \in Tasks /\ document \in Tasks \cup {NoTask} /\ told \in Tasks
  /\ untold \subseteq TaskIds /\ taskFaults \in 0..MaxTaskFaults
  /\ unsaved \in BOOLEAN /\ slipped \in BOOLEAN
  /\ action \in [state : States \cup {"none"}, ids : SUBSET TaskIds, missing : SUBSET TaskIds,
                 toDo : Seq(TaskIds)]
  /\ action # Resting => action.state \in States
  /\ action.missing \subseteq action.ids
  /\ ToSet(action.toDo) \subseteq action.ids \ action.missing

\* Memory holds what storage does, or nothing. Tasks are as they were told or, if an action is
\* at them, as it found them or made them, as far as it has got.
TasksTold ==
  /\ ~unsaved => artifacts \in {Empty, Stored}
  /\ \A id \in TaskIds \ (untold \cup action.ids) : Truth[id] = told[id]
  /\ \A id \in action.missing : Truth[id] = NoTask
  /\ \A id \in action.ids \ (action.missing \cup ToSet(action.toDo)) : Truth[id] = action.state

TasksInv == TasksKnown /\ (~slipped => TasksTold)

\* The empty tasks are tasks, and what is stored is the document, once there is one.
LEMMA TasksStored ==
  ASSUME TasksKnown
  PROVE  /\ Empty \in Tasks /\ Stored \in Tasks /\ Loaded \in Tasks /\ Truth \in Tasks
         /\ document \in Tasks => Stored = document
<1>1. Empty \in Tasks
  BY DEF Empty, Tasks, States
<1>2. document \in Tasks => document # NoTask
  BY TasksAssumption DEF Tasks, States
<1>3. QED
  BY <1>1, <1>2 DEF TasksKnown, Stored, Loaded, Truth

\* The lists of ids, and what is left of one.
LEMMA ListsOfIds ==
  ASSUME NEW ids \in IdLists
  PROVE  ids \in Seq(TaskIds) /\ ToSet(ids) \subseteq TaskIds
<1>1. CASE \E id \in TaskIds : ids = <<id>>
  BY <1>1 DEF ToSet
<1>2. CASE \E a, b \in TaskIds : ids = <<a, b>>
  BY <1>2 DEF ToSet
<1>3. QED
  BY <1>1, <1>2 DEF IdLists

LEMMA ShortLists ==
  ASSUME NEW a, NEW b
  PROVE  /\ ToSet(<<>>) = {} /\ ToSet(<<a>>) = {a} /\ ToSet(<<a>> \o <<b>>) = {a, b}
         /\ <<a>> \o <<b>> \in Seq({a, b})
<1>1. ToSet(<<>>) = {}
  BY DEF ToSet
<1>2. ToSet(<<a>>) = {a}
  BY DEF ToSet
<1>3. <<a>> \in Seq({a, b}) /\ <<b>> \in Seq({a, b})
  OBVIOUS
<1> DEFINE s == <<a>> \o <<b>>
<1>4. s \in Seq({a, b}) /\ Len(s) = 2 /\ s[1] = a /\ s[2] = b
  BY <1>3, ConcatProperties
<1> HIDE DEF s
<1>5. DOMAIN s = {1, 2}
  BY <1>4
<1>6. ToSet(s) = {a, b}
  BY <1>4, <1>5 DEF ToSet
<1>7. QED
  BY <1>1, <1>2, <1>4, <1>6 DEF s

LEMMA AmongIds ==
  ASSUME NEW ids \in IdLists, NEW set \in SUBSET TaskIds
  PROVE  Among(ids, set) \in Seq(TaskIds) /\ ToSet(Among(ids, set)) = ToSet(ids) \cap set
<1> DEFINE One(id) == IF id \in set THEN <<id>> ELSE <<>>
<1>0. ASSUME NEW id \in TaskIds
      PROVE  One(id) \in Seq(TaskIds) /\ ToSet(One(id)) = {id} \cap set
  <2>1. CASE id \in set
    <3>1. One(id) = <<id>> /\ {id} \cap set = {id}
      BY <2>1
    <3>2. <<id>> \in Seq(TaskIds)
      OBVIOUS
    <3>3. QED
      BY <3>1, <3>2, ShortLists
  <2>2. CASE id \notin set
    <3>1. One(id) = <<>> /\ {id} \cap set = {}
      BY <2>2
    <3>2. <<>> \in Seq(TaskIds)
      OBVIOUS
    <3>3. QED
      BY <3>1, <3>2, ShortLists
  <2>3. QED
    BY <2>1, <2>2
<1>1. ASSUME NEW id \in TaskIds, ids = <<id>>
      PROVE  Among(ids, set) \in Seq(TaskIds) /\ ToSet(Among(ids, set)) = ToSet(ids) \cap set
  <2>1. Among(ids, set) = One(id) \o <<>>
    BY <1>1 DEF Among
  <2> HIDE DEF One
  <2>2. Among(ids, set) = One(id)
    BY <1>0, <2>1, ConcatEmptySeq
  <2>3. QED
    BY <1>0, <1>1, <2>2, ShortLists
<1>2. ASSUME NEW a \in TaskIds, NEW b \in TaskIds, ids = <<a, b>>
      PROVE  Among(ids, set) \in Seq(TaskIds) /\ ToSet(Among(ids, set)) = ToSet(ids) \cap set
  <2>1. Among(ids, set) = One(a) \o One(b)
    BY <1>2 DEF Among
  <2>2. ToSet(ids) = {a, b}
    BY <1>2 DEF ToSet
  <2>3. CASE a \in set /\ b \in set
    <3>1. Among(ids, set) = <<a>> \o <<b>> /\ {a, b} \subseteq TaskIds
      BY <2>1, <2>3
    <3>a. <<a>> \o <<b>> \in Seq({a, b}) /\ ToSet(<<a>> \o <<b>>) = {a, b}
      BY ShortLists
    <3>2. Among(ids, set) \in Seq({a, b}) /\ ToSet(Among(ids, set)) = {a, b}
      BY <3>1, <3>a, Zenon
    <3>3. {a, b} \cap set = {a, b}
      BY <2>3
    <3>4. QED
      BY <2>2, <3>1, <3>2, <3>3, SeqMonotonic
  <2>4. CASE a \notin set
    <3>1. Among(ids, set) = <<>> \o One(b) /\ {a, b} \cap set = {b} \cap set
      BY <2>1, <2>4
    <3> HIDE DEF One
    <3>2. Among(ids, set) = One(b)
      BY <1>0, <3>1, ConcatEmptySeq
    <3>3. QED
      BY <1>0, <2>2, <3>1, <3>2
  <2>5. CASE b \notin set
    <3>1. Among(ids, set) = One(a) \o <<>> /\ {a, b} \cap set = {a} \cap set
      BY <2>1, <2>5
    <3> HIDE DEF One
    <3>2. Among(ids, set) = One(a)
      BY <1>0, <3>1, ConcatEmptySeq
    <3>3. QED
      BY <1>0, <2>2, <3>1, <3>2
  <2>6. QED
    BY <2>3, <2>4, <2>5
<1>3. QED
  BY <1>1, <1>2 DEF IdLists

\* An access that loads the tasks has what there is, unless something slips; one that only
\* loads them changes nothing that is told.
LEMMA TasksAreLoaded ==
  ASSUME TasksInv, NEW found, found \in {Loaded, artifacts}, NEW writes \in BOOLEAN,
         LoadTasks(found, writes)
  PROVE  /\ found \in Tasks
         /\ slipped' \in BOOLEAN /\ taskFaults' \in 0..MaxTaskFaults
         /\ ~slipped' => ~slipped /\ found = Truth
<1>1. found \in Tasks
  BY TasksStored DEF TasksInv, TasksKnown
<1>2. slipped' = (slipped \/ found # Loaded \/ (artifacts # Loaded /\ unsaved))
  BY DEF LoadTasks
<1>3. slipped' \in BOOLEAN /\ taskFaults' \in 0..MaxTaskFaults
  <2>1. PICK k \in {0, 1}, l \in {0, 1} : taskFaults' = taskFaults + k + l
    BY DEF LoadTasks, Failing
  <2>2. QED
    BY <1>2, <2>1, TasksAssumption DEF TasksInv, TasksKnown, LoadTasks, Failing
<1>4. ASSUME ~slipped'
      PROVE  ~slipped /\ found = Truth
  <2>1. ~slipped /\ found = Loaded /\ (unsaved => artifacts = Loaded)
    BY <1>2, <1>4
  <2>2. ~unsaved => Loaded = Stored
    BY <2>1 DEF TasksInv, TasksTold, Loaded
  <2>3. QED
    BY <2>1, <2>2 DEF Truth
<1>5. QED
  BY <1>1, <1>3, <1>4

LEMMA LoadKeepsTruth ==
  ASSUME TasksInv, NEW found, found = Truth, ~slipped, artifacts' = found,
         UNCHANGED <<document, unsaved>>
  PROVE  Truth' = Truth /\ (~unsaved' => artifacts' \in {Empty, Stored}')
<1>1. Stored' = Stored
  BY DEF Stored, Empty
<1>2. QED
  BY <1>1 DEF Truth
\* An action begins: what it has not found is not there, and what it leaves out is as it
\* would make it.
LEMMA BeginKeeps ==
  ASSUME TasksInv, NEW state \in States, NEW ids \in IdLists, NEW missing, NEW toDo,
         BeginTasks(state, ids, missing, toDo), artifacts' \in Tasks,
         slipped' \in BOOLEAN, taskFaults' \in 0..MaxTaskFaults,
         missing \subseteq ToSet(ids),
         toDo \in Seq(TaskIds), ToSet(toDo) \subseteq ToSet(ids) \ missing,
         ~slipped' => /\ ~slipped /\ Truth' = Truth
                      /\ ~unsaved' => artifacts' \in {Empty, Stored}'
                      /\ \A id \in missing : Truth[id] = NoTask
                      /\ \A id \in ToSet(ids) \ (missing \cup ToSet(toDo)) : Truth[id] = state
  PROVE  TasksInv'
<1>1. /\ action = Resting /\ UNCHANGED <<document, told, untold, unsaved>>
      /\ action' = [state |-> state, ids |-> ToSet(ids), missing |-> missing, toDo |-> toDo]
  BY DEF BeginTasks
<1>2. ToSet(ids) \subseteq TaskIds
  BY ListsOfIds
<1>3. /\ action'.state = state /\ action'.ids = ToSet(ids) /\ action'.missing = missing
      /\ action'.toDo = toDo
      /\ action' \in [state : States \cup {"none"}, ids : SUBSET TaskIds,
                      missing : SUBSET TaskIds, toDo : Seq(TaskIds)]
  BY <1>1, <1>2
<1>4. TasksKnown'
  BY <1>1, <1>3 DEF TasksInv, TasksKnown
<1>5. ASSUME ~slipped'
      PROVE  TasksTold'
  <2>1. ~slipped /\ TasksTold /\ action.ids = {}
    BY <1>1, <1>5 DEF TasksInv, Resting
  <2>2. \A id \in TaskIds \ untold : Truth[id] = told[id]
    BY <2>1 DEF TasksTold
  <2>3. Truth' = Truth /\ UNCHANGED <<told, untold>>
    BY <1>1, <1>5
  <2>4. \A id \in TaskIds \ (untold' \cup action'.ids) : (Truth[id])' = told'[id]
    BY <2>2, <2>3
  <2>5. /\ \A id \in action'.missing : (Truth[id])' = NoTask
        /\ \A id \in action'.ids \ (action'.missing \cup ToSet(action'.toDo)) :
             (Truth[id])' = action'.state
    BY <1>3, <1>5, <2>3
  <2>6. QED
    BY <1>5, <2>4, <2>5 DEF TasksTold
<1>6. QED
  BY <1>4, <1>5 DEF TasksInv

\* An action that looks at the tasks first.
LEMMA BeginLoadedKeeps ==
  ASSUME TasksInv, NEW found \in {Loaded, artifacts}, LoadTasks(found, TRUE),
         artifacts' = found, NEW state \in States, NEW ids \in IdLists, NEW toDo,
         BeginTasks(state, ids, Missing(ids, found), toDo),
         toDo \in Seq(TaskIds), ToSet(toDo) \subseteq ToSet(ids) \ Missing(ids, found),
         \A id \in ToSet(ids) \ (Missing(ids, found) \cup ToSet(toDo)) : found[id] = state
  PROVE  TasksInv'
<1>1. /\ found \in Tasks /\ slipped' \in BOOLEAN /\ taskFaults' \in 0..MaxTaskFaults
      /\ ~slipped' => ~slipped /\ found = Truth
  BY TasksAreLoaded
<1>2. UNCHANGED <<document, unsaved>>
  BY DEF BeginTasks
<1>3. ~slipped' => Truth' = Truth /\ (~unsaved' => artifacts' \in {Empty, Stored}')
  BY <1>1, <1>2, LoadKeepsTruth
<1>4. Missing(ids, found) \subseteq ToSet(ids) /\ \A id \in Missing(ids, found) : found[id] = NoTask
  BY DEF Missing
<1> DEFINE missing == Missing(ids, found)
<1>5. ~slipped' => /\ \A id \in missing : Truth[id] = NoTask
                   /\ \A id \in ToSet(ids) \ (missing \cup ToSet(toDo)) : Truth[id] = state
  BY <1>1, <1>4
<1> HIDE DEF missing
<1>6. BeginTasks(state, ids, missing, toDo) /\ ToSet(toDo) \subseteq ToSet(ids) \ missing
  BY DEF missing
<1>7. missing \subseteq ToSet(ids)
  BY <1>4 DEF missing
<1>8. artifacts' \in Tasks
  BY <1>1
<1>9. QED
  BY <1>1, <1>3, <1>5, <1>6, <1>7, <1>8, BeginKeeps

LEMMA CreateTasksKeeps ==
  ASSUME TasksInv, NEW ids \in IdLists, CreateTasks(ids)
  PROVE  TasksInv'
<1>1. BeginTasks("open", ids, {}, ids) /\ UNCHANGED <<artifacts, slipped, taskFaults>>
  BY DEF CreateTasks
<1>2. UNCHANGED <<document, unsaved>>
  BY <1>1 DEF BeginTasks
<1>3. Truth' = Truth /\ Stored' = Stored /\ Empty' = Empty
  BY <1>1, <1>2 DEF Truth, Stored, Empty
<1>4. ~slipped' => ~slipped /\ (~unsaved' => artifacts' \in {Empty, Stored}')
  BY <1>1, <1>2, <1>3 DEF TasksInv, TasksTold
<1>5. "open" \in States /\ ids \in Seq(TaskIds)
  BY ListsOfIds DEF States
<1>6. artifacts' \in Tasks /\ slipped' \in BOOLEAN /\ taskFaults' \in 0..MaxTaskFaults
  BY <1>1 DEF TasksInv, TasksKnown
<1>7. /\ {} \subseteq ToSet(ids) /\ ToSet(ids) \subseteq ToSet(ids) \ {}
      /\ \A id \in {} : Truth[id] = NoTask
      /\ \A id \in ToSet(ids) \ ({} \cup ToSet(ids)) : Truth[id] = "open"
  OBVIOUS
<1>8. QED
  BY <1>1, <1>3, <1>4, <1>5, <1>6, <1>7, BeginKeeps

LEMMA UpdateTaskKeeps ==
  ASSUME TasksInv, NEW id \in TaskIds, NEW state \in {"open", "completed"}, UpdateTask(id, state)
  PROVE  TasksInv'
<1>1. PICK found \in {Loaded, artifacts} :
        /\ LoadTasks(found, TRUE) /\ artifacts' = found
        /\ BeginTasks(state, <<id>>, Missing(<<id>>, found),
                      IF found[id] = NoTask THEN <<>> ELSE <<id>>)
  BY DEF UpdateTask
<1>2. <<id>> \in IdLists /\ ToSet(<<id>>) = {id} /\ state \in States
  BY ShortLists DEF IdLists, States
<1>3. CASE found[id] = NoTask
  <2>1. Missing(<<id>>, found) = {id}
    BY <1>2, <1>3 DEF Missing
  <2>2. BeginTasks(state, <<id>>, Missing(<<id>>, found), <<>>)
    BY <1>1, <1>3
  <2>3. /\ <<>> \in Seq(TaskIds) /\ ToSet(<<>>) \subseteq ToSet(<<id>>) \ Missing(<<id>>, found)
        /\ \A i \in ToSet(<<id>>) \ (Missing(<<id>>, found) \cup ToSet(<<>>)) : found[i] = state
    BY <1>2, <2>1, ShortLists
  <2>4. QED
    BY <1>1, <1>2, <2>2, <2>3, BeginLoadedKeeps
<1>4. CASE found[id] # NoTask
  <2>1. Missing(<<id>>, found) = {}
    BY <1>2, <1>4 DEF Missing
  <2>2. BeginTasks(state, <<id>>, Missing(<<id>>, found), <<id>>)
    BY <1>1, <1>4
  <2>a. <<id>> \in Seq(TaskIds)
    OBVIOUS
  <2>3. /\ ToSet(<<id>>) \subseteq ToSet(<<id>>) \ Missing(<<id>>, found)
        /\ \A i \in ToSet(<<id>>) \ (Missing(<<id>>, found) \cup ToSet(<<id>>)) : found[i] = state
    BY <2>1
  <2>4. QED
    BY <1>1, <1>2, <2>2, <2>a, <2>3, BeginLoadedKeeps
<1>5. QED
  BY <1>3, <1>4

LEMMA FinishCodingTasksKeeps ==
  ASSUME TasksInv, NEW ids \in IdLists, FinishCodingTasks(ids)
  PROVE  TasksInv'
<1>1. PICK found \in {Loaded, artifacts} :
        /\ LoadTasks(found, TRUE) /\ artifacts' = found
        /\ BeginTasks("completed", ids, Missing(ids, found),
                      Among(ids, {id \in TaskIds : found[id] = "open"}))
  BY DEF FinishCodingTasks
<1> DEFINE open == {id \in TaskIds : found[id] = "open"}
<1>2. Among(ids, open) \in Seq(TaskIds) /\ ToSet(Among(ids, open)) = ToSet(ids) \cap open
  BY AmongIds
<1>3. found \in Tasks /\ "completed" \in States
  BY <1>1, TasksAreLoaded DEF States
<1>4. /\ ToSet(ids) \cap open \subseteq ToSet(ids) \ Missing(ids, found)
      /\ \A id \in ToSet(ids) \ (Missing(ids, found) \cup (ToSet(ids) \cap open)) :
           found[id] = "completed"
  BY <1>3, ListsOfIds, TasksAssumption DEF Tasks, States, Missing
<1>5. QED
  BY <1>1, <1>2, <1>3, <1>4, BeginLoadedKeeps

LEMMA RemoveCodingTasksKeeps ==
  ASSUME TasksInv, NEW ids \in IdLists, RemoveCodingTasks(ids)
  PROVE  TasksInv'
<1>1. PICK found \in {Loaded, artifacts} :
        /\ LoadTasks(found, TRUE) /\ artifacts' = found
        /\ BeginTasks(NoTask, ids, Missing(ids, found),
                      Among(ids, {id \in TaskIds : found[id] # NoTask}))
  BY DEF RemoveCodingTasks
<1> DEFINE there == {id \in TaskIds : found[id] # NoTask}
<1>2. Among(ids, there) \in Seq(TaskIds) /\ ToSet(Among(ids, there)) = ToSet(ids) \cap there
  BY AmongIds
<1>3. found \in Tasks /\ NoTask \in States
  BY <1>1, TasksAreLoaded DEF States
<1>4. /\ ToSet(ids) \cap there \subseteq ToSet(ids) \ Missing(ids, found)
      /\ \A id \in ToSet(ids) \ (Missing(ids, found) \cup (ToSet(ids) \cap there)) :
           found[id] = NoTask
  BY ListsOfIds DEF Missing
<1>5. QED
  BY <1>1, <1>2, <1>3, <1>4, BeginLoadedKeeps

\* The elements of a list, and of what is left of it.
LEMMA FirstAndRest ==
  ASSUME NEW S, NEW s \in Seq(S), s # <<>>
  PROVE  /\ Tail(s) \in Seq(S) /\ Head(s) \in ToSet(s) /\ ToSet(Tail(s)) \subseteq ToSet(s)
         /\ ToSet(s) \subseteq {Head(s)} \cup ToSet(Tail(s))
<1>1. /\ Len(s) \in Nat \ {0} /\ DOMAIN s = 1..Len(s) /\ Head(s) = s[1]
      /\ Tail(s) \in Seq(S) /\ Len(Tail(s)) = Len(s) - 1
      /\ \A k \in 1..Len(s) - 1 : Tail(s)[k] = s[k + 1]
  BY HeadTailProperties
<1>2. DOMAIN Tail(s) = 1..Len(s) - 1
  BY <1>1
<1>3. Head(s) \in ToSet(s)
  BY <1>1 DEF ToSet
<1>4. ASSUME NEW k \in 1..Len(s) - 1
      PROVE  Tail(s)[k] \in ToSet(s)
  BY <1>1 DEF ToSet
<1>5. ASSUME NEW k \in 1..Len(s), k # 1
      PROVE  s[k] \in ToSet(Tail(s))
  <2>1. k - 1 \in 1..Len(s) - 1 /\ s[k] = Tail(s)[k - 1]
    BY <1>1, <1>5
  <2>2. QED
    BY <1>2, <2>1 DEF ToSet
<1>6. ToSet(Tail(s)) \subseteq ToSet(s)
  BY <1>2, <1>4 DEF ToSet
<1>7. ToSet(s) \subseteq {Head(s)} \cup ToSet(Tail(s))
  BY <1>1, <1>5 DEF ToSet
<1>8. QED
  BY <1>1, <1>3, <1>6, <1>7

\* What an action is at rest.
LEMMA RestingKnown ==
  /\ Resting \in [state : States \cup {"none"}, ids : SUBSET TaskIds, missing : SUBSET TaskIds,
                  toDo : Seq(TaskIds)]
  /\ Resting.ids = {} /\ Resting.missing = {} /\ ToSet(Resting.toDo) = {}
<1>1. <<>> \in Seq(TaskIds)
  OBVIOUS
<1>2. QED
  BY <1>1, ShortLists DEF Resting

LEMMA ChangeTaskKeeps ==
  ASSUME TasksInv, ChangeTask
  PROVE  TasksInv'
<1> DEFINE id == Head(action.toDo)
<1>1. PICK found \in {Loaded, artifacts}, writes \in BOOLEAN :
        /\ LoadTasks(found, writes)
        /\ IF action.state # "open" /\ found[id] = NoTask
           THEN /\ artifacts' = found /\ action' = Resting /\ untold' = untold \cup action.ids
                /\ UNCHANGED <<document, unsaved>>
           ELSE /\ Save([found EXCEPT ![id] = action.state], writes)
                /\ action' = [action EXCEPT !.toDo = Tail(@)]
                /\ UNCHANGED untold
  BY DEF ChangeTask
<1>2. action.toDo # <<>> /\ UNCHANGED <<told, taskActions>>
  BY DEF ChangeTask
<1>3. /\ found \in Tasks /\ slipped' \in BOOLEAN /\ taskFaults' \in 0..MaxTaskFaults
      /\ ~slipped' => ~slipped /\ found = Truth
  BY <1>1, TasksAreLoaded
<1>4. /\ Tail(action.toDo) \in Seq(TaskIds) /\ id \in ToSet(action.toDo)
      /\ ToSet(Tail(action.toDo)) \subseteq ToSet(action.toDo)
      /\ ToSet(action.toDo) \subseteq {id} \cup ToSet(Tail(action.toDo))
  BY <1>2, FirstAndRest DEF TasksInv, TasksKnown
<1>5. /\ action.ids \subseteq TaskIds /\ id \in action.ids \ action.missing
      /\ action.state \in States /\ action # Resting
  <2>1. action # Resting
    BY <1>2 DEF Resting
  <2>2. QED
    BY <1>4, <2>1 DEF TasksInv, TasksKnown
<1> HIDE DEF id
<1>6. CASE action.state # "open" /\ found[id] = NoTask
  <2>1. /\ artifacts' = found /\ action' = Resting /\ untold' = untold \cup action.ids
        /\ UNCHANGED <<document, unsaved>>
    BY <1>1, <1>6
  <2>2. TasksKnown'
    BY <1>2, <1>3, <1>5, <2>1, RestingKnown DEF TasksInv, TasksKnown
  <2>3. ASSUME ~slipped'
        PROVE  TasksTold'
    <3>1. ~slipped /\ found = Truth
      BY <1>3, <2>3
    <3>2. Truth' = Truth /\ (~unsaved' => artifacts' \in {Empty, Stored}')
      BY <2>1, <3>1, LoadKeepsTruth
    <3>3. \A i \in TaskIds \ (untold \cup action.ids) : Truth[i] = told[i]
      BY <3>1 DEF TasksInv, TasksTold
    <3>4. \A i \in TaskIds \ (untold' \cup action'.ids) : (Truth[i])' = told'[i]
      BY <1>2, <2>1, <3>2, <3>3
    <3>5. action'.missing = {} /\ action'.ids = {}
      BY <2>1, RestingKnown
    <3>6. QED
      BY <3>2, <3>4, <3>5 DEF TasksTold
  <2>4. QED
    BY <2>2, <2>3 DEF TasksInv
<1>7. CASE ~(action.state # "open" /\ found[id] = NoTask)
  <2> DEFINE new == [found EXCEPT ![id] = action.state]
  <2>1. /\ artifacts' = new /\ document' = (IF kept /\ writes THEN new ELSE document)
        /\ unsaved' = ~(kept /\ writes) /\ UNCHANGED untold
        /\ action' = [action EXCEPT !.toDo = Tail(@)]
    BY <1>1, <1>7 DEF Save
  <2>2. /\ new \in Tasks /\ new[id] = action.state
        /\ \A i \in TaskIds \ {id} : new[i] = found[i]
    BY <1>3, <1>5 DEF Tasks
  <2> HIDE DEF new
  <2>3. /\ action'.state = action.state /\ action'.ids = action.ids
        /\ action'.missing = action.missing /\ action'.toDo = Tail(action.toDo)
        /\ action' \in [state : States \cup {"none"}, ids : SUBSET TaskIds,
                        missing : SUBSET TaskIds, toDo : Seq(TaskIds)]
    BY <1>4, <2>1 DEF TasksInv, TasksKnown
  <2>4. TasksKnown'
    BY <1>2, <1>3, <1>4, <1>5, <2>1, <2>2, <2>3 DEF TasksInv, TasksKnown
  <2>5. Truth' = new /\ (~unsaved' => artifacts' \in {Empty, Stored}')
    <3>1. document' \in Tasks => Stored' = document'
      BY <2>4, TasksAssumption DEF Stored, Tasks, States
    <3>2. ~unsaved' => document' = new
      BY <2>1
    <3>3. QED
      BY <2>1, <2>2, <3>1, <3>2 DEF Truth
  <2>6. ASSUME ~slipped'
        PROVE  TasksTold'
    <3>1. ~slipped /\ found = Truth /\ TasksTold
      BY <1>3, <2>6 DEF TasksInv
    <3>2. \A i \in TaskIds \ (untold \cup action.ids) : new[i] = told[i]
      BY <1>5, <2>2, <3>1 DEF TasksTold
    <3>3. \A i \in action.missing : new[i] = NoTask
      BY <1>5, <2>2, <3>1 DEF TasksTold, TasksInv, TasksKnown
    <3>4. \A i \in action.ids \ (action.missing \cup ToSet(Tail(action.toDo))) :
            new[i] = action.state
      BY <1>4, <1>5, <2>2, <3>1 DEF TasksTold
    <3>5. /\ \A i \in TaskIds \ (untold' \cup action'.ids) : (Truth[i])' = told'[i]
          /\ \A i \in action'.missing : (Truth[i])' = NoTask
          /\ \A i \in action'.ids \ (action'.missing \cup ToSet(action'.toDo)) :
               (Truth[i])' = action'.state
      BY <1>2, <2>1, <2>3, <2>5, <3>2, <3>3, <3>4
    <3>6. QED
      BY <2>5, <3>5 DEF TasksTold
  <2>7. QED
    BY <2>4, <2>6 DEF TasksInv
<1>8. QED
  BY <1>6, <1>7

\* A load that changes nothing else, or nothing at all.
LEMMA LoadOrNothing ==
  ASSUME TasksInv, UNCHANGED <<document, unsaved>>,
         \/ \E found \in {Loaded, artifacts} : LoadTasks(found, TRUE) /\ artifacts' = found
         \/ UNCHANGED <<artifacts, slipped, taskFaults>>
  PROVE  /\ artifacts' \in Tasks /\ slipped' \in BOOLEAN /\ taskFaults' \in 0..MaxTaskFaults
         /\ ~slipped' => /\ ~slipped /\ Truth' = Truth
                         /\ ~unsaved' => artifacts' \in {Empty, Stored}'
<1>1. CASE UNCHANGED <<artifacts, slipped, taskFaults>>
  <2>1. Truth' = Truth /\ Stored' = Stored /\ Empty' = Empty
    BY <1>1 DEF Truth, Stored, Empty
  <2>2. QED
    BY <1>1, <2>1 DEF TasksInv, TasksKnown, TasksTold
<1>2. ASSUME NEW found \in {Loaded, artifacts}, LoadTasks(found, TRUE), artifacts' = found
      PROVE  /\ artifacts' \in Tasks /\ slipped' \in BOOLEAN /\ taskFaults' \in 0..MaxTaskFaults
             /\ ~slipped' => /\ ~slipped /\ Truth' = Truth
                             /\ ~unsaved' => artifacts' \in {Empty, Stored}'
  BY <1>2, TasksAreLoaded, LoadKeepsTruth
<1>3. QED
  BY <1>1, <1>2

LEMMA TellTasksKeeps ==
  ASSUME TasksInv, TellTasks
  PROVE  TasksInv'
<1>1. /\ action # Resting /\ action.toDo = <<>> /\ action' = Resting
      /\ untold' = untold \ action.ids
      /\ told' = [id \in TaskIds |-> IF id \in action.missing THEN NoTask
                                     ELSE IF id \in action.ids THEN action.state ELSE told[id]]
      /\ UNCHANGED <<document, unsaved>>
  BY DEF TellTasks
<1>2. \/ \E found \in {Loaded, artifacts} : LoadTasks(found, TRUE) /\ artifacts' = found
      \/ UNCHANGED <<artifacts, slipped, taskFaults>>
  BY DEF TellTasks
<1>3. /\ artifacts' \in Tasks /\ slipped' \in BOOLEAN /\ taskFaults' \in 0..MaxTaskFaults
      /\ ~slipped' => /\ ~slipped /\ Truth' = Truth
                      /\ ~unsaved' => artifacts' \in {Empty, Stored}'
  BY <1>1, <1>2, LoadOrNothing
<1>4. told' \in Tasks
  BY <1>1 DEF TasksInv, TasksKnown, Tasks, States
<1>5. TasksKnown'
  BY <1>1, <1>3, <1>4, RestingKnown DEF TasksInv, TasksKnown
<1>6. ASSUME ~slipped'
      PROVE  TasksTold'
  <2>1. ~slipped /\ TasksTold /\ Truth' = Truth
    BY <1>3, <1>6 DEF TasksInv
  <2>2. ToSet(action.toDo) = {} /\ action.missing \subseteq action.ids
    BY <1>1, ShortLists DEF TasksInv, TasksKnown
  <2>3. \A id \in TaskIds \ untold' : Truth[id] = told'[id]
    BY <1>1, <2>1, <2>2 DEF TasksTold
  <2>4. \A id \in TaskIds \ (untold' \cup action'.ids) : (Truth[id])' = told'[id]
    BY <2>1, <2>3
  <2>5. action'.missing = {} /\ action'.ids = {}
    BY <1>1, RestingKnown
  <2>6. QED
    BY <1>3, <1>6, <2>4, <2>5 DEF TasksTold
<1>7. QED
  BY <1>5, <1>6 DEF TasksInv

LEMMA ListTasksKeeps ==
  ASSUME TasksInv, ListTasks
  PROVE  TasksInv'
<1>1. /\ \E found \in {Loaded, artifacts} : LoadTasks(found, TRUE) /\ artifacts' = found
      /\ UNCHANGED <<document, action, told, untold, unsaved>>
  BY DEF ListTasks
<1>2. /\ artifacts' \in Tasks /\ slipped' \in BOOLEAN /\ taskFaults' \in 0..MaxTaskFaults
      /\ ~slipped' => /\ ~slipped /\ Truth' = Truth
                      /\ ~unsaved' => artifacts' \in {Empty, Stored}'
  BY <1>1, LoadOrNothing
<1>3. TasksKnown'
  BY <1>1, <1>2 DEF TasksInv, TasksKnown
<1>4. ASSUME ~slipped'
      PROVE  TasksTold'
  BY <1>1, <1>2, <1>4 DEF TasksInv, TasksTold
<1>5. QED
  BY <1>3, <1>4 DEF TasksInv

LEMMA RestartKeeps ==
  ASSUME TasksInv, Restart
  PROVE  TasksInv'
<1>1. /\ artifacts' = Empty /\ action' = Resting /\ untold' = untold \cup action.ids
      /\ slipped' = (slipped \/ unsaved) /\ unsaved' = FALSE
      /\ UNCHANGED <<document, told>>
  BY DEF Restart
<1>2. taskFaults' \in 0..MaxTaskFaults
  BY TasksAssumption DEF Restart, Failing, TasksInv, TasksKnown
<1>3. Empty \in Tasks /\ Stored' = Stored /\ Empty' = Empty
  BY <1>1, TasksStored DEF TasksInv, Stored, Empty
<1>4. TasksKnown'
  BY <1>1, <1>2, <1>3, RestingKnown DEF TasksInv, TasksKnown
<1>5. ASSUME ~slipped'
      PROVE  TasksTold'
  <2>1. ~slipped /\ ~unsaved /\ TasksTold
    BY <1>1, <1>5 DEF TasksInv
  <2>2. Truth' = Truth
    BY <1>1, <1>3, <2>1 DEF Truth
  <2>3. \A id \in TaskIds \ (untold' \cup action'.ids) : (Truth[id])' = told'[id]
    BY <1>1, <2>1, <2>2 DEF TasksTold
  <2>4. action'.missing = {} /\ action'.ids = {}
    BY <1>1, RestingKnown
  <2>5. QED
    BY <1>1, <1>3, <2>3, <2>4 DEF TasksTold
<1>6. QED
  BY <1>4, <1>5 DEF TasksInv

LEMMA TasksStep == TasksInv /\ [TasksNext]_taskVars => TasksInv'
<1> SUFFICES ASSUME TasksInv, [TasksNext]_taskVars PROVE TasksInv'
  OBVIOUS
<1>1. CASE UNCHANGED taskVars
  <2>1. TasksKnown'
    BY <1>1 DEF taskVars, TasksInv, TasksKnown
  <2>2. ~slipped' => TasksTold'
    BY <1>1 DEF taskVars, TasksInv, TasksTold, Truth, Stored, Empty
  <2>3. QED
    BY <2>1, <2>2 DEF TasksInv
<1>2. QED
  BY <1>1, CreateTasksKeeps, FinishCodingTasksKeeps, RemoveCodingTasksKeeps, UpdateTaskKeeps,
     ChangeTaskKeeps, TellTasksKeeps, ListTasksKeeps, RestartKeeps DEF TasksNext

LEMMA TasksStart == TasksInit => TasksInv
<1> SUFFICES ASSUME TasksInit PROVE TasksInv
  OBVIOUS
<1>1. TasksKnown
  <2>1. Empty \in Tasks
    BY DEF Empty, Tasks, States
  <2>2. /\ action = Resting /\ artifacts = Empty /\ document = NoTask /\ told = Empty
        /\ untold = {} /\ unsaved = FALSE /\ slipped = FALSE
    BY DEF TasksInit
  <2>3. taskFaults \in 0..MaxTaskFaults
    BY TasksAssumption DEF TasksInit
  <2>4. QED
    BY <2>1, <2>2, <2>3, RestingKnown DEF TasksKnown
<1>2. TasksTold
  BY RestingKnown DEF TasksInit, TasksTold, Truth, Stored
<1>3. QED
  BY <1>1, <1>2 DEF TasksInv

\* Every state of the handler of tasks (json_handler.py) is of the type stated.
THEOREM TasksTypeCorrect == TasksSpec => []TasksTypeOK
<1>1. TasksInv => TasksTypeOK
  BY TasksStored DEF TasksInv, TasksKnown, TasksTypeOK, Tasks, States
<1>2. QED
  BY <1>1, TasksStep, TasksStart, PTL DEF TasksSpec

\* Between two actions the tasks are what the agent was told of them, in memory as in the
\* document, for any ids and actions (json_handler.py), unless something has slipped.
THEOREM TasksAlwaysAsTold == TasksSpec => []TasksAreAsTold
<1>1. TasksInv => TasksAreAsTold
  <2> SUFFICES ASSUME TasksInv, action = Resting, ~slipped, NEW id \in TaskIds \ untold
               PROVE  IF unsaved THEN artifacts[id] = told[id]
                      ELSE Loaded[id] = told[id] /\ Stored[id] = told[id]
    BY DEF TasksAreAsTold
  <2>1. Truth[id] = told[id]
    BY RestingKnown DEF TasksInv, TasksTold
  <2>2. ~unsaved => Loaded = Stored
    BY DEF TasksInv, TasksTold, Loaded
  <2>3. QED
    BY <2>1, <2>2 DEF Truth
<1>2. QED
  BY <1>1, TasksStep, TasksStart, PTL DEF TasksSpec

--------------------------------------------------------------------------------
(* Sequences one after the other                                               *)

\* Which of the sequences each element of a sequence is from, and its place there.
Laid(s, ss, m, part, place) ==
  /\ part \in [1..Len(s) -> 1..m] /\ place \in [1..Len(s) -> Nat]
  /\ \A x \in 1..Len(s) : place[x] \in 1..Len(ss[part[x]]) /\ s[x] = ss[part[x]][place[x]]
  /\ \A x, y \in 1..Len(s) :
       x < y => part[x] < part[y] \/ (part[x] = part[y] /\ place[x] < place[y])
  /\ \A i \in 1..m : \A k \in 1..Len(ss[i]) :
       \E x \in 1..Len(s) : part[x] = i /\ place[x] = k

LEMMA LaidNone ==
  ASSUME NEW ss
  PROVE  \E part, place : Laid(<<>>, ss, 0, part, place)
<1> DEFINE f == [x \in 1..0 |-> 0]
<1>1. f \in [1..0 -> 1..0] /\ f \in [1..0 -> Nat] /\ Len(<<>>) = 0
  BY EmptySeq
<1> HIDE DEF f
<1>2. Laid(<<>>, ss, 0, f, f)
  BY <1>1 DEF Laid
<1>3. QED
  BY <1>2

LEMMA LaidNext ==
  ASSUME NEW S, NEW m \in Nat, NEW s \in Seq(S), NEW next \in Seq(S), NEW ss, ss[m + 1] = next,
         NEW part, NEW place, Laid(s, ss, m, part, place)
  PROVE  \E newPart, newPlace : Laid(s \o next, ss, m + 1, newPart, newPlace)
<1> DEFINE n == Len(s)
           l == Len(next)
           p == [x \in 1..n + l |-> IF x <= n THEN part[x] ELSE m + 1]
           q == [x \in 1..n + l |-> IF x <= n THEN place[x] ELSE x - n]
           t == s \o next
<1>1. /\ n \in Nat /\ l \in Nat /\ Len(t) = n + l
      /\ \A x \in 1..n : t[x] = s[x]
      /\ \A x \in n + 1..n + l : t[x] = next[x - n]
  BY ConcatProperties, LenProperties
<1>2. /\ \A x \in 1..n : part[x] \in 1..m /\ place[x] \in Nat
      /\ \A x \in 1..n : place[x] \in 1..Len(ss[part[x]]) /\ s[x] = ss[part[x]][place[x]]
      /\ \A x, y \in 1..n : x < y => part[x] < part[y] \/ (part[x] = part[y] /\ place[x] < place[y])
      /\ \A i \in 1..m : \A k \in 1..Len(ss[i]) : \E x \in 1..n : part[x] = i /\ place[x] = k
  BY DEF Laid
<1>3. /\ \A x \in 1..n : x \in 1..n + l /\ p[x] = part[x] /\ q[x] = place[x]
      /\ \A x \in n + 1..n + l : x \in 1..n + l /\ p[x] = m + 1 /\ q[x] = x - n
      /\ \A x \in 1..n + l : x \in 1..n \/ x \in n + 1..n + l
  BY <1>1
<1>4. p \in [1..n + l -> 1..m + 1] /\ q \in [1..n + l -> Nat]
  <2>1. \A x \in 1..n + l : p[x] \in 1..m + 1 /\ q[x] \in Nat
    BY <1>1, <1>2, <1>3
  <2>2. p = [x \in 1..n + l |-> p[x]] /\ q = [x \in 1..n + l |-> q[x]]
    OBVIOUS
  <2> HIDE DEF p, q
  <2>3. QED
    BY <2>1, <2>2
<1> HIDE DEF p, q, t, n, l
<1>5. ASSUME NEW x \in 1..n + l
      PROVE  q[x] \in 1..Len(ss[p[x]]) /\ t[x] = ss[p[x]][q[x]]
  <2>1. CASE x \in 1..n
    BY <1>1, <1>2, <1>3, <2>1
  <2>2. CASE x \in n + 1..n + l
    <3>1. x - n \in 1..l /\ t[x] = next[x - n] /\ p[x] = m + 1 /\ q[x] = x - n
      BY <1>1, <1>3, <2>2
    <3>2. QED
      BY <3>1 DEF l
  <2>3. QED
    BY <1>3, <2>1, <2>2
<1>6. ASSUME NEW x \in 1..n + l, NEW y \in 1..n + l, x < y
      PROVE  p[x] < p[y] \/ (p[x] = p[y] /\ q[x] < q[y])
  <2>1. CASE y \in 1..n
    <3>1. x \in 1..n
      BY <1>1, <1>6, <2>1
    <3>2. QED
      BY <1>2, <1>3, <1>6, <2>1, <3>1
  <2>2. CASE x \in 1..n /\ y \in n + 1..n + l
    <3>1. p[x] \in 1..m /\ p[y] = m + 1
      BY <1>2, <1>3, <2>2
    <3>2. QED
      BY <3>1
  <2>3. CASE x \in n + 1..n + l /\ y \in n + 1..n + l
    <3>1. p[x] = p[y] /\ q[x] = x - n /\ q[y] = y - n
      BY <1>3, <2>3
    <3>2. QED
      BY <1>1, <1>6, <3>1
  <2>4. QED
    BY <1>1, <1>3, <1>6, <2>1, <2>2, <2>3
<1>7. ASSUME NEW i \in 1..m + 1, NEW k \in 1..Len(ss[i])
      PROVE  \E x \in 1..n + l : p[x] = i /\ q[x] = k
  <2>1. CASE i \in 1..m
    <3>1. PICK x \in 1..n : part[x] = i /\ place[x] = k
      BY <1>2, <1>7, <2>1
    <3>2. QED
      BY <1>3, <3>1
  <2>2. CASE i = m + 1
    <3>1. k \in 1..l
      BY <2>2 DEF l
    <3>2. n + k \in n + 1..n + l /\ (n + k) - n = k
      BY <1>1, <3>1
    <3>3. QED
      BY <1>3, <2>2, <3>2
  <2>3. QED
    BY <2>1, <2>2
<1>8. Laid(t, ss, m + 1, p, q)
  BY <1>1, <1>4, <1>5, <1>6, <1>7 DEF Laid
<1>9. QED
  BY <1>8 DEF t

LEMMA FlatPlaces ==
  ASSUME NEW S, NEW n \in Nat, NEW ss \in [1..n -> Seq(S)]
  PROVE  /\ FlattenSeq(ss) \in Seq(S)
         /\ \E part, place : Laid(FlattenSeq(ss), ss, n, part, place)
<1>1. CASE n = 0
  <2>1. ss \in Seq(Seq(S)) /\ Len(ss) = 0 /\ ss = <<>>
    <3>1. ss = [i \in 1..0 |-> ss[i]]
      BY <1>1
    <3>2. ss \in Seq(Seq(S)) /\ Len(ss) = 0
      BY <1>1, <3>1, SeqMade
    <3>3. QED
      BY <3>2, EmptySeq
  <2>2. FlattenSeq(ss) = <<>>
    BY <2>1 DEF FlattenSeq
  <2>3. QED
    BY <1>1, <2>2, LaidNone, EmptySeq
<1>2. CASE n # 0
  <2>1. PICK flat \in [1..n -> Seq(S)] :
          /\ FlattenSeq(ss) = flat[n] /\ flat[1] = ss[1]
          /\ \A k \in 2..n : flat[k] = flat[k - 1] \o ss[k]
    <3>1. \A r \in [1..n -> Seq(S)] : \E flat \in [1..n -> Seq(S)] :
            /\ FlattenSeq(r) = flat[n] /\ flat[1] = r[1]
            /\ \A k \in 2..n : flat[k] = flat[k - 1] \o r[k]
      BY <1>2, Flattened
    <3>2. QED
      BY <3>1
  <2> DEFINE Good == {m \in 0..n : m = 0 \/ \E part, place : Laid(flat[m], ss, m, part, place)}
  <2>2. 0 \in Good
    OBVIOUS
  <2>3. ASSUME NEW m \in 0..n - 1, m \in Good PROVE m + 1 \in Good
    <3>1. ss[m + 1] \in Seq(S) /\ m + 1 \in 0..n
      OBVIOUS
    <3>2. CASE m = 0
      <4>1. PICK part, place : Laid(<<>>, ss, 0, part, place)
        BY LaidNone
      <4>2. \E p, q : Laid(<<>> \o ss[0 + 1], ss, 0 + 1, p, q)
        <5> DEFINE next == ss[0 + 1]
        <5>1. <<>> \in Seq(S) /\ next \in Seq(S) /\ ss[0 + 1] = next /\ 0 \in Nat
          BY <3>1, <3>2, EmptySeq
        <5> HIDE DEF next
        <5>2. \E p, q : Laid(<<>> \o next, ss, 0 + 1, p, q)
          BY <4>1, <5>1, LaidNext
        <5>3. QED
          BY <5>1, <5>2
      <4>3. <<>> \o ss[1] = ss[1]
        BY <3>1, <3>2, ConcatEmptySeq
      <4>4. QED
        BY <2>1, <3>1, <3>2, <4>2, <4>3
    <3>3. CASE m # 0
      <4>1. PICK part, place : Laid(flat[m], ss, m, part, place)
        BY <2>3, <3>3
      <4>2. m + 1 \in 2..n /\ flat[m] \in Seq(S) /\ flat[m + 1] = flat[m] \o ss[m + 1]
        <5>1. m \in 1..n /\ m + 1 \in 2..n /\ (m + 1) - 1 = m
          BY <3>3
        <5>2. QED
          BY <2>1, <5>1
      <4>3. \E p, q : Laid(flat[m] \o ss[m + 1], ss, m + 1, p, q)
        <5> DEFINE s == flat[m]
                   next == ss[m + 1]
        <5>1. /\ s \in Seq(S) /\ next \in Seq(S) /\ ss[m + 1] = next
              /\ Laid(s, ss, m, part, place) /\ m \in Nat
          BY <3>1, <4>1, <4>2
        <5> HIDE DEF next, s
        <5>2. \E p, q : Laid(s \o next, ss, m + 1, p, q)
          BY <5>1, LaidNext
        <5>3. QED
          BY <5>2 DEF s, next
      <4>4. QED
        BY <3>1, <4>2, <4>3
    <3>4. QED
      BY <3>2, <3>3
  <2>4. n \in Good
    <3> HIDE DEF Good
    <3>1. \A m \in 0..n : m \in Good
      BY <2>2, <2>3, CountsUp
    <3>2. n \in 0..n
      OBVIOUS
    <3>3. QED
      BY <3>1, <3>2
  <2>5. flat[n] \in Seq(S)
    BY <1>2, <2>1
  <2>6. QED
    BY <1>2, <2>1, <2>4, <2>5
<1>3. QED
  BY <1>1, <1>2

\* Of the elements of g those in K, one by one, and where each of them was.
IsFiltered(r, f, n, g, K) ==
  /\ f \in [1..Len(r) -> 1..n]
  /\ \A x \in 1..Len(r) : f[x] \in K /\ r[x] = g[f[x]]
  /\ \A x, y \in 1..Len(r) : x < y => f[x] < f[y]
  /\ \A i \in 1..n : i \in K => \E x \in 1..Len(r) : f[x] = i

LEMMA Filtered ==
  ASSUME NEW S, NEW n \in Nat, NEW g \in [1..n -> S], NEW K, NEW ss, ss = [i \in 1..n |-> ss[i]],
         \A i \in 1..n : (i \in K => ss[i] = <<g[i]>>) /\ (i \notin K => ss[i] = <<>>)
  PROVE  /\ FlattenSeq(ss) \in Seq(S)
         /\ \E f : IsFiltered(FlattenSeq(ss), f, n, g, K)
<1> DEFINE r == FlattenSeq(ss)
<1>1. ASSUME NEW i \in 1..n
      PROVE  /\ ss[i] \in Seq(S)
             /\ i \in K => Len(ss[i]) = 1 /\ ss[i][1] = g[i]
             /\ i \notin K => Len(ss[i]) = 0
  <2> DEFINE m == g[i]
  <2>1. m \in S
    OBVIOUS
  <2> HIDE DEF m
  <2>2. <<m>> \in Seq(S) /\ Len(<<m>>) = 1 /\ <<m>>[1] = m
    BY <2>1
  <2>3. <<>> \in Seq(S) /\ Len(<<>>) = 0
    BY EmptySeq
  <2>4. ss[i] = IF i \in K THEN <<m>> ELSE <<>>
    BY DEF m
  <2>5. QED
    BY <2>2, <2>3, <2>4 DEF m
<1>2. ss \in [1..n -> Seq(S)]
  BY <1>1
<1>3. r \in Seq(S) /\ \E part, place : Laid(r, ss, n, part, place)
  BY <1>2, FlatPlaces
<1> HIDE DEF r
<1>4. PICK part, place : Laid(r, ss, n, part, place)
  BY <1>3
<1> DEFINE l == Len(r)
<1>5. ASSUME NEW x \in 1..l
      PROVE  part[x] \in 1..n /\ place[x] = 1 /\ part[x] \in K /\ r[x] = g[part[x]]
  <2>1. part[x] \in 1..n /\ place[x] \in 1..Len(ss[part[x]]) /\ r[x] = ss[part[x]][place[x]]
    BY <1>4 DEF Laid
  <2>2. part[x] \in K
    BY <1>1, <2>1
  <2>3. place[x] = 1
    BY <1>1, <2>1, <2>2
  <2>4. QED
    BY <1>1, <2>1, <2>2, <2>3
<1>6. part \in [1..l -> 1..n]
  BY <1>4 DEF Laid
<1>7. \A x, y \in 1..l : x < y => part[x] < part[y]
  <2>1. \A x, y \in 1..l : x < y => part[x] < part[y] \/ (part[x] = part[y] /\ place[x] < place[y])
    BY <1>4 DEF Laid
  <2>2. \A x, y \in 1..l : ~(place[x] < place[y])
    BY <1>5
  <2>3. QED
    BY <2>1, <2>2
<1>8. ASSUME NEW i \in 1..n, i \in K PROVE \E x \in 1..l : part[x] = i
  <2>1. 1 \in 1..Len(ss[i])
    BY <1>1, <1>8
  <2>2. QED
    BY <1>4, <2>1 DEF Laid
<1>9. IsFiltered(r, part, n, g, K)
  BY <1>5, <1>6, <1>7, <1>8 DEF IsFiltered
<1>10. QED
  BY <1>3, <1>9 DEF r

--------------------------------------------------------------------------------
(* Sums                                                                        *)

\* A sum that runs along some numbers is there, and is a number everywhere.
LEMMA RunningSum ==
  ASSUME NEW n \in Nat, NEW a \in [1..n -> Nat]
  PROVE  /\ \E f : f = [i \in 0..n |-> IF i = 0 THEN 0 ELSE f[i - 1] + a[i]]
         /\ \A f : f = [i \in 0..n |-> IF i = 0 THEN 0 ELSE f[i - 1] + a[i]]
                     => f \in [0..n -> Nat]
<1> DEFINE Rec(m, f) == f = [i \in 0..m |-> IF i = 0 THEN 0 ELSE f[i - 1] + a[i]]
           Good == {m \in 0..n : \E f \in [0..m -> Nat] : Rec(m, f)}
<1>1. 0 \in Good
  <2> DEFINE f == [i \in 0..0 |-> 0]
  <2>1. f \in [0..0 -> Nat] /\ Rec(0, f)
    OBVIOUS
  <2> HIDE DEF f, Rec
  <2>2. QED
    BY <2>1
<1>2. ASSUME NEW m \in 0..n - 1, m \in Good PROVE m + 1 \in Good
  <2>1. PICK f \in [0..m -> Nat] : Rec(m, f)
    BY <1>2
  <2> DEFINE g == [i \in 0..m + 1 |-> IF i = m + 1 THEN f[m] + a[m + 1] ELSE f[i]]
  <2>2. m \in 0..m /\ m + 1 \in 1..n /\ m + 1 \in 0..n
    OBVIOUS
  <2>3. f[m] + a[m + 1] \in Nat
    BY <2>2
  <2>4. g \in [0..m + 1 -> Nat]
    <3>1. \A i \in 0..m + 1 : i # m + 1 => i \in 0..m
      OBVIOUS
    <3>2. QED
      BY <2>3, <3>1
  <2>5. ASSUME NEW i \in 0..m + 1
        PROVE  g[i] = IF i = 0 THEN 0 ELSE g[i - 1] + a[i]
    <3>1. CASE i = m + 1
      <4>1. i # 0 /\ i - 1 = m /\ m \in 0..m + 1 /\ m # m + 1
        BY <3>1
      <4>2. g[m] = f[m] /\ g[m + 1] = f[m] + a[m + 1]
        BY <4>1
      <4>3. QED
        BY <3>1, <4>1, <4>2
    <3>2. CASE i # m + 1
      <4>1. i \in 0..m /\ g[i] = f[i]
        BY <3>2
      <4>2. i # 0 => i - 1 \in 0..m + 1 /\ i - 1 # m + 1 /\ g[i - 1] = f[i - 1]
        BY <4>1
      <4>3. f[i] = IF i = 0 THEN 0 ELSE f[i - 1] + a[i]
        BY <2>1, <4>1
      <4>4. QED
        BY <4>1, <4>2, <4>3
    <3>3. QED
      BY <3>1, <3>2
  <2>6. Rec(m + 1, g)
    <3>1. g = [i \in 0..m + 1 |-> g[i]]
      OBVIOUS
    <3> HIDE DEF g
    <3>2. QED
      BY <2>5, <3>1
  <2> HIDE DEF Rec, g
  <2>7. QED
    BY <2>2, <2>4, <2>6
<1>3. n \in Good
  <2> HIDE DEF Good
  <2>1. \A m \in 0..n : m \in Good
    BY <1>1, <1>2, CountsUp
  <2>2. n \in 0..n
    OBVIOUS
  <2>3. QED
    BY <2>1, <2>2
<1>4. ASSUME NEW f, Rec(n, f) PROVE f \in [0..n -> Nat]
  <2> DEFINE In == {m \in 0..n : f[m] \in Nat}
  <2>1. f[0] = 0 /\ \A i \in 1..n : f[i] = f[i - 1] + a[i]
    <3>1. 0 \in 0..n /\ \A i \in 1..n : i \in 0..n /\ i # 0
      OBVIOUS
    <3>2. QED
      BY <1>4, <3>1
  <2>2. 0 \in In
    BY <2>1
  <2>3. ASSUME NEW m \in 0..n - 1, m \in In PROVE m + 1 \in In
    <3>1. m + 1 \in 1..n /\ m + 1 \in 0..n /\ (m + 1) - 1 = m
      OBVIOUS
    <3>2. f[m] \in Nat /\ a[m + 1] \in Nat
      BY <2>3, <3>1
    <3>3. f[m + 1] = f[m] + a[m + 1]
      BY <2>1, <3>1
    <3>4. QED
      BY <3>1, <3>2, <3>3
  <2>4. \A m \in 0..n : m \in In
    <3> HIDE DEF In
    <3>1. QED
      BY <2>2, <2>3, CountsUp
  <2>5. f = [i \in 0..n |-> f[i]]
    BY <1>4
  <2>6. \A m \in 0..n : f[m] \in Nat
    BY <2>4
  <2> HIDE DEF Rec
  <2>7. QED
    BY <2>5, <2>6
<1>5. QED
  BY <1>3, <1>4

--------------------------------------------------------------------------------
(* Messages and their tokens                                                   *)

Messages ==
  {m \in [role : {"user", "assistant", "tool"}, text : Nat, calls : SUBSET Nat, call : Nat] :
     IsFiniteSet(m.calls)}

LEMMA TokensKnown ==
  ASSUME NEW m \in Messages
  PROVE  Tokens(m) \in Nat
<1>1. m.text \in Nat /\ Cardinality(m.calls) \in Nat
  BY FS_CardinalityType DEF Messages
<1>2. QED
  BY <1>1 DEF Tokens

LEMMA TokensSum ==
  ASSUME NEW s \in Seq(Messages)
  PROVE  \E sum \in [0..Len(s) -> Nat] :
           /\ sum[0] = 0 /\ TokensOf(s) = sum[Len(s)]
           /\ \A i \in 1..Len(s) : sum[i] = sum[i - 1] + Tokens(s[i])
<1> DEFINE n == Len(s)
           a == [i \in 1..n |-> Tokens(s[i])]
           Rec(f) == f = [i \in 0..n |-> IF i = 0 THEN 0 ELSE f[i - 1] + Tokens(s[i])]
           sum == CHOOSE f : Rec(f)
<1>1. n \in Nat /\ \A i \in 1..n : Tokens(s[i]) \in Nat
  BY SeqParts, TokensKnown
<1>2. a \in [1..n -> Nat] /\ \A i \in 1..n : a[i] = Tokens(s[i])
  BY <1>1
<1> HIDE DEF a, n
<1>3. /\ \E f : f = [i \in 0..n |-> IF i = 0 THEN 0 ELSE f[i - 1] + a[i]]
      /\ \A f : f = [i \in 0..n |-> IF i = 0 THEN 0 ELSE f[i - 1] + a[i]]
                  => f \in [0..n -> Nat]
  BY <1>1, <1>2, RunningSum
<1>4. ASSUME NEW f
      PROVE  Rec(f) <=> f = [i \in 0..n |-> IF i = 0 THEN 0 ELSE f[i - 1] + a[i]]
  <2>1. \A i \in 0..n : i # 0 => i \in 1..n
    BY <1>1
  <2>2. [i \in 0..n |-> IF i = 0 THEN 0 ELSE f[i - 1] + a[i]]
          = [i \in 0..n |-> IF i = 0 THEN 0 ELSE f[i - 1] + Tokens(s[i])]
    BY <1>2, <2>1
  <2>3. QED
    BY <2>2
<1>5. \E f : Rec(f)
  <2> HIDE DEF Rec
  <2>1. QED
    BY <1>3, <1>4
<1>6. Rec(sum)
  <2> HIDE DEF Rec
  <2>1. QED
    BY <1>5
<1>7. TokensOf(s) = sum[n]
  BY DEF TokensOf, n
<1> HIDE DEF sum
<1>8. sum \in [0..n -> Nat]
  <2> HIDE DEF Rec
  <2>1. QED
    BY <1>3, <1>4, <1>6
<1>9. sum[0] = 0 /\ \A i \in 1..n : sum[i] = sum[i - 1] + Tokens(s[i])
  <2>1. 0 \in 0..n /\ \A i \in 1..n : i \in 0..n /\ i # 0
    BY <1>1
  <2>2. QED
    BY <1>6, <2>1
<1>10. QED
  BY <1>7, <1>8, <1>9 DEF n

\* The tokens of some messages, one by one.
Spent(s, chosen) == {p \in chosen \X Nat : p[2] \in 1..Tokens(s[p[1]])}

LEMMA SpentGrows ==
  ASSUME NEW s \in Seq(Messages), NEW chosen \in SUBSET (1..Len(s)), NEW i \in (1..Len(s)) \ chosen,
         IsFiniteSet(Spent(s, chosen))
  PROVE  /\ IsFiniteSet(Spent(s, chosen \cup {i}))
         /\ Cardinality(Spent(s, chosen \cup {i})) = Cardinality(Spent(s, chosen)) + Tokens(s[i])
<1> DEFINE T == 1..Tokens(s[i])
           new == {i} \X T
<1>1. Tokens(s[i]) \in Nat
  BY SeqParts, TokensKnown
<1>2. IsFiniteSet(T) /\ Cardinality(T) = Tokens(s[i])
  BY <1>1, FS_Interval
<1>3. IsFiniteSet(new) /\ Cardinality(new) = Tokens(s[i])
  <2>1. IsFiniteSet({i}) /\ Cardinality({i}) = 1
    BY FS_Singleton
  <2> HIDE DEF T
  <2>2. IsFiniteSet(new) /\ Cardinality(new) = 1 * Cardinality(T)
    BY <1>2, <2>1, FS_Product
  <2>3. QED
    BY <1>1, <1>2, <2>2
<1>4. Spent(s, chosen \cup {i}) = Spent(s, chosen) \cup new
  BY <1>1 DEF Spent
<1>5. Spent(s, chosen) \cap new = {}
  BY DEF Spent
<1> HIDE DEF new
<1>6. Cardinality(Spent(s, chosen)) \in Nat
  BY FS_CardinalityType
<1>7. /\ IsFiniteSet(Spent(s, chosen) \cup new)
      /\ Cardinality(Spent(s, chosen) \cup new)
           = Cardinality(Spent(s, chosen)) + Cardinality(new)
               - Cardinality(Spent(s, chosen) \cap new)
  BY <1>3, FS_Union
<1>8. Cardinality(Spent(s, chosen) \cap new) = 0
  BY <1>5, FS_EmptySet
<1>9. Cardinality(Spent(s, chosen) \cup new) = Cardinality(Spent(s, chosen)) + Tokens(s[i])
  <2> HIDE DEF T
  <2>1. QED
    BY <1>1, <1>3, <1>6, <1>7, <1>8
<1>10. QED
  BY <1>4, <1>7, <1>9

\* The tokens of a sequence are those of its messages.
LEMMA TokensCounted ==
  ASSUME NEW s \in Seq(Messages)
  PROVE  IsFiniteSet(Spent(s, 1..Len(s))) /\ TokensOf(s) = Cardinality(Spent(s, 1..Len(s)))
<1> DEFINE n == Len(s)
<1>1. PICK sum \in [0..n -> Nat] :
        /\ sum[0] = 0 /\ TokensOf(s) = sum[n]
        /\ \A i \in 1..n : sum[i] = sum[i - 1] + Tokens(s[i])
  BY TokensSum
<1>2. n \in Nat
  BY SeqParts
<1> DEFINE Good == {m \in 0..n : /\ IsFiniteSet(Spent(s, 1..m))
                                 /\ sum[m] = Cardinality(Spent(s, 1..m))}
<1>3. 0 \in Good
  <2>1. Spent(s, 1..0) = {}
    BY DEF Spent
  <2>2. IsFiniteSet(Spent(s, 1..0)) /\ Cardinality(Spent(s, 1..0)) = 0
    BY <2>1, FS_EmptySet
  <2>3. sum[0] = 0 /\ 0 \in 0..n
    BY <1>1, <1>2
  <2>4. QED
    BY <2>2, <2>3
<1>4. ASSUME NEW m \in 0..n - 1, m \in Good PROVE m + 1 \in Good
  <2>1. /\ 1..m \in SUBSET (1..n) /\ m + 1 \in (1..n) \ (1..m) /\ 1..m + 1 = (1..m) \cup {m + 1}
        /\ m + 1 \in 0..n /\ (m + 1) - 1 = m
    BY <1>2
  <2>2. IsFiniteSet(Spent(s, 1..m)) /\ sum[m] = Cardinality(Spent(s, 1..m))
    BY <1>4
  <2>3. /\ IsFiniteSet(Spent(s, (1..m) \cup {m + 1}))
        /\ Cardinality(Spent(s, (1..m) \cup {m + 1}))
             = Cardinality(Spent(s, 1..m)) + Tokens(s[m + 1])
    BY <2>1, <2>2, SpentGrows
  <2>4. sum[m + 1] = sum[m] + Tokens(s[m + 1])
    BY <1>1, <2>1
  <2>5. QED
    BY <2>1, <2>2, <2>3, <2>4
<1>5. n \in Good
  <2>1. \A m \in 0..n : m \in Good
    <3> HIDE DEF Good, n
    <3>1. QED
      BY <1>2, <1>3, <1>4, CountsUp
  <2>2. QED
    BY <1>2, <2>1
<1>6. QED
  BY <1>1, <1>5

\* Messages that are cut out of others, none twice, are not longer.
LEMMA TokensBelow ==
  ASSUME NEW s \in Seq(Messages), NEW all \in Seq(Messages), NEW chosen \in SUBSET (1..Len(all)),
         NEW f \in [1..Len(s) -> chosen], \A x, y \in 1..Len(s) : f[x] = f[y] => x = y,
         \A x \in 1..Len(s) : Tokens(s[x]) <= Tokens(all[f[x]]),
         IsFiniteSet(Spent(all, chosen))
  PROVE  TokensOf(s) <= Cardinality(Spent(all, chosen))
<1> DEFINE A == Spent(s, 1..Len(s))
           B == Spent(all, chosen)
           g == [p \in A |-> <<f[p[1]], p[2]>>]
<1>1. /\ \A x \in 1..Len(s) : Tokens(s[x]) \in Nat
      /\ \A i \in chosen : Tokens(all[i]) \in Nat
  BY SeqParts, TokensKnown
<1>2. ASSUME NEW p \in A PROVE <<f[p[1]], p[2]>> \in B
  <2>1. p[1] \in 1..Len(s) /\ p[2] \in Nat /\ p[2] \in 1..Tokens(s[p[1]])
    BY DEF Spent
  <2>2. f[p[1]] \in chosen /\ Tokens(s[p[1]]) <= Tokens(all[f[p[1]]])
    BY <2>1
  <2>3. p[2] \in 1..Tokens(all[f[p[1]]])
    <3>1. Tokens(s[p[1]]) \in Nat /\ Tokens(all[f[p[1]]]) \in Nat
      BY <1>1, <2>1, <2>2
    <3>2. \A k, a, b \in Nat : k \in 1..a /\ a <= b => k \in 1..b
      OBVIOUS
    <3>3. QED
      BY <2>1, <2>2, <3>1, <3>2
  <2>4. QED
    BY <2>1, <2>2, <2>3 DEF Spent
<1>3. ASSUME NEW p \in A, NEW q \in A, g[p] = g[q] PROVE p = q
  <2>1. p[1] \in 1..Len(s) /\ q[1] \in 1..Len(s) /\ p = <<p[1], p[2]>> /\ q = <<q[1], q[2]>>
    BY DEF Spent
  <2>2. f[p[1]] = f[q[1]] /\ p[2] = q[2]
    BY <1>3
  <2>3. p[1] = q[1]
    BY <2>1, <2>2
  <2>4. QED
    BY <2>1, <2>2, <2>3
<1>4. g \in Injection(A, B)
  <2>1. g \in [A -> B]
    BY <1>2
  <2> HIDE DEF g, A, B
  <2>2. QED
    BY <1>3, <2>1 DEF Injection, IsInjective
<1>5. Cardinality(A) <= Cardinality(B)
  <2> HIDE DEF g, A, B
  <2>1. IsFiniteSet(B)
    BY DEF B
  <2>2. QED
    BY <1>4, <2>1, FS_Injection
<1>6. QED
  BY <1>5, TokensCounted

--------------------------------------------------------------------------------
(* The selection                                                               *)

\* What is left behind each message, of b, by those whose sizes fit into it.
IsRest(f, n, a, b) ==
  f = [i \in 2..n + 1 |->
         IF i = n + 1 THEN b ELSE IF a[i] <= f[i + 1] THEN f[i + 1] - a[i] ELSE f[i + 1]]

\* It is there, and is a number everywhere.
LEMMA RunningRest ==
  ASSUME NEW n \in Nat, NEW a \in [2..n -> Nat], NEW b \in Nat, n # 0
  PROVE  /\ \E f : IsRest(f, n, a, b)
         /\ \A f : IsRest(f, n, a, b) => f \in [2..n + 1 -> Nat]
<1> DEFINE Less(x, y) == IF x <= y THEN y - x ELSE y
           From(m) == n + 1 - m .. n + 1
           Rec(m, f) == f = [i \in From(m) |-> IF i = n + 1 THEN b ELSE Less(a[i], f[i + 1])]
           Good == {m \in 0..n - 1 : \E f \in [From(m) -> Nat] : Rec(m, f)}
<1>a. \A x, y \in Nat : Less(x, y) \in Nat
  OBVIOUS
<1>1. 0 \in Good
  <2> DEFINE f == [i \in From(0) |-> b]
  <2>1. From(0) = {n + 1} /\ 0 \in 0..n - 1
    OBVIOUS
  <2>2. f \in [From(0) -> Nat] /\ f = [i \in From(0) |-> b]
    OBVIOUS
  <2>3. Rec(0, f)
    <3>1. \A i \in From(0) : i = n + 1
      BY <2>1
    <3>2. [i \in From(0) |-> b]
            = [i \in From(0) |-> IF i = n + 1 THEN b ELSE Less(a[i], f[i + 1])]
      <4> HIDE DEF Less
      <4>1. QED
        BY <3>1
    <3>3. QED
      BY <3>2
  <2> HIDE DEF f, Rec, From
  <2>4. QED
    BY <2>1, <2>2, <2>3
<1>2. ASSUME NEW m \in 0..n - 2, m \in Good PROVE m + 1 \in Good
  <2>1. PICK f \in [From(m) -> Nat] : Rec(m, f)
    BY <1>2
  <2> DEFINE k == n - m
             g == [i \in From(m + 1) |-> IF i = k THEN Less(a[k], f[k + 1]) ELSE f[i]]
  <2>2. /\ k \in 2..n /\ k \in From(m + 1) /\ k + 1 \in From(m) /\ m + 1 \in 0..n - 1
        /\ \A i \in From(m + 1) : i # k => i \in From(m)
        /\ \A i \in From(m) : i # k /\ i \in From(m + 1) /\ (i # n + 1 => i + 1 \in From(m))
    OBVIOUS
  <2> HIDE DEF From, k, Less
  <2>3. Less(a[k], f[k + 1]) \in Nat
    BY <1>a, <2>2
  <2>4. g \in [From(m + 1) -> Nat]
    BY <2>2, <2>3
  <2>5. ASSUME NEW i \in From(m + 1)
        PROVE  g[i] = IF i = n + 1 THEN b ELSE Less(a[i], g[i + 1])
    <3>1. CASE i = k
      <4>1. i # n + 1
        BY <2>2, <3>1
      <4>2. g[k] = Less(a[k], f[k + 1]) /\ g[k + 1] = f[k + 1]
        BY <2>2
      <4>3. QED
        BY <3>1, <4>1, <4>2
    <3>2. CASE i # k
      <4>1. i \in From(m) /\ g[i] = f[i]
        BY <2>2, <3>2
      <4>2. i # n + 1 => g[i + 1] = f[i + 1]
        BY <2>2, <4>1
      <4>3. f[i] = IF i = n + 1 THEN b ELSE Less(a[i], f[i + 1])
        BY <2>1, <4>1
      <4>4. QED
        BY <4>1, <4>2, <4>3
    <3>3. QED
      BY <3>1, <3>2
  <2>6. Rec(m + 1, g)
    <3>1. g = [i \in From(m + 1) |-> g[i]]
      OBVIOUS
    <3> HIDE DEF g
    <3>2. QED
      BY <2>5, <3>1
  <2> HIDE DEF Rec, g
  <2>7. QED
    BY <2>2, <2>4, <2>6
<1>3. n - 1 \in Good
  <2>1. \A m \in 0..n - 1 : m \in Good
    <3>1. n - 1 \in Nat /\ (n - 1) - 1 = n - 2
      OBVIOUS
    <3> HIDE DEF Good
    <3>2. QED
      BY <1>1, <1>2, <3>1, CountsUp
  <2>2. n - 1 \in 0..n - 1
    OBVIOUS
  <2> HIDE DEF Good
  <2>3. QED
    BY <2>1, <2>2
<1>4. From(n - 1) = 2..n + 1
  OBVIOUS
<1>5. ASSUME NEW f, Rec(n - 1, f) PROVE f \in [2..n + 1 -> Nat]
  <2> DEFINE In == {m \in 0..n - 1 : f[n + 1 - m] \in Nat}
  <2>1. /\ f[n + 1] = b
        /\ \A i \in 2..n : f[i] = Less(a[i], f[i + 1])
    <3>1. n + 1 \in 2..n + 1 /\ \A i \in 2..n : i \in 2..n + 1 /\ i # n + 1
      OBVIOUS
    <3> HIDE DEF Less
    <3>2. QED
      BY <1>4, <1>5, <3>1
  <2>2. 0 \in In
    BY <2>1
  <2>3. ASSUME NEW m \in 0..n - 2, m \in In PROVE m + 1 \in In
    <3> DEFINE k == n - m
    <3>1. k \in 2..n /\ n + 1 - (m + 1) = k /\ n + 1 - m = k + 1 /\ m + 1 \in 0..n - 1
      OBVIOUS
    <3>2. f[k + 1] \in Nat
      BY <2>3, <3>1
    <3> HIDE DEF k, Less
    <3>3. f[k] = Less(a[k], f[k + 1]) /\ a[k] \in Nat
      BY <2>1, <3>1
    <3>4. f[k] \in Nat
      BY <1>a, <3>2, <3>3
    <3>5. QED
      BY <3>1, <3>4
  <2>4. \A m \in 0..n - 1 : m \in In
    <3>1. n - 1 \in Nat /\ (n - 1) - 1 = n - 2
      OBVIOUS
    <3> HIDE DEF In
    <3>2. QED
      BY <2>2, <2>3, <3>1, CountsUp
  <2>5. ASSUME NEW i \in 2..n + 1 PROVE f[i] \in Nat
    <3>1. n + 1 - i \in 0..n - 1 /\ n + 1 - (n + 1 - i) = i
      OBVIOUS
    <3>2. n + 1 - i \in In
      BY <2>4, <3>1
    <3>3. QED
      BY <3>1, <3>2
  <2>6. f = [i \in 2..n + 1 |-> f[i]]
    BY <1>4, <1>5
  <2> HIDE DEF Rec
  <2>7. QED
    BY <2>5, <2>6
<1>6. ASSUME NEW f
      PROVE  Rec(n - 1, f) <=> IsRest(f, n, a, b)
  BY <1>4 DEF IsRest
<1> HIDE DEF Rec
<1>7. QED
  BY <1>3, <1>5, <1>6

\* The messages that are selected are not longer than the limit.
LEMMA SelectedFits ==
  ASSUME NEW s \in Seq(Messages), s # <<>>, Tokens(s[1]) <= MaxTokens, MaxTokens \in Nat
  PROVE  /\ Selected(s) \in SUBSET (1..Len(s)) /\ 1 \in Selected(s)
         /\ IsFiniteSet(Spent(s, Selected(s)))
         /\ Cardinality(Spent(s, Selected(s))) <= MaxTokens
<1> DEFINE n == Len(s)
           a == [i \in 2..n |-> Tokens(s[i])]
           b == MaxTokens - Tokens(s[1])
           Rec(f) == f = [i \in 2..(n + 1) |->
                            IF i = n + 1 THEN MaxTokens - Tokens(s[1])
                            ELSE LET rest == f[i + 1]
                                     size == Tokens(s[i])
                                 IN IF size <= rest THEN rest - size ELSE rest]
           left == CHOOSE f : Rec(f)
<1>1. n \in Nat /\ n # 0 /\ \A i \in 1..n : Tokens(s[i]) \in Nat
  BY SeqParts, TokensKnown
<1>2. b \in Nat /\ b = MaxTokens - Tokens(s[1])
  <2>1. Tokens(s[1]) \in Nat
    BY <1>1
  <2>2. QED
    BY <2>1
<1>3. a \in [2..n -> Nat] /\ \A i \in 2..n : a[i] = Tokens(s[i])
  BY <1>1
<1>4. Selected(s) = {1} \cup {i \in 2..n : Tokens(s[i]) <= left[i + 1]}
  BY DEF Selected
<1> HIDE DEF a, b, n
<1>5. ASSUME NEW f
      PROVE  Rec(f) <=> IsRest(f, n, a, b)
  <2>1. \A i \in 2..n + 1 : i # n + 1 => i \in 2..n
    BY <1>1
  <2>2. [i \in 2..n + 1 |-> IF i = n + 1 THEN b
                            ELSE IF a[i] <= f[i + 1] THEN f[i + 1] - a[i] ELSE f[i + 1]]
          = [i \in 2..n + 1 |->
               IF i = n + 1 THEN MaxTokens - Tokens(s[1])
               ELSE IF Tokens(s[i]) <= f[i + 1] THEN f[i + 1] - Tokens(s[i]) ELSE f[i + 1]]
    BY <1>2, <1>3, <2>1
  <2>3. QED
    BY <2>2 DEF IsRest
<1> HIDE DEF Rec
<1>6. Rec(left) /\ left \in [2..n + 1 -> Nat]
  <2>a. /\ \E f : IsRest(f, n, a, b)
        /\ \A f : IsRest(f, n, a, b) => f \in [2..n + 1 -> Nat]
    BY <1>1, <1>2, <1>3, RunningRest
  <2>1. \E f : Rec(f)
    BY <1>5, <2>a
  <2>2. Rec(left)
    BY <2>1
  <2> HIDE DEF left
  <2>3. left \in [2..n + 1 -> Nat]
    BY <1>5, <2>2, <2>a
  <2>4. QED
    BY <2>2, <2>3
<1> HIDE DEF left
<1>7. /\ left[n + 1] = b
      /\ \A i \in 2..n :
           left[i] = IF a[i] <= left[i + 1] THEN left[i + 1] - a[i] ELSE left[i + 1]
  <2>1. n + 1 \in 2..n + 1 /\ \A i \in 2..n : i \in 2..n + 1 /\ i # n + 1
    BY <1>1
  <2>2. left = [i \in 2..n + 1 |->
                  IF i = n + 1 THEN b
                  ELSE IF a[i] <= left[i + 1] THEN left[i + 1] - a[i] ELSE left[i + 1]]
    BY <1>5, <1>6 DEF IsRest
  <2>3. QED
    BY <2>1, <2>2
<1> DEFINE chosen == Selected(s)
           Late(m) == {1} \cup {i \in chosen : i > n - m}
           Good == {m \in 0..n - 1 :
                      /\ IsFiniteSet(Spent(s, Late(m)))
                      /\ Cardinality(Spent(s, Late(m))) + left[n + 1 - m] = MaxTokens}
<1>8. chosen \in SUBSET (1..n) /\ 1 \in chosen
  BY <1>1, <1>4
<1>8a. \A i \in 2..n : i \in chosen <=> a[i] <= left[i + 1]
  BY <1>3, <1>4
<1> HIDE DEF chosen
<1>9. 0 \in Good
  <2>1. Late(0) = {} \cup {1}
    <3>1. \A i \in 1..n : ~(i > n - 0)
      BY <1>1
    <3>2. QED
      BY <1>8, <3>1
  <2>2. IsFiniteSet(Spent(s, {})) /\ Cardinality(Spent(s, {})) = 0
    <3>1. Spent(s, {}) = {}
      BY DEF Spent
    <3>2. QED
      BY <3>1, FS_EmptySet
  <2>3. {} \in SUBSET (1..Len(s)) /\ 1 \in (1..Len(s)) \ {}
    BY <1>1 DEF n
  <2>4. /\ IsFiniteSet(Spent(s, {} \cup {1}))
        /\ Cardinality(Spent(s, {} \cup {1})) = Cardinality(Spent(s, {})) + Tokens(s[1])
    BY <2>2, <2>3, SpentGrows
  <2> HIDE DEF Late
  <2>5. Cardinality(Spent(s, Late(0))) = Tokens(s[1]) /\ IsFiniteSet(Spent(s, Late(0)))
    <3>1. Tokens(s[1]) \in Nat
      BY <1>1
    <3>2. Spent(s, Late(0)) = Spent(s, {} \cup {1})
      BY <2>1
    <3>3. Cardinality(Spent(s, {} \cup {1})) = Tokens(s[1])
      BY <2>2, <2>4, <3>1
    <3>4. QED
      BY <2>4, <3>2, <3>3
  <2>6. left[n + 1 - 0] = b /\ 0 \in 0..n - 1
    BY <1>1, <1>7
  <2>7. Tokens(s[1]) + b = MaxTokens
    <3>1. Tokens(s[1]) \in Nat
      BY <1>1
    <3>2. QED
      BY <1>2, <3>1
  <2>8. QED
    BY <2>5, <2>6, <2>7
<1>10. ASSUME NEW m \in 0..n - 2, m \in Good PROVE m + 1 \in Good
  <2> DEFINE k == n - m
  <2>1. /\ k \in 2..n /\ n + 1 - (m + 1) = k /\ n + 1 - m = k + 1 /\ m + 1 \in 0..n - 1
        /\ n - (m + 1) = k - 1 /\ k + 1 \in 2..n + 1
    BY <1>1
  <2>2. /\ IsFiniteSet(Spent(s, Late(m)))
        /\ Cardinality(Spent(s, Late(m))) + left[k + 1] = MaxTokens
    BY <1>10, <2>1
  <2>3. left[k + 1] \in Nat /\ a[k] \in Nat /\ a[k] = Tokens(s[k])
    BY <1>3, <1>6, <2>1
  <2>4. Cardinality(Spent(s, Late(m))) \in Nat
    BY <2>2, FS_CardinalityType
  <2>5. Late(m) \in SUBSET (1..Len(s)) /\ k \in (1..Len(s)) \ Late(m)
    <3>1. \A i \in 1..n : i > n - m => i # k
      BY <1>1
    <3>2. k \in 1..n /\ k # 1 /\ Late(m) \subseteq 1..n
      <4>1. Late(m) \subseteq 1..n
        BY <1>8
      <4>2. k \in 1..n /\ k # 1
        BY <1>1, <2>1
      <4>3. QED
        BY <4>1, <4>2
    <3>3. k \notin Late(m)
      BY <1>8, <3>1, <3>2
    <3>4. QED
      BY <3>2, <3>3 DEF n
  <2>6. Late(m + 1) = IF k \in chosen THEN Late(m) \cup {k} ELSE Late(m)
    <3>1. \A i \in 1..n : i > n - (m + 1) <=> i = k \/ i > n - m
      BY <1>1
    <3> HIDE DEF k
    <3>2. QED
      BY <1>8, <3>1
  <2> HIDE DEF Late, k
  <2>7. CASE k \in chosen
    <3>1. /\ IsFiniteSet(Spent(s, Late(m) \cup {k}))
          /\ Cardinality(Spent(s, Late(m) \cup {k}))
               = Cardinality(Spent(s, Late(m))) + Tokens(s[k])
      BY <2>2, <2>5, SpentGrows
    <3>2. left[k] = left[k + 1] - a[k]
      BY <1>7, <1>8a, <2>1, <2>7
    <3>3. Cardinality(Spent(s, Late(m + 1))) + left[k] = MaxTokens
      <4>1. Cardinality(Spent(s, Late(m + 1))) = Cardinality(Spent(s, Late(m))) + a[k]
        BY <2>3, <2>6, <2>7, <3>1
      <4>2. a[k] <= left[k + 1]
        BY <1>8a, <2>1, <2>7
      <4>3. QED
        BY <2>2, <2>3, <2>4, <3>2, <4>1, <4>2
    <3>4. QED
      BY <2>1, <2>6, <2>7, <3>1, <3>3
  <2>8. CASE k \notin chosen
    <3>1. left[k] = left[k + 1]
      BY <1>7, <1>8a, <2>1, <2>8
    <3>2. QED
      BY <2>1, <2>2, <2>6, <2>8, <3>1
  <2>9. QED
    BY <2>7, <2>8
<1>11. n - 1 \in Good
  <2>1. \A m \in 0..n - 1 : m \in Good
    <3>1. n - 1 \in Nat /\ (n - 1) - 1 = n - 2
      BY <1>1
    <3> HIDE DEF Good
    <3>2. QED
      BY <1>9, <1>10, <3>1, CountsUp
  <2>2. n - 1 \in 0..n - 1
    BY <1>1
  <2> HIDE DEF Good
  <2>3. QED
    BY <2>1, <2>2
<1>12. Late(n - 1) = chosen
  <2>1. \A i \in 1..n : i = 1 \/ i > n - (n - 1)
    BY <1>1
  <2>2. QED
    BY <1>8, <2>1
<1>13. left[n + 1 - (n - 1)] \in Nat
  <2>1. n + 1 - (n - 1) \in 2..n + 1
    BY <1>1
  <2>2. QED
    BY <1>6, <2>1
<1>14. IsFiniteSet(Spent(s, chosen)) /\ Cardinality(Spent(s, chosen)) <= MaxTokens
  <2>1. /\ IsFiniteSet(Spent(s, chosen))
        /\ Cardinality(Spent(s, chosen)) + left[n + 1 - (n - 1)] = MaxTokens
    <3> HIDE DEF Late
    <3>1. QED
      BY <1>11, <1>12
  <2>2. Cardinality(Spent(s, chosen)) \in Nat
    BY <2>1, FS_CardinalityType
  <2>3. QED
    BY <1>13, <2>1, <2>2
<1>15. QED
  BY <1>8, <1>14 DEF chosen, n

--------------------------------------------------------------------------------
(* Calls and their answers                                                     *)

\* A call is made once and is answered at most once, after it and after nothing but answers.
Answering(s) ==
  /\ s \in Seq(Messages)
  /\ \A i \in 1..Len(s) : s[i].role # "assistant" => s[i].calls = {}
  /\ \A i, j \in 1..Len(s) : i # j => s[i].calls \cap s[j].calls = {}
  /\ \A i, j \in 1..Len(s) :
       s[i].role = "tool" /\ s[j].role = "tool" /\ s[i].call = s[j].call => i = j
  /\ \A i, j \in 1..Len(s) :
       s[i].role = "tool" /\ s[i].call \in s[j].calls
         => j < i /\ \A h \in j + 1..i - 1 : s[h].role = "tool"

LEMMA PlaceKnown ==
  ASSUME NEW S, NEW s \in Seq(S), NEW i \in 1..Len(s)
  PROVE  /\ PlaceOf(s, i) \in 1..Len(s) /\ s[PlaceOf(s, i)] = s[i]
         /\ \A j \in 1..Len(s) : s[j] = s[i] => PlaceOf(s, i) <= j
<1> DEFINE P == {j \in 1..Len(s) : s[j] = s[i]}
<1>1. Len(s) \in Nat /\ i \in P
  BY SeqParts
<1>2. P \subseteq 0..Len(s) /\ P # {}
  BY <1>1
<1>3. \E k \in P : \A l \in P : k <= l
  <2> HIDE DEF P
  <2>1. QED
    BY <1>1, <1>2, ExtremesExist
<1>4. Min(P) \in P /\ \A l \in P : Min(P) <= l
  <2> HIDE DEF P
  <2>1. QED
    BY <1>3 DEF Min
<1>5. PlaceOf(s, i) = Min(P)
  BY DEF PlaceOf
<1>6. QED
  BY <1>4, <1>5

\* What is selected is put in order: each message is one of those selected, none is there
\* twice, and they come in the order of their places.
LEMMA OrderedParts ==
  ASSUME NEW all \in Seq(Messages), NEW chosen \in SUBSET (1..Len(all))
  PROVE  /\ Ordered(all, chosen) \in Seq(Messages)
         /\ \E f \in [1..Len(Ordered(all, chosen)) -> chosen] :
              LET s == Ordered(all, chosen)
              IN /\ \A x, y \in 1..Len(s) : f[x] = f[y] => x = y
                 /\ \A x \in 1..Len(s) : s[x] = all[f[x]]
                 /\ \A x, y \in 1..Len(s) : x < y => PlaceOf(all, f[x]) <= PlaceOf(all, f[y])
                 /\ 1 \in chosen => s # <<>> /\ s[1] = all[1]
<1> DEFINE n == Len(all)
           P(i) == PlaceOf(all, i)
           at(p) == {i \in chosen : P(i) = p}
           num(p) == Cardinality(at(p))
           ss == [p \in 1..n |-> [k \in 1..num(p) |-> all[p]]]
           s == FlattenSeq(ss)
<1>1. n \in Nat /\ \A i \in 1..n : all[i] \in Messages
  BY SeqParts
<1>2. \A i \in 1..n : /\ P(i) \in 1..n /\ all[P(i)] = all[i]
                      /\ \A j \in 1..n : all[j] = all[i] => P(i) <= j
  BY PlaceKnown
<1>3. Ordered(all, chosen) = s
  BY DEF Ordered
<1> HIDE DEF P, n
<1>4. ASSUME NEW p \in 1..n
      PROVE  /\ IsFiniteSet(at(p)) /\ num(p) \in Nat
             /\ \E g : g \in Bijection(1..num(p), at(p))
  <2>1. IsFiniteSet(1..n)
    <3>1. 1 \in Int /\ n \in Int
      BY <1>1
    <3>2. QED
      BY <3>1, FS_Interval
  <2>2. at(p) \in SUBSET (1..n)
    BY DEF n
  <2> HIDE DEF at
  <2>3. IsFiniteSet(at(p))
    BY <2>1, <2>2, FS_Subset
  <2>4. num(p) \in Nat /\ ExistsBijection(1..num(p), at(p))
    BY <2>3, FS_CardinalityType
  <2>5. QED
    BY <2>3, <2>4 DEF ExistsBijection
<1> HIDE DEF num
<1>5. ASSUME NEW p \in 1..n
      PROVE  /\ ss[p] \in Seq(Messages) /\ Len(ss[p]) = num(p)
             /\ \A k \in 1..num(p) : ss[p][k] = all[p]
  <2> DEFINE c == [k \in 1..num(p) |-> all[p]]
  <2>1. num(p) \in Nat /\ \A k \in 1..num(p) : c[k] = all[p]
    BY <1>4
  <2>2. all[p] \in Messages /\ c = [k \in 1..num(p) |-> c[k]]
    BY <1>1
  <2>3. ss[p] = c
    OBVIOUS
  <2> HIDE DEF c, ss
  <2>4. c \in Seq(Messages) /\ Len(c) = num(p)
    BY <2>1, <2>2, SeqMade
  <2>5. QED
    BY <2>1, <2>3, <2>4
<1>6. ss \in [1..n -> Seq(Messages)]
  BY <1>5
<1> HIDE DEF ss
<1>7. s \in Seq(Messages) /\ \E part, place : Laid(s, ss, n, part, place)
  BY <1>1, <1>6, FlatPlaces
<1> HIDE DEF s
<1>8. PICK part, place : Laid(s, ss, n, part, place)
  BY <1>7
<1> DEFINE l == Len(s)
<1>9. /\ l \in Nat
      /\ \A x \in 1..l : part[x] \in 1..n /\ place[x] \in 1..num(part[x]) /\ s[x] = all[part[x]]
      /\ \A x, y \in 1..l : x < y => part[x] < part[y] \/ (part[x] = part[y] /\ place[x] < place[y])
      /\ \A i \in 1..n : \A k \in 1..num(i) : \E x \in 1..l : part[x] = i /\ place[x] = k
  <2>1. l \in Nat
    BY <1>7, SeqParts
  <2>2. ASSUME NEW x \in 1..l
        PROVE part[x] \in 1..n /\ place[x] \in 1..num(part[x]) /\ s[x] = all[part[x]]
    <3>1. part[x] \in 1..n /\ place[x] \in 1..Len(ss[part[x]]) /\ s[x] = ss[part[x]][place[x]]
      BY <1>8 DEF Laid
    <3>2. QED
      BY <1>5, <3>1
  <2>3. \A i \in 1..n : \A k \in 1..num(i) : \E x \in 1..l : part[x] = i /\ place[x] = k
    <3>1. \A i \in 1..n : \A k \in 1..Len(ss[i]) : \E x \in 1..l : part[x] = i /\ place[x] = k
      BY <1>8 DEF Laid
    <3>2. QED
      BY <1>5, <3>1
  <2>4. \A x, y \in 1..l : x < y => part[x] < part[y] \/ (part[x] = part[y] /\ place[x] < place[y])
    BY <1>8 DEF Laid
  <2>5. QED
    BY <2>1, <2>2, <2>3, <2>4
<1> DEFINE b == [p \in 1..n |-> CHOOSE g : g \in Bijection(1..num(p), at(p))]
           f == [x \in 1..l |-> b[part[x]][place[x]]]
<1>10. ASSUME NEW p \in 1..n PROVE b[p] \in Bijection(1..num(p), at(p))
  <2> HIDE DEF at
  <2>1. QED
    BY <1>4
<1>11. /\ \A p \in 1..n : \A k \in 1..num(p) : b[p][k] \in at(p)
       /\ \A p \in 1..n : \A k, m \in 1..num(p) : b[p][k] = b[p][m] => k = m
  <2> HIDE DEF at, b
  <2>1. QED
    BY <1>10 DEF Bijection, Injection, IsInjective
<1>12. \A x \in 1..l : f[x] \in at(part[x])
  <2> HIDE DEF at, b
  <2>1. QED
    BY <1>9, <1>11
<1>13. \A x \in 1..l : f[x] \in chosen /\ f[x] \in 1..n /\ P(f[x]) = part[x]
  <2> HIDE DEF f
  <2>1. QED
    BY <1>12 DEF n
<1>14. f \in [1..l -> chosen]
  BY <1>13
<1>15. ASSUME NEW x \in 1..l, NEW y \in 1..l, f[x] = f[y] PROVE x = y
  <2>1. part[x] = part[y]
    <3> HIDE DEF f
    <3>1. QED
      BY <1>13, <1>15
  <2>2. place[x] = place[y]
    <3> HIDE DEF b
    <3>1. b[part[x]][place[x]] = b[part[x]][place[y]]
      BY <1>15, <2>1
    <3>2. part[x] \in 1..n /\ place[x] \in 1..num(part[x]) /\ place[y] \in 1..num(part[x])
      BY <1>9, <2>1
    <3>3. QED
      BY <1>11, <3>1, <3>2
  <2>3. part[x] \in Nat /\ place[x] \in Nat /\ x \in Nat /\ y \in Nat
    <3>1. num(part[x]) \in Nat /\ part[x] \in 1..n /\ place[x] \in 1..num(part[x])
      BY <1>4, <1>9
    <3>2. QED
      BY <3>1
  <2>4. ~(x < y) /\ ~(y < x)
    BY <1>9, <2>1, <2>2, <2>3
  <2>5. QED
    BY <2>3, <2>4
<1> HIDE DEF f
<1>16. \A x \in 1..l : s[x] = all[f[x]]
  BY <1>2, <1>9, <1>13
<1>17. \A x, y \in 1..l : x < y => P(f[x]) <= P(f[y])
  <2>1. \A x \in 1..l : part[x] \in 1..n /\ P(f[x]) = part[x]
    BY <1>9, <1>13
  <2>2. \A x, y \in 1..l : x < y => part[x] < part[y] \/ part[x] = part[y]
    BY <1>9
  <2>3. \A u, v \in 1..n : u < v \/ u = v => u <= v
    BY <1>1
  <2>4. QED
    BY <2>1, <2>2, <2>3
<1>18. ASSUME 1 \in chosen PROVE s # <<>> /\ s[1] = all[1]
  <2>1. 1 \in 1..n /\ P(1) = 1
    <3>1. 1 \in 1..n
      BY <1>18 DEF n
    <3>2. P(1) \in 1..n /\ P(1) <= 1
      BY <1>2, <3>1
    <3>3. QED
      BY <3>1, <3>2
  <2>2. 1 \in 1..num(1)
    <3>1. 1 \in at(1)
      BY <1>18, <2>1
    <3> HIDE DEF at
    <3>2. num(1) # 0 /\ num(1) \in Nat
      BY <1>4, <2>1, <3>1, FS_EmptySet DEF num
    <3>3. QED
      BY <3>2
  <2>3. PICK x \in 1..l : part[x] = 1 /\ place[x] = 1
    BY <1>9, <2>1, <2>2
  <2>4. 1 \in 1..l
    BY <1>9
  <2>5. part[1] \in 1..n /\ place[1] \in Nat /\ place[1] >= 1
    <3>1. part[1] \in 1..n /\ num(part[1]) \in Nat /\ place[1] \in 1..num(part[1])
      BY <1>4, <1>9, <2>4
    <3>2. QED
      BY <3>1
  <2>6. ~(1 < x)
    <3>1. 1 < x => part[1] < 1 \/ place[1] < 1
      BY <1>9, <2>3, <2>4
    <3>2. QED
      BY <1>1, <2>5, <3>1
  <2>7. x = 1
    BY <1>9, <2>6
  <2>8. s[1] = all[1]
    BY <1>9, <2>3, <2>7
  <2>9. s # <<>>
    <3>1. Len(s) # 0
      BY <1>9, <2>4
    <3>2. QED
      BY <1>7, <3>1, SeqParts
  <2>10. QED
    BY <2>8, <2>9
<1>19. QED
  <2> DEFINE o == Ordered(all, chosen)
  <2>1. o = s /\ l = Len(o)
    BY <1>3
  <2> HIDE DEF o
  <2>2. /\ o \in Seq(Messages)
        /\ f \in [1..Len(o) -> chosen]
        /\ \A x, y \in 1..Len(o) : f[x] = f[y] => x = y
        /\ \A x \in 1..Len(o) : o[x] = all[f[x]]
        /\ \A x, y \in 1..Len(o) : x < y => PlaceOf(all, f[x]) <= PlaceOf(all, f[y])
        /\ 1 \in chosen => o # <<>> /\ o[1] = all[1]
    BY <1>7, <1>14, <1>15, <1>16, <1>17, <1>18, <2>1 DEF P
  <2>3. QED
    BY <2>2 DEF o

\* What is put in order keeps each answer behind its call, for neither equals another message.
LEMMA OrderedAnswering ==
  ASSUME NEW all, Answering(all), NEW chosen \in SUBSET (1..Len(all))
  PROVE  Answering(Ordered(all, chosen))
<1> DEFINE n == Len(all)
           s == Ordered(all, chosen)
           l == Len(s)
           P(i) == PlaceOf(all, i)
<1>1. /\ all \in Seq(Messages) /\ n \in Nat
      /\ \A i \in 1..n : all[i] \in Messages
  BY SeqParts DEF Answering
<1>2. /\ \A i \in 1..n : all[i].role # "assistant" => all[i].calls = {}
      /\ \A i, j \in 1..n : i # j => all[i].calls \cap all[j].calls = {}
      /\ \A i, j \in 1..n :
           all[i].role = "tool" /\ all[j].role = "tool" /\ all[i].call = all[j].call => i = j
      /\ \A i, j \in 1..n :
           all[i].role = "tool" /\ all[i].call \in all[j].calls
             => j < i /\ \A h \in j + 1..i - 1 : all[h].role = "tool"
  BY DEF Answering
<1>3. /\ s \in Seq(Messages)
      /\ \E f \in [1..l -> chosen] :
           /\ \A x, y \in 1..l : f[x] = f[y] => x = y
           /\ \A x \in 1..l : s[x] = all[f[x]]
           /\ \A x, y \in 1..l : x < y => P(f[x]) <= P(f[y])
  BY <1>1, OrderedParts
<1> HIDE DEF s, P
<1>4. PICK f \in [1..l -> chosen] :
        /\ \A x, y \in 1..l : f[x] = f[y] => x = y
        /\ \A x \in 1..l : s[x] = all[f[x]]
        /\ \A x, y \in 1..l : x < y => P(f[x]) <= P(f[y])
  BY <1>3
<1>5. \A x \in 1..l : f[x] \in 1..n
  BY <1>4
<1>6. l \in Nat
  BY <1>3, SeqParts
<1>7. \A i \in 1..n : P(i) \in 1..n /\ all[P(i)] = all[i]
  BY <1>1, PlaceKnown DEF P
\* A message that calls or answers is at its own place.
<1>8. ASSUME NEW i \in 1..n, all[i].role = "tool" \/ all[i].calls # {} PROVE P(i) = i
  <2>1. P(i) \in 1..n /\ all[P(i)] = all[i]
    BY <1>7
  <2>2. CASE all[i].role = "tool"
    BY <1>2, <2>1, <2>2
  <2>3. CASE all[i].calls # {}
    <3>1. all[i].calls \cap all[P(i)].calls # {}
      BY <2>1, <2>3
    <3>2. QED
      BY <1>2, <2>1, <3>1
  <2>4. QED
    BY <1>8, <2>2, <2>3
<1>9. ASSUME NEW x \in 1..l PROVE s[x].role # "assistant" => s[x].calls = {}
  BY <1>2, <1>4, <1>5
<1>10. ASSUME NEW x \in 1..l, NEW y \in 1..l, x # y PROVE s[x].calls \cap s[y].calls = {}
  <2>1. f[x] \in 1..n /\ f[y] \in 1..n /\ f[x] # f[y] /\ s[x] = all[f[x]] /\ s[y] = all[f[y]]
    BY <1>4, <1>5, <1>10
  <2>2. QED
    BY <1>2, <2>1
<1>11. ASSUME NEW x \in 1..l, NEW y \in 1..l,
              s[x].role = "tool" /\ s[y].role = "tool" /\ s[x].call = s[y].call
       PROVE  x = y
  <2>1. f[x] \in 1..n /\ f[y] \in 1..n /\ s[x] = all[f[x]] /\ s[y] = all[f[y]]
    BY <1>4, <1>5
  <2>2. f[x] = f[y]
    BY <1>2, <1>11, <2>1
  <2>3. QED
    BY <1>4, <2>2
<1>12. ASSUME NEW x \in 1..l, NEW y \in 1..l, s[x].role = "tool", s[x].call \in s[y].calls
       PROVE  y < x /\ \A h \in y + 1..x - 1 : s[h].role = "tool"
  <2>1. f[x] \in 1..n /\ f[y] \in 1..n /\ s[x] = all[f[x]] /\ s[y] = all[f[y]]
    BY <1>4, <1>5
  <2>2. f[y] < f[x] /\ \A h \in f[y] + 1..f[x] - 1 : all[h].role = "tool"
    BY <1>2, <1>12, <2>1
  <2>3. P(f[x]) = f[x] /\ P(f[y]) = f[y]
    BY <1>8, <1>12, <2>1
  <2>4. y < x
    <3>1. ~(x < y)
      <4>1. x < y => f[x] <= f[y]
        BY <1>4, <2>3
      <4>2. f[x] \in Nat /\ f[y] \in Nat
        BY <2>1
      <4>3. QED
        BY <2>2, <4>1, <4>2
    <3>2. x # y
      BY <2>1, <2>2
    <3>3. QED
      BY <1>6, <3>1, <3>2
  <2>5. ASSUME NEW h \in y + 1..x - 1 PROVE s[h].role = "tool"
    <3>1. h \in 1..l /\ y < h /\ h < x /\ h # y
      BY <1>6, <2>5
    <3>2. f[h] \in 1..n /\ s[h] = all[f[h]] /\ f[h] # f[y]
      BY <1>4, <1>5, <3>1
    <3>3. f[y] <= P(f[h]) /\ P(f[h]) <= f[x]
      BY <1>4, <2>3, <3>1
    <3>4. P(f[h]) \in 1..n /\ all[P(f[h])] = s[h]
      BY <1>7, <3>2
    <3>5. P(f[h]) # f[y]
      <4>1. SUFFICES ASSUME P(f[h]) = f[y] PROVE FALSE
        OBVIOUS
      <4>2. all[f[h]].calls # {}
        BY <1>12, <2>1, <3>2, <3>4, <4>1
      <4>3. P(f[h]) = f[h]
        BY <1>8, <3>2, <4>2
      <4>4. QED
        BY <3>2, <4>1, <4>3
    <3>6. CASE P(f[h]) = f[x]
      BY <1>12, <2>1, <3>4, <3>6
    <3>7. CASE P(f[h]) # f[x]
      <4>1. P(f[h]) \in f[y] + 1..f[x] - 1
        BY <2>1, <3>3, <3>4, <3>5, <3>7
      <4>2. QED
        BY <2>2, <3>4, <4>1
    <3>8. QED
      BY <3>6, <3>7
  <2>6. QED
    BY <2>4, <2>5
<1>13. Answering(s)
  BY <1>3, <1>9, <1>10, <1>11, <1>12 DEF Answering
<1>14. QED
  BY <1>13 DEF s

\* What is chosen of messages, and the place of each.
LEMMA MendedParts ==
  ASSUME NEW s \in Seq(Messages)
  PROVE  /\ Mended(s) \in Seq(Messages)
         /\ \E f \in [1..Len(Mended(s)) -> 1..Len(s)] :
              LET r == Mended(s)
              IN /\ \A x \in 1..Len(r) : Keeps(s, f[x]) /\ r[x] = Stripped(s, f[x])
                 /\ \A x, y \in 1..Len(r) : x < y => f[x] < f[y]
                 /\ \A i \in 1..Len(s) : Keeps(s, i) => \E x \in 1..Len(r) : f[x] = i
<1> DEFINE n == Len(s)
           K == {i \in 1..n : Keeps(s, i)}
           g == [i \in 1..n |-> Stripped(s, i)]
           ss == [i \in 1..n |-> IF Keeps(s, i) THEN <<Stripped(s, i)>> ELSE <<>>]
           r == FlattenSeq(ss)
<1>1. n \in Nat /\ \A i \in 1..n : s[i] \in Messages
  BY SeqParts
<1>2. ASSUME NEW i \in 1..n PROVE Stripped(s, i) \in Messages
  <2>1. s[i] \in Messages
    BY <1>1
  <2>2. [s[i] EXCEPT !.calls = {}] \in Messages
    BY <2>1, FS_EmptySet DEF Messages
  <2>3. QED
    BY <2>1, <2>2 DEF Stripped
<1>3. Mended(s) = r
  BY DEF Mended
<1> HIDE DEF n
<1>4. g \in [1..n -> Messages] /\ \A i \in 1..n : g[i] = Stripped(s, i)
  BY <1>2
<1>5. /\ ss = [i \in 1..n |-> ss[i]]
      /\ \A i \in 1..n : i \in K <=> Keeps(s, i)
      /\ \A i \in 1..n : ss[i] = IF Keeps(s, i) THEN <<Stripped(s, i)>> ELSE <<>>
  OBVIOUS
<1> HIDE DEF ss, g, K
<1>6. \A i \in 1..n : (i \in K => ss[i] = <<g[i]>>) /\ (i \notin K => ss[i] = <<>>)
  BY <1>4, <1>5
<1>7. /\ r \in Seq(Messages)
      /\ \E f : IsFiltered(r, f, n, g, K)
  BY <1>1, <1>4, <1>5, <1>6, Filtered
<1> HIDE DEF r
<1>8. PICK f \in [1..Len(r) -> 1..n] :
        /\ \A x \in 1..Len(r) : f[x] \in K /\ r[x] = g[f[x]]
        /\ \A x, y \in 1..Len(r) : x < y => f[x] < f[y]
        /\ \A i \in 1..n : i \in K => \E x \in 1..Len(r) : f[x] = i
  BY <1>7 DEF IsFiltered
<1>9. QED
  <2> DEFINE o == Mended(s)
  <2>1. o = r
    BY <1>3
  <2> HIDE DEF o
  <2>2. /\ o \in Seq(Messages) /\ f \in [1..Len(o) -> 1..n]
        /\ \A x \in 1..Len(o) : Keeps(s, f[x]) /\ o[x] = Stripped(s, f[x])
        /\ \A x, y \in 1..Len(o) : x < y => f[x] < f[y]
        /\ \A i \in 1..n : Keeps(s, i) => \E x \in 1..Len(o) : f[x] = i
    BY <1>4, <1>5, <1>7, <1>8, <2>1
  <2>3. QED
    BY <2>2 DEF o, n

LEMMA StrippedParts ==
  ASSUME NEW s \in Seq(Messages), NEW i \in 1..Len(s)
  PROVE  /\ Stripped(s, i).role = s[i].role
         /\ Calling(s, i) /\ ~AllAnswered(s, i) => Stripped(s, i).calls = {}
         /\ ~Calling(s, i) \/ AllAnswered(s, i) => Stripped(s, i) = s[i]
<1>1. s[i] \in Messages
  BY SeqParts
<1>2. PICK m \in Messages : m = s[i]
  BY <1>1
<1>3. [m EXCEPT !.calls = {}].role = m.role /\ [m EXCEPT !.calls = {}].calls = {}
  BY DEF Messages
<1>4. QED
  BY <1>2, <1>3 DEF Stripped

\* The last message of some that are before another.
LEMMA LatestOf ==
  ASSUME NEW n \in Nat, NEW S, S \subseteq 0..n, S # {}
  PROVE  Max(S) \in S /\ \A k \in S : k <= Max(S)
<1>1. \E k \in S : \A l \in S : k >= l
  <2>1. PICK k \in S : \A l \in S : l <= k
    BY ExtremesExist
  <2>2. \A l \in S : k >= l
    BY <2>1
  <2>3. QED
    BY <2>2
<1>2. Max(S) \in S /\ \A l \in S : Max(S) >= l
  BY <1>1 DEF Max
<1>3. QED
  BY <1>2

\* The mending leaves each answer behind its call, and each call with its answer.
LEMMA MendedAccepted ==
  ASSUME NEW s, Answering(s)
  PROVE  LET r == Mended(s)
         IN /\ \A x \in 1..Len(r) : r[x].role = "tool" => AnswersACall(r, x)
            /\ \A x \in 1..Len(r) : Calling(r, x) => AllAnswered(r, x)
            /\ s # <<>> /\ s[1].role = "user" => r # <<>> /\ r[1] = s[1]
<1> DEFINE n == Len(s)
           r == Mended(s)
           l == Len(r)
<1>1. s \in Seq(Messages) /\ n \in Nat /\ \A i \in 1..n : s[i] \in Messages
  BY SeqParts DEF Answering
<1>2. \A i, j \in 1..n :
        s[i].role = "tool" /\ s[i].call \in s[j].calls
          => j < i /\ \A h \in j + 1..i - 1 : s[h].role = "tool"
  BY DEF Answering
<1>2a. \A i \in 1..n : s[i].role # "assistant" => s[i].calls = {}
  BY DEF Answering
<1>3. /\ r \in Seq(Messages)
      /\ \E f \in [1..l -> 1..n] :
           /\ \A x \in 1..l : Keeps(s, f[x]) /\ r[x] = Stripped(s, f[x])
           /\ \A x, y \in 1..l : x < y => f[x] < f[y]
           /\ \A i \in 1..n : Keeps(s, i) => \E x \in 1..l : f[x] = i
  BY <1>1, MendedParts
<1> HIDE DEF r
<1>4. PICK f \in [1..l -> 1..n] :
        /\ \A x \in 1..l : Keeps(s, f[x]) /\ r[x] = Stripped(s, f[x])
        /\ \A x, y \in 1..l : x < y => f[x] < f[y]
        /\ \A i \in 1..n : Keeps(s, i) => \E x \in 1..l : f[x] = i
  BY <1>3
<1>5. l \in Nat
  BY <1>3, SeqParts
<1>6. \A x \in 1..l : f[x] \in 1..n /\ r[x].role = s[f[x]].role
  BY <1>1, <1>4, StrippedParts
<1>7. \A x, y \in 1..l : f[x] < f[y] => x < y
  <2>1. SUFFICES ASSUME NEW x \in 1..l, NEW y \in 1..l, f[x] < f[y] PROVE x < y
    OBVIOUS
  <2>2. ~(y < x) /\ x # y
    <3>1. f[x] \in Nat /\ f[y] \in Nat
      <4>1. f[x] \in 1..n /\ f[y] \in 1..n
        BY <1>6
      <4>2. QED
        BY <4>1
    <3>2. ~(f[y] < f[x]) /\ f[x] # f[y]
      BY <2>1, <3>1
    <3>3. QED
      BY <1>4, <3>2
  <2>3. QED
    BY <1>5, <2>2
\* Between a call and its answer there are answers only.
<1>8. ASSUME NEW x \in 1..l, NEW y \in 1..l,
             s[f[x]].role = "tool", s[f[x]].call \in s[f[y]].calls
      PROVE  y < x /\ \A h \in y + 1..x - 1 : h \in 1..l /\ r[h].role = "tool"
  <2>1. f[y] < f[x] /\ \A h \in f[y] + 1..f[x] - 1 : s[h].role = "tool"
    BY <1>2, <1>6, <1>8
  <2>2. y < x
    BY <1>7, <2>1
  <2>3. ASSUME NEW h \in y + 1..x - 1 PROVE h \in 1..l /\ r[h].role = "tool"
    <3>1. h \in 1..l /\ y < h /\ h < x
      BY <1>5, <2>3
    <3>2. f[y] < f[h] /\ f[h] < f[x]
      BY <1>4, <3>1
    <3>3. f[h] \in f[y] + 1..f[x] - 1
      <4>1. f[y] \in Nat /\ f[h] \in Nat /\ f[x] \in Nat
        BY <1>6, <3>1
      <4>2. QED
        BY <3>2, <4>1
    <3>4. QED
      BY <1>6, <2>1, <3>1, <3>3
  <2>4. QED
    BY <2>2, <2>3
<1>9. ASSUME NEW x \in 1..l, r[x].role = "tool" PROVE AnswersACall(r, x)
  <2> DEFINE i == f[x]
             settles == {j \in 1..(i - 1) : /\ s[j].role = "assistant"
                                            /\ Calling(s, j) => AllAnswered(s, j)}
             j == Max(settles)
  <2>1. i \in 1..n /\ s[i].role = "tool" /\ Keeps(s, i) /\ ~Calling(s, i)
    BY <1>4, <1>6, <1>9 DEF Calling
  <2>2. r[x] = s[i]
    BY <1>1, <1>4, <2>1, StrippedParts
  <2>3. s[i].call \in ValidAt(s, i)
    BY <2>1 DEF Keeps
  <2>4. settles # {} /\ s[i].call \in s[j].calls
    BY <2>3 DEF ValidAt
  <2>5. j \in settles
    <3>1. settles \subseteq 0..n
      BY <1>1, <2>1
    <3> HIDE DEF settles, i
    <3>2. QED
      BY <1>1, <2>4, <3>1, LatestOf
  <2>6. j \in 1..n /\ s[j].role = "assistant" /\ (Calling(s, j) => AllAnswered(s, j))
    <3> HIDE DEF j
    <3>1. QED
      BY <1>1, <2>1, <2>5
  <2> HIDE DEF j, settles, i
  <2>7. Calling(s, j)
    BY <2>4, <2>6 DEF Calling
  <2>8. Keeps(s, j) /\ Stripped(s, j) = s[j]
    BY <1>1, <2>6, <2>7, StrippedParts DEF Keeps
  <2>9. PICK y \in 1..l : f[y] = j
    BY <1>4, <2>6, <2>8
  <2>10. r[y] = s[j]
    BY <1>4, <2>8, <2>9
  <2>11. y < x /\ \A h \in y + 1..x - 1 : h \in 1..l /\ r[h].role = "tool"
    BY <1>8, <2>1, <2>4, <2>9 DEF i
  <2>12. y \in 1..(x - 1) /\ r[x].call \in r[y].calls
    BY <1>5, <2>2, <2>4, <2>10, <2>11
  <2>13. QED
    BY <2>11, <2>12 DEF AnswersACall
<1>10. ASSUME NEW x \in 1..l, Calling(r, x) PROVE AllAnswered(r, x)
  <2> DEFINE i == f[x]
  <2>1. i \in 1..n /\ s[i].role = "assistant" /\ r[x] = Stripped(s, i) /\ r[x].calls # {}
    BY <1>4, <1>6, <1>10 DEF Calling
  <2>2. Calling(s, i) /\ AllAnswered(s, i) /\ r[x] = s[i]
    <3> HIDE DEF i
    <3>1. Calling(s, i) => AllAnswered(s, i)
      BY <1>1, <2>1, StrippedParts
    <3>2. r[x] = s[i]
      BY <1>1, <2>1, <3>1, StrippedParts
    <3>3. Calling(s, i)
      BY <2>1, <3>2 DEF Calling
    <3>4. QED
      BY <3>1, <3>2, <3>3
  <2>3. Fulfilled(s, i) = s[i].calls
    BY <2>2 DEF AllAnswered
  <2> HIDE DEF i
  <2>4. ASSUME NEW c \in r[x].calls PROVE c \in Fulfilled(r, x)
    <3>1. c \in Fulfilled(s, i)
      BY <2>2, <2>3, <2>4
    <3>2. PICK k \in (i + 1)..n : s[k].role = "tool" /\ s[k].call = c
      BY <3>1 DEF Fulfilled
    <3>3. k \in 1..n /\ i < k /\ s[k].call \in s[i].calls
      BY <1>1, <2>1, <2>2, <2>4, <3>2
    <3>4. \A h \in i + 1..k - 1 : s[h].role = "tool"
      BY <1>2, <2>1, <3>2, <3>3
    <3>5. Keeps(s, k)
      <4> DEFINE settles == {j \in 1..(k - 1) : /\ s[j].role = "assistant"
                                                /\ Calling(s, j) => AllAnswered(s, j)}
      <4>1. i \in settles
        BY <1>1, <2>1, <2>2, <3>3
      <4>2. \A j \in settles : j <= i
        <5>1. \A j \in settles : j \in 1..(k - 1) /\ j \notin i + 1..k - 1
          BY <3>4
        <5>2. \A j \in 1..(k - 1) : j \notin i + 1..k - 1 => j <= i
          BY <1>1, <2>1, <3>3
        <5>3. QED
          BY <5>1, <5>2
      <4>3. settles \subseteq 0..n /\ settles # {}
        BY <1>1, <3>3, <4>1
      <4>4. Max(settles) = i
        <5>1. Max(settles) \in settles /\ i <= Max(settles)
          <6> HIDE DEF settles
          <6>1. QED
            BY <1>1, <4>1, <4>3, LatestOf
        <5>2. Max(settles) \in Nat /\ i \in Nat /\ Max(settles) <= i
          BY <2>1, <4>2, <5>1
        <5>3. QED
          BY <5>1, <5>2
      <4>5. ValidAt(s, k) = s[i].calls
        BY <4>3, <4>4 DEF ValidAt
      <4>6. QED
        BY <3>2, <3>3, <4>5 DEF Keeps
    <3>6. PICK z \in 1..l : f[z] = k
      BY <1>4, <3>3, <3>5
    <3>7. r[z] = s[k]
      <4>1. ~Calling(s, k)
        BY <3>2 DEF Calling
      <4>2. QED
        BY <1>1, <1>4, <3>3, <3>6, <4>1, StrippedParts
    <3>8. x < z /\ \A h \in x + 1..z - 1 : h \in 1..l /\ r[h].role = "tool"
      BY <1>8, <3>2, <3>3, <3>6 DEF i
    <3>9. z \in (x + 1)..l /\ \A h \in (x + 1)..z : ~Calling(r, h)
      <4>1. r[z].role = "tool"
        BY <3>2, <3>7
      <4>2. \A h \in (x + 1)..z : h = z \/ h \in x + 1..z - 1
        BY <1>5
      <4>3. \A h \in (x + 1)..z : r[h].role = "tool"
        BY <3>8, <4>1, <4>2
      <4>4. QED
        BY <1>5, <3>8, <4>3 DEF Calling
    <3>10. r[z].role = "tool" /\ r[z].call = c
      BY <3>2, <3>7
    <3>11. QED
      BY <2>4, <3>9, <3>10 DEF Fulfilled
  <2>5. Fulfilled(r, x) \subseteq r[x].calls
    BY DEF Fulfilled
  <2>6. QED
    BY <1>10, <2>4, <2>5 DEF AllAnswered
<1>11. ASSUME s # <<>>, s[1].role = "user" PROVE r # <<>> /\ r[1] = s[1]
  <2>1. 1 \in 1..n
    <3>1. n # 0
      BY <1>1, <1>11, SeqParts
    <3>2. QED
      BY <1>1, <3>1
  <2>2. Keeps(s, 1) /\ ~Calling(s, 1)
    BY <1>11 DEF Keeps, Calling
  <2>3. Stripped(s, 1) = s[1]
    BY <1>1, <2>1, <2>2, StrippedParts
  <2>4. PICK x \in 1..l : f[x] = 1
    BY <1>4, <2>1, <2>2
  <2>5. 1 \in 1..l /\ ~(1 < x)
    <3>1. 1 \in 1..l
      BY <1>5
    <3>2. 1 < x => f[1] < 1
      BY <1>4, <2>4, <3>1
    <3>3. f[1] \in 1..n
      BY <1>6, <3>1
    <3>4. QED
      BY <1>1, <3>1, <3>2, <3>3
  <2>6. x = 1
    BY <1>5, <2>5
  <2>7. r[1] = s[1]
    BY <1>4, <2>3, <2>4, <2>6
  <2>8. r # <<>>
    BY <1>3, <2>5, SeqParts
  <2>9. QED
    BY <2>7, <2>8
<1>12. QED
  BY <1>9, <1>10, <1>11 DEF r

\* A selection that is put in order and mended is short enough, and is accepted.
LEMMA SelectionAccepted ==
  ASSUME NEW all, Answering(all), all # <<>>, all[1].role = "user",
         Tokens(all[1]) <= MaxTokens, MaxTokens \in Nat
  PROVE  LET r == Mended(Ordered(all, Selected(all)))
         IN /\ TokensOf(r) <= MaxTokens /\ r[1] = all[1]
            /\ \A x \in 1..Len(r) : r[x].role = "tool" => AnswersACall(r, x)
            /\ \A x \in 1..Len(r) : Calling(r, x) => AllAnswered(r, x)
<1> DEFINE chosen == Selected(all)
           s == Ordered(all, chosen)
           r == Mended(s)
<1>1. all \in Seq(Messages)
  BY DEF Answering
<1>2. /\ chosen \in SUBSET (1..Len(all)) /\ 1 \in chosen
      /\ IsFiniteSet(Spent(all, chosen)) /\ Cardinality(Spent(all, chosen)) <= MaxTokens
  BY <1>1, SelectedFits
<1> HIDE DEF chosen
<1>3. Answering(s)
  BY <1>2, OrderedAnswering
<1>4. /\ s \in Seq(Messages)
      /\ \E f \in [1..Len(s) -> chosen] :
           /\ \A x, y \in 1..Len(s) : f[x] = f[y] => x = y
           /\ \A x \in 1..Len(s) : s[x] = all[f[x]]
      /\ s # <<>> /\ s[1] = all[1]
  BY <1>1, <1>2, OrderedParts
<1> HIDE DEF s
<1>5. /\ \A x \in 1..Len(r) : r[x].role = "tool" => AnswersACall(r, x)
      /\ \A x \in 1..Len(r) : Calling(r, x) => AllAnswered(r, x)
      /\ r[1] = all[1]
  BY <1>3, <1>4, MendedAccepted
<1>6. /\ r \in Seq(Messages)
      /\ \E f \in [1..Len(r) -> 1..Len(s)] :
           /\ \A x \in 1..Len(r) : r[x] = Stripped(s, f[x])
           /\ \A x, y \in 1..Len(r) : x < y => f[x] < f[y]
  BY <1>4, MendedParts
<1> HIDE DEF r
<1>7. TokensOf(r) <= MaxTokens
  <2>1. PICK g \in [1..Len(s) -> chosen] :
          /\ \A x, y \in 1..Len(s) : g[x] = g[y] => x = y
          /\ \A x \in 1..Len(s) : s[x] = all[g[x]]
    BY <1>4
  <2>2. PICK f \in [1..Len(r) -> 1..Len(s)] :
          /\ \A x \in 1..Len(r) : r[x] = Stripped(s, f[x])
          /\ \A x, y \in 1..Len(r) : x < y => f[x] < f[y]
    BY <1>6
  <2> DEFINE h == [x \in 1..Len(r) |-> g[f[x]]]
  <2>3. h \in [1..Len(r) -> chosen] /\ \A x \in 1..Len(r) : h[x] = g[f[x]]
    OBVIOUS
  <2> HIDE DEF h
  <2>4. ASSUME NEW x \in 1..Len(r), NEW y \in 1..Len(r), h[x] = h[y] PROVE x = y
    <3>1. f[x] = f[y]
      BY <2>1, <2>3, <2>4
    <3>2. f[x] \in Nat /\ f[y] \in Nat /\ Len(r) \in Nat
      BY <1>4, <1>6, SeqParts
    <3>3. ~(x < y) /\ ~(y < x)
      BY <2>2, <3>1, <3>2
    <3>4. QED
      BY <3>2, <3>3
  <2>5. ASSUME NEW x \in 1..Len(r) PROVE Tokens(r[x]) <= Tokens(all[h[x]])
    <3>1. f[x] \in 1..Len(s) /\ all[h[x]] = s[f[x]] /\ s[f[x]] \in Messages
      BY <1>4, <2>1, <2>3, SeqParts
    <3>2. PICK m \in Messages : m = s[f[x]]
      BY <3>1
    <3>3. r[x] = m \/ r[x] = [m EXCEPT !.calls = {}]
      BY <2>2, <3>2 DEF Stripped
    <3>4. Tokens(m) \in Nat /\ m.text \in Nat /\ Tokens(m) = m.text + Cardinality(m.calls)
      BY TokensKnown DEF Tokens, Messages
    <3>5. Cardinality(m.calls) \in Nat
      BY FS_CardinalityType DEF Messages
    <3>6. Tokens([m EXCEPT !.calls = {}]) = m.text
      <4>1. [m EXCEPT !.calls = {}].text = m.text /\ [m EXCEPT !.calls = {}].calls = {}
        BY DEF Messages
      <4>2. QED
        BY <3>4, <4>1, FS_EmptySet DEF Tokens
    <3>7. QED
      BY <3>1, <3>2, <3>3, <3>4, <3>5, <3>6
  <2>6. TokensOf(r) <= Cardinality(Spent(all, chosen))
    BY <1>1, <1>2, <1>6, <2>3, <2>4, <2>5, TokensBelow
  <2>7. TokensOf(r) \in Nat /\ Cardinality(Spent(all, chosen)) \in Nat
    BY <1>2, <1>6, TokensCounted, FS_CardinalityType
  <2>8. QED
    BY <1>2, <2>6, <2>7
<1>8. QED
  BY <1>5, <1>7 DEF r, s, chosen

--------------------------------------------------------------------------------
(* The messages of a node                                                      *)

\* One message at most calls, and all answers follow it, nothing but answers in between.
InTurn(m, calls, answered) ==
  /\ m \in Seq(Messages)
  /\ \A x \in 1..Len(m) : m[x].calls # {} => m[x].role = "assistant" /\ m[x].calls = calls
  /\ \A x, y \in 1..Len(m) : m[x].calls # {} /\ m[y].calls # {} => x = y
  /\ \A x \in 1..Len(m) : m[x].role = "tool" => m[x].call \in calls
  /\ \A x, y \in 1..Len(m) :
       m[x].role = "tool" /\ m[y].role = "tool" /\ m[x].call = m[y].call => x = y
  /\ \A x \in 1..Len(m) : m[x].role = "tool" =>
       \E y \in 1..x - 1 : m[y].calls = calls /\ \A h \in y + 1..x - 1 : m[h].role = "tool"
  /\ \A x \in 1..Len(m) : m[x].calls # {} =>
       \A c \in answered : \E y \in x + 1..Len(m) :
         m[y].role = "tool" /\ m[y].call = c /\ \A h \in x + 1..y - 1 : m[h].role = "tool"

LEMMA NothingInTurn ==
  ASSUME NEW calls, NEW answered
  PROVE  InTurn(<<>>, calls, answered)
<1>1. <<>> \in Seq(Messages) /\ Len(<<>>) = 0
  BY EmptySeq
<1>2. QED
  BY <1>1 DEF InTurn

LEMMA OneMore ==
  ASSUME NEW S, NEW u \in S, NEW s \in Seq(S)
  PROVE  /\ <<u>> \o s \in Seq(S) /\ Len(<<u>> \o s) = Len(s) + 1 /\ (<<u>> \o s)[1] = u
         /\ \A x \in 1..Len(s) : (<<u>> \o s)[x + 1] = s[x]
<1> DEFINE l == <<u>>
<1>1. l \in Seq(S) /\ Len(l) = 1 /\ l[1] = u
  OBVIOUS
<1> HIDE DEF l
<1>2. /\ l \o s \in Seq(S) /\ Len(l \o s) = Len(l) + Len(s)
      /\ \A i \in 1..Len(l) + Len(s) :
           (l \o s)[i] = IF i <= Len(l) THEN l[i] ELSE s[i - Len(l)]
  BY <1>1, ConcatProperties
<1>3. Len(s) \in Nat
  BY SeqParts
<1>4. (l \o s)[1] = u
  BY <1>1, <1>2, <1>3
<1>5. ASSUME NEW x \in 1..Len(s) PROVE (l \o s)[x + 1] = s[x]
  <2>1. x + 1 \in 1..Len(l) + Len(s) /\ ~(x + 1 <= Len(l)) /\ (x + 1) - Len(l) = x
    BY <1>1, <1>3
  <2>2. QED
    BY <1>2, <2>1
<1>6. Len(l \o s) = Len(s) + 1
  BY <1>1, <1>2, <1>3
<1>7. QED
  BY <1>2, <1>4, <1>5, <1>6 DEF l

\* What the user says before changes nothing.
LEMMA UserBefore ==
  ASSUME NEW m, NEW calls, NEW answered, InTurn(m, calls, answered),
         NEW u \in Messages, u.role = "user", u.calls = {}
  PROVE  InTurn(<<u>> \o m, calls, answered)
<1> DEFINE n == Len(m)
           v == <<u>> \o m
<1>1. m \in Seq(Messages) /\ n \in Nat
  BY SeqParts DEF InTurn
<1>2. v \in Seq(Messages) /\ Len(v) = n + 1 /\ v[1] = u /\ \A x \in 1..n : v[x + 1] = m[x]
  BY <1>1, OneMore
<1>3. /\ \A x \in 1..n : m[x].calls # {} => m[x].role = "assistant" /\ m[x].calls = calls
      /\ \A x, y \in 1..n : m[x].calls # {} /\ m[y].calls # {} => x = y
      /\ \A x \in 1..n : m[x].role = "tool" => m[x].call \in calls
      /\ \A x, y \in 1..n :
           m[x].role = "tool" /\ m[y].role = "tool" /\ m[x].call = m[y].call => x = y
  BY DEF InTurn
<1>4. /\ \A x \in 1..n : m[x].role = "tool" =>
           \E y \in 1..x - 1 : m[y].calls = calls /\ \A h \in y + 1..x - 1 : m[h].role = "tool"
      /\ \A x \in 1..n : m[x].calls # {} =>
           \A c \in answered : \E y \in x + 1..n :
             m[y].role = "tool" /\ m[y].call = c /\ \A h \in x + 1..y - 1 : m[h].role = "tool"
  BY DEF InTurn
<1> HIDE DEF v, n
<1>5. \A x \in 1..n + 1 : x # 1 => x - 1 \in 1..n /\ v[x] = m[x - 1]
  <2>1. \A x \in 1..n + 1 : x # 1 => x - 1 \in 1..n /\ (x - 1) + 1 = x
    BY <1>1
  <2>2. QED
    BY <1>2, <2>1
<1>6. /\ \A x \in 1..n + 1 : v[x].calls # {} => v[x].role = "assistant" /\ v[x].calls = calls
      /\ \A x \in 1..n + 1 : v[x].role = "tool" => v[x].call \in calls
  BY <1>2, <1>3, <1>5
<1>7. ASSUME NEW x \in 1..n + 1, NEW y \in 1..n + 1, v[x].calls # {} /\ v[y].calls # {}
      PROVE  x = y
  <2>1. x # 1 /\ y # 1
    BY <1>2, <1>7
  <2>2. x - 1 = y - 1
    BY <1>3, <1>5, <1>7, <2>1
  <2>3. QED
    BY <1>1, <2>2
<1>8. ASSUME NEW x \in 1..n + 1, NEW y \in 1..n + 1,
             v[x].role = "tool" /\ v[y].role = "tool" /\ v[x].call = v[y].call
      PROVE  x = y
  <2>1. x # 1 /\ y # 1
    BY <1>2, <1>8
  <2>2. x - 1 = y - 1
    BY <1>3, <1>5, <1>8, <2>1
  <2>3. QED
    BY <1>1, <2>2
<1>9. ASSUME NEW x \in 1..n + 1, v[x].role = "tool"
      PROVE  \E y \in 1..x - 1 : v[y].calls = calls /\ \A h \in y + 1..x - 1 : v[h].role = "tool"
  <2>1. x # 1
    BY <1>2, <1>9
  <2>2. x - 1 \in 1..n /\ m[x - 1].role = "tool"
    BY <1>5, <1>9, <2>1
  <2>3. PICK y \in 1..(x - 1) - 1 :
          m[y].calls = calls /\ \A h \in y + 1..(x - 1) - 1 : m[h].role = "tool"
    BY <1>4, <2>2
  <2>4. y + 1 \in 1..x - 1 /\ y \in 1..n
    BY <1>1, <2>2, <2>3
  <2>5. v[y + 1].calls = calls
    BY <1>2, <2>3, <2>4
  <2>6. ASSUME NEW h \in (y + 1) + 1..x - 1 PROVE v[h].role = "tool"
    <3>1. h \in 1..n + 1 /\ h # 1 /\ h - 1 \in y + 1..(x - 1) - 1
      BY <1>1, <2>2, <2>3, <2>6
    <3>2. QED
      BY <1>5, <2>3, <3>1
  <2>7. QED
    BY <2>4, <2>5, <2>6
<1>10. ASSUME NEW x \in 1..n + 1, v[x].calls # {}, NEW c \in answered
       PROVE  \E y \in x + 1..n + 1 :
                v[y].role = "tool" /\ v[y].call = c /\ \A h \in x + 1..y - 1 : v[h].role = "tool"
  <2>1. x # 1
    BY <1>2, <1>10
  <2>2. x - 1 \in 1..n /\ m[x - 1].calls # {}
    BY <1>5, <1>10, <2>1
  <2>3. PICK y \in (x - 1) + 1..n :
          m[y].role = "tool" /\ m[y].call = c /\ \A h \in (x - 1) + 1..y - 1 : m[h].role = "tool"
    BY <1>4, <2>2
  <2>4. y + 1 \in x + 1..n + 1 /\ y \in 1..n /\ (x - 1) + 1 = x
    BY <1>1, <2>2, <2>3
  <2>5. v[y + 1].role = "tool" /\ v[y + 1].call = c
    BY <1>2, <2>3, <2>4
  <2>6. ASSUME NEW h \in x + 1..(y + 1) - 1 PROVE v[h].role = "tool"
    <3>1. h \in 1..n + 1 /\ h # 1 /\ h - 1 \in (x - 1) + 1..y - 1
      BY <1>1, <2>2, <2>4, <2>6
    <3>2. QED
      BY <1>5, <2>3, <3>1
  <2>7. QED
    BY <2>4, <2>5, <2>6
<1>11. InTurn(v, calls, answered)
  <2>1. /\ \A x, y \in 1..Len(v) : v[x].calls # {} /\ v[y].calls # {} => x = y
        /\ \A x, y \in 1..Len(v) :
             v[x].role = "tool" /\ v[y].role = "tool" /\ v[x].call = v[y].call => x = y
    BY <1>2, <1>7, <1>8
  <2>2. \A x \in 1..Len(v) : v[x].role = "tool" =>
          \E y \in 1..x - 1 : v[y].calls = calls /\ \A h \in y + 1..x - 1 : v[h].role = "tool"
    BY <1>2, <1>9
  <2>3. \A x \in 1..Len(v) : v[x].calls # {} =>
          \A c \in answered : \E y \in x + 1..Len(v) :
            v[y].role = "tool" /\ v[y].call = c /\ \A h \in x + 1..y - 1 : v[h].role = "tool"
    <3>1. Len(v) = n + 1
      BY <1>2
    <3>2. ASSUME NEW x \in 1..n + 1, v[x].calls # {}, NEW c \in answered
          PROVE  \E y \in x + 1..Len(v) :
                   v[y].role = "tool" /\ v[y].call = c /\ \A h \in x + 1..y - 1 : v[h].role = "tool"
      BY <1>10, <3>1, <3>2
    <3>3. QED
      BY <3>1, <3>2
  <2>4. QED
    BY <1>2, <1>6, <2>1, <2>2, <2>3 DEF InTurn
<1>12. QED
  BY <1>11 DEF v

\* A message that calls, and its answers.
LEMMA CallsInTurn ==
  ASSUME NEW a \in Messages, a.role = "assistant", NEW T \in Seq(Messages), NEW answered,
         \A x \in 1..Len(T) : T[x].role = "tool" /\ T[x].calls = {} /\ T[x].call \in a.calls,
         \A x, y \in 1..Len(T) : T[x].call = T[y].call => x = y,
         \A c \in answered : \E x \in 1..Len(T) : T[x].call = c
  PROVE  InTurn(<<a>> \o T, a.calls, answered)
<1> DEFINE n == Len(T)
           v == <<a>> \o T
<1>1. n \in Nat
  BY SeqParts
<1>2. v \in Seq(Messages) /\ Len(v) = n + 1 /\ v[1] = a /\ \A x \in 1..n : v[x + 1] = T[x]
  BY OneMore
<1> HIDE DEF v, n
<1>5. \A x \in 1..n + 1 : x # 1 => x - 1 \in 1..n /\ v[x] = T[x - 1]
  <2>1. \A x \in 1..n + 1 : x # 1 => x - 1 \in 1..n /\ (x - 1) + 1 = x
    BY <1>1
  <2>2. QED
    BY <1>2, <2>1
<1>6. \A x \in 1..n + 1 :
        x # 1 => v[x].role = "tool" /\ v[x].calls = {} /\ v[x].call \in a.calls
  BY <1>5 DEF n
<1>7. \A x \in 1..n + 1 : v[x].calls # {} => x = 1
  BY <1>6
<1>8. ASSUME NEW x \in 1..n + 1, NEW y \in 1..n + 1,
             v[x].role = "tool" /\ v[y].role = "tool" /\ v[x].call = v[y].call
      PROVE  x = y
  <2>1. x # 1 /\ y # 1
    BY <1>2, <1>8
  <2>2. x - 1 = y - 1
    BY <1>5, <1>8, <2>1 DEF n
  <2>3. QED
    BY <1>1, <2>2
<1>9. ASSUME NEW x \in 1..n + 1, v[x].role = "tool"
      PROVE  \E y \in 1..x - 1 : v[y].calls = a.calls /\ \A h \in y + 1..x - 1 : v[h].role = "tool"
  <2>1. x # 1
    BY <1>2, <1>9
  <2>2. 1 \in 1..x - 1 /\ \A h \in 1 + 1..x - 1 : h \in 1..n + 1 /\ h # 1
    BY <1>1, <2>1
  <2>3. QED
    BY <1>2, <1>6, <2>2
<1>10. ASSUME NEW x \in 1..n + 1, v[x].calls # {}, NEW c \in answered
       PROVE  \E y \in x + 1..n + 1 :
                v[y].role = "tool" /\ v[y].call = c /\ \A h \in x + 1..y - 1 : v[h].role = "tool"
  <2>1. x = 1
    BY <1>7, <1>10
  <2>2. PICK y \in 1..n : T[y].call = c
    BY DEF n
  <2>3. y + 1 \in x + 1..n + 1 /\ y + 1 \in 1..n + 1 /\ y + 1 # 1
    BY <1>1, <2>1, <2>2
  <2>4. v[y + 1].role = "tool" /\ v[y + 1].call = c
    BY <1>2, <1>6, <2>2, <2>3
  <2>5. \A h \in x + 1..(y + 1) - 1 : h \in 1..n + 1 /\ h # 1
    BY <1>1, <2>1, <2>2
  <2>6. QED
    BY <1>6, <2>3, <2>4, <2>5
<1>11. /\ \A x \in 1..n + 1 : v[x].calls # {} => v[x].role = "assistant" /\ v[x].calls = a.calls
       /\ \A x, y \in 1..n + 1 : v[x].calls # {} /\ v[y].calls # {} => x = y
       /\ \A x \in 1..n + 1 : v[x].role = "tool" => v[x].call \in a.calls
  <2>1. v[1].role = "assistant" /\ v[1].calls = a.calls
    BY <1>2
  <2>2. QED
    BY <1>6, <1>7, <2>1
<1>12. InTurn(v, a.calls, answered)
  <2>1. /\ \A x, y \in 1..Len(v) : v[x].calls # {} /\ v[y].calls # {} => x = y
        /\ \A x, y \in 1..Len(v) :
             v[x].role = "tool" /\ v[y].role = "tool" /\ v[x].call = v[y].call => x = y
    BY <1>2, <1>7, <1>8
  <2>2. \A x \in 1..Len(v) : v[x].role = "tool" =>
          \E y \in 1..x - 1 : v[y].calls = a.calls /\ \A h \in y + 1..x - 1 : v[h].role = "tool"
    BY <1>2, <1>9
  <2>3. \A x \in 1..Len(v) : v[x].calls # {} =>
          \A c \in answered : \E y \in x + 1..Len(v) :
            v[y].role = "tool" /\ v[y].call = c /\ \A h \in x + 1..y - 1 : v[h].role = "tool"
    <3>1. Len(v) = n + 1
      BY <1>2
    <3>2. ASSUME NEW x \in 1..n + 1, v[x].calls # {}, NEW c \in answered
          PROVE  \E y \in x + 1..Len(v) :
                   v[y].role = "tool" /\ v[y].call = c /\ \A h \in x + 1..y - 1 : v[h].role = "tool"
      BY <1>10, <3>1, <3>2
    <3>3. QED
      BY <3>1, <3>2
  <2>4. QED
    BY <1>2, <1>11, <2>1, <2>2, <2>3 DEF InTurn
<1>13. QED
  BY <1>12 DEF v

\* The numbers of the calls of a node, and of those that are answered.
CallsOf(n, k) == {k + i : i \in 1..Len(n.steps)}

AnsweredOf(n, k) == {k + i : i \in {j \in 1..Len(n.steps) : n.steps[j].answer # 0}}

LEMMA MessageMade ==
  /\ \A t \in Nat : UserMessage(t) \in Messages
  /\ \A t \in Nat, C \in SUBSET Nat : IsFiniteSet(C) => AssistantMessage(t, C) \in Messages
  /\ \A t, c \in Nat : ToolMessage(c, t) \in Messages
  BY FS_EmptySet DEF Messages, UserMessage, AssistantMessage, ToolMessage

LEMMA NodeMessages ==
  ASSUME NEW n, n.user \in Nat, n.text \in Nat, n.steps \in Seq([answer : Nat]),
         NEW k \in Nat, NEW isLast
  PROVE  /\ InTurn(MessagesOf(n, k, isLast), CallsOf(n, k), AnsweredOf(n, k))
         /\ n.user # 0 => /\ MessagesOf(n, k, isLast) # <<>>
                          /\ MessagesOf(n, k, isLast)[1] = UserMessage(n.user)
<1> DEFINE l == Len(n.steps)
           calls == CallsOf(n, k)
           answered == AnsweredOf(n, k)
           answer(i) == ToolMessage(k + i, Shown(n.steps[i].answer, isLast))
           answers == [i \in 1..l |-> IF n.steps[i].answer # 0 THEN <<answer(i)>> ELSE <<>>]
           T == FlattenSeq(answers)
           a == AssistantMessage(n.text, calls)
           turn == IF n.text # 0 \/ n.steps # <<>> THEN <<a>> \o T ELSE <<>>
           K == {i \in 1..l : n.steps[i].answer # 0}
           g == [i \in 1..l |-> answer(i)]
<1>1. l \in Nat /\ \A i \in 1..l : n.steps[i].answer \in Nat
  <2>1. l \in Nat /\ \A i \in 1..l : n.steps[i] \in [answer : Nat]
    <3> DEFINE steps == n.steps
    <3>1. steps \in Seq([answer : Nat])
      OBVIOUS
    <3> HIDE DEF steps
    <3>2. Len(steps) \in Nat /\ \A i \in 1..Len(steps) : steps[i] \in [answer : Nat]
      BY <3>1, SeqParts
    <3>3. QED
      BY <3>2 DEF steps
  <2>2. QED
    BY <2>1
<1>2. ASSUME NEW i \in 1..l
      PROVE  /\ answer(i) \in Messages /\ answer(i).role = "tool" /\ answer(i).calls = {}
             /\ answer(i).call = k + i /\ k + i \in calls
  <2>1. Shown(n.steps[i].answer, isLast) \in Nat /\ k + i \in Nat
    BY <1>1 DEF Shown
  <2>2. QED
    BY <2>1, MessageMade DEF ToolMessage, CallsOf
<1>3. calls \in SUBSET Nat /\ IsFiniteSet(calls)
  <2> DEFINE up == [i \in 1..l |-> k + i]
  <2>1. IsFiniteSet(1..l)
    BY <1>1, FS_Interval
  <2>2. calls = {up[i] : i \in 1..l}
    BY DEF CallsOf
  <2>3. calls \in SUBSET Nat
    BY <1>1 DEF CallsOf
  <2>4. up \in Surjection(1..l, calls)
    <3>1. up \in [1..l -> calls]
      BY DEF CallsOf
    <3>2. \A c \in calls : \E i \in 1..l : up[i] = c
      BY DEF CallsOf
    <3>3. QED
      BY <3>1, <3>2 DEF Surjection
  <2>5. QED
    BY <2>1, <2>3, <2>4, FS_Surjection
<1>4. a \in Messages /\ a.role = "assistant" /\ a.calls = calls
  BY <1>3, MessageMade DEF AssistantMessage
<1>5. MessagesOf(n, k, isLast) = (IF n.user # 0 THEN <<UserMessage(n.user)>> ELSE <<>>) \o turn
  BY DEF MessagesOf, CallsOf
<1>6. T \in Seq(Messages) /\ \E f : IsFiltered(T, f, l, g, K)
  <2>1. g \in [1..l -> Messages]
    BY <1>2
  <2>2. /\ answers = [i \in 1..l |-> answers[i]]
        /\ \A i \in 1..l : (i \in K => answers[i] = <<g[i]>>) /\ (i \notin K => answers[i] = <<>>)
    OBVIOUS
  <2> HIDE DEF g, answers, K
  <2>3. QED
    BY <1>1, <2>1, <2>2, Filtered
<1>7. PICK f : IsFiltered(T, f, l, g, K)
  BY <1>6
<1>8. ASSUME NEW x \in 1..Len(T)
      PROVE  /\ f[x] \in 1..l /\ f[x] \in K
             /\ T[x].role = "tool" /\ T[x].calls = {} /\ T[x].call = k + f[x] /\ k + f[x] \in calls
  <2>1. f[x] \in 1..l /\ f[x] \in K /\ T[x] = g[f[x]]
    <3> HIDE DEF T, g, K
    <3>1. QED
      BY <1>7 DEF IsFiltered
  <2>2. T[x] = answer(f[x])
    BY <2>1
  <2>3. QED
    BY <1>2, <2>1, <2>2
<1>9. ASSUME NEW x \in 1..Len(T), NEW y \in 1..Len(T), T[x].call = T[y].call PROVE x = y
  <2>1. f[x] = f[y]
    <3>1. f[x] \in Nat /\ f[y] \in Nat /\ k + f[x] = k + f[y]
      BY <1>8, <1>9
    <3>2. QED
      BY <3>1
  <2>2. (x < y => f[x] < f[y]) /\ (y < x => f[y] < f[x])
    <3> HIDE DEF T, g, K
    <3>1. QED
      BY <1>7 DEF IsFiltered
  <2>3. x \in Nat /\ y \in Nat /\ f[x] \in Nat
    BY <1>6, <1>8, SeqParts
  <2>4. QED
    BY <2>1, <2>2, <2>3
<1>10. ASSUME NEW c \in answered PROVE \E x \in 1..Len(T) : T[x].call = c
  <2>1. PICK i \in K : c = k + i
    BY DEF AnsweredOf
  <2>2. PICK x \in 1..Len(T) : f[x] = i
    <3>1. i \in 1..l /\ i \in K
      BY <2>1
    <3> HIDE DEF T, g, K
    <3>2. QED
      BY <1>7, <3>1 DEF IsFiltered
  <2>3. QED
    BY <1>8, <2>1, <2>2
<1>11. InTurn(<<a>> \o T, calls, answered)
  <2> HIDE DEF T, a, calls, answered
  <2>1. \A x \in 1..Len(T) : T[x].role = "tool" /\ T[x].calls = {} /\ T[x].call \in a.calls
    BY <1>4, <1>8
  <2>2. InTurn(<<a>> \o T, a.calls, answered)
    BY <1>4, <1>6, <1>9, <1>10, <2>1, CallsInTurn
  <2>3. QED
    BY <1>4, <2>2
<1>12. InTurn(turn, calls, answered)
  <2> HIDE DEF T, a, calls, answered
  <2>1. QED
    BY <1>11, NothingInTurn
<1> HIDE DEF turn, calls, answered
<1>13. turn \in Seq(Messages)
  BY <1>12 DEF InTurn
<1>14. CASE n.user # 0
  <2> DEFINE u == UserMessage(n.user)
  <2>1. u \in Messages /\ u.role = "user" /\ u.calls = {}
    BY MessageMade DEF UserMessage
  <2>2. MessagesOf(n, k, isLast) = <<u>> \o turn
    BY <1>5, <1>14
  <2> HIDE DEF u
  <2>3. InTurn(<<u>> \o turn, calls, answered)
    BY <1>12, <2>1, UserBefore
  <2>4. <<u>> \o turn \in Seq(Messages) /\ Len(<<u>> \o turn) = Len(turn) + 1
        /\ (<<u>> \o turn)[1] = u
    BY <1>13, <2>1, OneMore
  <2>5. <<u>> \o turn # <<>>
    <3>1. Len(turn) \in Nat
      BY <1>13, SeqParts
    <3>2. Len(<<u>> \o turn) # 0
      BY <2>4, <3>1
    <3>3. QED
      BY <2>4, <3>2, SeqParts
  <2>6. QED
    BY <2>2, <2>3, <2>4, <2>5 DEF u, calls, answered
<1>15. CASE n.user = 0
  <2>1. MessagesOf(n, k, isLast) = <<>> \o turn
    BY <1>5, <1>15
  <2>2. <<>> \o turn = turn
    BY <1>13, ConcatEmptySeq
  <2>3. QED
    BY <1>12, <1>15, <2>1, <2>2 DEF calls, answered
<1>16. QED
  BY <1>14, <1>15

--------------------------------------------------------------------------------
(* The messages of a trajectory                                                *)

\* What comes after what, among sequences one after the other.
InTheirOrder(n, part, place) ==
  /\ \A x, y \in 1..n : part[x] = part[y] /\ place[x] = place[y] => x = y
  /\ \A x, y \in 1..n : part[x] = part[y] /\ place[x] < place[y] => x < y
  /\ \A x, y, h \in 1..n : part[x] = part[y] /\ x < h /\ h < y
       => part[h] = part[x] /\ place[x] < place[h] /\ place[h] < place[y]

LEMMA LaidInOrder ==
  ASSUME NEW s, NEW ss, NEW m \in Nat, NEW part, NEW place, Len(s) \in Nat,
         Laid(s, ss, m, part, place)
  PROVE  InTheirOrder(Len(s), part, place)
<1>1. /\ \A x \in 1..Len(s) : part[x] \in 1..m /\ place[x] \in Nat
      /\ \A x, y \in 1..Len(s) :
           x < y => part[x] < part[y] \/ (part[x] = part[y] /\ place[x] < place[y])
  BY DEF Laid
<1> DEFINE n == Len(s)
<1>2. n \in Nat
  OBVIOUS
<1> HIDE DEF n
<1>3. ASSUME NEW x \in 1..n, NEW y \in 1..n, part[x] = part[y]
      PROVE  /\ place[x] = place[y] => x = y
             /\ place[x] < place[y] => x < y
  <2>1. /\ part[x] \in Nat /\ part[y] \in Nat /\ place[x] \in Nat /\ place[y] \in Nat
        /\ x \in Nat /\ y \in Nat
        /\ x < y => part[x] < part[y] \/ (part[x] = part[y] /\ place[x] < place[y])
        /\ y < x => part[y] < part[x] \/ (part[y] = part[x] /\ place[y] < place[x])
    BY <1>1, <1>2 DEF n
  <2>2. QED
    BY <1>3, <2>1
<1>4. ASSUME NEW x \in 1..n, NEW y \in 1..n, NEW h \in 1..n, part[x] = part[y], x < h, h < y
      PROVE  part[h] = part[x] /\ place[x] < place[h] /\ place[h] < place[y]
  <2>1. /\ part[x] \in Nat /\ part[y] \in Nat /\ part[h] \in Nat
        /\ part[x] < part[h] \/ (part[x] = part[h] /\ place[x] < place[h])
        /\ part[h] < part[y] \/ (part[h] = part[y] /\ place[h] < place[y])
    BY <1>1, <1>2, <1>4 DEF n
  <2>2. QED
    BY <1>4, <2>1
<1>5. InTheirOrder(n, part, place)
  BY <1>3, <1>4 DEF InTheirOrder
<1>6. QED
  BY <1>5 DEF n

\* Turns one after the other, whose calls are not the same.
LEMMA TurnsTogether ==
  ASSUME NEW n \in Nat, NEW ss \in [1..n -> Seq(Messages)], NEW C, NEW A,
         \A i \in 1..n : InTurn(ss[i], C[i], A[i]),
         \A i, j \in 1..n : i # j => C[i] \cap C[j] = {}
  PROVE  LET all == FlattenSeq(ss)
         IN /\ Answering(all)
            /\ \A x \in 1..Len(all) : all[x].role = "tool" => AnswersACall(all, x)
            /\ \A x \in 1..Len(all) : Calling(all, x) =>
                 \E i \in 1..n : C[i] \subseteq A[i] => AllAnswered(all, x)
<1> DEFINE all == FlattenSeq(ss)
           l == Len(all)
<1>1. all \in Seq(Messages) /\ \E part, place : Laid(all, ss, n, part, place)
  BY FlatPlaces
<1> HIDE DEF all
<1>2. PICK part, place : Laid(all, ss, n, part, place)
  BY <1>1
<1>3. l \in Nat
  BY <1>1, SeqParts
<1>4. /\ \A x, y \in 1..l : part[x] = part[y] /\ place[x] = place[y] => x = y
      /\ \A x, y \in 1..l : part[x] = part[y] /\ place[x] < place[y] => x < y
      /\ \A x, y, h \in 1..l : part[x] = part[y] /\ x < h /\ h < y
           => part[h] = part[x] /\ place[x] < place[h] /\ place[h] < place[y]
  <2>1. InTheirOrder(l, part, place)
    BY <1>2, <1>3, LaidInOrder
  <2>2. QED
    BY <2>1 DEF InTheirOrder
<1>5. /\ \A x \in 1..l : part[x] \in 1..n /\ place[x] \in 1..Len(ss[part[x]])
                         /\ all[x] = ss[part[x]][place[x]]
      /\ \A i \in 1..n : \A k \in 1..Len(ss[i]) : \E x \in 1..l : part[x] = i /\ place[x] = k
  BY <1>2 DEF Laid
<1>6. ASSUME NEW i \in 1..n
      PROVE  /\ Len(ss[i]) \in Nat
             /\ \A x \in 1..Len(ss[i]) :
                  ss[i][x].calls # {} => ss[i][x].role = "assistant" /\ ss[i][x].calls = C[i]
             /\ \A x, y \in 1..Len(ss[i]) : ss[i][x].calls # {} /\ ss[i][y].calls # {} => x = y
             /\ \A x \in 1..Len(ss[i]) : ss[i][x].role = "tool" => ss[i][x].call \in C[i]
             /\ \A x, y \in 1..Len(ss[i]) :
                  ss[i][x].role = "tool" /\ ss[i][y].role = "tool" /\ ss[i][x].call = ss[i][y].call
                    => x = y
  <2> DEFINE m == ss[i]
  <2>1. InTurn(m, C[i], A[i])
    OBVIOUS
  <2> HIDE DEF m
  <2>2. /\ Len(m) \in Nat
        /\ \A x \in 1..Len(m) : m[x].calls # {} => m[x].role = "assistant" /\ m[x].calls = C[i]
        /\ \A x, y \in 1..Len(m) : m[x].calls # {} /\ m[y].calls # {} => x = y
        /\ \A x \in 1..Len(m) : m[x].role = "tool" => m[x].call \in C[i]
        /\ \A x, y \in 1..Len(m) :
             m[x].role = "tool" /\ m[y].role = "tool" /\ m[x].call = m[y].call => x = y
    BY <2>1, SeqParts DEF InTurn
  <2>3. QED
    BY <2>2 DEF m
<1>7. ASSUME NEW i \in 1..n
      PROVE  /\ \A x \in 1..Len(ss[i]) : ss[i][x].role = "tool" =>
                  \E y \in 1..x - 1 :
                    ss[i][y].calls = C[i] /\ \A h \in y + 1..x - 1 : ss[i][h].role = "tool"
             /\ \A x \in 1..Len(ss[i]) : ss[i][x].calls # {} =>
                  \A c \in A[i] : \E y \in x + 1..Len(ss[i]) :
                    /\ ss[i][y].role = "tool" /\ ss[i][y].call = c
                    /\ \A h \in x + 1..y - 1 : ss[i][h].role = "tool"
  <2> DEFINE m == ss[i]
  <2>1. InTurn(m, C[i], A[i])
    OBVIOUS
  <2> HIDE DEF m
  <2>2. /\ \A x \in 1..Len(m) : m[x].role = "tool" =>
             \E y \in 1..x - 1 : m[y].calls = C[i] /\ \A h \in y + 1..x - 1 : m[h].role = "tool"
        /\ \A x \in 1..Len(m) : m[x].calls # {} =>
             \A c \in A[i] : \E y \in x + 1..Len(m) :
               m[y].role = "tool" /\ m[y].call = c /\ \A h \in x + 1..y - 1 : m[h].role = "tool"
    BY <2>1 DEF InTurn
  <2>3. QED
    BY <2>2 DEF m
<1>8. /\ \A x \in 1..l : all[x].calls # {} => all[x].role = "assistant" /\ all[x].calls = C[part[x]]
      /\ \A x \in 1..l : all[x].role = "tool" => all[x].call \in C[part[x]]
  <2>1. ASSUME NEW x \in 1..l
        PROVE  /\ all[x].calls # {} => all[x].role = "assistant" /\ all[x].calls = C[part[x]]
               /\ all[x].role = "tool" => all[x].call \in C[part[x]]
    <3> DEFINE i == part[x]
               p == place[x]
    <3>1. i \in 1..n /\ p \in 1..Len(ss[i]) /\ all[x] = ss[i][p]
      BY <1>5
    <3> HIDE DEF i, p
    <3>2. /\ ss[i][p].calls # {} => ss[i][p].role = "assistant" /\ ss[i][p].calls = C[i]
          /\ ss[i][p].role = "tool" => ss[i][p].call \in C[i]
      BY <1>6, <3>1
    <3>3. QED
      BY <3>1, <3>2 DEF i
  <2>2. QED
    BY <2>1
<1>9. ASSUME NEW x \in 1..l, NEW y \in 1..l, x # y
      PROVE  all[x].calls \cap all[y].calls = {}
  <2>1. SUFFICES ASSUME all[x].calls # {}, all[y].calls # {}
                 PROVE  all[x].calls \cap all[y].calls = {}
    OBVIOUS
  <2>2. all[x].calls = C[part[x]] /\ all[y].calls = C[part[y]]
    BY <1>8, <2>1
  <2>3. CASE part[x] = part[y]
    <3>1. place[x] = place[y]
      <4> DEFINE i == part[x]
                 p == place[x]
                 q == place[y]
      <4>1. /\ i \in 1..n /\ p \in 1..Len(ss[i]) /\ q \in 1..Len(ss[i])
            /\ ss[i][p].calls # {} /\ ss[i][q].calls # {}
        BY <1>5, <2>1, <2>3
      <4> HIDE DEF i, p, q
      <4>2. p = q
        BY <1>6, <4>1
      <4>3. QED
        BY <4>2 DEF p, q
    <3>2. QED
      BY <1>4, <1>9, <2>3, <3>1
  <2>4. CASE part[x] # part[y]
    <3>1. part[x] \in 1..n /\ part[y] \in 1..n
      BY <1>5
    <3>2. C[part[x]] \cap C[part[y]] = {}
      BY <2>4, <3>1
    <3>3. QED
      BY <2>2, <3>2
  <2>5. QED
    BY <2>3, <2>4
<1>10. ASSUME NEW x \in 1..l, NEW y \in 1..l,
              all[x].role = "tool" /\ all[y].role = "tool" /\ all[x].call = all[y].call
       PROVE  x = y
  <2>1. part[x] = part[y]
    <3>1. all[x].call \in C[part[x]] /\ all[x].call \in C[part[y]]
      BY <1>8, <1>10
    <3>2. QED
      BY <1>5, <3>1
  <2>2. place[x] = place[y]
    <3> DEFINE i == part[x]
               p == place[x]
               q == place[y]
    <3>1. /\ i \in 1..n /\ p \in 1..Len(ss[i]) /\ q \in 1..Len(ss[i])
          /\ all[x] = ss[i][p] /\ all[y] = ss[i][q]
      BY <1>5, <2>1
    <3>2. ss[i][p].role = "tool" /\ ss[i][q].role = "tool" /\ ss[i][p].call = ss[i][q].call
      BY <1>10, <3>1
    <3> HIDE DEF i, p, q
    <3>3. p = q
      BY <1>6, <3>1, <3>2
    <3>4. QED
      BY <3>3 DEF p, q
  <2>3. QED
    BY <1>4, <2>1, <2>2
\* From the message of a turn that calls to one behind it of the same turn.
<1>11. ASSUME NEW x \in 1..l, all[x].role = "tool"
       PROVE  \E y \in 1..x - 1 :
                /\ y \in 1..l /\ part[y] = part[x] /\ all[y].calls = C[part[x]]
                /\ \A h \in y + 1..x - 1 : all[h].role = "tool"
  <2> DEFINE i == part[x]
  <2>1. i \in 1..n /\ place[x] \in 1..Len(ss[i]) /\ ss[i][place[x]].role = "tool"
    BY <1>5, <1>11
  <2>2. PICK p \in 1..place[x] - 1 :
          ss[i][p].calls = C[i] /\ \A h \in p + 1..place[x] - 1 : ss[i][h].role = "tool"
    BY <1>7, <2>1
  <2>3. p \in 1..Len(ss[i]) /\ p < place[x]
    BY <1>6, <2>1, <2>2
  <2>4. PICK y \in 1..l : part[y] = i /\ place[y] = p
    <3> HIDE DEF i
    <3>1. \A k \in 1..Len(ss[i]) : \E y \in 1..l : part[y] = i /\ place[y] = k
      BY <1>5, <2>1
    <3>2. QED
      BY <2>3, <3>1
  <2>5. y < x /\ all[y].calls = C[i]
    BY <1>4, <1>5, <2>2, <2>3, <2>4
  <2>6. y \in 1..x - 1
    BY <1>3, <2>4, <2>5
  <2>7. ASSUME NEW h \in y + 1..x - 1 PROVE all[h].role = "tool"
    <3>1. h \in 1..l /\ y < h /\ h < x
      BY <1>3, <2>4, <2>7
    <3>2. part[h] = i /\ p < place[h] /\ place[h] < place[x]
      BY <1>4, <2>4, <3>1
    <3>3. place[h] \in p + 1..place[x] - 1 /\ all[h] = ss[i][place[h]]
      <4>1. place[h] \in 1..Len(ss[i]) /\ all[h] = ss[i][place[h]]
        BY <1>5, <3>1, <3>2
      <4>2. place[h] \in Nat /\ p \in Nat /\ place[x] \in Nat
        BY <1>6, <2>1, <2>3, <4>1
      <4>3. QED
        BY <3>2, <4>1, <4>2
    <3>4. QED
      BY <2>2, <3>3
  <2>8. QED
    BY <2>4, <2>5, <2>6, <2>7
<1>12. ASSUME NEW x \in 1..l, NEW y \in 1..l, all[x].role = "tool", all[x].call \in all[y].calls
       PROVE  y < x /\ \A h \in y + 1..x - 1 : all[h].role = "tool"
  <2>1. PICK z \in 1..x - 1 :
          /\ z \in 1..l /\ part[z] = part[x] /\ all[z].calls = C[part[x]]
          /\ \A h \in z + 1..x - 1 : all[h].role = "tool"
    BY <1>11, <1>12
  <2>2. all[x].call \in all[z].calls
    BY <1>8, <1>12, <2>1
  <2>3. z = y
    BY <1>9, <1>12, <2>1, <2>2
  <2>4. z < x
    BY <1>3, <2>1
  <2>5. QED
    BY <2>1, <2>3, <2>4
<1>13. Answering(all)
  <2>1. \A x \in 1..l : all[x].role # "assistant" => all[x].calls = {}
    BY <1>8
  <2>2. QED
    BY <1>1, <1>9, <1>10, <1>12, <2>1 DEF Answering
<1>14. ASSUME NEW x \in 1..l, all[x].role = "tool" PROVE AnswersACall(all, x)
  <2>1. PICK z \in 1..x - 1 :
          /\ z \in 1..l /\ part[z] = part[x] /\ all[z].calls = C[part[x]]
          /\ \A h \in z + 1..x - 1 : all[h].role = "tool"
    BY <1>11, <1>14
  <2>2. all[x].call \in all[z].calls
    BY <1>8, <1>14, <2>1
  <2>3. QED
    BY <2>1, <2>2 DEF AnswersACall
<1>15. ASSUME NEW x \in 1..l, Calling(all, x), C[part[x]] \subseteq A[part[x]]
       PROVE  AllAnswered(all, x)
  <2> DEFINE i == part[x]
  <2>1. /\ i \in 1..n /\ place[x] \in 1..Len(ss[i]) /\ ss[i][place[x]].calls # {}
        /\ all[x].calls = C[i]
    BY <1>5, <1>8, <1>15 DEF Calling
  <2>2. ASSUME NEW c \in C[i]
        PROVE  \E y \in x + 1..l : /\ all[y].role = "tool" /\ all[y].call = c
                                   /\ \A h \in x + 1..y : ~Calling(all, h)
    <3>1. c \in A[i]
      BY <1>15
    <3>2. PICK q \in place[x] + 1..Len(ss[i]) :
            /\ ss[i][q].role = "tool" /\ ss[i][q].call = c
            /\ \A h \in place[x] + 1..q - 1 : ss[i][h].role = "tool"
      <4> DEFINE p == place[x]
      <4>1. p \in 1..Len(ss[i]) /\ ss[i][p].calls # {}
        BY <2>1
      <4> HIDE DEF i, p
      <4>2. \E q \in p + 1..Len(ss[i]) :
              /\ ss[i][q].role = "tool" /\ ss[i][q].call = c
              /\ \A h \in p + 1..q - 1 : ss[i][h].role = "tool"
        <5>1. \A x1 \in 1..Len(ss[i]) : ss[i][x1].calls # {} =>
                \A c1 \in A[i] : \E y \in x1 + 1..Len(ss[i]) :
                  /\ ss[i][y].role = "tool" /\ ss[i][y].call = c1
                  /\ \A h \in x1 + 1..y - 1 : ss[i][h].role = "tool"
          BY <1>7, <2>1
        <5>2. QED
          BY <3>1, <4>1, <5>1
      <4>3. QED
        BY <4>2 DEF p
    <3>3. q \in 1..Len(ss[i]) /\ place[x] < q
      BY <1>6, <2>1, <3>2
    <3>4. PICK y \in 1..l : part[y] = i /\ place[y] = q
      BY <1>5, <2>1, <3>3
    <3>5. x < y /\ all[y] = ss[i][q]
      BY <1>4, <1>5, <3>3, <3>4
    <3>6. y \in x + 1..l
      BY <1>3, <3>4, <3>5
    <3>7. ASSUME NEW h \in x + 1..y PROVE all[h].role = "tool"
      <4>1. CASE h = y
        BY <3>2, <3>5, <4>1
      <4>2. CASE h # y
        <5>1. h \in 1..l /\ x < h /\ h < y
          BY <1>3, <3>4, <3>7, <4>2
        <5>2. part[h] = i /\ place[x] < place[h] /\ place[h] < q
          BY <1>4, <3>4, <5>1
        <5>3. place[h] \in 1..Len(ss[i]) /\ all[h] = ss[i][place[h]]
          BY <1>5, <5>1, <5>2
        <5>4. place[h] \in Nat /\ q \in Nat /\ place[x] \in Nat
          BY <1>6, <2>1, <3>3, <5>3
        <5>5. place[h] \in place[x] + 1..q - 1
          BY <5>2, <5>4
        <5>6. QED
          BY <3>2, <5>3, <5>5
      <4>3. QED
        BY <4>1, <4>2
    <3>8. \A h \in x + 1..y : ~Calling(all, h)
      BY <3>7 DEF Calling
    <3>9. QED
      BY <3>2, <3>5, <3>6, <3>8
  <2>3. Fulfilled(all, x) = all[x].calls
    <3>1. ASSUME NEW c \in all[x].calls PROVE c \in Fulfilled(all, x)
      <4>1. PICK y \in x + 1..l : /\ all[y].role = "tool" /\ all[y].call = c
                                  /\ \A h \in x + 1..y : ~Calling(all, h)
        BY <2>1, <2>2, <3>1
      <4>2. QED
        BY <3>1, <4>1 DEF Fulfilled
    <3>2. Fulfilled(all, x) \subseteq all[x].calls
      BY DEF Fulfilled
    <3>3. QED
      BY <3>1, <3>2
  <2>4. QED
    BY <1>15, <2>3 DEF AllAnswered
<1>16. \A x \in 1..l : Calling(all, x) =>
         \E i \in 1..n : C[i] \subseteq A[i] => AllAnswered(all, x)
  BY <1>5, <1>15
<1>17. QED
  BY <1>13, <1>14, <1>16 DEF all

LEMMA NodeKnown ==
  ASSUME NEW n \in NodeData
  PROVE  n.user \in Nat /\ n.text \in Nat /\ n.steps \in Seq([answer : Nat])
<1>1. n.user \in Texts \cup {0} /\ n.text \in Texts \cup {0} /\ n.steps \in StepLists
  BY DEF NodeData
<1>2. Texts \subseteq Nat /\ StepLists \subseteq Seq([answer : Nat])
  BY HistoryAssumption
<1>3. n.user \in Nat /\ n.text \in Nat
  <2>1. Texts \cup {0} \subseteq Nat
    BY <1>2
  <2>2. QED
    BY <1>1, <2>1, Zenon
<1>4. n.steps \in Seq([answer : Nat])
  BY <1>1, <1>2, Zenon
<1>5. QED
  BY <1>3, <1>4

\* The calls before each node of a trajectory.
LEMMA CallsBefore ==
  ASSUME NEW nodes \in Seq(NodeData)
  PROVE  \E calls \in [0..Len(nodes) -> Nat] :
           /\ AllMessages(nodes)
                = FlattenSeq([i \in 1..Len(nodes) |->
                                MessagesOf(nodes[i], calls[i - 1], i = LastActed(nodes))])
           /\ \A i \in 1..Len(nodes) : calls[i] = calls[i - 1] + Len(nodes[i].steps)
<1> DEFINE n == Len(nodes)
           a == [i \in 1..n |-> Len(nodes[i].steps)]
           Rec(f) == f = [i \in 0..n |-> IF i = 0 THEN 0 ELSE f[i - 1] + Len(nodes[i].steps)]
           calls == CHOOSE f : Rec(f)
<1>1. n \in Nat /\ \A i \in 1..n : Len(nodes[i].steps) \in Nat
  <2>1. n \in Nat /\ \A i \in 1..n : nodes[i] \in NodeData
    BY SeqParts
  <2>2. ASSUME NEW i \in 1..n PROVE Len(nodes[i].steps) \in Nat
    <3> DEFINE steps == nodes[i].steps
    <3>1. steps \in Seq([answer : Nat])
      BY <2>1, NodeKnown
    <3> HIDE DEF steps
    <3>2. Len(steps) \in Nat
      BY <3>1, SeqParts
    <3>3. QED
      BY <3>2 DEF steps
  <2>3. QED
    BY <2>1, <2>2
<1>2. a \in [1..n -> Nat] /\ \A i \in 1..n : a[i] = Len(nodes[i].steps)
  BY <1>1
<1> HIDE DEF a, n
<1>3. /\ \E f : f = [i \in 0..n |-> IF i = 0 THEN 0 ELSE f[i - 1] + a[i]]
      /\ \A f : f = [i \in 0..n |-> IF i = 0 THEN 0 ELSE f[i - 1] + a[i]]
                  => f \in [0..n -> Nat]
  BY <1>1, <1>2, RunningSum
<1>4. ASSUME NEW f
      PROVE  Rec(f) <=> f = [i \in 0..n |-> IF i = 0 THEN 0 ELSE f[i - 1] + a[i]]
  <2>1. \A i \in 0..n : i # 0 => i \in 1..n
    BY <1>1
  <2>2. [i \in 0..n |-> IF i = 0 THEN 0 ELSE f[i - 1] + a[i]]
          = [i \in 0..n |-> IF i = 0 THEN 0 ELSE f[i - 1] + Len(nodes[i].steps)]
    BY <1>2, <2>1
  <2>3. QED
    BY <2>2
<1>5. \E f : Rec(f)
  <2> HIDE DEF Rec
  <2>1. QED
    BY <1>3, <1>4
<1>6. Rec(calls)
  <2> HIDE DEF Rec
  <2>1. QED
    BY <1>5
<1>7. AllMessages(nodes)
        = FlattenSeq([i \in 1..n |-> MessagesOf(nodes[i], calls[i - 1], i = LastActed(nodes))])
  BY DEF AllMessages, n
<1> HIDE DEF calls
<1>8. calls \in [0..n -> Nat]
  <2> HIDE DEF Rec
  <2>1. QED
    BY <1>3, <1>4, <1>6
<1>9. \A i \in 1..n : calls[i] = calls[i - 1] + Len(nodes[i].steps)
  <2>1. \A i \in 1..n : i \in 0..n /\ i # 0
    BY <1>1
  <2>2. QED
    BY <1>6, <2>1
<1>10. QED
  BY <1>7, <1>8, <1>9 DEF n

\* What a trajectory that opens with a task says before anything is cut off.
LEMMA AllAnswering ==
  ASSUME NEW nodes \in Seq(NodeData), nodes # <<>>, nodes[1].user # 0
  PROVE  LET all == AllMessages(nodes)
         IN /\ Answering(all) /\ all # <<>> /\ all[1].role = "user"
            /\ \A x \in 1..Len(all) : all[x].role = "tool" => AnswersACall(all, x)
            /\ \A x \in 1..Len(all) : Calling(all, x) => AllAnswered(all, x)
                 \/ \E n \in Range(nodes) : \E step \in Range(n.steps) : step.answer = 0
<1> DEFINE n == Len(nodes)
<1>1. n \in Nat /\ n # 0 /\ DOMAIN nodes = 1..n /\ \A i \in 1..n : nodes[i] \in NodeData
  BY SeqParts
<1>2. PICK calls \in [0..n -> Nat] :
        /\ AllMessages(nodes)
             = FlattenSeq([i \in 1..n |->
                             MessagesOf(nodes[i], calls[i - 1], i = LastActed(nodes))])
        /\ \A i \in 1..n : calls[i] = calls[i - 1] + Len(nodes[i].steps)
  BY CallsBefore
<1> DEFINE ss == [i \in 1..n |-> MessagesOf(nodes[i], calls[i - 1], i = LastActed(nodes))]
           C == [i \in 1..n |-> CallsOf(nodes[i], calls[i - 1])]
           A == [i \in 1..n |-> AnsweredOf(nodes[i], calls[i - 1])]
           all == FlattenSeq(ss)
<1>3. ASSUME NEW i \in 1..n
      PROVE  /\ i - 1 \in 0..n /\ i \in 0..n /\ calls[i - 1] \in Nat /\ calls[i] \in Nat
             /\ nodes[i].user \in Nat /\ nodes[i].text \in Nat
             /\ nodes[i].steps \in Seq([answer : Nat]) /\ Len(nodes[i].steps) \in Nat
  <2>1. i - 1 \in 0..n /\ i \in 0..n
    BY <1>1
  <2>2. /\ nodes[i].user \in Nat /\ nodes[i].text \in Nat
        /\ nodes[i].steps \in Seq([answer : Nat])
    BY <1>1, NodeKnown
  <2>3. Len(nodes[i].steps) \in Nat
    <3> DEFINE steps == nodes[i].steps
    <3>1. steps \in Seq([answer : Nat])
      BY <2>2
    <3> HIDE DEF steps
    <3>2. Len(steps) \in Nat
      BY <3>1, SeqParts
    <3>3. QED
      BY <3>2 DEF steps
  <2>4. QED
    BY <1>2, <2>1, <2>2, <2>3
<1> HIDE DEF n
<1>4. ASSUME NEW i \in 1..n
      PROVE  /\ InTurn(ss[i], C[i], A[i])
             /\ nodes[i].user # 0 => ss[i] # <<>> /\ ss[i][1] = UserMessage(nodes[i].user)
  <2> DEFINE node == nodes[i]
             k == calls[i - 1]
             isLast == (i = LastActed(nodes))
  <2>1. /\ node.user \in Nat /\ node.text \in Nat /\ node.steps \in Seq([answer : Nat])
        /\ k \in Nat
    BY <1>3
  <2>2. ss[i] = MessagesOf(node, k, isLast) /\ C[i] = CallsOf(node, k) /\ A[i] = AnsweredOf(node, k)
    OBVIOUS
  <2> HIDE DEF node, k, isLast, ss, C, A
  <2>3. /\ InTurn(MessagesOf(node, k, isLast), CallsOf(node, k), AnsweredOf(node, k))
        /\ node.user # 0 => /\ MessagesOf(node, k, isLast) # <<>>
                            /\ MessagesOf(node, k, isLast)[1] = UserMessage(node.user)
    BY <2>1, NodeMessages
  <2>4. /\ InTurn(ss[i], C[i], A[i])
        /\ node.user # 0 => ss[i] # <<>> /\ ss[i][1] = UserMessage(node.user)
    BY <2>2, <2>3
  <2>5. QED
    BY <2>4 DEF node
<1>5. \A i, j \in 0..n : i <= j => calls[i] <= calls[j]
  <2> DEFINE Good == {m \in 0..n : \A i \in 0..m : calls[i] <= calls[m]}
  <2>1. 0 \in Good
    <3>1. 0 \in 0..n /\ calls[0] \in Nat
      BY <1>1, <1>2
    <3>2. \A i \in 0..0 : i = 0
      OBVIOUS
    <3>3. QED
      BY <3>1, <3>2
  <2>2. ASSUME NEW m \in 0..n - 1, m \in Good PROVE m + 1 \in Good
    <3>1. m + 1 \in 1..n /\ m + 1 \in 0..n /\ (m + 1) - 1 = m /\ m \in 0..n
      BY <1>1
    <3>2. /\ calls[m] \in Nat /\ calls[m + 1] \in Nat /\ Len(nodes[m + 1].steps) \in Nat
          /\ calls[m + 1] = calls[m] + Len(nodes[m + 1].steps)
      BY <1>2, <1>3, <3>1
    <3>3. calls[m] <= calls[m + 1]
      BY <3>2
    <3>4. ASSUME NEW i \in 0..m + 1 PROVE calls[i] <= calls[m + 1]
      <4>1. CASE i = m + 1
        BY <3>2, <4>1
      <4>2. CASE i # m + 1
        <5>1. i \in 0..m /\ i \in 0..n
          BY <1>1, <4>2
        <5>2. calls[i] <= calls[m] /\ calls[i] \in Nat
          BY <1>2, <2>2, <5>1
        <5>3. QED
          BY <3>2, <3>3, <5>2
      <4>3. QED
        BY <4>1, <4>2
    <3>5. QED
      BY <3>1, <3>4
  <2> HIDE DEF Good
  <2>3. \A m \in 0..n : m \in Good
    BY <1>1, <2>1, <2>2, CountsUp
  <2>4. ASSUME NEW i \in 0..n, NEW j \in 0..n, i <= j PROVE calls[i] <= calls[j]
    <3>1. j \in Good /\ i \in 0..j
      BY <1>1, <2>3, <2>4
    <3>2. QED
      BY <3>1 DEF Good
  <2>5. QED
    BY <2>4
<1>6. ASSUME NEW i \in 1..n, NEW c \in C[i]
      PROVE  c \in Nat /\ calls[i - 1] < c /\ c <= calls[i]
  <2> DEFINE k == calls[i - 1]
             l == Len(nodes[i].steps)
  <2>1. k \in Nat /\ l \in Nat /\ calls[i] = k + l
    BY <1>2, <1>3
  <2>2. PICK x \in 1..l : c = k + x
    BY DEF CallsOf
  <2> HIDE DEF k, l
  <2>3. c \in Nat /\ k < c /\ c <= k + l
    BY <2>1, <2>2
  <2>4. QED
    BY <2>1, <2>3 DEF k
<1>7. ASSUME NEW i \in 1..n, NEW j \in 1..n, i < j, NEW c, c \in C[i], c \in C[j] PROVE FALSE
  <2>1. c \in Nat /\ c <= calls[i] /\ calls[j - 1] < c
    BY <1>6, <1>7
  <2>2. i <= j - 1 /\ i \in 0..n /\ j - 1 \in 0..n
    BY <1>1, <1>7
  <2>3. calls[i] <= calls[j - 1]
    BY <1>5, <2>2
  <2>4. calls[i] \in Nat /\ calls[j - 1] \in Nat
    BY <1>2, <2>2
  <2>5. QED
    BY <2>1, <2>3, <2>4
<1>8. \A i, j \in 1..n : i # j => C[i] \cap C[j] = {}
  <2> HIDE DEF C
  <2>1. ASSUME NEW i \in 1..n, NEW j \in 1..n, i # j PROVE C[i] \cap C[j] = {}
    <3>1. i < j \/ j < i
      BY <1>1, <2>1
    <3>2. QED
      BY <1>7, <3>1
  <2>2. QED
    BY <2>1
<1>9. ss \in [1..n -> Seq(Messages)]
  <2>1. \A i \in 1..n : ss[i] \in Seq(Messages)
    BY <1>4 DEF InTurn
  <2>2. ss = [i \in 1..n |-> ss[i]]
    OBVIOUS
  <2> HIDE DEF ss
  <2>3. QED
    BY <2>1, <2>2
<1>10. AllMessages(nodes) = all
  BY <1>2 DEF n
<1>11. /\ Answering(all)
       /\ \A x \in 1..Len(all) : all[x].role = "tool" => AnswersACall(all, x)
       /\ \A x \in 1..Len(all) : Calling(all, x) =>
            \E i \in 1..n : C[i] \subseteq A[i] => AllAnswered(all, x)
  <2>1. \A i \in 1..n : InTurn(ss[i], C[i], A[i])
    BY <1>4
  <2> HIDE DEF ss, C, A
  <2>2. QED
    BY <1>1, <1>8, <1>9, <2>1, TurnsTogether
<1>12. ASSUME NEW i \in 1..n, ~(C[i] \subseteq A[i])
       PROVE  \E m \in Range(nodes) : \E step \in Range(m.steps) : step.answer = 0
  <2>1. PICK c \in C[i] : c \notin A[i]
    BY <1>12
  <2>2. PICK x \in 1..Len(nodes[i].steps) : c = calls[i - 1] + x
    BY DEF CallsOf
  <2>3. nodes[i].steps[x].answer = 0
    BY <2>1, <2>2 DEF AnsweredOf
  <2>4. DOMAIN nodes[i].steps = 1..Len(nodes[i].steps)
    <3> DEFINE steps == nodes[i].steps
    <3>1. steps \in Seq([answer : Nat])
      BY <1>3
    <3> HIDE DEF steps
    <3>2. DOMAIN steps = 1..Len(steps)
      BY <3>1, SeqParts
    <3>3. QED
      BY <3>2 DEF steps
  <2>5. nodes[i] \in Range(nodes) /\ nodes[i].steps[x] \in Range(nodes[i].steps)
    BY <1>1, <2>2, <2>4 DEF Range
  <2>6. QED
    BY <2>3, <2>5
<1>13. all # <<>> /\ all[1].role = "user"
  <2> HIDE DEF ss
  <2>1. 1 \in 1..n /\ ss[1] # <<>> /\ ss[1][1] = UserMessage(nodes[1].user)
    <3>1. 1 \in 1..n
      BY <1>1
    <3>2. QED
      BY <1>4, <3>1
  <2>2. /\ all \in Seq(Messages)
        /\ \E part, place : Laid(all, ss, n, part, place)
    BY <1>1, <1>9, FlatPlaces
  <2> HIDE DEF all
  <2>3. PICK part, place : Laid(all, ss, n, part, place)
    BY <2>2
  <2>4. 1 \in 1..Len(ss[1])
    <3> DEFINE m == ss[1]
    <3>1. m \in Seq(Messages) /\ m # <<>>
      BY <1>9, <2>1
    <3> HIDE DEF m
    <3>2. Len(m) \in Nat /\ Len(m) # 0
      BY <3>1, SeqParts
    <3>3. 1 \in 1..Len(m)
      BY <3>2
    <3>4. QED
      BY <3>3 DEF m
  <2>5. PICK x \in 1..Len(all) : part[x] = 1 /\ place[x] = 1
    BY <2>1, <2>3, <2>4 DEF Laid
  <2>6. Len(all) \in Nat /\ 1 \in 1..Len(all) /\ all # <<>>
    <3>1. Len(all) \in Nat
      BY <2>2, SeqParts
    <3>2. Len(all) # 0 /\ 1 \in 1..Len(all)
      BY <2>5, <3>1
    <3>3. QED
      BY <2>2, <3>1, <3>2, SeqParts
  <2>7. x = 1
    <3>1. /\ part[1] \in 1..n /\ place[1] \in 1..Len(ss[part[1]])
          /\ 1 < x => part[1] < part[x] \/ (part[1] = part[x] /\ place[1] < place[x])
      BY <2>3, <2>5, <2>6 DEF Laid
    <3>2. part[1] \in Nat /\ part[1] >= 1
      BY <3>1
    <3>3. place[1] \in Nat /\ place[1] >= 1
      <4>1. Len(ss[part[1]]) \in Nat
        <5> DEFINE m == ss[part[1]]
        <5>1. m \in Seq(Messages)
          BY <1>9, <3>1
        <5> HIDE DEF m
        <5>2. Len(m) \in Nat
          BY <5>1, SeqParts
        <5>3. QED
          BY <5>2 DEF m
      <4>2. QED
        BY <3>1, <4>1
    <3>4. ~(1 < x)
      BY <2>5, <3>1, <3>2, <3>3
    <3>5. QED
      BY <2>5, <2>6, <3>4
  <2>8. all[1] = UserMessage(nodes[1].user)
    BY <2>1, <2>3, <2>5, <2>7 DEF Laid
  <2>9. QED
    BY <2>6, <2>8 DEF UserMessage
<1>14. \A x \in 1..Len(all) : Calling(all, x) => AllAnswered(all, x)
         \/ \E m \in Range(nodes) : \E step \in Range(m.steps) : step.answer = 0
  <2> HIDE DEF all, C, A
  <2>1. QED
    BY <1>11, <1>12
<1> HIDE DEF all
<1>15. QED
  BY <1>10, <1>11, <1>13, <1>14

--------------------------------------------------------------------------------
(* What the model is shown                                                     *)

\* Sums within the limit, and what is cut down to it.
LEMMA ShownAccepted ==
  ASSUME NEW all, Answering(all), all # <<>>, all[1].role = "user",
         \A x \in 1..Len(all) : all[x].role = "tool" => AnswersACall(all, x),
         NEW Open,
         \A x \in 1..Len(all) : Calling(all, x) => AllAnswered(all, x) \/ Open,
         ~Raises(all)
  PROVE  LET s == Shortened(all)
         IN /\ Fits(s, all)
            /\ \A i \in 1..Len(s) : s[i].role = "tool" => AnswersACall(s, i)
            /\ \A i \in 1..Len(s) : Calling(s, i) => AllAnswered(s, i) \/ (s = all /\ Open)
<1>1. CASE TokensOf(all) <= MaxTokens
  <2>1. Shortened(all) = all
    BY <1>1 DEF Shortened
  <2>2. QED
    BY <1>1, <2>1 DEF Fits
<1>2. CASE ~(TokensOf(all) <= MaxTokens)
  <2> DEFINE r == Mended(Ordered(all, Selected(all)))
  <2>1. all \in Seq(Messages) /\ MaxTokens \in Nat
    BY HistoryAssumption DEF Answering
  <2>2. TokensOf(all) \in Nat /\ Tokens(all[1]) \in Nat
    <3>1. all[1] \in Messages
      <4>1. Len(all) \in Nat /\ Len(all) # 0
        BY <2>1, SeqParts
      <4>2. 1 \in 1..Len(all)
        BY <4>1
      <4>3. QED
        BY <2>1, <4>2, SeqParts
    <3>2. PICK sum \in [0..Len(all) -> Nat] : TokensOf(all) = sum[Len(all)]
      BY <2>1, TokensSum
    <3>3. Len(all) \in Nat
      BY <2>1, SeqParts
    <3>4. Len(all) \in 0..Len(all)
      BY <3>3
    <3>5. QED
      BY <3>1, <3>2, <3>4, TokensKnown
  <2>3. Tokens(all[1]) <= MaxTokens
    BY <1>2, <2>1, <2>2 DEF Raises
  <2>4. /\ TokensOf(r) <= MaxTokens /\ r[1] = all[1]
        /\ \A x \in 1..Len(r) : r[x].role = "tool" => AnswersACall(r, x)
        /\ \A x \in 1..Len(r) : Calling(r, x) => AllAnswered(r, x)
    BY <2>1, <2>3, SelectionAccepted
  <2>5. Shortened(all) = r
    BY <1>2 DEF Shortened
  <2> HIDE DEF r
  <2>6. QED
    BY <2>4, <2>5 DEF Fits
<1>3. QED
  BY <1>1, <1>2

\* A trajectory opens with a task.
HistoryInv == HistoryTypeOK /\ trajectory # <<>> /\ trajectory[1].user # 0

LEMMA HistoryInvariant == HistorySpec => []HistoryInv
<1>1. HistoryInit => HistoryInv
  <2>1. SUFFICES ASSUME HistoryInit PROVE HistoryInv
    OBVIOUS
  <2>2. PICK t \in Texts : trajectory = <<[user |-> t, text |-> 0, steps |-> <<>>]>>
    BY <2>1 DEF HistoryInit
  <2> DEFINE n == [user |-> t, text |-> 0, steps |-> <<>>]
  <2>3. n \in NodeData
    BY HistoryAssumption DEF NodeData
  <2>4. t # 0
    BY HistoryAssumption
  <2>5. QED
    BY <2>2, <2>3, <2>4 DEF HistoryInv, HistoryTypeOK
<1>2. HistoryInv /\ [HistoryNext]_trajectory => HistoryInv'
  <2>1. SUFFICES ASSUME HistoryInv, [HistoryNext]_trajectory PROVE HistoryInv'
    OBVIOUS
  <2>2. CASE UNCHANGED trajectory
    BY <2>1, <2>2 DEF HistoryInv, HistoryTypeOK
  <2>3. CASE AddTurn
    <3>1. PICK n \in NodeData : trajectory' = Append(trajectory, n)
      BY <2>3 DEF AddTurn
    <3>2. trajectory \in Seq(NodeData) /\ trajectory # <<>> /\ trajectory[1].user # 0
      BY <2>1 DEF HistoryInv, HistoryTypeOK
    <3> DEFINE t == Append(trajectory, n)
    <3>3. /\ t \in Seq(NodeData) /\ Len(t) = Len(trajectory) + 1
          /\ \A i \in 1..Len(trajectory) : t[i] = trajectory[i]
      BY <3>2, AppendProperties
    <3>4. Len(trajectory) \in Nat /\ Len(trajectory) # 0
      BY <3>2, SeqParts
    <3>5. 1 \in 1..Len(trajectory) /\ Len(t) # 0
      BY <3>3, <3>4
    <3>6. t[1] = trajectory[1] /\ t # <<>>
      BY <3>3, <3>5, SeqParts
    <3>7. QED
      BY <3>1, <3>2, <3>3, <3>6 DEF HistoryInv, HistoryTypeOK
  <2>4. QED
    BY <2>1, <2>2, <2>3 DEF HistoryNext
<1>3. QED
  BY <1>1, <1>2, PTL DEF HistorySpec

LEMMA HistoryShown == HistoryInv => HistoryAccepted
<1>1. SUFFICES ASSUME HistoryInv, ~Raises(AllMessages(trajectory))
               PROVE  LET all == AllMessages(trajectory)
                          s == Shortened(all)
                      IN /\ Fits(s, all)
                         /\ \A i \in 1..Len(s) : s[i].role = "tool" => AnswersACall(s, i)
                         /\ \A i \in 1..Len(s) :
                              Calling(s, i) => AllAnswered(s, i) \/ LeftUnanswered(s, all)
  BY DEF HistoryAccepted
<1> DEFINE all == AllMessages(trajectory)
           s == Shortened(all)
           Open == \E n \in Range(trajectory) : \E step \in Range(n.steps) : step.answer = 0
<1>2. trajectory \in Seq(NodeData) /\ trajectory # <<>> /\ trajectory[1].user # 0
  BY <1>1 DEF HistoryInv, HistoryTypeOK
<1>3. /\ Answering(all) /\ all # <<>> /\ all[1].role = "user"
      /\ \A x \in 1..Len(all) : all[x].role = "tool" => AnswersACall(all, x)
      /\ \A x \in 1..Len(all) : Calling(all, x) => AllAnswered(all, x) \/ Open
  BY <1>2, AllAnswering
<1>4. ~Raises(all)
  BY <1>1
<1>5. LeftUnanswered(s, all) <=> s = all /\ Open
  BY DEF LeftUnanswered
<1> HIDE DEF all, Open
<1>6. /\ Fits(s, all)
      /\ \A i \in 1..Len(s) : s[i].role = "tool" => AnswersACall(s, i)
      /\ \A i \in 1..Len(s) : Calling(s, i) => AllAnswered(s, i) \/ (s = all /\ Open)
  BY <1>3, <1>4, ShownAccepted
<1> HIDE DEF s
<1>7. \A i \in 1..Len(s) : Calling(s, i) => AllAnswered(s, i) \/ LeftUnanswered(s, all)
  BY <1>5, <1>6
<1>8. QED
  BY <1>6, <1>7 DEF s, all

\* The history of a model's messages is accepted at every size.
THEOREM HistoriesAreAccepted == HistorySpec => []HistoryAccepted
<1>1. QED
  BY HistoryInvariant, HistoryShown, PTL

--------------------------------------------------------------------------------
(* Completions                                                                 *)

Attempts == {Served, Failed}

\* The places of the attempts that an answer was paid for.
PaidIn(attempts) == {i \in DOMAIN attempts : attempts[i].paid}

\* An attempt is under way while a request is: so both loops leave one, and record it once.
CompletionInv ==
  /\ invocation \in [attempts : Seq(Attempts), current : BOOLEAN]
  /\ invocation.current = (phase = "waiting")
  /\ sent \in Nat /\ paid \in Nat
  /\ AttemptsCounted

\* The requests for the answers looked at before are all sent, in the worst case.
RequestsInv ==
  /\ validations \in 1..MaxValidations /\ tries \in 0..MaxRequests
  /\ phase = "ready" => tries < MaxRequests
  /\ sent \in 0..(validations - 1) * MaxRequests + tries

\* An attempt that is recorded counts once, and as paid if it was.
LEMMA AttemptRecorded ==
  ASSUME NEW attempts \in Seq(Attempts), NEW attempt \in Attempts
  PROVE  /\ Append(attempts, attempt) \in Seq(Attempts)
         /\ Len(Append(attempts, attempt)) = Len(attempts) + 1
         /\ Cardinality(PaidIn(attempts)) \in Nat
         /\ Cardinality(PaidIn(Append(attempts, attempt))) =
              Cardinality(PaidIn(attempts)) + (IF attempt.paid THEN 1 ELSE 0)
<1> DEFINE more == Append(attempts, attempt)
           n == Len(attempts)
<1>1. /\ more \in Seq(Attempts) /\ n \in Nat /\ Len(more) = n + 1
      /\ DOMAIN more = 1..n + 1 /\ DOMAIN attempts = 1..n
      /\ more[n + 1] = attempt /\ \A i \in 1..n : more[i] = attempts[i]
  OBVIOUS
<1>2. PaidIn(attempts) \subseteq 1..n
  BY <1>1 DEF PaidIn
<1>3. IsFiniteSet(PaidIn(attempts))
  <2>1. IsFiniteSet(1..n)
    BY <1>1, FS_Interval
  <2>2. QED
    BY <1>2, <2>1, FS_Subset
<1>4. CASE attempt.paid
  <2>1. PaidIn(more) = PaidIn(attempts) \cup {n + 1} /\ n + 1 \notin PaidIn(attempts)
    BY <1>1, <1>2, <1>4 DEF PaidIn
  <2>2. QED
    BY <1>1, <1>3, <1>4, <2>1, FS_AddElement, FS_CardinalityType
<1>5. CASE ~attempt.paid
  <2>1. PaidIn(more) = PaidIn(attempts)
    BY <1>1, <1>5 DEF PaidIn
  <2>2. QED
    BY <1>1, <1>3, <1>5, <2>1, FS_CardinalityType
<1>6. QED
  BY <1>4, <1>5

\* AttemptsCounted, in the terms of the lemma.
LEMMA CountedMeans ==
  AttemptsCounted <=> /\ sent = Len(invocation.attempts) + (IF invocation.current THEN 1 ELSE 0)
                      /\ paid = Cardinality(PaidIn(invocation.attempts))
  BY DEF AttemptsCounted, PaidIn

\* One loop or both leave the invocation: the attempt under way is recorded once.
LEMMA LeavesOnce ==
  ASSUME CompletionInv, phase = "waiting", phase' # "waiting", NEW attempt \in Attempts,
         invocation' = Exit(invocation, attempt) \/ LeaveBoth(attempt),
         sent' = sent, paid' = paid + (IF attempt.paid THEN 1 ELSE 0)
  PROVE  CompletionInv'
<1> DEFINE attempts == invocation.attempts
           more == Append(attempts, attempt)
<1>1. /\ invocation \in [attempts : Seq(Attempts), current : BOOLEAN] /\ invocation.current
      /\ sent \in Nat /\ paid \in Nat /\ sent = Len(attempts) + 1
      /\ paid = Cardinality(PaidIn(attempts))
  BY CountedMeans DEF CompletionInv
<1>2. attempts \in Seq(Attempts)
  BY <1>1
<1>3. /\ more \in Seq(Attempts) /\ Len(more) = Len(attempts) + 1
      /\ Cardinality(PaidIn(more)) = Cardinality(PaidIn(attempts)) + (IF attempt.paid THEN 1 ELSE 0)
  BY <1>2, AttemptRecorded
<1>4. invocation' = [attempts |-> more, current |-> FALSE]
  <2>1. Exit(invocation, attempt) = [attempts |-> more, current |-> FALSE]
    BY <1>1 DEF Exit
  <2>2. Exit([attempts |-> more, current |-> FALSE], attempt)
          = [attempts |-> more, current |-> FALSE]
    BY DEF Exit
  <2>3. QED
    BY <2>1, <2>2 DEF LeaveBoth
<1> HIDE DEF more
<1>5. /\ invocation' \in [attempts : Seq(Attempts), current : BOOLEAN]
      /\ invocation'.attempts = more /\ invocation'.current = FALSE
  BY <1>3, <1>4
<1>6. sent' \in Nat /\ paid' \in Nat
  BY <1>1
<1>7. /\ sent' = Len(invocation'.attempts) + (IF invocation'.current THEN 1 ELSE 0)
      /\ paid' = Cardinality(PaidIn(invocation'.attempts))
  BY <1>1, <1>3, <1>5
<1>8. AttemptsCounted'
  BY <1>7 DEF AttemptsCounted, PaidIn
<1>9. QED
  BY <1>5, <1>6, <1>8 DEF CompletionInv

\* A request is sent, and the attempt under way is one however often it is entered.
LEMMA SendCounted ==
  ASSUME CompletionInv, Send
  PROVE  CompletionInv'
<1>1. /\ phase = "ready" /\ phase' = "waiting" /\ sent' = sent + 1 /\ paid' = paid
      /\ invocation' = IF tries = 0 THEN Enter(Enter(invocation)) ELSE Enter(invocation)
  BY DEF Send
<1>2. /\ invocation \in [attempts : Seq(Attempts), current : BOOLEAN] /\ ~invocation.current
      /\ sent \in Nat /\ paid \in Nat /\ sent = Len(invocation.attempts)
      /\ paid = Cardinality(PaidIn(invocation.attempts))
  BY <1>1, CountedMeans DEF CompletionInv
<1>3. /\ invocation' \in [attempts : Seq(Attempts), current : BOOLEAN]
      /\ invocation'.attempts = invocation.attempts /\ invocation'.current
  BY <1>1, <1>2 DEF Enter
<1>4. /\ sent' = Len(invocation'.attempts) + (IF invocation'.current THEN 1 ELSE 0)
      /\ paid' = Cardinality(PaidIn(invocation'.attempts))
  BY <1>1, <1>2, <1>3
<1>5. AttemptsCounted'
  BY <1>4 DEF AttemptsCounted, PaidIn
<1>6. QED
  BY <1>1, <1>2, <1>3, <1>5 DEF CompletionInv

\* Every answer ends the attempt under way, with or without a retry.
LEMMA AnswerSettles ==
  ASSUME NEW answer, Answer(answer)
  PROVE  \/ \E how \in {"completed", "rejected"} : Settle(how)
         \/ \E errors : Retry(answer, errors)
  BY DEF Answer, ValidateCalls, Accept

\* Every step of a completion keeps count.
LEMMA CompletionStep ==
  ASSUME CompletionInv, [CompletionNext]_completionVars
  PROVE  CompletionInv'
<1>a. Served \in Attempts /\ Served.paid /\ Failed \in Attempts /\ ~Failed.paid
  BY DEF Attempts, Served, Failed
<1>n. paid \in Nat
  BY DEF CompletionInv
<1>1. CASE Send
  BY <1>1, SendCounted
<1>2. CASE Unavailable
  <2>1. /\ phase = "waiting" /\ phase' # "waiting" /\ sent' = sent /\ paid' = paid
        /\ invocation' = Exit(invocation, Failed) \/ LeaveBoth(Failed)
    BY <1>2 DEF Unavailable
  <2>2. QED
    BY <1>a, <1>n, <2>1, LeavesOnce
<1>3. CASE Declined
  <2>1. /\ phase = "waiting" /\ phase' # "waiting" /\ sent' = sent /\ paid' = paid
        /\ LeaveBoth(Failed)
    BY <1>3 DEF Declined
  <2>2. QED
    BY <1>a, <1>n, <2>1, LeavesOnce
<1>4. ASSUME NEW answer \in Answers, Answer(answer)
      PROVE  CompletionInv'
  <2>1. phase = "waiting" /\ sent' = sent /\ paid' = paid + 1
    BY <1>4 DEF Answer
  <2>2. phase' # "waiting" /\ LeaveBoth(Served)
    BY <1>4, AnswerSettles DEF Settle, Retry
  <2>3. QED
    BY <1>a, <2>1, <2>2, LeavesOnce
<1>5. CASE UNCHANGED completionVars
  BY <1>5 DEF completionVars, CompletionInv, AttemptsCounted
<1>6. QED
  BY <1>1, <1>2, <1>3, <1>4, <1>5 DEF CompletionNext

\* Before the first request there is nothing to count.
LEMMA CompletionStarts ==
  ASSUME CompletionInit
  PROVE  CompletionInv
<1>1. /\ invocation = [attempts |-> <<>>, current |-> FALSE]
      /\ phase = "ready" /\ sent = 0 /\ paid = 0
  BY DEF CompletionInit
<1>2. PaidIn(<<>>) = {} /\ Len(<<>>) = 0 /\ <<>> \in Seq(Attempts)
  BY DEF PaidIn
<1>3. AttemptsCounted
  BY <1>1, <1>2, FS_EmptySet, CountedMeans
<1>4. QED
  BY <1>1, <1>2, <1>3 DEF CompletionInv

\* Theorem: for any tools, arguments and numbers of retries, an invocation has one attempt for
\* each request that was sent, and the usage of each answer once.
THEOREM AttemptsAlwaysCounted == CompletionSpec => []AttemptsCounted
<1>1. CompletionInv => AttemptsCounted
  BY DEF CompletionInv
<1>2. QED
  BY <1>1, CompletionStarts, CompletionStep, PTL DEF CompletionSpec

\* What is sent is at most what the retries allow.
LEMMA RequestsStep ==
  ASSUME RequestsInv, [CompletionNext]_completionVars
  PROVE  RequestsInv'
<1> DEFINE before == (validations - 1) * MaxRequests
<1>n. MaxValidations \in Nat \ {0} /\ MaxRequests \in Nat \ {0}
  BY CompletionAssumption
<1>0. /\ validations \in 1..MaxValidations /\ tries \in 0..MaxRequests
      /\ before \in Nat /\ sent \in 0..before + tries
  BY <1>n DEF RequestsInv
<1>1. CASE Send
  <2>1. tries < MaxRequests /\ tries' = tries + 1 /\ sent' = sent + 1
        /\ validations' = validations /\ phase' = "waiting"
    BY <1>1 DEF Send, RequestsInv
  <2>2. sent' \in 0..before + tries'
    BY <1>0, <2>1
  <2>3. QED
    BY <1>0, <1>n, <2>1, <2>2 DEF RequestsInv
<1>2. CASE Unavailable \/ Declined
  BY <1>0, <1>2 DEF Unavailable, Declined, RequestsInv
<1>3. ASSUME NEW answer \in Answers, Answer(answer)
      PROVE  RequestsInv'
  <2>1. sent' = sent /\ phase = "waiting"
    BY <1>3 DEF Answer
  <2>2. CASE \E how \in {"completed", "rejected"} : Settle(how)
    BY <1>0, <2>1, <2>2 DEF Settle, RequestsInv
  <2>3. ASSUME NEW errors, Retry(answer, errors)
        PROVE  RequestsInv'
    <3>1. CASE validations < MaxValidations
      <4>1. validations' = validations + 1 /\ tries' = 0 /\ phase' = "ready"
        BY <2>3, <3>1 DEF Retry
      <4>2. (validations' - 1) * MaxRequests = before + MaxRequests
        BY <1>0, <1>n, <4>1
      <4>3. sent' \in 0..(validations' - 1) * MaxRequests + tries'
        BY <1>0, <1>n, <2>1, <4>1, <4>2
      <4>4. validations' \in 1..MaxValidations /\ tries' \in 0..MaxRequests /\ tries' < MaxRequests
        BY <1>0, <1>n, <3>1, <4>1
      <4>5. QED
        BY <4>3, <4>4 DEF RequestsInv
    <3>2. CASE ~(validations < MaxValidations)
      BY <1>0, <2>1, <2>3, <3>2 DEF Retry, RequestsInv
    <3>3. QED
      BY <3>1, <3>2
  <2>4. QED
    BY <1>3, <2>2, <2>3, AnswerSettles
<1>4. CASE UNCHANGED completionVars
  BY <1>4 DEF completionVars, RequestsInv
<1>5. QED
  BY <1>1, <1>2, <1>3, <1>4 DEF CompletionNext

LEMMA RequestsStart == CompletionInit => RequestsInv
  BY CompletionAssumption DEF CompletionInit, RequestsInv

LEMMA RequestsWithin == RequestsInv => sent <= MaxValidations * MaxRequests
<1> SUFFICES ASSUME RequestsInv
             PROVE  sent <= MaxValidations * MaxRequests
  OBVIOUS
<1>1. /\ MaxValidations \in Nat \ {0} /\ MaxRequests \in Nat \ {0}
      /\ validations \in 1..MaxValidations /\ tries \in 0..MaxRequests
      /\ sent \in 0..(validations - 1) * MaxRequests + tries
  BY CompletionAssumption DEF RequestsInv
<1>2. (validations - 1) * MaxRequests + tries <= validations * MaxRequests
  BY <1>1
<1>3. validations * MaxRequests <= MaxValidations * MaxRequests
  BY <1>1
<1>4. QED
  BY <1>1, <1>2, <1>3

\* Theorem: a completion sends at most MaxRequests requests for each of MaxValidations
\* answers, whatever the provider fails to serve and the model gets wrong.
THEOREM RequestsAreBounded == CompletionSpec => [](sent <= MaxValidations * MaxRequests)
<1>1. QED
  BY RequestsStart, RequestsWithin, RequestsStep, PTL DEF CompletionSpec

--------------------------------------------------------------------------------
(* What a completion says                                                      *)

Sayings ==
  [role : {"system", "user", "assistant", "tool"}, calls : SUBSET (Nat \X Nat)]

\* The calls that the tool messages behind one answer.
AnsweredIn(c, i) ==
  UNION {c[k].calls : k \in {k \in i + 1..Len(c) : c[k].role = "tool"}}

\* All calls are answered; where answers are checked afterwards, those of messages with one.
AllTold(c) ==
  \A i \in 1..Len(c) :
    c[i].role = "assistant" /\ (format.checked => Cardinality(c[i].calls) = 1)
      => c[i].calls \subseteq AnsweredIn(c, i)

SayingsInv ==
  /\ conversation \in Seq(Sayings) /\ validations \in Nat
  /\ format \in Formats /\ phase \in {"ready", "waiting", "completed", "rejected", "failed"}
  /\ AllTold(conversation)

LEMMA SayingMade ==
  ASSUME NEW role \in {"system", "user", "assistant", "tool"}, NEW C \in SUBSET (Nat \X Nat)
  PROVE  /\ Said(role, C) \in Sayings
         /\ Said(role, C).role = role /\ Said(role, C).calls = C
  BY DEF Said, Sayings

\* What is said behind a conversation answers nothing less.
LEMMA MoreTold ==
  ASSUME NEW c \in Seq(Sayings), NEW d \in Seq(Sayings), AllTold(c),
         \A i \in 1..Len(d) :
           d[i].role = "assistant" /\ (format.checked => Cardinality(d[i].calls) = 1)
             => d[i].calls \subseteq AnsweredIn(d, i)
  PROVE  c \o d \in Seq(Sayings) /\ AllTold(c \o d)
<1> DEFINE n == Len(c)
           l == Len(d)
           t == c \o d
<1>1. /\ n \in Nat /\ l \in Nat /\ t \in Seq(Sayings) /\ Len(t) = n + l
      /\ \A x \in 1..n : t[x] = c[x]
      /\ \A x \in n + 1..n + l : t[x] = d[x - n]
  BY ConcatProperties, LenProperties
<1> HIDE DEF t, n, l
<1>2. ASSUME NEW i \in 1..n PROVE AnsweredIn(c, i) \subseteq AnsweredIn(t, i)
  <2>1. ASSUME NEW id \in AnsweredIn(c, i) PROVE id \in AnsweredIn(t, i)
    <3>1. PICK k \in i + 1..n : c[k].role = "tool" /\ id \in c[k].calls
      BY DEF AnsweredIn, n
    <3>2. k \in 1..n /\ k \in i + 1..n + l
      BY <1>1, <3>1
    <3>3. t[k].role = "tool" /\ id \in t[k].calls /\ k \in i + 1..Len(t)
      BY <1>1, <3>1, <3>2
    <3>4. QED
      BY <3>3 DEF AnsweredIn
  <2>2. QED
    BY <2>1
<1>3. ASSUME NEW i \in 1..l PROVE AnsweredIn(d, i) \subseteq AnsweredIn(t, n + i)
  <2>1. ASSUME NEW id \in AnsweredIn(d, i) PROVE id \in AnsweredIn(t, n + i)
    <3>1. PICK k \in i + 1..l : d[k].role = "tool" /\ id \in d[k].calls
      BY DEF AnsweredIn, l
    <3>2. n + k \in n + 1..n + l /\ n + k \in (n + i) + 1..n + l /\ (n + k) - n = k
      BY <1>1, <3>1
    <3>3. /\ t[n + k].role = "tool" /\ id \in t[n + k].calls
          /\ n + k \in (n + i) + 1..Len(t)
      BY <1>1, <3>1, <3>2
    <3>4. QED
      BY <3>3 DEF AnsweredIn
  <2>2. QED
    BY <2>1
<1>4. ASSUME NEW i \in 1..n + l, t[i].role = "assistant",
             format.checked => Cardinality(t[i].calls) = 1
      PROVE  t[i].calls \subseteq AnsweredIn(t, i)
  <2>1. CASE i \in 1..n
    <3>1. t[i] = c[i]
      BY <1>1, <2>1
    <3>2. c[i].calls \subseteq AnsweredIn(c, i)
      BY <1>4, <2>1, <3>1 DEF AllTold, n
    <3>3. QED
      BY <1>2, <2>1, <3>1, <3>2
  <2>2. CASE i \notin 1..n
    <3>1. i \in n + 1..n + l /\ i - n \in 1..l /\ n + (i - n) = i
      BY <1>1, <2>2
    <3>2. t[i] = d[i - n]
      BY <1>1, <3>1
    <3>3. d[i - n].calls \subseteq AnsweredIn(d, i - n)
      BY <1>4, <3>1, <3>2 DEF l
    <3>4. AnsweredIn(d, i - n) \subseteq AnsweredIn(t, n + (i - n))
      BY <1>3, <3>1
    <3>5. QED
      BY <3>1, <3>2, <3>3, <3>4
  <2>3. QED
    BY <2>1, <2>2
<1>5. AllTold(t)
  BY <1>1, <1>4 DEF AllTold
<1>6. QED
  BY <1>1, <1>5 DEF t

\* What the model said, and what is wrong with it.
LEMMA ErrorsTold ==
  ASSUME NEW s \in Sayings, s.role = "assistant", NEW errors \in Seq(Sayings),
         \A x \in 1..Len(errors) : errors[x].role # "assistant",
         format.checked => Cardinality(s.calls) = 1,
         \A id \in s.calls :
           \E x \in 1..Len(errors) : errors[x].role = "tool" /\ id \in errors[x].calls
  PROVE  s.calls \subseteq AnsweredIn(<<s>> \o errors, 1)
<1> DEFINE d == <<s>> \o errors
<1>1. /\ Len(d) = Len(errors) + 1 /\ \A x \in 1..Len(errors) : d[x + 1] = errors[x]
  BY OneMore
<1>2. Len(errors) \in Nat
  BY SeqParts
<1> HIDE DEF d
<1>3. ASSUME NEW id \in s.calls PROVE id \in AnsweredIn(d, 1)
  <2>1. PICK x \in 1..Len(errors) : errors[x].role = "tool" /\ id \in errors[x].calls
    BY <1>3
  <2>2. x + 1 \in 1 + 1..Len(d) /\ d[x + 1] = errors[x]
    BY <1>1, <1>2, <2>1
  <2>3. QED
    BY <2>1, <2>2 DEF AnsweredIn
<1>4. QED
  BY <1>3 DEF d

\* A conversation that the model is asked to go on with.
LEMMA ExtendedTold ==
  ASSUME NEW c \in Seq(Sayings), AllTold(c), NEW s \in Sayings, s.role = "assistant",
         NEW errors \in Seq(Sayings),
         \A x \in 1..Len(errors) : errors[x].role # "assistant",
         (format.checked => Cardinality(s.calls) = 1) =>
           \A id \in s.calls :
             \E x \in 1..Len(errors) : errors[x].role = "tool" /\ id \in errors[x].calls
  PROVE  /\ c \o errors \in Seq(Sayings) /\ AllTold(c \o errors)
         /\ c \o <<s>> \o errors \in Seq(Sayings) /\ AllTold(c \o <<s>> \o errors)
<1>1. c \o errors \in Seq(Sayings) /\ AllTold(c \o errors)
  BY MoreTold
<1> DEFINE d == <<s>> \o errors
<1>2. /\ d \in Seq(Sayings) /\ Len(d) = Len(errors) + 1 /\ d[1] = s
      /\ \A x \in 1..Len(errors) : d[x + 1] = errors[x]
  BY OneMore
<1>3. Len(errors) \in Nat
  BY SeqParts
<1>4. (format.checked => Cardinality(s.calls) = 1) => s.calls \subseteq AnsweredIn(d, 1)
  BY ErrorsTold
<1>5. c \o <<s>> \o errors = c \o d
  BY ConcatAssociative
<1> HIDE DEF d
<1>6. ASSUME NEW i \in 1..Len(d), d[i].role = "assistant",
             format.checked => Cardinality(d[i].calls) = 1
      PROVE  d[i].calls \subseteq AnsweredIn(d, i)
  <2>1. CASE i = 1
    BY <1>2, <1>4, <1>6, <2>1
  <2>2. CASE i # 1
    <3>1. i - 1 \in 1..Len(errors) /\ (i - 1) + 1 = i
      BY <1>2, <1>3, <2>2
    <3>2. d[i] = errors[i - 1]
      BY <1>2, <3>1
    <3>3. QED
      BY <1>6, <3>1, <3>2
  <2>3. QED
    BY <2>1, <2>2
<1>7. c \o d \in Seq(Sayings) /\ AllTold(c \o d)
  BY <1>2, <1>6, MoreTold
<1>8. QED
  BY <1>1, <1>5, <1>7

\* The messages that answer calls none of which is valid.
LEMMA ErrorsOfCalls ==
  ASSUME NEW S, NEW calls \in Seq(S), validations \in Nat, Invalid(calls) = DOMAIN calls
  PROVE  /\ ErrorsOf(calls) \in Seq(Sayings)
         /\ \A x \in 1..Len(ErrorsOf(calls)) : ErrorsOf(calls)[x].role = "tool"
         /\ \A i \in DOMAIN calls : \E x \in 1..Len(ErrorsOf(calls)) :
              ErrorsOf(calls)[x].role = "tool" /\ Id(i) \in ErrorsOf(calls)[x].calls
<1> DEFINE n == Len(calls)
           g == [i \in 1..n |-> Said("tool", {Id(i)})]
           ss == [i \in 1..n |-> IF Duplicate(calls, i) THEN <<>> ELSE <<Said("tool", {Id(i)})>>]
           r == FlattenSeq(ss)
<1>1. n \in Nat /\ DOMAIN calls = 1..n
  BY SeqParts
<1>2. ErrorsOf(calls) = r
  BY <1>1 DEF ErrorsOf
<1>3. \A i \in 1..n : ~Duplicate(calls, i)
  BY <1>1 DEF Invalid
<1>4. ASSUME NEW i \in 1..n
      PROVE  g[i] \in Sayings /\ g[i].role = "tool" /\ g[i].calls = {Id(i)}
  <2>1. {Id(i)} \in SUBSET (Nat \X Nat)
    BY <1>1 DEF Id
  <2>2. QED
    BY <2>1, SayingMade
<1>5. g \in [1..n -> Sayings]
  BY <1>4
<1>6. /\ ss = [i \in 1..n |-> ss[i]]
      /\ \A i \in 1..n : (i \in 1..n => ss[i] = <<g[i]>>) /\ (i \notin 1..n => ss[i] = <<>>)
  BY <1>3
<1> HIDE DEF g, ss, n
<1>7. r \in Seq(Sayings) /\ \E f : IsFiltered(r, f, n, g, 1..n)
  BY <1>1, <1>5, <1>6, Filtered
<1>8. PICK f : IsFiltered(r, f, n, g, 1..n)
  BY <1>7
<1> HIDE DEF r
<1>9. /\ \A x \in 1..Len(r) : f[x] \in 1..n /\ r[x] = g[f[x]]
      /\ \A i \in 1..n : \E x \in 1..Len(r) : f[x] = i
  BY <1>8 DEF IsFiltered
<1>10. \A x \in 1..Len(r) : r[x].role = "tool" /\ r[x].calls = {Id(f[x])}
  BY <1>4, <1>9
<1>11. \A i \in 1..n : \E x \in 1..Len(r) : r[x].role = "tool" /\ Id(i) \in r[x].calls
  BY <1>9, <1>10
<1>12. QED
  BY <1>1, <1>2, <1>7, <1>10, <1>11

\* A message of its own that an error has not: it answers the first call.
LEMMA ErrorOfCalls ==
  ASSUME NEW S, NEW calls \in Seq(S), validations \in Nat
  PROVE  /\ ErrorOf(calls) \in Seq(Sayings)
         /\ \A x \in 1..Len(ErrorOf(calls)) : ErrorOf(calls)[x].role # "assistant"
         /\ Cardinality({Id(i) : i \in DOMAIN calls}) = 1 \/ calls = <<>> =>
              \A id \in {Id(i) : i \in DOMAIN calls} : \E x \in 1..Len(ErrorOf(calls)) :
                ErrorOf(calls)[x].role = "tool" /\ id \in ErrorOf(calls)[x].calls
<1> DEFINE ids == {Id(i) : i \in DOMAIN calls}
           e == IF calls = <<>> THEN Said("user", {}) ELSE Said("tool", {Id(1)})
<1>1. Len(calls) \in Nat /\ DOMAIN calls = 1..Len(calls) /\ (calls = <<>> <=> Len(calls) = 0)
  BY SeqParts
<1>2. /\ e \in Sayings /\ e.role # "assistant"
      /\ calls # <<>> => e.role = "tool" /\ e.calls = {Id(1)}
  <2>1. {} \in SUBSET (Nat \X Nat) /\ {Id(1)} \in SUBSET (Nat \X Nat)
    BY DEF Id
  <2>2. QED
    BY <2>1, SayingMade
<1>3. ErrorOf(calls) = <<e>>
  BY DEF ErrorOf
<1> HIDE DEF e
<1>4. <<e>> \in Seq(Sayings) /\ Len(<<e>>) = 1 /\ <<e>>[1] = e
  BY <1>2
<1>5. CASE calls = <<>>
  <2>1. ids = {}
    BY <1>1, <1>5
  <2>2. QED
    BY <1>2, <1>3, <1>4, <2>1
<1>6. CASE calls # <<>>
  <2>1. Id(1) \in ids
    BY <1>1, <1>6
  <2>2. Cardinality(ids) = 1 => ids = {Id(1)}
    <3> HIDE DEF ids
    <3>1. ASSUME Cardinality(ids) = 1 PROVE ids = {Id(1)}
      <4>1. IsFiniteSet(ids)
        <5> DEFINE up == [i \in 1..Len(calls) |-> Id(i)]
        <5>1. IsFiniteSet(1..Len(calls))
          BY <1>1, FS_Interval
        <5>2. up \in Surjection(1..Len(calls), ids)
          <6>1. up \in [1..Len(calls) -> ids]
            BY <1>1 DEF ids
          <6>2. \A c \in ids : \E i \in 1..Len(calls) : up[i] = c
            BY <1>1 DEF ids
          <6>3. QED
            BY <6>1, <6>2 DEF Surjection
        <5>3. QED
          BY <5>1, <5>2, FS_Surjection
      <4>2. \E x : ids = {x}
        BY <3>1, <4>1, FS_Singleton
      <4>3. QED
        BY <2>1, <4>2
    <3>2. QED
      BY <3>1
  <2>3. QED
    BY <1>2, <1>3, <1>4, <1>6, <2>2
<1>7. QED
  BY <1>5, <1>6

\* What an answer that has to be asked again about leaves to be said.
LEMMA RetryTold ==
  ASSUME SayingsInv, NEW answer \in Answers, Answer(answer), NEW errors, Retry(answer, errors),
         \/ errors = ErrorsOf(answer.calls) /\ Invalid(answer.calls) = DOMAIN answer.calls
         \/ errors = ErrorOf(answer.calls) /\ (format.checked \/ answer.calls = <<>>)
  PROVE  conversation' \in Seq(Sayings) /\ AllTold(conversation')
<1> DEFINE calls == answer.calls
           ids == {Id(i) : i \in DOMAIN calls}
           s == Said("assistant", ids)
           S == [known : BOOLEAN, args : Args]
<1>1. conversation \in Seq(Sayings) /\ AllTold(conversation) /\ validations \in Nat
  BY DEF SayingsInv
<1>2. calls \in Seq(S)
  <2>1. calls \in CallLists \/ calls = <<>>
    BY DEF Answers
  <2>2. CASE calls = <<>>
    BY <2>2, EmptySeq
  <2>3. CASE calls \in CallLists
    <3>1. PICK m \in 0..MaxCalls : calls \in [1..m -> S]
      BY <2>3 DEF CallLists, SeqOf
    <3>2. m \in Nat /\ calls = [i \in 1..m |-> calls[i]] /\ \A i \in 1..m : calls[i] \in S
      BY <3>1, CompletionAssumption
    <3> HIDE DEF calls, S
    <3>3. QED
      BY <3>2, SeqMade
  <2>4. QED
    BY <2>1, <2>2, <2>3
<1> HIDE DEF calls, S
<1>3. ids \in SUBSET (Nat \X Nat)
  <2>1. DOMAIN calls \subseteq Nat
    BY <1>2, SeqParts
  <2>2. QED
    BY <1>1, <2>1 DEF Id
<1>4. s \in Sayings /\ s.role = "assistant" /\ s.calls = ids
  BY <1>3, SayingMade
<1>5. /\ errors \in Seq(Sayings)
      /\ \A x \in 1..Len(errors) : errors[x].role # "assistant"
      /\ (format.checked => Cardinality(ids) = 1) =>
           \A id \in ids :
             \E x \in 1..Len(errors) : errors[x].role = "tool" /\ id \in errors[x].calls
  <2>1. CASE errors = ErrorsOf(calls) /\ Invalid(calls) = DOMAIN calls
    <3>1. /\ ErrorsOf(calls) \in Seq(Sayings)
          /\ \A x \in 1..Len(ErrorsOf(calls)) : ErrorsOf(calls)[x].role = "tool"
          /\ \A i \in DOMAIN calls : \E x \in 1..Len(ErrorsOf(calls)) :
               ErrorsOf(calls)[x].role = "tool" /\ Id(i) \in ErrorsOf(calls)[x].calls
      BY <1>1, <1>2, <2>1, ErrorsOfCalls
    <3>2. /\ errors \in Seq(Sayings) /\ \A x \in 1..Len(errors) : errors[x].role = "tool"
          /\ \A i \in DOMAIN calls :
               \E x \in 1..Len(errors) : errors[x].role = "tool" /\ Id(i) \in errors[x].calls
      BY <2>1, <3>1
    <3>3. QED
      BY <3>2
  <2>2. CASE errors = ErrorOf(calls) /\ (format.checked \/ calls = <<>>)
    <3>1. /\ ErrorOf(calls) \in Seq(Sayings)
          /\ \A x \in 1..Len(ErrorOf(calls)) : ErrorOf(calls)[x].role # "assistant"
          /\ Cardinality(ids) = 1 \/ calls = <<>> =>
               \A id \in ids : \E x \in 1..Len(ErrorOf(calls)) :
                 ErrorOf(calls)[x].role = "tool" /\ id \in ErrorOf(calls)[x].calls
      BY <1>1, <1>2, ErrorOfCalls
    <3>2. QED
      BY <2>2, <3>1
  <2>3. QED
    BY <2>1, <2>2 DEF calls
<1> HIDE DEF s, ids
<1>6. /\ conversation \o errors \in Seq(Sayings) /\ AllTold(conversation \o errors)
      /\ conversation \o <<s>> \o errors \in Seq(Sayings)
      /\ AllTold(conversation \o <<s>> \o errors)
  <2> DEFINE c == conversation
  <2>1. c \in Seq(Sayings) /\ AllTold(c)
    BY <1>1
  <2> HIDE DEF c
  <2>2. /\ c \o errors \in Seq(Sayings) /\ AllTold(c \o errors)
        /\ c \o <<s>> \o errors \in Seq(Sayings) /\ AllTold(c \o <<s>> \o errors)
    BY <1>4, <1>5, <2>1, ExtendedTold
  <2>3. QED
    BY <2>2 DEF c
<1>7. conversation' = conversation \o errors \/ conversation' = conversation \o <<s>> \o errors
  <2>1. conversation'
          = conversation \o (IF answer.kind = "thoughts" THEN <<>> ELSE <<s>>) \o errors
    BY DEF Retry, Extended, s, ids, calls
  <2>2. conversation \o <<>> = conversation
    BY <1>1, ConcatEmptySeq
  <2>3. QED
    BY <2>1, <2>2
<1>8. QED
  BY <1>6, <1>7

\* The answers that are asked again about, and with what.
LEMMA AnswerTold ==
  ASSUME NEW answer \in Answers, Answer(answer)
  PROVE  \/ \E how \in {"completed", "rejected"} : Settle(how)
         \/ \E errors :
              /\ Retry(answer, errors)
              /\ \/ errors = ErrorsOf(answer.calls) /\ Invalid(answer.calls) = DOMAIN answer.calls
                 \/ errors = ErrorOf(answer.calls) /\ (format.checked \/ answer.calls = <<>>)
<1>1. answer.kind # "calls" => answer.calls = <<>>
  BY DEF Answers
<1>2. Accept(answer) => \/ Settle("completed")
                        \/ format.checked /\ Retry(answer, ErrorOf(answer.calls))
  BY DEF Accept
<1>3. CASE answer.kind = "calls"
  <2>1. ValidateCalls(answer)
    BY <1>3 DEF Answer
  <2>2. CASE Invalid(answer.calls) = DOMAIN answer.calls
    BY <2>1, <2>2 DEF ValidateCalls
  <2>3. CASE Invalid(answer.calls) # DOMAIN answer.calls
    BY <1>2, <2>1, <2>3 DEF ValidateCalls
  <2>4. QED
    BY <2>2, <2>3
<1>4. CASE answer.kind # "calls"
  <2>1. Settle("rejected") \/ Accept(answer) \/ Retry(answer, ErrorOf(<<>>))
    BY <1>4 DEF Answer
  <2>2. QED
    BY <1>1, <1>2, <1>4, <2>1
<1>5. QED
  BY <1>3, <1>4

LEMMA SayingsStep ==
  ASSUME SayingsInv, [CompletionNext]_completionVars
  PROVE  SayingsInv'
<1>0. /\ conversation \in Seq(Sayings) /\ AllTold(conversation) /\ validations \in Nat
      /\ format \in Formats
      /\ phase \in {"ready", "waiting", "completed", "rejected", "failed"}
  BY DEF SayingsInv
<1>1. CASE Send \/ Unavailable \/ Declined
  BY <1>0, <1>1 DEF Send, Unavailable, Declined, SayingsInv, AllTold
<1>2. ASSUME NEW answer \in Answers, Answer(answer) PROVE SayingsInv'
  <2>1. format' = format
    BY <1>2 DEF Answer
  <2>2. CASE \E how \in {"completed", "rejected"} : Settle(how)
    BY <1>0, <2>1, <2>2 DEF Settle, SayingsInv, AllTold
  <2>3. ASSUME NEW errors, Retry(answer, errors),
               \/ errors = ErrorsOf(answer.calls) /\ Invalid(answer.calls) = DOMAIN answer.calls
               \/ errors = ErrorOf(answer.calls) /\ (format.checked \/ answer.calls = <<>>)
        PROVE  SayingsInv'
    <3>1. conversation' \in Seq(Sayings) /\ AllTold(conversation')
      BY <1>2, <2>3, RetryTold
    <3>2. AllTold(conversation)'
      BY <2>1, <3>1 DEF AllTold
    <3>3. validations' \in Nat /\ phase' \in {"ready", "rejected"}
      BY <1>0, <2>3 DEF Retry
    <3>4. QED
      BY <1>0, <2>1, <3>1, <3>2, <3>3 DEF SayingsInv
  <2>4. QED
    BY <1>2, <2>2, <2>3, AnswerTold
<1>3. CASE UNCHANGED completionVars
  BY <1>0, <1>3 DEF completionVars, SayingsInv, AllTold
<1>4. QED
  BY <1>1, <1>2, <1>3 DEF CompletionNext

LEMMA SayingsStart ==
  ASSUME CompletionInit
  PROVE  SayingsInv
<1> DEFINE a == Said("system", {})
           b == Said("user", {})
<1>1. conversation = <<a, b>> /\ format \in Formats /\ validations = 1 /\ phase = "ready"
  BY DEF CompletionInit
<1>2. a \in Sayings /\ a.role = "system" /\ b \in Sayings /\ b.role = "user"
  <2>1. {} \in SUBSET (Nat \X Nat)
    OBVIOUS
  <2>2. QED
    BY <2>1, SayingMade
<1> HIDE DEF a, b
<1>3. <<a, b>> \in Seq(Sayings) /\ \A i \in 1..Len(<<a, b>>) : <<a, b>>[i].role # "assistant"
  BY <1>2
<1>4. QED
  BY <1>1, <1>3 DEF SayingsInv, AllTold

\* Theorem: whatever the model answers and however many retries there are, each request of
\* a completion answers all tool calls of what the model said before, where its answers are
\* not checked after the validation, and the call of each single one where they are.
THEOREM CallsAreAnswered == CompletionSpec => []CallsAnswered
<1>1. SayingsInv => CallsAnswered
  <2>1. SUFFICES ASSUME SayingsInv PROVE CallsAnswered
    OBVIOUS
  <2>2. DOMAIN conversation = 1..Len(conversation) /\ AllTold(conversation)
    BY <2>1, SeqParts DEF SayingsInv
  <2>3. \A i \in 1..Len(conversation) : AnsweredIn(conversation, i) = AnsweredAfter(i)
    BY DEF AnsweredIn, AnsweredAfter
  <2>4. QED
    BY <2>2, <2>3 DEF CallsAnswered, AllTold
<1>2. QED
  BY <1>1, SayingsStart, SayingsStep, PTL DEF CompletionSpec

\* Theorem: the state of a completion is well typed, with its bounds on requests.
THEOREM CompletionTypeCorrect == CompletionSpec => []CompletionTypeOK
<1>1. CompletionInv /\ RequestsInv /\ SayingsInv => CompletionTypeOK
  <2>1. SUFFICES ASSUME CompletionInv, RequestsInv, SayingsInv PROVE CompletionTypeOK
    OBVIOUS
  <2>2. \A i \in DOMAIN conversation :
          conversation[i].role \in {"system", "user", "assistant", "tool"}
    <3>1. \A i \in DOMAIN conversation : conversation[i] \in Sayings
      BY <2>1, SeqParts DEF SayingsInv
    <3>2. QED
      BY <3>1 DEF Sayings
  <2>3. sent \in 0..MaxValidations * MaxRequests
    <3>1. sent <= MaxValidations * MaxRequests
      BY <2>1, RequestsWithin
    <3>2. /\ sent \in Nat /\ MaxValidations \in Nat \ {0} /\ MaxRequests \in Nat \ {0}
      BY <2>1, CompletionAssumption DEF CompletionInv
    <3>3. MaxValidations * MaxRequests \in Nat
      BY <3>2
    <3>4. QED
      BY <3>1, <3>2, <3>3
  <2>4. paid \in 0..sent
    <3> DEFINE attempts == invocation.attempts
               n == Len(attempts)
    <3>1. /\ attempts \in Seq(Attempts) /\ sent \in Nat /\ paid \in Nat
          /\ sent = n + (IF invocation.current THEN 1 ELSE 0)
          /\ paid = Cardinality(PaidIn(attempts))
      BY <2>1, CountedMeans DEF CompletionInv
    <3> HIDE DEF attempts
    <3>2. n \in Nat /\ DOMAIN attempts = 1..n
      BY <3>1, SeqParts
    <3>3. IsFiniteSet(1..n) /\ Cardinality(1..n) = n
      <4>1. 1 \in Int /\ n \in Int
        BY <3>2
      <4>2. IsFiniteSet(1..n) /\ Cardinality(1..n) = IF 1 > n THEN 0 ELSE n - 1 + 1
        BY <4>1, FS_Interval
      <4>3. QED
        BY <3>2, <4>2
    <3>4. PaidIn(attempts) \subseteq 1..n
      BY <3>2 DEF PaidIn
    <3>5. Cardinality(PaidIn(attempts)) <= n
      <4>1. Cardinality(PaidIn(attempts)) <= Cardinality(1..n)
        BY <3>3, <3>4, FS_Subset
      <4>2. QED
        BY <3>3, <4>1
    <3> HIDE DEF n
    <3>6. n <= sent
      <4>1. sent = n \/ sent = n + 1
        <5>1. n + 0 = n
          BY <3>2
        <5>2. sent = n + (IF invocation.current THEN 1 ELSE 0)
          BY <3>1
        <5>3. QED
          BY <5>1, <5>2, Zenon
      <4>2. QED
        BY <3>2, <4>1
    <3>7. QED
      BY <3>1, <3>2, <3>5, <3>6
  <2>5. QED
    BY <2>1, <2>2, <2>3, <2>4 DEF CompletionTypeOK, CompletionInv, RequestsInv, SayingsInv
<1>2. CompletionSpec => []CompletionInv
  BY CompletionStarts, CompletionStep, PTL DEF CompletionSpec
<1>3. CompletionSpec => []RequestsInv
  BY RequestsStart, RequestsStep, PTL DEF CompletionSpec
<1>4. CompletionSpec => []SayingsInv
  BY SayingsStart, SayingsStep, PTL DEF CompletionSpec
<1>5. QED
  BY <1>1, <1>2, <1>3, <1>4, PTL

================================================================================
