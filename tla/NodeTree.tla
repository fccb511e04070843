------------------------------- MODULE NodeTree -------------------------------
(***************************************************************************)
(* The tree of nodes of a trajectory (moatless/node.py).  A tree is the    *)
(* sequence of its nodes in the order of get_all_nodes, each with its      *)
(* depth: the descendants of a node are the deeper nodes that follow it.   *)
(* A node keeps how many action steps it has and how many of them have an  *)
(* observation; messages, actions and file contexts are left out.          *)
(***************************************************************************)
EXTENDS Integers, Sequences, FiniteSets, SequencesExt

CONSTANTS
  MaxSteps  \* bound on the action steps of a node

ASSUME NodeAssumption == MaxSteps \in Nat

Rewards == {"none", "low", "high"}

Node == [id : Nat, depth : Nat,
         max    : Nat,              \* max_expansions, 0 for None
         steps  : 0..MaxSteps,      \* action steps
         done   : 0..MaxSteps,      \* those with an observation, from the first on
         fin    : BOOLEAN,          \* the last observation is terminal
         terminal : BOOLEAN, error : BOOLEAN, duplicate : BOOLEAN,
         paid   : BOOLEAN,          \* completions has a build_action
         reward : Rewards, visits : Nat]

NewNode(id, depth, max) ==
  [id |-> id, depth |-> depth, max |-> max, steps |-> 0, done |-> 0, fin |-> FALSE,
   terminal |-> FALSE, error |-> FALSE, duplicate |-> FALSE, paid |-> FALSE,
   reward |-> "none", visits |-> 0]

Root == NewNode(0, 0, 0)

--------------------------------------------------------------------------------
(* Where the nodes are                                                         *)

LastNode(t) == t[Len(t)]

\* The positions of the nodes below the one at i.
Descendants(t, i) ==
  {j \in i + 1 .. Len(t) : \A k \in i + 1 .. j : t[k].depth > t[i].depth}

ChildrenOf(t, i) == {j \in Descendants(t, i) : t[j].depth = t[i].depth + 1}

\* The position of the parent, 0 for the root.
ParentOf(t, i) ==
  IF i = 1 THEN 0 ELSE CHOOSE p \in 1 .. i - 1 : i \in ChildrenOf(t, p)

\* The node and all its ancestors.
PathTo(t, i) == {i} \cup {p \in 1 .. i - 1 : i \in Descendants(t, p)}

Leaf(t, i) == ChildrenOf(t, i) = {}

\* The first node with an id, 0 if there is none (get_node_by_id).
NodeById(t, id) ==
  LET found == {i \in DOMAIN t : t[i].id = id}
  IN IF found = {} THEN 0 ELSE CHOOSE i \in found : \A j \in found : i <= j

--------------------------------------------------------------------------------
(* What a node is                                                              *)

\* The last action step has an observation.
Observed(n) == n.steps > 0 /\ n.done = n.steps

\* A root without action steps counts as executed.
Executed(t, i) == Observed(t[i]) \/ (i = 1 /\ t[i].steps = 0)

Terminal(n) == n.error \/ n.terminal \/ (Observed(n) /\ n.fin)

FullyExpanded(t, i) ==
  Cardinality(ChildrenOf(t, i)) >= (IF t[i].max = 0 THEN 1 ELSE t[i].max)

Expandable(t, i) == ~Terminal(t[i]) /\ ~FullyExpanded(t, i) /\ ~t[i].duplicate

ExpandableNodes(t) == {i \in DOMAIN t : Expandable(t, i)}

FinishedNodes(t) == {i \in DOMAIN t : Leaf(t, i) /\ Terminal(t[i])}

--------------------------------------------------------------------------------
(* Changes                                                                     *)

\* The position the next child of the node at p will have.
ChildPosition(t, p) == p + Cardinality(Descendants(t, p)) + 1

AddChild(t, p, n) ==
  LET at == ChildPosition(t, p)
  IN SubSeq(t, 1, at - 1) \o <<[n EXCEPT !.depth = t[p].depth + 1]>> \o SubSeq(t, at, Len(t))

\* children = []
DropChildren(t, p) ==
  SubSeq(t, 1, p) \o SubSeq(t, ChildPosition(t, p), Len(t))

\* Node.reset: the action steps go, or only their observations.
ResetFields(n, rebuild) ==
  [NewNode(n.id, n.depth, n.max) EXCEPT !.steps = IF rebuild THEN 0 ELSE n.steps]

ResetNode(t, p, rebuild) ==
  [DropChildren(t, p) EXCEPT ![p] = ResetFields(@, rebuild)]

\* Node.clone: the copy is appended to the parent's children first and then
\* numbered by the size of the tree it is already part of.
CloneNode(t, p) == AddChild(t, ParentOf(t, p), [t[p] EXCEPT !.id = Len(t) + 1])

\* agent/search_tree._backpropagate: the node and its ancestors are visited.
Visit(t, p) ==
  [i \in DOMAIN t |-> IF i \in PathTo(t, p) THEN [t[i] EXCEPT !.visits = @ + 1] ELSE t[i]]

--------------------------------------------------------------------------------
(* Saving and loading: dump_as_list writes the nodes in order, each with the   *)
(* id of its parent; _reconstruct_from_list collects them in a dictionary by   *)
(* id and connects them again.                                                 *)

\* What the list holds for the node at i; a node whose observation is terminal
\* is loaded as terminal.
Entry(t, i) ==
  [node |-> [t[i] EXCEPT !.terminal = @ \/ t[i].fin],
   parent |-> IF i = 1 THEN -1 ELSE t[ParentOf(t, i)].id]

\* Where the keys of the dictionary were first met, which is their order.
FirstMet(t) == {i \in DOMAIN t : \A j \in 1 .. i - 1 : t[j].id # t[i].id}

\* The last entry written under a key is the one that stays.
EntryOf(t, id) == Entry(t, CHOOSE i \in DOMAIN t :
  t[i].id = id /\ \A j \in DOMAIN t : t[j].id = id => j <= i)

\* The keys whose nodes are connected to the one with the key first met at i.
Connected(t, i) == {j \in FirstMet(t) : EntryOf(t, t[j].id).parent = t[i].id}

\* Numbers in their order.
InOrder(S) == [k \in 1 .. Cardinality(S) |-> CHOOSE i \in S : Cardinality({j \in S : j <= i}) = k]

\* The tree below the node with a key, as far down as `fuel': a node that is its
\* own ancestor is out of the root's reach.
Below(t, i, fuel, lower) ==
  <<[EntryOf(t, t[i].id).node EXCEPT !.depth = Len(t) - fuel]>> \o
  (IF fuel = 0 THEN <<>>
   ELSE LET kids == InOrder(Connected(t, i))
        IN FlattenSeq([k \in DOMAIN kids |-> lower[kids[k]]]))

Load(t) ==
  LET below[fuel \in 0 .. Len(t)] ==
        [i \in FirstMet(t) |-> Below(t, i, fuel, IF fuel = 0 THEN <<>> ELSE below[fuel - 1])]
  IN below[Len(t)][1]

================================================================================
