----------------------------- MODULE MessageHistory -----------------------------
(***************************************************************************)
(* The messages that a model is shown of a trajectory                      *)
(* (moatless/message_history/message_history.py): each node gives a user   *)
(* message, an assistant message that calls tools and one tool message per *)
(* answered call; when they exceed the token limit some are selected, and  *)
(* what the selection has torn apart is mended.  A text is a number, its   *)
(* size in tokens; texts of one size are the same text.  The trajectory    *)
(* grows node by node, and is shown at every size.                         *)
(***************************************************************************)
EXTENDS Naturals, Sequences, SequencesExt, FiniteSetsExt

CONSTANTS
  Texts,          \* sizes of user and assistant texts; 0 stands for none
  StepLists,      \* the action steps of a node: sequences of [answer |-> size], 0 if unanswered
  MaxTokens,      \* max_tokens
  MaxObservation, \* max_tokens_per_observation
  MaxNodes        \* bound on the length of the trajectory

ASSUME HistoryAssumption ==
  /\ Texts \subseteq Nat \ {0} /\ StepLists \subseteq Seq([answer : Nat])
  /\ <<>> \in StepLists /\ MaxTokens \in Nat

VARIABLE trajectory \* the nodes from the root on

NodeData == [user : Texts \cup {0}, text : Texts \cup {0}, steps : StepLists]

HistoryTypeOK == trajectory \in Seq(NodeData)

HistoryInit ==
  \E t \in Texts : trajectory = <<[user |-> t, text |-> 0, steps |-> <<>>]>>

\* The agent adds a node; one that a model answered with nothing says nothing.
AddTurn ==
  /\ Len(trajectory) < MaxNodes
  /\ \E n \in NodeData : trajectory' = Append(trajectory, n)

HistoryNext == AddTurn

HistorySpec == HistoryInit /\ [][HistoryNext]_trajectory

--------------------------------------------------------------------------------
(* The messages of a node (_process_single_node)                               *)

UserMessage(text) == [role |-> "user", text |-> text, calls |-> {}, call |-> 0]

AssistantMessage(text, calls) ==
  [role |-> "assistant", text |-> text, calls |-> calls, call |-> 0]

ToolMessage(call, text) == [role |-> "tool", text |-> text, calls |-> {}, call |-> call]

\* The size of a message; a call counts as one token.
Tokens(m) == m.text + Cardinality(m.calls)

TokensOf(messages) ==
  LET sum[i \in 0..Len(messages)] == IF i = 0 THEN 0 ELSE sum[i - 1] + Tokens(messages[i])
  IN sum[Len(messages)]

\* The summary of an observation is one token long; only the last node that has
\* acted shows long observations in full.
Shown(answer, isLast) == IF ~isLast /\ answer > MaxObservation THEN 1 ELSE answer

\* Calls are numbered through the trajectory: the first of the node is number k + 1.  A
\* step without an observation has no answer.
MessagesOf(n, k, isLast) ==
  LET calls == {k + i : i \in 1..Len(n.steps)}
      answer(i) == ToolMessage(k + i, Shown(n.steps[i].answer, isLast))
      answers == [i \in 1..Len(n.steps) |->
                    IF n.steps[i].answer # 0 THEN <<answer(i)>> ELSE <<>>]
  IN (IF n.user # 0 THEN <<UserMessage(n.user)>> ELSE <<>>)
     \o (IF n.text # 0 \/ n.steps # <<>>
         THEN <<AssistantMessage(n.text, calls)>> \o FlattenSeq(answers)
         ELSE <<>>)

LastActed(nodes) == Max({0} \cup {i \in 1..Len(nodes) : nodes[i].steps # <<>>})

\* _generate_unlimited_messages, and the first part of _generate_token_limited_messages.
AllMessages(nodes) ==
  LET calls[i \in 0..Len(nodes)] == IF i = 0 THEN 0 ELSE calls[i - 1] + Len(nodes[i].steps)
  IN FlattenSeq([i \in 1..Len(nodes) |->
                   MessagesOf(nodes[i], calls[i - 1], i = LastActed(nodes))])

--------------------------------------------------------------------------------
(* Selection (_generate_token_limited_messages)                                *)

\* (Mutant: the tokens of what is kept are not taken off.)
Selected_Unspent(messages) ==
  {1} \cup {i \in 2..Len(messages) : Tokens(messages[i]) <= MaxTokens - Tokens(messages[1])}

\* The first message is kept; from the last one back each other is if it fits into
\* what is left, a smaller one behind a larger that did not fit too.
Selected(messages) ==
  LET n == Len(messages)
      left[i \in 2..(n + 1)] ==
        IF i = n + 1 THEN MaxTokens - Tokens(messages[1])
        ELSE LET rest == left[i + 1]
                 size == Tokens(messages[i])
             IN IF size <= rest THEN rest - size ELSE rest
  IN {1} \cup {i \in 2..n : Tokens(messages[i]) <= left[i + 1]}

\* sort(key=all_messages.index): a message counts as being where the first message
\* equal to it is.
PlaceOf(messages, i) == Min({j \in 1..Len(messages) : messages[j] = messages[i]})

Ordered(messages, kept) ==
  LET at(p) == {i \in kept : PlaceOf(messages, i) = p}
  IN FlattenSeq([p \in 1..Len(messages) |-> [k \in 1..Cardinality(at(p)) |-> messages[p]]])

--------------------------------------------------------------------------------
(* Mending: passes 1 and 2 of _generate_token_limited_messages                 *)

Calling(s, i) == s[i].role = "assistant" /\ s[i].calls # {}

\* The calls of an assistant message that are answered before the next one calls.
Fulfilled(s, i) ==
  {s[j].call : j \in {k \in (i + 1)..Len(s) :
     s[k].role = "tool" /\ \A h \in (i + 1)..k : ~Calling(s, h)}} \cap s[i].calls

AllAnswered(s, i) == Calling(s, i) /\ Fulfilled(s, i) = s[i].calls

\* The assistant message whose calls are valid at i: the last that is complete or
\* calls nothing, for one that is stripped leaves them as they are.
ValidAt(s, i) ==
  LET settles == {j \in 1..(i - 1) : /\ s[j].role = "assistant"
                                     /\ Calling(s, j) => AllAnswered(s, j)}
  IN IF settles = {} THEN {} ELSE s[Max(settles)].calls

Keeps(s, i) ==
  CASE s[i].role = "user" -> TRUE
    [] s[i].role = "assistant" -> (Calling(s, i) => AllAnswered(s, i) \/ s[i].text # 0)
    [] s[i].role = "tool" -> s[i].call \in ValidAt(s, i)

\* An assistant message with a call that has lost its answer loses its calls.
Stripped(s, i) ==
  IF Calling(s, i) /\ ~AllAnswered(s, i) THEN [s[i] EXCEPT !.calls = {}] ELSE s[i]

Mended(s) ==
  FlattenSeq([i \in 1..Len(s) |-> IF Keeps(s, i) THEN <<Stripped(s, i)>> ELSE <<>>])

\* A first message beyond the limit raises; else all messages if they fit, or a
\* mended selection.
Raises(messages) == TokensOf(messages) > MaxTokens /\ Tokens(messages[1]) > MaxTokens

Shortened(messages) ==
  IF TokensOf(messages) <= MaxTokens THEN messages
  ELSE Mended(Ordered(messages, Selected(messages)))

--------------------------------------------------------------------------------
(* Properties                                                                  *)

Fits(shown, all) == TokensOf(shown) <= MaxTokens /\ shown[1] = all[1]

\* A tool message answers a call of the assistant message that it follows.
AnswersACall(s, i) ==
  \E j \in 1..(i - 1) : s[i].call \in s[j].calls /\ \A h \in (j + 1)..(i - 1) : s[h].role = "tool"

\* Only a trajectory that is shown whole may have calls that its steps left unanswered.
LeftUnanswered(s, all) ==
  s = all /\ \E n \in Range(trajectory) : \E step \in Range(n.steps) : step.answer = 0

\* A history that the model's API accepts, at whatever size the trajectory is cut
\* down: within the limit and opening with the task, every tool message the answer
\* to a call just before it, and every call answered before the next message calls.
HistoryAccepted ==
  \A all \in {AllMessages(trajectory)} : ~Raises(all) =>
    \A s \in {Shortened(all)} :
      /\ Fits(s, all)
      /\ \A i \in 1..Len(s) : s[i].role = "tool" => AnswersACall(s, i)
      /\ \A i \in 1..Len(s) : Calling(s, i) => AllAnswered(s, i) \/ LeftUnanswered(s, all)
================================================================================
