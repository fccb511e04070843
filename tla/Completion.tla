------------------------------- MODULE Completion ------------------------------
(***************************************************************************)
(* One completion (create_completion in completion/base.py): requests to a *)
(* model until one is answered with something valid.  Two retry loops are  *)
(* nested: a request that the provider does not serve is sent again, up to *)
(* MaxRequests times, and an answer that is not valid is added to the      *)
(* messages with what is wrong with it, up to MaxValidations times.  An    *)
(* invocation records every attempt with its usage; both loops enter and   *)
(* leave it as a context manager, one inside of the other.                 *)
(***************************************************************************)
EXTENDS Integers, Sequences, FiniteSets, SequencesExt

CONSTANTS
  Args,           \* what a tool may be called with
  ValidArgs,      \* what its schema accepts
  MaxCalls,       \* bound on the tool calls of an answer
  MaxValidations, \* answers that are looked at, three in the code
  MaxRequests     \* requests for each of them, ten in the code

ASSUME CompletionAssumption ==
  /\ ValidArgs \subseteq Args
  /\ {MaxCalls, MaxValidations, MaxRequests} \subseteq Nat \ {0}

VARIABLES
  format,       \* whether the model answers with "tools" or "json", and is checked after
  conversation, \* the messages of the next request
  invocation,   \* its attempts, and whether one is under way
  validations,  \* answers looked at, the one that is awaited included
  tries,        \* requests sent for it
  phase,        \* where the completion is, or how it ended
  sent, paid    \* history: requests that were sent, and that were answered

completionVars ==
  <<format, conversation, invocation, validations, tries, phase, sent, paid>>

Formats == [kind : {"tools", "json"}, checked : BOOLEAN]

\* A message, with the tool calls that it makes or answers.
Said(role, calls) == [role |-> role, calls |-> calls]

\* The tool calls of an answer: the model may make up a name.
CallLists == SeqOf([known : BOOLEAN, args : Args], MaxCalls)

\* What the model may answer: calls of tools, a text, nothing but its thoughts, or nothing.
Answers ==
  [kind : {"calls"}, calls : CallLists \ {<<>>}] \cup
  [kind : {"valid text", "other text", "thoughts", "nothing"}, calls : {<<>>}]

--------------------------------------------------------------------------------
(* The invocation                                                              *)

\* __enter__ makes an attempt, which replaces the one under way.
Enter(inv) == [inv EXCEPT !.current = TRUE]

\* (Mutant: the attempt is still the current one for the outer of the two.)
Exit_Current(inv, attempt) ==
  IF inv.current THEN [inv EXCEPT !.attempts = Append(@, attempt)] ELSE inv

\* __exit__ records the attempt under way, if there is one.
Exit(inv, attempt) ==
  IF inv.current
  THEN [inv EXCEPT !.attempts = Append(@, attempt), !.current = FALSE]
  ELSE inv

Served == [success |-> TRUE, paid |-> TRUE]
Failed == [success |-> FALSE, paid |-> FALSE]

--------------------------------------------------------------------------------
(* Validation                                                                  *)

\* A call of a tool with the arguments of an earlier call, of whichever tool.
Duplicate(calls, i) ==
  calls[i].known /\ \E k \in 1..i - 1 : calls[k].known /\ calls[k].args = calls[i].args

\* The calls that are answered with an error.  Duplicates are passed over.
Invalid(calls) ==
  {i \in DOMAIN calls :
     ~Duplicate(calls, i) /\ (~calls[i].known \/ calls[i].args \notin ValidArgs)}

Outputs(calls) ==
  {i \in DOMAIN calls : calls[i].known /\ ~Duplicate(calls, i) /\ calls[i].args \in ValidArgs}

Id(i) == <<validations, i>>

\* The messages that answer the calls of the tools that are invalid, one by one.
ErrorsOf(calls) ==
  FlattenSeq([i \in DOMAIN calls |->
                IF Duplicate(calls, i) THEN <<>> ELSE <<Said("tool", {Id(i)})>>])

\* Without messages of its own, an error answers the first call, or is what the user says.
ErrorOf(calls) ==
  <<IF calls = <<>> THEN Said("user", {}) ELSE Said("tool", {Id(1)})>>

\* What the model said, unless it is nothing, and what is wrong with it.
Extended(answer, errors) ==
  LET said == Said("assistant", {Id(i) : i \in DOMAIN answer.calls})
  IN  conversation \o (IF answer.kind = "thoughts" THEN <<>> ELSE <<said>>) \o errors

--------------------------------------------------------------------------------

CompletionInit ==
  /\ format \in Formats
  /\ conversation = <<Said("system", {}), Said("user", {})>>
  /\ invocation = [attempts |-> <<>>, current |-> FALSE]
  /\ validations = 1 /\ tries = 0 /\ phase = "ready"
  /\ sent = 0 /\ paid = 0

\* A request is sent.  The first one for an answer enters the invocation twice.
Send ==
  /\ phase = "ready" /\ phase' = "waiting"
  /\ invocation' = IF tries = 0 THEN Enter(Enter(invocation)) ELSE Enter(invocation)
  /\ tries' = tries + 1 /\ sent' = sent + 1
  /\ UNCHANGED <<format, conversation, validations, paid>>

\* Both of the loops leave the invocation.
LeaveBoth(attempt) == invocation' = Exit(Exit(invocation, attempt), attempt)

\* The provider cannot be reached, or limits the rate of requests.
Unavailable ==
  /\ phase = "waiting"
  /\ IF tries < MaxRequests
     THEN phase' = "ready" /\ invocation' = Exit(invocation, Failed)
     ELSE phase' = "failed" /\ LeaveBoth(Failed)
  /\ UNCHANGED <<format, conversation, validations, tries, sent, paid>>

\* Any other error of the request is final, and so is the cancellation of the job.
Declined ==
  /\ phase = "waiting" /\ phase' = "failed" /\ LeaveBoth(Failed)
  /\ UNCHANGED <<format, conversation, validations, tries, sent, paid>>

\* CompletionRetryError: the model is asked again, unless it was asked often enough.
Retry(answer, errors) ==
  /\ conversation' = Extended(answer, errors) /\ LeaveBoth(Served)
  /\ IF validations < MaxValidations
     THEN phase' = "ready" /\ validations' = validations + 1 /\ tries' = 0
     ELSE phase' = "rejected" /\ UNCHANGED <<validations, tries>>

\* The end without a retry.
Settle(how) ==
  phase' = how /\ LeaveBoth(Served) /\ UNCHANGED <<conversation, validations, tries>>

\* What the schema accepts may be too much for who asked.
Accept(answer) ==
  \/ Settle("completed")
  \/ format.checked /\ (answer.kind = "calls" => Outputs(answer.calls) # {})
     /\ Retry(answer, ErrorOf(answer.calls))

\* One valid call is enough; without any, calls that are all invalid are answered.
ValidateCalls(answer) ==
  IF Invalid(answer.calls) = DOMAIN answer.calls
  THEN Retry(answer, ErrorsOf(answer.calls))
  ELSE Accept(answer)

\* The model answers.
Answer(answer) ==
  /\ phase = "waiting" /\ paid' = paid + 1
  /\ answer.kind = "calls" => format.kind = "tools"
  /\ CASE answer.kind = "nothing" -> Settle("rejected")
       [] answer.kind = "calls" -> ValidateCalls(answer)
       [] answer.kind = "valid text" /\ format.kind = "json" -> Accept(answer)
       [] OTHER -> Retry(answer, ErrorOf(<<>>))
  /\ UNCHANGED <<format, sent>>

CompletionNext ==
  \/ Send \/ Unavailable \/ Declined
  \/ \E answer \in Answers : Answer(answer)

CompletionSpec == CompletionInit /\ [][CompletionNext]_completionVars

--------------------------------------------------------------------------------
(* Properties                                                                  *)

CompletionTypeOK ==
  /\ format \in Formats
  /\ \A i \in DOMAIN conversation :
       conversation[i].role \in {"system", "user", "assistant", "tool"}
  /\ invocation.current = (phase = "waiting")
  /\ validations \in 1..MaxValidations /\ tries \in 0..MaxRequests
  /\ phase \in {"ready", "waiting", "completed", "rejected", "failed"}
  /\ sent \in 0..MaxValidations * MaxRequests /\ paid \in 0..sent

\* The invocation that a node or an error carries has one attempt for each request that was
\* sent, however it ended, and the usage of each answer once: the cost of a flow is their
\* sum, and its limit stops the flow.
AttemptsCounted ==
  /\ sent = Len(invocation.attempts) + (IF invocation.current THEN 1 ELSE 0)
  /\ paid = Cardinality({i \in DOMAIN invocation.attempts : invocation.attempts[i].paid})

AnsweredAfter(i) ==
  UNION {conversation[k].calls : k \in {k \in i + 1..Len(conversation) :
                                          conversation[k].role = "tool"}}

\* A request that follows an invalid answer answers all of its tool calls, which providers
\* insist on, although duplicates are passed over.  Only an error that is found after the
\* validation answers no call but the first.
CallsAnswered ==
  phase = "waiting" =>
    \A i \in DOMAIN conversation :
      /\ conversation[i].role = "assistant"
      /\ format.checked => Cardinality(conversation[i].calls) = 1
      => conversation[i].calls \subseteq AnsweredAfter(i)
================================================================================
