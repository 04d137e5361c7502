--------------------------- MODULE SpecialistLoop ---------------------------
(***************************************************************************)
(* The inside of one specialist superstep (app/agents/base.py): the model   *)
(* asks for tools, every request is answered, and when it asks for no more  *)
(* or has had its rounds the conversation is summarised into one finding.   *)
(* Investigation sees all this as the one action RunSpecialist.             *)
(*                                                                         *)
(* The model may ask for several tools in one answer, for tools that do not *)
(* exist, that fail or whose arguments cannot be parsed, and may summarise  *)
(* badly.  What a tool computes is left out: a request is what becomes of   *)
(* it, and its id is its place in the answer that made it.                  *)
(***************************************************************************)
EXTENDS Schemas, FiniteSets, SequencesExt

CONSTANTS Route,               \* the specialist at work
          MaxToolIterations,   \* MAX_TOOL_ITERATIONS
          MaxRequests,         \* bound: the tools asked for in one answer
          None

ASSUME SpecialistAssumption ==
  /\ Route \in Specialists
  /\ MaxToolIterations \in Nat \ {0}
  /\ MaxRequests \in Nat

VARIABLES messages,            \* the conversation after the two opening prompts
          todo,                \* requests of the last answer still to be answered
          iteration,           \* rounds begun
          attempts,            \* summaries that failed their schema
          phase,               \* where run_specialist stands
          finding              \* the Finding it returns

vars == <<messages, todo, iteration, attempts, phase, finding>>

\* "parsed" requests are tool_calls, run or refused by execute_tool_call;
\* "unparsable" ones are invalid_tool_calls.
Request == {"parsed", "unparsable"}

Requests == UNION {[1..n -> Request] : n \in 0..MaxRequests}

Message == [role : {"assistant"}, requests : Requests]
             \cup [role : {"tool"}, answers : 1..MaxRequests]

TypeOK ==
  /\ messages \in Seq(Message)
  /\ todo \in Seq(1..MaxRequests)
  /\ iteration \in 0..MaxToolIterations
  /\ attempts \in 0..2
  /\ phase \in {"asking", "answering", "summarising", "returned", "raised"}
  /\ finding \in {None} \cup [agent : Specialists, assessed_risk : RiskLevel,
                              degraded : BOOLEAN]

Init ==
  /\ messages = <<>> /\ todo = <<>>
  /\ iteration = 0 /\ attempts = 0
  /\ phase = "asking"
  /\ finding = None

\* The ids of the requests of one kind, in the order they were made.
Ids(requests, kind) ==
  LET ids[i \in 0..Len(requests)] ==
        IF i = 0 THEN <<>>
        ELSE IF requests[i] = kind THEN Append(ids[i - 1], i) ELSE ids[i - 1]
  IN ids[Len(requests)]

BugParsedOnly(requests) == Ids(requests, "parsed")

\* The tool calls first, then the ones whose arguments could not be parsed.
InAnswerOrder(requests) == Ids(requests, "parsed") \o Ids(requests, "unparsable")

\* bound.invoke: the next round, the last one if the model asks for nothing.
Ask ==
  /\ phase = "asking"
  /\ \E requests \in Requests :
       /\ messages' = Append(messages, [role |-> "assistant", requests |-> requests])
       /\ todo' = InAnswerOrder(requests)
       /\ phase' = IF requests = <<>> THEN "summarising" ELSE "answering"
  /\ iteration' = iteration + 1
  /\ UNCHANGED <<attempts, finding>>

\* execute_tool_call or invalid_tool_call_message: a result or an error, always
\* one ToolMessage under the id of the request.
Answer ==
  /\ phase = "answering" /\ todo # <<>>
  /\ messages' = Append(messages, [role |-> "tool", answers |-> Head(todo)])
  /\ todo' = Tail(todo)
  /\ UNCHANGED <<iteration, attempts, phase, finding>>

BugOneRoundTooMany ==
  /\ phase = "answering" /\ todo = <<>>
  /\ phase' = IF iteration <= MaxToolIterations THEN "asking" ELSE "summarising"
  /\ UNCHANGED <<messages, todo, iteration, attempts, finding>>

\* The round is over.  At the cap the rounds end with the last one answered.
EndRound ==
  /\ phase = "answering" /\ todo = <<>>
  /\ phase' = IF iteration < MaxToolIterations THEN "asking" ELSE "summarising"
  /\ UNCHANGED <<messages, todo, iteration, attempts, finding>>

BugKeepsTheClaim(claimed) == claimed

\* Provenance: a summary filed under another specialist's name is corrected.
Author(claimed) == Route

\* summariser.invoke answers with a valid Finding.
Summarise ==
  /\ phase = "summarising" /\ attempts < 2
  /\ \E claimed \in Specialists, risk \in RiskLevel :
       finding' = [agent |-> Author(claimed), assessed_risk |-> risk,
                   degraded |-> FALSE]
  /\ phase' = "returned"
  /\ UNCHANGED <<messages, todo, iteration, attempts>>

\* No object, or one that fails validation: one corrective retry.
SummaryFails ==
  /\ phase = "summarising" /\ attempts < 2
  /\ attempts' = attempts + 1
  /\ UNCHANGED <<messages, todo, iteration, phase, finding>>

BugFallsOffTheEnd ==
  /\ phase = "summarising" /\ attempts = 2
  /\ phase' = "returned"
  /\ UNCHANGED <<messages, todo, iteration, attempts, finding>>

\* Both failed: a LOW finding marked incomplete, so that the case goes on.
Degrade ==
  /\ phase = "summarising" /\ attempts = 2
  /\ finding' = [agent |-> Route, assessed_risk |-> "LOW", degraded |-> TRUE]
  /\ phase' = "returned"
  /\ UNCHANGED <<messages, todo, iteration, attempts>>

\* The provider fails in a model call: not a ValueError, so it leaves the node.
ProviderFails ==
  /\ \/ phase = "asking"
     \/ phase = "summarising" /\ attempts < 2
  /\ phase' = "raised"
  /\ UNCHANGED <<messages, todo, iteration, attempts, finding>>

Over == phase \in {"returned", "raised"} /\ UNCHANGED vars

Run == Ask \/ Answer \/ EndRound \/ Summarise \/ SummaryFails \/ Degrade \/ ProviderFails

Next == Run \/ Over

Spec == Init /\ [][Next]_vars

\* The loops of run_specialist and _summarise run until they end.
FairSpec == Spec /\ WF_vars(Run)

-----------------------------------------------------------------------------

\* The requests an assistant message at i made are answered by the messages right
\* behind it: one each, under its own id, before anything else is said.
AnsweredAt(i) ==
  LET n == Len(messages[i].requests) IN
    /\ i + n <= Len(messages)
    /\ \A k \in (i + 1)..(i + n) : messages[k].role = "tool"
    /\ {messages[k].answers : k \in (i + 1)..(i + n)} = 1..n
    /\ i + n < Len(messages) => messages[i + n + 1].role = "assistant"

\* "OpenAI and Anthropic both reject" a conversation with an unanswered tool call
\* (base.py, invalid_tool_call_message): no model is called on one, not after a
\* round of mixed requests and not after the round that hit the cap.
NoCallLeftUnanswered ==
  phase \in {"asking", "summarising"} =>
    \A i \in DOMAIN messages : messages[i].role = "assistant" => AnsweredAt(i)

\* What the graph is handed is the specialist's own, and a finding made up in
\* its place is LOW and marked, and never covers a summary that was valid.
FindingIsItsOwn ==
  finding # None =>
    /\ finding.agent = Route
    /\ finding.degraded => finding.assessed_risk = "LOW" /\ attempts = 2

\* Unless a provider fails, the graph gets its finding, whatever the model asks
\* for and however badly it summarises.
GetsItsFinding == <>(finding # None \/ phase = "raised")
=============================================================================
