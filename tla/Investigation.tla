---------------------------- MODULE Investigation ----------------------------
(***************************************************************************)
(* One investigation, as app/graph/build.py compiles it and LangGraph runs  *)
(* it: intake, then supervisor and specialists in turn until the supervisor *)
(* finishes, then the report and, for a HIGH verdict, the human gate.  Each *)
(* node is one action: LangGraph runs one node per superstep and writes its *)
(* updates to the channels when the node returns, or none if it raises.     *)
(*                                                                         *)
(* The models are the environment: a routing model may ask for any agent    *)
(* at any time or answer with something unusable, a specialist may assess   *)
(* any risk, a provider may fail in the middle of any node that calls it.   *)
(*                                                                         *)
(* A definition whose name starts with Bug is a plausible mistake in the    *)
(* code, written next to the definition it replaces when the properties are *)
(* tried against it; no specification refers to one.                        *)
(***************************************************************************)
EXTENDS Schemas, FiniteSets, SequencesExt

CONSTANTS
  MaxSupervisorSteps,   \* MAX_SUPERVISOR_STEPS: routing decisions per case
  MaxVisitsPerAgent,    \* MAX_VISITS_PER_AGENT: runs of one specialist
  RecursionLimit,       \* GRAPH_RECURSION_LIMIT: supersteps per invocation
  RequireApproval,      \* REQUIRE_APPROVAL_FOR_HIGH_RISK
  MaxKeyFindings,       \* the longest key_findings an InvestigationReport takes
  Approvers,            \* the people who may answer the gate
  System,               \* the "system" name a refused reply is filed under
  Malformed,            \* a reply that is not a HumanApproval
  None                  \* a channel nothing was written to

ASSUME LimitsAssumption ==
  /\ MaxSupervisorSteps \in Nat \ {0}
  /\ MaxVisitsPerAgent \in Nat \ {0}
  /\ RecursionLimit \in Nat
  /\ MaxKeyFindings \in Nat
  /\ RequireApproval \in BOOLEAN

ASSUME NamesAssumption ==
  /\ Malformed \notin HumanApproval(Approvers)
  /\ None \notin HumanApproval(Approvers \cup {System}) \cup {Malformed}

VARIABLES
  findings,             \* channel: what the specialists reported, append-only
  route_history,        \* channel: who ran, append-only
  decisions,            \* channel: the decisions acted on, append-only
  guardrail_events,     \* channel: why the model was overruled, append-only
  step_count,           \* channel: routing decisions so far
  asked,                \* observed: calls of the routing model, also failed ones
  report,               \* channel: the report (overall_risk is its risk_level)
  approval,             \* channel: the human decision recorded
  status,               \* channel: what the case says of itself
  node,                 \* the node the next superstep runs
  invocation,           \* how graph.invoke stands or how it ended
  ticks,                \* supersteps this invocation has run
  reply                 \* the Command(resume=...) value being delivered

evidence == <<findings, route_history>>
trail == <<decisions, guardrail_events, step_count, asked>>
outcome == <<report, approval, status>>
vars == <<evidence, trail, outcome, node, invocation, ticks, reply>>

-----------------------------------------------------------------------------
(* State space.                                                            *)

Nodes == {"intake", "supervisor", "report", "human_approval", "END"}
           \cup Specialists

\* Where a decision came from: its model, the fallback for an unusable answer,
\* or a guardrail that overruled the model.
Decision == [next_agent : AgentRoute, basis : {"model", "fallback", "guardrail"}]

GuardrailEvent == {"STEP_BUDGET_EXHAUSTED", "ORDERING_VIOLATION", "LOOP_DETECTED"}

Report == [risk_level : RiskLevel, requires_sar_filing : BOOLEAN]

Approval == HumanApproval(Approvers \cup {System})

Replies == HumanApproval(Approvers) \cup {Malformed}

\* "provider_error", "schema_error" and "out_of_steps" are the exceptions that
\* leave graph.invoke: a provider failing, the fallback report failing its own
\* schema, GraphRecursionError.
Ended == {"returned", "provider_error", "schema_error", "out_of_steps"}

ASSUME NoneAssumption == None \notin Report \cup RiskLevel

TypeOK ==
  /\ findings \in Seq(Finding)
  /\ route_history \in Seq(Specialists)
  /\ decisions \in Seq(Decision)
  /\ guardrail_events \in Seq(GuardrailEvent)
  /\ step_count \in Nat /\ asked \in Nat
  /\ report \in Report \cup {None}
  /\ approval \in Approval \cup {None}
  /\ status \in {"running", "reported", "approved", "rejected"}
  /\ node \in Nodes
  /\ invocation \in {"running", "paused"} \cup Ended
  /\ ticks \in Nat
  /\ reply \in Replies \cup {None}

\* Counter(history)[agent].
Counter(history, agent) == Cardinality({i \in 1..Len(history) : history[i] = agent})

Visits(agent) == Counter(route_history, agent)

Collected == {findings[i].agent : i \in DOMAIN findings}

-----------------------------------------------------------------------------
(* The graph.                                                              *)

\* initial_state, handed to graph.invoke by run_investigation.
Init ==
  /\ findings = <<>> /\ route_history = <<>>
  /\ decisions = <<>> /\ guardrail_events = <<>>
  /\ step_count = 0 /\ asked = 0
  /\ report = None /\ approval = None
  /\ status = "running"
  /\ node = "intake"
  /\ invocation = "running"
  /\ ticks = 0
  /\ reply = None

\* LangGraph refuses the next superstep once the recursion limit is used up.
CanStep == invocation = "running" /\ ticks < RecursionLimit

\* One superstep: `here` runs to its end and `next` is scheduled.
Superstep(here, next) ==
  /\ CanStep
  /\ node = here
  /\ node' = next
  /\ ticks' = ticks + 1
  /\ UNCHANGED invocation

\* intake_node: finds the subject (not modelled); the case is running.
Intake ==
  /\ Superstep("intake", "supervisor")
  /\ status' = "running"
  /\ UNCHANGED <<evidence, trail, report, approval, reply>>

BugRouteFromState(agent) == agent

\* route_from_state over the fixed edge set of build_graph.
RouteFromState(agent) == IF agent = "FINISH" THEN "report" ELSE agent

\* The supervisor acts on a decision, recording it with what overruled it.
Dispatch(agent, basis, events) ==
  /\ Superstep("supervisor", RouteFromState(agent))
  /\ decisions' = Append(decisions, [next_agent |-> agent, basis |-> basis])
  /\ guardrail_events' = guardrail_events \o events
  /\ step_count' = step_count + 1
  /\ UNCHANGED <<evidence, outcome, reply>>

BugCountsTooLate == step_count > MaxSupervisorSteps

\* supervisor_node checks the budget before it pays for a model call.
OverBudget == step_count + 1 > MaxSupervisorSteps

\* _ask_llm, however its answer is taken.
AskModel == ~OverBudget /\ asked' = asked + 1

BugBudgetAfterTheCall ==
  /\ OverBudget
  /\ asked' = asked + 1
  /\ Dispatch("FINISH", "guardrail", <<"STEP_BUDGET_EXHAUSTED">>)

SupervisorOutOfBudget ==
  /\ OverBudget
  /\ UNCHANGED asked
  /\ Dispatch("FINISH", "guardrail", <<"STEP_BUDGET_EXHAUSTED">>)

BugAnyEvidenceWillDo(choice) == choice = "FRAUD" /\ findings = <<>>

\* apply_guardrails, rule 2: no risk score before there is activity data.
OutOfOrder(choice) == choice = "FRAUD" /\ "TRANSACTION" \notin Collected

BugOneVisitTooMany(choice) == Visits(choice) > MaxVisitsPerAgent

BugOneVisitTooFew(choice) == Visits(choice) + 1 >= MaxVisitsPerAgent

\* apply_guardrails, rule 3: no specialist is re-entered indefinitely.
Looping(choice) == Visits(choice) >= MaxVisitsPerAgent

\* The routing model's choice stands.  (Rule 1 of apply_guardrails, the budget
\* once more, is unreachable: supervisor_node has already taken that branch.)
SupervisorFollowsModel ==
  /\ AskModel
  /\ \E choice \in AgentRoute :
       /\ choice # "FINISH" => ~OutOfOrder(choice) /\ ~Looping(choice)
       /\ Dispatch(choice, "model", <<>>)

BugFallbackAsksAgain ==
  /\ AskModel
  /\ Superstep("supervisor", "supervisor")
  /\ UNCHANGED <<evidence, decisions, guardrail_events, step_count, outcome, reply>>

\* _ask_llm got nothing usable: finish rather than dispatch blindly.
SupervisorFallsBack ==
  /\ AskModel
  /\ Dispatch("FINISH", "fallback", <<>>)

SupervisorRedirects ==
  /\ AskModel
  /\ OutOfOrder("FRAUD")
  /\ Dispatch("TRANSACTION", "guardrail", <<"ORDERING_VIOLATION">>)

SupervisorBreaksLoop ==
  /\ AskModel
  /\ \E choice \in Specialists : ~OutOfOrder(choice) /\ Looping(choice)
  /\ Dispatch("FINISH", "guardrail", <<"LOOP_DETECTED">>)

BugClaimedAuthor(agent) ==
  /\ Superstep(agent, "supervisor")
  /\ \E finding \in Finding : findings' = Append(findings, finding)
  /\ route_history' = Append(route_history, agent)
  /\ UNCHANGED <<trail, outcome, reply>>

BugNoReducer(agent) ==
  /\ Superstep(agent, "supervisor")
  /\ findings' \in {<<[agent |-> agent, assessed_risk |-> r]>> : r \in RiskLevel}
  /\ route_history' = <<agent>>
  /\ UNCHANGED <<trail, outcome, reply>>

\* run_specialist_step: exactly one finding, under the specialist's own name.
\* A summary that fails validation twice is a LOW finding, one of these too.
RunSpecialist(agent) ==
  /\ Superstep(agent, "supervisor")
  /\ \E risk \in RiskLevel :
       findings' = Append(findings, [agent |-> agent, assessed_risk |-> risk])
  /\ route_history' = Append(route_history, agent)
  /\ UNCHANGED <<trail, outcome, reply>>

BugGateReadsOldStatus(risk) ==
  IF RequireApproval /\ risk = "HIGH" /\ status = "reported"
  THEN "human_approval" ELSE "END"

BugGateTakesMedium(risk) ==
  IF RequireApproval /\ risk # "LOW" THEN "human_approval" ELSE "END"

\* needs_human_approval, on the report just written.
EdgeAfterReport(risk) ==
  IF RequireApproval /\ risk = "HIGH" THEN "human_approval" ELSE "END"

\* The end of report_node: provenance, risk level and SAR flag are the graph's.
\* The writer may ask for a SAR on any case, the graph for every HIGH one.
FileReport(sar_claimed) ==
  LET risk == DeriveOverallRisk(findings) IN
    /\ Superstep("report", EdgeAfterReport(risk))
    /\ report' = [risk_level |-> risk,
                  requires_sar_filing |-> sar_claimed \/ risk = "HIGH"]
    /\ status' = "reported"
    /\ UNCHANGED <<evidence, trail, approval, reply>>

WriteReport == \E sar_claimed \in BOOLEAN : FileReport(sar_claimed)

\* The writer's answer is unusable and _fallback_report's own report fits.
WriteFallbackReport ==
  /\ Len(findings) <= MaxKeyFindings
  /\ FileReport(DeriveOverallRisk(findings) = "HIGH")

\* An exception leaves the node that runs: no channel is written and the
\* checkpoint before the node stays the last one.
NodeRaises(error) ==
  /\ CanStep
  /\ invocation' = error
  /\ UNCHANGED <<evidence, decisions, guardrail_events, step_count, outcome,
                 node, ticks, reply>>

\* _fallback_report builds an InvestigationReport too, outside the handler:
\* with too many findings, or too long an error text for its summary (whatever
\* the findings), it raises the ValidationError it was there to absorb.
FallbackReportInvalid ==
  /\ node = "report"
  /\ NodeRaises("schema_error")
  /\ UNCHANGED asked

\* A provider error is not a ValueError: nothing in the graph catches it.
ProviderFails ==
  /\ \/ node \in Specialists \cup {"report"} /\ UNCHANGED asked
     \/ node = "supervisor" /\ AskModel
  /\ NodeRaises("provider_error")

\* interrupt() raises on the first execution: the node has not completed.
PauseForApproval ==
  /\ CanStep
  /\ node = "human_approval" /\ reply = None
  /\ invocation' = "paused"
  /\ UNCHANGED <<evidence, trail, outcome, node, ticks, reply>>

\* graph.invoke(Command(resume=...)): a new invocation with a fresh allowance.
Resume ==
  /\ invocation = "paused"
  /\ reply' \in Replies
  /\ invocation' = "running"
  /\ ticks' = 0
  /\ UNCHANGED <<evidence, trail, outcome, node>>

BugMalformedNotHandled ==
  /\ Superstep("human_approval", "END")
  /\ reply \notin {None, Malformed}
  /\ approval' = reply /\ reply' = None
  /\ status' = IF reply.approved THEN "approved" ELSE "rejected"
  /\ UNCHANGED <<evidence, trail, report>>

\* human_approval_node runs again from its start and interrupt() now answers.
RecordApproval ==
  /\ Superstep("human_approval", "END")
  /\ reply # None
  /\ approval' = IF reply = Malformed
                 THEN [approved |-> FALSE, approver |-> System]
                 ELSE reply
  /\ status' = IF approval'.approved THEN "approved" ELSE "rejected"
  /\ reply' = None
  /\ UNCHANGED <<evidence, trail, report>>

Return ==
  /\ CanStep
  /\ node = "END"
  /\ invocation' = "returned"
  /\ UNCHANGED <<evidence, trail, outcome, node, ticks, reply>>

\* GraphRecursionError: LangGraph looks at the limit before anything else.
OutOfSteps ==
  /\ invocation = "running" /\ ticks >= RecursionLimit
  /\ invocation' = "out_of_steps"
  /\ UNCHANGED <<evidence, trail, outcome, node, ticks, reply>>

\* A case that ended stays as it is.
Over == invocation \in Ended /\ UNCHANGED vars

Supervise == \/ SupervisorOutOfBudget \/ SupervisorFollowsModel
             \/ SupervisorFallsBack \/ SupervisorRedirects
             \/ SupervisorBreaksLoop

\* What LangGraph does by itself once graph.invoke is called.
GraphStep == \/ Intake
             \/ Supervise
             \/ \E agent \in Specialists : RunSpecialist(agent)
             \/ WriteReport \/ WriteFallbackReport \/ FallbackReportInvalid
             \/ ProviderFails
             \/ PauseForApproval \/ RecordApproval
             \/ Return \/ OutOfSteps

Next == GraphStep \/ Resume \/ Over

Spec == Init /\ [][Next]_vars

\* invoke() loops until the graph stops; nothing obliges a person to answer.
FairSpec == Spec /\ WF_vars(GraphStep)
-----------------------------------------------------------------------------
(* What must hold whatever the models say.                                 *)

\* Risk is never scored before transaction evidence exists (ARCHITECTURE.md,
\* guardrails): every FRAUD run comes after some TRANSACTION run, although the
\* model may ask for FRAUD at any step.
ScoredOnEvidence ==
  \A i \in DOMAIN route_history : route_history[i] = "FRAUD" =>
    \E j \in 1..(i - 1) : route_history[j] = "TRANSACTION"

\* No specialist runs more often than MAX_VISITS_PER_AGENT, also when an
\* ordering override sends the case to a specialist the loop check never saw.
NoSpecialistLoops == \A agent \in Specialists : Visits(agent) <= MaxVisitsPerAgent

\* The audit trail explains the evidence: the i-th decision on file names the
\* i-th specialist that ran and the author of the i-th finding.  One decision at
\* most has no run behind it: the last, which names the specialist that is on its
\* way, or that failed, or finished the case.
AuditTrailReconstructs ==
  LET ran == Len(route_history) IN
    /\ Len(findings) = ran
    /\ \A i \in 1..ran : /\ findings[i].agent = route_history[i]
                        /\ decisions[i].next_agent = route_history[i]
    /\ Len(decisions) = IF node \in {"intake", "supervisor"} THEN ran ELSE ran + 1
    /\ node \notin {"intake", "supervisor"} =>
         decisions[ran + 1].next_agent = IF node \in Specialists THEN node ELSE "FINISH"

\* The budget is one of model calls: "a routing call must not be paid for and
\* discarded" (tests/test_regressions.py).  The routing model is called at most
\* MAX_SUPERVISOR_STEPS times, whatever became of its answers; the budget ends a
\* case only when it is spent to the last call, and without one more; and every
\* call but a failed one has its decision on file.
BudgetRespected ==
  LET forced == "STEP_BUDGET_EXHAUSTED" \in ToSet(guardrail_events)
      failed == invocation = "provider_error" /\ node = "supervisor"
  IN /\ asked <= MaxSupervisorSteps
     /\ forced => asked = MaxSupervisorSteps /\ Len(decisions) = asked + 1
     /\ ~forced => asked = Len(decisions) + (IF failed THEN 1 ELSE 0)

\* An overruled model leaves a trace and a reason: as many events as overrides,
\* and a FINISH the model did not ask for only with the budget spent or some
\* specialist at its limit.
OverridesExplained ==
  LET overrides == {i \in DOMAIN decisions : decisions[i].basis = "guardrail"} IN
    /\ Len(guardrail_events) = Cardinality(overrides)
    /\ (\E i \in overrides : decisions[i].next_agent = "FINISH") =>
         \/ Len(decisions) > MaxSupervisorSteps
         \/ \E agent \in Specialists : Visits(agent) = MaxVisitsPerAgent

\* The headline risk is reproducible from the evidence that is on file, which
\* cannot grow behind a written report; a HIGH case always carries the SAR flag.
VerdictFromEvidence ==
  report # None =>
    /\ IsHighest(report.risk_level, findings)
    /\ report.risk_level = "HIGH" => report.requires_sar_filing

\* One HIGH finding anywhere in the case is enough: the case does not conclude
\* without a recorded human decision, and "approved" needs a person who said so.
HighRiskNeedsHuman ==
  /\ ( /\ RequireApproval /\ invocation = "returned"
       /\ \E i \in DOMAIN findings : findings[i].assessed_risk = "HIGH" )
       => approval # None
  /\ status = "approved" => approval # None /\ approval.approved
  /\ approval # None => report # None /\ status \in {"approved", "rejected"}

\* The recursion limit is the second net (ARCHITECTURE.md, failure modes): with
\* two supersteps per routing decision and four more to open and close the
\* case, the step budget always ends the case first.
LimitCoversBudget == RecursionLimit >= 2 * MaxSupervisorSteps + 4

RecursionLimitNeverStrikes == LimitCoversBudget => invocation # "out_of_steps"

\* "Malformed structured output: ... a degraded valid object; investigation
\* continues" (ARCHITECTURE.md, failure modes): no answer of a model ends a case.
MalformedOutputNeverAborts == invocation # "schema_error"

\* Nothing written is rewritten: the append-only channels only grow, and a
\* report or a human decision, once recorded, stays as it was recorded.
RecordsAreFinal ==
  [][ /\ IsPrefix(findings, findings')
      /\ IsPrefix(route_history, route_history')
      /\ IsPrefix(decisions, decisions')
      /\ IsPrefix(guardrail_events, guardrail_events')
      /\ report # None => report' = report /\ findings' = findings
      /\ approval # None => approval' = approval ]_vars

\* However the models route the case, and whatever they make of their answers,
\* it comes to its report, unless an exception ends it first: no routing keeps
\* the specialists at it until the recursion limit stops the case without one.
ReachesItsReport ==
  LimitCoversBudget => <>(report # None \/ invocation \in {"provider_error", "schema_error"})

\* A reply delivered to a paused case ends up on record.
ReplyIsRecorded == (reply # None) ~> (approval # None)

-----------------------------------------------------------------------------
(* The promise of CaseFile, kept.                                          *)

Verdict == IF report = None THEN None ELSE report.risk_level

CaseFile == INSTANCE CaseFile WITH
  Approvals <- Approval,
  file <- findings,
  verdict <- Verdict,
  authorisation <- approval,
  closed <- invocation = "returned"

\* Whatever the graph does, a reader of the case file sees evidence filed,
\* one verdict drawn from all of it, and a HIGH one released after a decision.
ImplementsCaseFile == CaseFile!Spec
=============================================================================
