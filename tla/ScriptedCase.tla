---------------------------- MODULE ScriptedCase ----------------------------
(***************************************************************************)
(* An investigation as the command line runs it without an API key          *)
(* (app/main.py with LLM_PROVIDER=stub): the graph of Investigation, with    *)
(* the scripted model of app/core/stub_llm.py in the place of the arbitrary *)
(* one and a caller that, with --auto-approve, answers the gate itself.      *)
(*                                                                         *)
(* The script reads the case from the prompt that app/agents/context.py      *)
(* renders: the query, and the findings so far by their author.  It never   *)
(* errs, and this module has no action for a guardrail that overrules it: a  *)
(* script in conflict with one would be stuck.                               *)
(***************************************************************************)
EXTENDS Investigation

CONSTANT DemoReviewer      \* the name --auto-approve signs with

ASSUME DemoAssumption == DemoReviewer \in Approvers

\* GraphRecursionError is left out below: with this allowance no case ends in it
\* (RecursionLimitNeverStrikes).
ASSUME AllowanceAssumption == LimitCoversBudget

VARIABLES
  request,                 \* what the case asks for and what is there to find
  auto_approve             \* the --auto-approve switch

scriptedVars == <<vars, request, auto_approve>>

\* in_scope: some word of COMPLIANCE_VOCABULARY is in the query.  known: the
\* customer is in the repository, without which the three tools that look one up
\* answer with an error.  The flags are whether the profile and the activity
\* give rise to signals; score_fits, whether the rule engine's answer is within
\* MAX_TOOL_RESULT_CHARS, beyond which it is cut and no longer JSON.
Request ==
  {r \in [in_scope : BOOLEAN, known : BOOLEAN, sanctions_hit : BOOLEAN,
          profile_flagged : BOOLEAN, activity_flagged : BOOLEAN,
          risk_level : RiskLevel, score_fits : BOOLEAN] :
     r.sanctions_hit => r.profile_flagged /\ r.risk_level = "HIGH"}

ScriptedInit ==
  /\ Init
  /\ request \in Request
  /\ auto_approve \in BOOLEAN

-----------------------------------------------------------------------------
(* The script.                                                             *)

\* _ROUTE_SEQUENCE
RouteSequence == <<"CUSTOMER", "TRANSACTION", "FRAUD", "POLICY">>

\* What the evidence block of the prompt does not name yet, by place in sequence.
Missing == {i \in DOMAIN RouteSequence : RouteSequence[i] \notin Collected}

NothingToDo == (findings = <<>> /\ ~request.in_scope) \/ Missing = {}

BugStopsAtHigh ==
  IF NothingToDo \/ (findings # <<>> /\ Last(findings).assessed_risk = "HIGH")
  THEN "FINISH" ELSE RouteSequence[Min(Missing)]

\* _decide_route: nothing to do off topic; else the first in sequence that is
\* not in the evidence block.
DecideRoute == IF NothingToDo THEN "FINISH" ELSE RouteSequence[Min(Missing)]

\* _build_finding, on the answer of the specialist's first tool; LOW without a
\* readable one, and for the policies always.
AssessedRisk(agent) ==
  CASE ~request.known         -> "LOW"
    [] agent = "CUSTOMER"     -> IF request.profile_flagged THEN "MEDIUM" ELSE "LOW"
    [] agent = "TRANSACTION"  -> IF request.activity_flagged THEN "MEDIUM" ELSE "LOW"
    [] agent = "FRAUD"        -> IF request.score_fits THEN request.risk_level ELSE "LOW"
    [] agent = "POLICY"       -> "LOW"

-----------------------------------------------------------------------------
(* The graph under the script, and its caller.                             *)

Unchanged == UNCHANGED <<request, auto_approve>>

ScriptedSupervisor ==
  /\ SupervisorFollowsModel
  /\ decisions' = Append(decisions, [next_agent |-> DecideRoute, basis |-> "model"])
  /\ Unchanged

ScriptedBudgetEnds == SupervisorOutOfBudget /\ Unchanged

ScriptedSpecialist(agent) ==
  /\ RunSpecialist(agent)
  /\ findings' = Append(findings, [agent |-> agent, assessed_risk |-> AssessedRisk(agent)])
  /\ Unchanged

\* _build_report asks for a SAR exactly when the risk is HIGH.
ScriptedReport == FileReport(DeriveOverallRisk(findings) = "HIGH") /\ Unchanged

ScriptedGraph == (Intake \/ PauseForApproval \/ RecordApproval \/ Return) /\ Unchanged

\* _run_one: the outcome was printed as awaiting approval.
AutoApprove ==
  /\ auto_approve
  /\ Resume
  /\ reply' = [approved |-> TRUE, approver |-> DemoReviewer]
  /\ Unchanged

\* _run_one is done with the case, which may stay behind at the gate.
CommandEnds ==
  /\ invocation = "returned" \/ (invocation = "paused" /\ ~auto_approve)
  /\ UNCHANGED scriptedVars

ScriptedStep ==
  \/ ScriptedGraph \/ ScriptedSupervisor \/ ScriptedBudgetEnds
  \/ \E agent \in Specialists : ScriptedSpecialist(agent)
  \/ ScriptedReport \/ AutoApprove

\* One thread runs the graph and the command around it.
ScriptedSpec == /\ ScriptedInit
                /\ [][ScriptedStep \/ CommandEnds]_scriptedVars
                /\ WF_scriptedVars(ScriptedStep)

-----------------------------------------------------------------------------
(* What the demonstration demonstrates.                                    *)

ScriptedTypeOK == TypeOK /\ request \in Request /\ auto_approve \in BOOLEAN

\* "Visited every specialist in a defensible order", "no guardrail had to
\* intervene" (tests/test_graph.py): under any budget the script consults the
\* specialists in sequence, once each and as far as the budget goes, none off
\* topic; it is never overruled but by the budget; and a customer under
\* sanctions whose score can be read leaves only with a decision on record,
\* once the budget reaches the risk score.
ScriptIsDefensible ==
  /\ IsPrefix(route_history, RouteSequence)
  /\ report # None => Len(route_history) = IF ~request.in_scope THEN 0
                                          ELSE IF MaxSupervisorSteps < 4
                                          THEN MaxSupervisorSteps ELSE 4
  /\ guardrail_events # <<>> => Len(decisions) > MaxSupervisorSteps
  /\ ( /\ RequireApproval /\ MaxSupervisorSteps >= 3
       /\ request.in_scope /\ request.known
       /\ request.sanctions_hit /\ request.score_fits
       /\ invocation = "returned" ) => approval # None

\* The command always comes to its end: with --auto-approve the case is returned,
\* a HIGH one approved by the demo reviewer, and without it a HIGH case stops at
\* the gate "as it should" (app/main.py) and every other one is returned.
CommandConcludes ==
  <> \/ /\ invocation = "returned"
        /\ approval # None <=> auto_approve /\ report.risk_level = "HIGH"
        /\ approval # None => approval.approver = DemoReviewer
     \/ /\ invocation = "paused" /\ ~auto_approve
        /\ report.risk_level = "HIGH"
=============================================================================
