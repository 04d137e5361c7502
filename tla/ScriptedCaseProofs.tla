------------------------- MODULE ScriptedCaseProofs -------------------------
(***************************************************************************)
(* Proofs about ScriptedCase, for every budget, visit limit and setting of  *)
(* the gate: the scripted case is an Investigation, so what holds of every  *)
(* investigation holds of it, and the script keeps its own promise.         *)
(***************************************************************************)
EXTENDS ScriptedCase, InvestigationProofs, SequenceTheorems

-----------------------------------------------------------------------------
(* The scripted case is an investigation.                                  *)

LEMMA ScriptedStepIsStep ==
  ASSUME [ScriptedStep \/ CommandEnds]_scriptedVars
  PROVE  [Next]_vars
<1>1. CASE ScriptedGraph
  BY <1>1 DEF ScriptedGraph, Next, GraphStep
<1>2. CASE ScriptedSupervisor \/ ScriptedBudgetEnds
  BY <1>2 DEF ScriptedSupervisor, ScriptedBudgetEnds, Next, GraphStep, Supervise
<1>3. ASSUME NEW agent \in Specialists, ScriptedSpecialist(agent)
      PROVE  Next
  BY <1>3 DEF ScriptedSpecialist, Next, GraphStep
<1>4. CASE ScriptedReport
  <2>1. (DeriveOverallRisk(findings) = "HIGH") \in BOOLEAN
    OBVIOUS
  <2>2. WriteReport
    BY <1>4, <2>1 DEF ScriptedReport, WriteReport
  <2>3. QED
    BY <2>2 DEF Next, GraphStep
<1>5. CASE AutoApprove
  BY <1>5 DEF AutoApprove, Next
<1>6. CASE CommandEnds \/ UNCHANGED scriptedVars
  BY <1>6 DEF CommandEnds, scriptedVars
<1>7. QED
  BY <1>1, <1>2, <1>3, <1>4, <1>5, <1>6 DEF ScriptedStep

\* Every behaviour of the command line with the scripted model is one of the graph
\* under an arbitrary model and an arbitrary reviewer.
THEOREM ScriptedIsInvestigation == ScriptedSpec => Spec
<1>1. ScriptedInit => Init
  BY DEF ScriptedInit
<1>2. [ScriptedStep \/ CommandEnds]_scriptedVars => [Next]_vars
  BY ScriptedStepIsStep
<1>3. QED
  BY <1>1, <1>2, PTL DEF ScriptedSpec, Spec

-----------------------------------------------------------------------------
(* The script.                                                             *)

\* How many specialists the script consults when nobody stops it.
Expected == IF ~request.in_scope THEN 0
            ELSE IF MaxSupervisorSteps < 4 THEN MaxSupervisorSteps ELSE 4

\* The case has come as far in the sequence as it has findings, and each finding
\* is what the script makes of the request.
ScriptInv ==
  /\ request \in Request
  /\ Len(route_history) <= 4
  /\ \A i \in 1..Len(route_history) :
       /\ route_history[i] = RouteSequence[i]
       /\ findings[i].assessed_risk = AssessedRisk(RouteSequence[i])
  /\ ~request.in_scope => Len(route_history) = 0 /\ node \notin Specialists
  /\ node \in Specialists => /\ Len(route_history) < 4
                             /\ node = RouteSequence[Len(route_history) + 1]
  /\ node \in {"report", "human_approval", "END"} => Len(route_history) = Expected
  /\ guardrail_events # <<>> => Len(decisions) > MaxSupervisorSteps

LEMMA PrefixIfAlike ==
  ASSUME NEW S, NEW s \in Seq(S), NEW t \in Seq(S), Len(s) <= Len(t),
         \A i \in 1..Len(s) : s[i] = t[i]
  PROVE  IsPrefix(s, t)
<1> DEFINE a == SubSeq(s, 1, Len(s))
           b == SubSeq(t, 1, Len(s))
<1>1. Len(s) \in Nat /\ Len(t) \in Nat
  OBVIOUS
<1>2. /\ a \in Seq(S) /\ Len(a) = Len(s)
      /\ \A i \in 1..Len(s) : a[i] = s[i]
  BY <1>1
<1>3. /\ b \in Seq(S) /\ Len(b) = Len(s)
      /\ \A i \in 1..Len(s) : b[i] = t[i]
  BY <1>1
<1> HIDE DEF a, b
<1>4. a = b
  BY <1>2, <1>3, SeqEqual
<1>5. QED
  BY <1>4 DEF IsPrefix, a, b

LEMMA SequenceIsDistinct ==
  /\ Len(RouteSequence) = 4 /\ DOMAIN RouteSequence = 1..4
  /\ \A i \in 1..4 : RouteSequence[i] \in Specialists
  /\ \A i, j \in 1..4 : RouteSequence[i] = RouteSequence[j] => i = j
<1>1. /\ Len(RouteSequence) = 4 /\ DOMAIN RouteSequence = 1..4
      /\ RouteSequence[1] = "CUSTOMER" /\ RouteSequence[2] = "TRANSACTION"
      /\ RouteSequence[3] = "FRAUD" /\ RouteSequence[4] = "POLICY"
  BY DEF RouteSequence
<1>2. \A i \in 1..4 : i = 1 \/ i = 2 \/ i = 3 \/ i = 4
  OBVIOUS
<1>3. \A i \in 1..4 : RouteSequence[i] \in Specialists
  BY <1>1, <1>2 DEF Specialists
<1>4. ASSUME NEW i \in 1..4, NEW j \in 1..4, RouteSequence[i] = RouteSequence[j]
      PROVE  i = j
  <2>1. (i = 1 \/ i = 2 \/ i = 3 \/ i = 4) /\ (j = 1 \/ j = 2 \/ j = 3 \/ j = 4)
    BY <1>2
  <2>2. QED
    BY <1>1, <1>4, <2>1
<1>5. QED
  BY <1>1, <1>3, <1>4

\* What the script asks for next: the specialist after those already heard, which
\* is nobody off topic and nobody after the fourth.
LEMMA NextInSequence ==
  ASSUME TypeOK, AuditTrailReconstructs, ScriptInv
  PROVE  IF (Len(route_history) = 0 /\ ~request.in_scope) \/ Len(route_history) = 4
         THEN DecideRoute = "FINISH"
         ELSE DecideRoute = RouteSequence[Len(route_history) + 1]
<1> DEFINE k == Len(route_history)
<1>0. route_history \in Seq(Specialists) /\ findings \in Seq(Finding)
  BY DEF TypeOK
<1>1. k \in 0..4 /\ Len(findings) = k /\ DOMAIN findings = 1..k
  BY <1>0 DEF ScriptInv, AuditTrailReconstructs
<1>2. \A i \in 1..k : findings[i].agent = RouteSequence[i]
  BY DEF ScriptInv, AuditTrailReconstructs
<1>3. Missing = (k + 1)..4
  <2>1. \A i \in 1..4 : RouteSequence[i] \in Collected <=> i <= k
    <3> TAKE i \in 1..4
    <3>1. ASSUME i <= k  PROVE RouteSequence[i] \in Collected
      <4>1. i \in 1..k
        BY <1>1, <3>1
      <4>2. QED
        BY <1>1, <1>2, <4>1 DEF Collected
    <3>2. ASSUME RouteSequence[i] \in Collected  PROVE i <= k
      <4>1. PICK j \in 1..k : findings[j].agent = RouteSequence[i]
        BY <1>1, <3>2 DEF Collected
      <4>2. j \in 1..4 /\ RouteSequence[j] = RouteSequence[i]
        BY <1>1, <1>2, <4>1
      <4>3. j = i
        BY <4>2, SequenceIsDistinct
      <4>4. QED
        BY <1>1, <4>3
    <3>3. QED
      BY <3>1, <3>2
  <2>2. Missing = {i \in 1..4 : RouteSequence[i] \notin Collected}
    BY SequenceIsDistinct DEF Missing
  <2>3. \A i \in 1..4 : i \in (k + 1)..4 <=> ~(i <= k)
    BY <1>1
  <2>4. (k + 1)..4 \subseteq 1..4
    BY <1>1
  <2>5. QED
    BY <2>1, <2>2, <2>3, <2>4
<1>4. findings = <<>> <=> k = 0
  BY <1>1 DEF TypeOK
<1>5. CASE (k = 0 /\ ~request.in_scope) \/ k = 4
  <2>1. NothingToDo
    BY <1>1, <1>3, <1>4, <1>5 DEF NothingToDo
  <2>2. QED
    BY <1>5, <2>1 DEF DecideRoute
<1>6. CASE ~((k = 0 /\ ~request.in_scope) \/ k = 4)
  <2>1. k + 1 \in Missing /\ \A i \in Missing : k + 1 <= i
    BY <1>1, <1>3, <1>6
  <2>2. \A i \in Missing : i \in Int
    BY <1>1, <1>3
  <2>3. Min(Missing) = k + 1
    BY <2>1, <2>2, <1>1 DEF Min
  <2>4. ~NothingToDo
    BY <1>4, <1>6, <2>1 DEF NothingToDo
  <2>5. QED
    BY <1>6, <2>3, <2>4 DEF DecideRoute
<1>7. QED
  BY <1>5, <1>6

-----------------------------------------------------------------------------
(* Its steps.                                                              *)

\* Whatever the step, the request stays what it was.
LEMMA RequestStays ==
  ASSUME [ScriptedStep \/ CommandEnds]_scriptedVars
  PROVE  request' = request
BY DEF ScriptedStep, CommandEnds, ScriptedGraph, ScriptedSupervisor, ScriptedBudgetEnds,
       ScriptedSpecialist, ScriptedReport, AutoApprove, Unchanged, scriptedVars

\* The finding of a specialist does not depend on when it is made.
LEMMA RiskStays ==
  ASSUME request' = request, NEW agent
  PROVE  AssessedRisk(agent)' = AssessedRisk(agent)
BY DEF AssessedRisk

LEMMA StepScript ==
  ASSUME TypeOK, TrailInv, ScriptInv, [ScriptedStep \/ CommandEnds]_scriptedVars
  PROVE  ScriptInv'
<1> DEFINE k == Len(route_history)
<1>0. /\ k \in 0..4 /\ Len(findings) = k /\ step_count = Len(decisions)
      /\ \A i \in 1..k : /\ route_history[i] = RouteSequence[i]
                        /\ findings[i].assessed_risk = AssessedRisk(RouteSequence[i])
      /\ request' = request /\ request \in Request /\ request.in_scope \in BOOLEAN
      /\ Expected' = Expected
      /\ route_history \in Seq(Specialists) /\ findings \in Seq(Finding)
      /\ decisions \in Seq(Decision) /\ Len(decisions) \in Nat
  <2>1. /\ route_history \in Seq(Specialists) /\ findings \in Seq(Finding)
        /\ decisions \in Seq(Decision)
    BY DEF TypeOK
  <2>2. /\ Len(findings) = k /\ step_count = Len(decisions)
    BY DEF TrailInv, AuditTrailReconstructs, BudgetInv
  <2>3. request' = request /\ request \in Request /\ request.in_scope \in BOOLEAN
    BY RequestStays DEF ScriptInv, Request
  <2>4. Expected' = Expected
    BY <2>3 DEF Expected
  <2>5. k \in 0..4
    <3>1. k \in Nat
      BY <2>1
    <3>2. k <= 4
      BY DEF ScriptInv
    <3> HIDE DEF k
    <3>3. QED
      BY <3>1, <3>2
  <2>6. \A i \in 1..k : /\ route_history[i] = RouteSequence[i]
                        /\ findings[i].assessed_risk = AssessedRisk(RouteSequence[i])
    BY DEF ScriptInv
  <2>7. Len(decisions) \in Nat
    BY <2>1
  <2>8. QED
    BY <2>1, <2>2, <2>3, <2>4, <2>5, <2>6, <2>7
<1>1. \A i \in 1..k : AssessedRisk(RouteSequence[i])' = AssessedRisk(RouteSequence[i])
  BY <1>0, RiskStays
<1>2. CASE ScriptedSupervisor
  <2>1. PICK choice \in AgentRoute : ~OverBudget /\ Dispatch(choice, "model", <<>>)
    BY <1>2 DEF ScriptedSupervisor, SupervisorFollowsModel, AskModel
  <2>2. /\ node = "supervisor" /\ UNCHANGED <<findings, route_history>>
        /\ guardrail_events' = guardrail_events
        /\ decisions' = Append(decisions, [next_agent |-> choice, basis |-> "model"])
        /\ node' = IF choice = "FINISH" THEN "report" ELSE choice
    BY <2>1 DEF Dispatch, Superstep, RouteFromState, evidence, TypeOK
  <2>3. choice = DecideRoute
    <3>1. Append(decisions, [next_agent |-> choice, basis |-> "model"])
            = Append(decisions, [next_agent |-> DecideRoute, basis |-> "model"])
      BY <1>2, <2>2 DEF ScriptedSupervisor
    <3>2. [next_agent |-> choice, basis |-> "model"]
            = [next_agent |-> DecideRoute, basis |-> "model"]
      <4>1. \A x, y : Append(decisions, x) = Append(decisions, y) => x = y
        BY <1>0
      <4>2. QED
        BY <3>1, <4>1
    <3>3. QED
      BY <3>2
  <2>4. Len(decisions') = k + 1 /\ Len(decisions) = k /\ k + 1 <= MaxSupervisorSteps
    BY <1>0, <2>1, <2>2, LimitsAssumption
       DEF TrailInv, AuditTrailReconstructs, OverBudget
  <2>5. guardrail_events' = <<>>
    BY <2>2, <2>4, LimitsAssumption DEF ScriptInv
  <2>6. CASE (k = 0 /\ ~request.in_scope) \/ k = 4
    <3>1. choice = "FINISH"
      BY <2>3, <2>6, NextInSequence DEF TrailInv
    <3>2. node' = "report" /\ k = Expected
      BY <2>2, <2>4, <2>6, <3>1, LimitsAssumption DEF Expected, ScriptInv
    <3>3. QED
      BY <1>0, <1>1, <2>2, <2>5, <3>2 DEF ScriptInv, Specialists
  <2>7. CASE ~((k = 0 /\ ~request.in_scope) \/ k = 4)
    <3>1. choice = RouteSequence[k + 1] /\ choice \in Specialists /\ k < 4
      BY <1>0, <2>3, <2>7, NextInSequence, SequenceIsDistinct DEF TrailInv
    <3>2. node' = choice /\ request.in_scope
      BY <2>2, <2>7, <3>1 DEF Specialists, ScriptInv
    <3>3. QED
      BY <1>0, <1>1, <2>2, <2>5, <3>1, <3>2 DEF ScriptInv, Specialists
  <2>8. QED
    BY <2>6, <2>7
<1>3. CASE ScriptedBudgetEnds
  <2>1. OverBudget /\ Dispatch("FINISH", "guardrail", <<"STEP_BUDGET_EXHAUSTED">>)
    BY <1>3 DEF ScriptedBudgetEnds, SupervisorOutOfBudget
  <2>2. /\ node = "supervisor" /\ UNCHANGED <<findings, route_history>>
        /\ decisions' = Append(decisions, [next_agent |-> "FINISH", basis |-> "guardrail"])
        /\ node' = "report"
    BY <2>1 DEF Dispatch, Superstep, RouteFromState, evidence
  <2>3. /\ Len(decisions') = k + 1 /\ k = MaxSupervisorSteps
    BY <1>0, <2>1, <2>2, LimitsAssumption
       DEF TrailInv, AuditTrailReconstructs, BudgetInv, OverBudget
  <2>4. k = Expected /\ Len(decisions') > MaxSupervisorSteps
    BY <1>0, <2>3, LimitsAssumption DEF Expected, ScriptInv
  <2>5. QED
    BY <1>0, <1>1, <2>2, <2>4 DEF ScriptInv, Specialists
<1>4. ASSUME NEW agent \in Specialists, ScriptedSpecialist(agent)
      PROVE  ScriptInv'
  <2>1. /\ node = agent /\ node' = "supervisor" /\ UNCHANGED <<decisions, guardrail_events>>
        /\ route_history' = Append(route_history, agent)
        /\ findings' = Append(findings, [agent |-> agent, assessed_risk |-> AssessedRisk(agent)])
    BY <1>4 DEF ScriptedSpecialist, RunSpecialist, Superstep, trail
  <2>2. k < 4 /\ agent = RouteSequence[k + 1] /\ request.in_scope
    BY <2>1 DEF ScriptInv
  <2>3. /\ Len(route_history') = k + 1
        /\ route_history'[k + 1] = agent /\ findings'[k + 1].assessed_risk = AssessedRisk(agent)
        /\ \A i \in 1..k : route_history'[i] = route_history[i] /\ findings'[i] = findings[i]
    BY <1>0, <2>1
  <2>4. AssessedRisk(agent)' = AssessedRisk(agent)
    BY <1>0, RiskStays
  <2>5. \A i \in 1..(k + 1) :
          /\ route_history'[i] = RouteSequence[i]
          /\ findings'[i].assessed_risk = AssessedRisk(RouteSequence[i])'
    <3> TAKE i \in 1..(k + 1)
    <3>1. CASE i \in 1..k
      BY <1>0, <1>1, <2>3, <3>1
    <3>2. CASE i = k + 1
      BY <2>2, <2>3, <2>4, <3>2
    <3>3. QED
      BY <1>0, <3>1, <3>2
  <2>6. QED
    BY <1>0, <2>1, <2>2, <2>3, <2>5 DEF ScriptInv, Specialists
\* The rest leaves the evidence and the trail alone.
<1>5. ASSUME UNCHANGED <<findings, route_history, decisions, guardrail_events>>,
             \/ node' = node
             \/ node = "intake" /\ node' = "supervisor"
             \/ node \in {"report", "human_approval"} /\ node' \in {"human_approval", "END"}
      PROVE  ScriptInv'
  BY <1>0, <1>1, <1>5 DEF ScriptInv, Specialists
<1>6. CASE ScriptedGraph
  BY <1>5, <1>6 DEF ScriptedGraph, Intake, PauseForApproval, RecordApproval, Return,
                    Superstep, evidence, trail
<1>7. CASE ScriptedReport
  BY <1>5, <1>7 DEF ScriptedReport, FileReport, EdgeAfterReport, Superstep, evidence, trail
<1>8. CASE AutoApprove
  BY <1>5, <1>8 DEF AutoApprove, Resume, evidence, trail
<1>9. CASE CommandEnds \/ UNCHANGED scriptedVars
  BY <1>5, <1>9 DEF CommandEnds, scriptedVars, vars, evidence, trail
<1>10. QED
  BY <1>2, <1>3, <1>4, <1>6, <1>7, <1>8, <1>9 DEF ScriptedStep

-----------------------------------------------------------------------------
(* What the script promises.                                               *)

LEMMA ScriptInvariant == ScriptedSpec => []ScriptInv
<1>1. ScriptedInit => ScriptInv
  BY DEF ScriptedInit, Init, ScriptInv, Specialists
<1>2. TypeOK /\ TrailInv /\ ScriptInv /\ [ScriptedStep \/ CommandEnds]_scriptedVars
        => ScriptInv'
  BY StepScript
<1>3. QED
  BY <1>1, <1>2, ScriptedIsInvestigation, TypeCorrect, TrailInvariant, PTL DEF ScriptedSpec

\* Under any budget the script hears the specialists in sequence, each once and as
\* many as the budget allows, is overruled by the budget alone, and does not let a
\* customer under sanctions go without a decision on record.
THEOREM ScriptStaysDefensible == ScriptedSpec => []ScriptIsDefensible
<1>1. ASSUME TypeOK, GateInv, HighRiskNeedsHuman, ScriptInv, AuditTrailReconstructs
      PROVE  ScriptIsDefensible
  <2> DEFINE k == Len(route_history)
  <2>0. route_history \in Seq(Specialists) /\ findings \in Seq(Finding)
    BY <1>1 DEF TypeOK
  <2>1. k \in 0..4 /\ DOMAIN findings = 1..k
    BY <1>1, <2>0 DEF ScriptInv, AuditTrailReconstructs
  <2>2. IsPrefix(route_history, RouteSequence)
    <3>1. \A i \in 1..k : route_history[i] = RouteSequence[i]
      BY <1>1 DEF ScriptInv
    <3>2. RouteSequence \in Seq(Specialists)
      BY DEF RouteSequence, Specialists
    <3>3. QED
      BY <2>0, <2>1, <3>1, <3>2, SequenceIsDistinct, PrefixIfAlike
  <2>3. report # None => k = Expected
    BY <1>1 DEF GateInv, ScriptInv
  <2>4. guardrail_events # <<>> => Len(decisions) > MaxSupervisorSteps
    BY <1>1 DEF ScriptInv
  <2>5. ASSUME RequireApproval, MaxSupervisorSteps >= 3, request.in_scope, request.known,
               request.sanctions_hit, request.score_fits, invocation = "returned"
        PROVE  approval # None
    <3>1. k = Expected /\ request \in Request
      BY <1>1, <2>5 DEF GateInv, ScriptInv
    <3>2. 3 \in 1..k
      BY <2>1, <2>5, <3>1, LimitsAssumption DEF Expected
    <3>3. findings[3].assessed_risk = "HIGH"
      <4>1. findings[3].assessed_risk = AssessedRisk("FRAUD")
        BY <1>1, <3>2 DEF ScriptInv, RouteSequence
      <4>2. request.risk_level = "HIGH"
        BY <2>5, <3>1 DEF Request
      <4>3. QED
        BY <2>5, <4>1, <4>2 DEF AssessedRisk
    <3>4. QED
      BY <1>1, <2>1, <2>5, <3>2, <3>3 DEF HighRiskNeedsHuman
  <2>6. QED
    BY <2>2, <2>3, <2>4, <2>5 DEF ScriptIsDefensible, Expected
<1>2. TrailInv => AuditTrailReconstructs
  BY DEF TrailInv
<1>3. QED
  BY <1>1, <1>2, ScriptInvariant, ScriptedIsInvestigation, TypeCorrect, GateInvariant,
     GateHolds, TrailInvariant, PTL
=============================================================================
