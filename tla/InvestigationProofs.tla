------------------------- MODULE InvestigationProofs -------------------------
(***************************************************************************)
(* Proofs about Investigation, for every budget, visit limit, recursion     *)
(* limit, set of approvers and setting of the approval gate.                *)
(***************************************************************************)
EXTENDS Investigation, FiniteSetTheorems, TLAPS

-----------------------------------------------------------------------------
(* The operators the graph computes with.                                  *)

\* A non-empty set of risk levels has a highest member, so the CHOOSE in
\* derive_overall_risk always has something to choose.
LEMMA HighestExists ==
  ASSUME NEW S, S \subseteq RiskLevel, S # {}
  PROVE  \E r \in S : \A s \in S : Rank[s] <= Rank[r]
<1>1. CASE "HIGH" \in S
  BY <1>1 DEF RiskLevel, Rank
<1>2. CASE "HIGH" \notin S /\ "MEDIUM" \in S
  BY <1>2 DEF RiskLevel, Rank
<1>3. CASE "HIGH" \notin S /\ "MEDIUM" \notin S
  <2>1. S = {"LOW"}
    BY <1>3 DEF RiskLevel
  <2>2. QED
    BY <2>1 DEF RiskLevel, Rank
<1>4. QED
  BY <1>1, <1>2, <1>3

\* The computed verdict is the reference one: no finding is above it and, unless
\* it is LOW, some finding is as high.
LEMMA DerivedRiskIsHighest ==
  ASSUME NEW f \in Seq(Finding)
  PROVE  IsHighest(DeriveOverallRisk(f), f)
<1>1. CASE f = <<>>
  <2>1. DeriveOverallRisk(f) = "LOW" /\ DOMAIN f = {}
    BY <1>1 DEF DeriveOverallRisk
  <2>2. QED
    BY <2>1 DEF IsHighest, RiskLevel
<1>2. CASE f # <<>>
  <2> DEFINE S == RisksIn(f)
             r == CHOOSE x \in S : \A s \in S : Rank[s] <= Rank[x]
  <2>1. DOMAIN f = 1..Len(f) /\ 1 \in DOMAIN f
    BY <1>2
  <2>2. \A i \in DOMAIN f : f[i] \in Finding
    BY <2>1
  <2>3. \A i \in DOMAIN f : f[i].assessed_risk \in RiskLevel
    BY <2>2 DEF Finding
  <2>4. S \subseteq RiskLevel /\ S # {}
    BY <2>1, <2>3 DEF RisksIn
  <2>5. \E x \in S : \A s \in S : Rank[s] <= Rank[x]
    BY <2>4, HighestExists
  <2>6. r \in S /\ \A s \in S : Rank[s] <= Rank[r]
    BY <2>5
  <2>7. DeriveOverallRisk(f) = r
    BY <1>2 DEF DeriveOverallRisk
  <2>8. r \in RiskLevel
    BY <2>4, <2>6
  <2>9. \A i \in DOMAIN f : Rank[f[i].assessed_risk] <= Rank[r]
    BY <2>6 DEF RisksIn
  <2>10. \E i \in DOMAIN f : f[i].assessed_risk = r
    BY <2>6 DEF RisksIn
  <2>11. QED
    BY <2>7, <2>8, <2>9, <2>10 DEF IsHighest
<1>3. QED
  BY <1>1, <1>2

\* So what derive_overall_risk returns is a risk level.
LEMMA DerivedRiskType ==
  ASSUME NEW f \in Seq(Finding)
  PROVE  DeriveOverallRisk(f) \in RiskLevel
BY DerivedRiskIsHighest DEF IsHighest

\* Counter over a history is a number.
LEMMA CounterType ==
  ASSUME NEW h \in Seq(Specialists), NEW a
  PROVE  /\ IsFiniteSet({i \in 1..Len(h) : h[i] = a})
         /\ Counter(h, a) \in Nat
<1>1. IsFiniteSet(1..Len(h))
  BY FS_Interval
<1>2. IsFiniteSet({i \in 1..Len(h) : h[i] = a})
  BY <1>1, FS_Subset
<1>3. QED
  BY <1>2, FS_CardinalityType DEF Counter

\* One more run of an agent adds one to its count and to no other.
LEMMA CounterAppend ==
  ASSUME NEW h \in Seq(Specialists), NEW b \in Specialists, NEW a
  PROVE  Counter(Append(h, b), a) = Counter(h, a) + (IF a = b THEN 1 ELSE 0)
<1> DEFINE old == {i \in 1..Len(h) : h[i] = a}
           new == {i \in 1..Len(Append(h, b)) : Append(h, b)[i] = a}
<1>1. IsFiniteSet(old) /\ Cardinality(old) \in Nat
  BY CounterType DEF Counter
<1>2. /\ Len(h) \in Nat
      /\ Len(Append(h, b)) = Len(h) + 1
      /\ Append(h, b)[Len(h) + 1] = b
      /\ \A i \in 1..Len(h) : Append(h, b)[i] = h[i]
  OBVIOUS
<1>3. CASE a = b
  <2>1. new = old \cup {Len(h) + 1}
    BY <1>2, <1>3
  <2>2. Len(h) + 1 \notin old
    BY <1>2
  <2>3. Cardinality(new) = Cardinality(old) + 1
    BY <1>1, <2>1, <2>2, FS_AddElement
  <2>4. QED
    BY <1>3, <2>3 DEF Counter
<1>4. CASE a # b
  <2>1. new = old
    BY <1>2, <1>4
  <2>2. Counter(Append(h, b), a) = Cardinality(new) /\ Counter(h, a) = Cardinality(old)
    BY DEF Counter
  <2> HIDE DEF old, new
  <2>3. QED
    BY <1>1, <1>4, <2>1, <2>2
<1>5. QED
  BY <1>3, <1>4
-----------------------------------------------------------------------------
(* Type correctness.                                                       *)

\* The state run_investigation starts from is well typed.
LEMMA InitTypeOK == Init => TypeOK
BY DEF Init, TypeOK, Nodes

\* A call of the routing model is counted, whatever comes of it.
LEMMA AskModelType ==
  ASSUME TypeOK
  PROVE  /\ AskModel => asked' \in Nat
         /\ UNCHANGED asked => asked' \in Nat
BY DEF TypeOK, AskModel

\* What every supervisor branch writes is well typed.
LEMMA DispatchTypeOK ==
  ASSUME TypeOK, NEW agent \in AgentRoute,
         NEW basis \in {"model", "fallback", "guardrail"},
         NEW events \in Seq(GuardrailEvent),
         Dispatch(agent, basis, events), asked' \in Nat
  PROVE  TypeOK'
<1> USE DEF TypeOK, Dispatch, Superstep, evidence, outcome
<1>1. node' \in Nodes
  BY DEF RouteFromState, AgentRoute, Nodes
<1>2. [next_agent |-> agent, basis |-> basis] \in Decision
  BY DEF Decision
<1>3. decisions' \in Seq(Decision) /\ guardrail_events' \in Seq(GuardrailEvent)
  BY <1>2
<1>4. step_count' \in Nat /\ ticks' \in Nat
  OBVIOUS
<1>5. QED
  BY <1>1, <1>3, <1>4

\* What report_node writes is well typed.
LEMMA FileReportTypeOK ==
  ASSUME TypeOK, NEW sar \in BOOLEAN, FileReport(sar)
  PROVE  TypeOK'
<1> DEFINE risk == DeriveOverallRisk(findings)
<1>1. risk \in RiskLevel
  BY DerivedRiskType DEF TypeOK
<1> HIDE DEF risk
<1>2. [risk_level |-> risk, requires_sar_filing |-> sar \/ risk = "HIGH"] \in Report
  BY <1>1 DEF Report
<1>3. report' = [risk_level |-> risk, requires_sar_filing |-> sar \/ risk = "HIGH"]
  BY DEF FileReport, risk
<1>4. node' \in Nodes /\ ticks' \in Nat /\ status' = "reported"
  BY DEF TypeOK, FileReport, Superstep, EdgeAfterReport, Nodes
<1>5. UNCHANGED <<findings, route_history, decisions, guardrail_events, step_count,
                  asked, approval, reply, invocation>>
  BY DEF FileReport, Superstep, evidence, trail
<1>6. QED
  BY <1>2, <1>3, <1>4, <1>5 DEF TypeOK

\* What human_approval_node records is a HumanApproval, also for a malformed reply.
LEMMA RecordedApprovalType ==
  ASSUME TypeOK, RecordApproval
  PROVE  approval' \in Approval
BY DEF RecordApproval, TypeOK, Replies, Approval, HumanApproval

\* No step leaves the types.
LEMMA StepTypeOK == TypeOK /\ [Next]_vars => TypeOK'
<1> SUFFICES ASSUME TypeOK, [Next]_vars PROVE TypeOK'
  OBVIOUS
<1>1. CASE Intake
  BY <1>1 DEF TypeOK, Intake, Superstep, Nodes, evidence, trail
<1>2. CASE SupervisorOutOfBudget
  <2>1. <<"STEP_BUDGET_EXHAUSTED">> \in Seq(GuardrailEvent)
    BY DEF GuardrailEvent
  <2>2. QED
    BY <1>2, <2>1, DispatchTypeOK, AskModelType DEF SupervisorOutOfBudget, AgentRoute
<1>3. CASE SupervisorFollowsModel
  <2>1. PICK choice \in AgentRoute : Dispatch(choice, "model", <<>>)
    BY <1>3 DEF SupervisorFollowsModel
  <2>2. << >> \in Seq(GuardrailEvent) /\ asked' \in Nat
    BY <1>3, AskModelType DEF SupervisorFollowsModel
  <2>3. QED
    BY <2>1, <2>2, DispatchTypeOK
<1>4. CASE SupervisorFallsBack
  <2>1. << >> \in Seq(GuardrailEvent)
    OBVIOUS
  <2>2. QED
    BY <1>4, <2>1, DispatchTypeOK, AskModelType DEF SupervisorFallsBack, AgentRoute
<1>5. CASE SupervisorRedirects
  <2>1. <<"ORDERING_VIOLATION">> \in Seq(GuardrailEvent)
    BY DEF GuardrailEvent
  <2>2. QED
    BY <1>5, <2>1, DispatchTypeOK, AskModelType DEF SupervisorRedirects, AgentRoute, Specialists
<1>6. CASE SupervisorBreaksLoop
  <2>1. <<"LOOP_DETECTED">> \in Seq(GuardrailEvent)
    BY DEF GuardrailEvent
  <2>2. QED
    BY <1>6, <2>1, DispatchTypeOK, AskModelType DEF SupervisorBreaksLoop, AgentRoute
<1>7. ASSUME NEW agent \in Specialists, RunSpecialist(agent) PROVE TypeOK'
  <2>1. PICK risk \in RiskLevel :
          findings' = Append(findings, [agent |-> agent, assessed_risk |-> risk])
    BY <1>7 DEF RunSpecialist
  <2>2. findings' \in Seq(Finding)
    BY <2>1 DEF Finding, TypeOK
  <2>3. route_history' \in Seq(Specialists)
    BY <1>7 DEF RunSpecialist, TypeOK
  <2>4. node' \in Nodes /\ ticks' \in Nat
    BY <1>7 DEF RunSpecialist, Superstep, TypeOK, Nodes
  <2>5. QED
    BY <1>7, <2>2, <2>3, <2>4 DEF RunSpecialist, Superstep, TypeOK, trail, outcome
<1>8. CASE WriteReport
  BY <1>8, FileReportTypeOK DEF WriteReport
<1>9. CASE WriteFallbackReport
  <2>1. (DeriveOverallRisk(findings) = "HIGH") \in BOOLEAN
    OBVIOUS
  <2>2. QED
    BY <1>9, <2>1, FileReportTypeOK DEF WriteFallbackReport
<1>10. CASE FallbackReportInvalid \/ ProviderFails
  <2>1. asked' \in Nat
    BY <1>10, AskModelType DEF FallbackReportInvalid, ProviderFails
  <2>2. QED
    BY <1>10, <2>1 DEF FallbackReportInvalid, ProviderFails, NodeRaises, TypeOK, Ended,
                       evidence, outcome
<1>11. CASE PauseForApproval
  BY <1>11 DEF PauseForApproval, TypeOK, evidence, trail, outcome
<1>12. CASE Resume
  BY <1>12 DEF Resume, TypeOK, evidence, trail, outcome
<1>13. CASE RecordApproval
  <2>1. approval' \in Approval
    BY <1>13, RecordedApprovalType
  <2>2. QED
    BY <1>13, <2>1 DEF RecordApproval, Superstep, TypeOK, Nodes, evidence, trail
<1>14. CASE Return \/ OutOfSteps
  BY <1>14 DEF Return, OutOfSteps, TypeOK, Ended, evidence, trail, outcome
<1>15. CASE UNCHANGED vars
  BY <1>15 DEF vars, TypeOK, evidence, trail, outcome
<1>16. QED
  BY <1>1, <1>2, <1>3, <1>4, <1>5, <1>6, <1>7, <1>8, <1>9, <1>10, <1>11, <1>12,
     <1>13, <1>14, <1>15 DEF Next, GraphStep, Supervise, Over

\* Every channel keeps its type, whatever the models and the reviewers answer.
THEOREM TypeCorrect == Spec => []TypeOK
BY InitTypeOK, StepTypeOK, PTL DEF Spec
-----------------------------------------------------------------------------
(* The inductive invariants, one per concern; none of the properties they   *)
(* are for is inductive by itself.                                         *)

\* The findings are the history, one for one.
Authors ==
  /\ Len(findings) = Len(route_history)
  /\ \A i \in 1..Len(route_history) : findings[i].agent = route_history[i]

\* A FRAUD run on its way already has the evidence apply_guardrails asked for,
\* and nothing takes evidence away before it runs.
EvidenceInv ==
  /\ Authors
  /\ ScoredOnEvidence
  /\ node = "FRAUD" => "TRANSACTION" \in Collected

\* A specialist on its way still has a visit left.
VisitsInv ==
  /\ NoSpecialistLoops
  /\ node \in Specialists => Visits(node) < MaxVisitsPerAgent

\* Two supersteps per routing decision, until the report; a resumed case
\* starts from zero and has one node to run.
StepsInv ==
  /\ node = "intake" => ticks = 0 /\ step_count = 0
  /\ node = "supervisor" =>
       ticks = 2 * step_count + 1 /\ step_count <= MaxSupervisorSteps
  /\ node \in Specialists =>
       ticks = 2 * step_count /\ step_count <= MaxSupervisorSteps
  /\ node = "report" =>
       ticks = 2 * step_count /\ step_count <= MaxSupervisorSteps + 1
  /\ node \in {"human_approval", "END"} => ticks <= 2 * MaxSupervisorSteps + 3
  /\ reply # None => node = "human_approval" /\ ticks = 0
  /\ invocation = "paused" => node = "human_approval"
  /\ LimitCoversBudget => invocation # "out_of_steps"

\* Where the case stands determines what is on file.
GateInv ==
  /\ report # None <=> node \in {"human_approval", "END"}
  /\ VerdictFromEvidence
  /\ node = "human_approval" => RequireApproval /\ Verdict = "HIGH" /\ approval = None
  /\ node = "END" /\ RequireApproval /\ Verdict = "HIGH" => approval # None
  /\ approval # None => node = "END" /\ RequireApproval /\ Verdict = "HIGH"
  /\ status = IF approval # None
              THEN IF approval.approved THEN "approved" ELSE "rejected"
              ELSE IF report # None THEN "reported" ELSE "running"
  /\ invocation = "paused" => node = "human_approval"
  /\ invocation = "returned" => node = "END"
-----------------------------------------------------------------------------
(* What every supervisor turn and every other step leave behind.           *)

\* Whichever branch the supervisor takes, it dispatches, and to a specialist
\* only within the budget, in order, and with a visit to spare.
LEMMA SuperviseDispatches ==
  ASSUME TypeOK, Supervise
  PROVE  \E agent \in AgentRoute, basis \in {"model", "fallback", "guardrail"},
            events \in Seq(GuardrailEvent) :
           /\ Dispatch(agent, basis, events)
           /\ agent # "FINISH" => ~OverBudget
           /\ agent = "FRAUD" => "TRANSACTION" \in Collected
           /\ agent # "FINISH" =>
                ~Looping(agent) \/ (agent = "TRANSACTION" /\ agent \notin Collected)
<1> USE DEF AgentRoute, Specialists
<1>1. /\ << >> \in Seq(GuardrailEvent)
      /\ <<"STEP_BUDGET_EXHAUSTED">> \in Seq(GuardrailEvent)
      /\ <<"ORDERING_VIOLATION">> \in Seq(GuardrailEvent)
      /\ <<"LOOP_DETECTED">> \in Seq(GuardrailEvent)
  BY DEF GuardrailEvent
<1>2. CASE SupervisorOutOfBudget
  BY <1>1, <1>2 DEF SupervisorOutOfBudget
<1>3. CASE SupervisorFollowsModel
  <2>1. PICK choice \in AgentRoute :
          /\ choice # "FINISH" => ~OutOfOrder(choice) /\ ~Looping(choice)
          /\ Dispatch(choice, "model", << >>)
    BY <1>3 DEF SupervisorFollowsModel
  <2>2. ~OverBudget
    BY <1>3 DEF SupervisorFollowsModel, AskModel
  <2>3. choice = "FRAUD" => "TRANSACTION" \in Collected
    BY <2>1 DEF OutOfOrder
  <2>4. QED
    BY <1>1, <2>1, <2>2, <2>3
<1>4. CASE SupervisorFallsBack
  BY <1>1, <1>4 DEF SupervisorFallsBack
<1>5. CASE SupervisorRedirects
  <2>1. "TRANSACTION" \notin Collected
    BY <1>5 DEF SupervisorRedirects, OutOfOrder
  <2>2. Dispatch("TRANSACTION", "guardrail", <<"ORDERING_VIOLATION">>) /\ ~OverBudget
    BY <1>5 DEF SupervisorRedirects, AskModel
  <2>3. QED
    BY <1>1, <2>1, <2>2
<1>6. CASE SupervisorBreaksLoop
  BY <1>1, <1>6 DEF SupervisorBreaksLoop
<1>7. QED
  BY <1>2, <1>3, <1>4, <1>5, <1>6 DEF Supervise

\* A step that is neither a supervisor turn nor a specialist's leaves the
\* evidence alone and sends nobody to a specialist.
LEMMA OtherSteps ==
  ASSUME [Next]_vars, ~Supervise, ~\E agent \in Specialists : RunSpecialist(agent)
  PROVE  /\ UNCHANGED <<findings, route_history>>
         /\ node' = node \/ node' \in {"supervisor", "human_approval", "END"}
<1> USE DEF evidence, trail, outcome, Superstep
<1>1. CASE Intake \/ RecordApproval
  BY <1>1 DEF Intake, RecordApproval
<1>2. CASE WriteReport \/ WriteFallbackReport
  BY <1>2 DEF WriteReport, WriteFallbackReport, FileReport, EdgeAfterReport
<1>3. CASE FallbackReportInvalid \/ ProviderFails
  BY <1>3 DEF FallbackReportInvalid, ProviderFails, NodeRaises
<1>4. CASE PauseForApproval \/ Resume \/ Return \/ OutOfSteps
  BY <1>4 DEF PauseForApproval, Resume, Return, OutOfSteps
<1>5. CASE UNCHANGED vars
  BY <1>5 DEF vars
<1>6. QED
  BY <1>1, <1>2, <1>3, <1>4, <1>5 DEF Next, GraphStep, Over

-----------------------------------------------------------------------------
(* Evidence before scoring.                                                *)

\* No step breaks the evidence invariant.
LEMMA StepEvidence == TypeOK /\ EvidenceInv /\ [Next]_vars => EvidenceInv'
<1> SUFFICES ASSUME TypeOK, EvidenceInv, [Next]_vars PROVE EvidenceInv'
  OBVIOUS
<1>1. CASE Supervise
  <2>1. PICK agent \in AgentRoute, basis \in {"model", "fallback", "guardrail"},
             events \in Seq(GuardrailEvent) :
          /\ Dispatch(agent, basis, events)
          /\ agent = "FRAUD" => "TRANSACTION" \in Collected
    BY <1>1, SuperviseDispatches
  <2>2. UNCHANGED <<findings, route_history>>
    BY <2>1 DEF Dispatch, evidence
  <2>3. node' = "FRAUD" => agent = "FRAUD"
    BY <2>1 DEF Dispatch, Superstep, RouteFromState
  <2>4. QED
    BY <2>1, <2>2, <2>3 DEF EvidenceInv, Authors, ScoredOnEvidence, Collected
<1>2. ASSUME NEW agent \in Specialists, RunSpecialist(agent) PROVE EvidenceInv'
  <2> DEFINE n == Len(route_history)
  <2>1. PICK risk \in RiskLevel :
          findings' = Append(findings, [agent |-> agent, assessed_risk |-> risk])
    BY <1>2 DEF RunSpecialist
  <2>2. route_history' = Append(route_history, agent) /\ node = agent /\ node' = "supervisor"
    BY <1>2 DEF RunSpecialist, Superstep
  <2>3. /\ n \in Nat /\ Len(findings) = n
        /\ Len(findings') = n + 1 /\ Len(route_history') = n + 1
        /\ DOMAIN findings = 1..n
        /\ DOMAIN route_history = 1..n /\ DOMAIN route_history' = 1..(n + 1)
        /\ findings'[n + 1].agent = agent /\ route_history'[n + 1] = agent
        /\ \A i \in 1..n : findings'[i] = findings[i] /\ route_history'[i] = route_history[i]
    BY <2>1, <2>2 DEF EvidenceInv, Authors, TypeOK
  <2>4. Authors'
    BY <2>3 DEF EvidenceInv, Authors
  <2>5. ASSUME NEW i \in 1..(n + 1), route_history'[i] = "FRAUD"
        PROVE  \E j \in 1..(i - 1) : route_history'[j] = "TRANSACTION"
    <3>1. CASE i \in 1..n
      <4>1. \E j \in 1..(i - 1) : route_history[j] = "TRANSACTION"
        BY <2>3, <2>5, <3>1 DEF EvidenceInv, ScoredOnEvidence
      <4>2. QED
        BY <2>3, <3>1, <4>1
    <3>2. CASE i = n + 1
      <4>1. "TRANSACTION" \in Collected
        BY <2>2, <2>3, <2>5, <3>2 DEF EvidenceInv
      <4>2. PICK k \in 1..n : findings[k].agent = "TRANSACTION"
        BY <2>3, <4>1 DEF Collected
      <4>3. route_history'[k] = "TRANSACTION"
        BY <2>3, <4>2 DEF EvidenceInv, Authors
      <4>4. QED
        BY <2>3, <3>2, <4>3
    <3>3. QED
      BY <2>3, <3>1, <3>2
  <2>6. ScoredOnEvidence'
    BY <2>3, <2>5 DEF ScoredOnEvidence
  <2>7. QED
    BY <2>2, <2>4, <2>6 DEF EvidenceInv
<1>3. CASE ~Supervise /\ ~\E agent \in Specialists : RunSpecialist(agent)
  BY <1>3, OtherSteps DEF EvidenceInv, Authors, ScoredOnEvidence, Collected
<1>4. QED
  BY <1>1, <1>2, <1>3

\* The strengthened evidence invariant: findings and history name the same
\* authors, and a scheduled FRAUD specialist already has TRANSACTION evidence.
THEOREM EvidenceInvariant == Spec => []EvidenceInv
<1>1. Init => EvidenceInv
  BY DEF Init, EvidenceInv, Authors, ScoredOnEvidence
<1>2. QED
  BY <1>1, StepEvidence, TypeCorrect, PTL DEF Spec

\* Risk is never scored before transaction evidence exists.
THEOREM ScoringFollowsEvidence == Spec => []ScoredOnEvidence
<1>1. EvidenceInv => ScoredOnEvidence
  BY DEF EvidenceInv
<1>2. QED
  BY <1>1, EvidenceInvariant, PTL
-----------------------------------------------------------------------------
(* No specialist loops.                                                    *)

\* A specialist that filed no finding has not run.
LEMMA NoFindingNoVisit ==
  ASSUME TypeOK, Authors, NEW agent \in Specialists, agent \notin Collected
  PROVE  Visits(agent) = 0
<1> DEFINE runs == {i \in 1..Len(route_history) : route_history[i] = agent}
<1>1. DOMAIN findings = 1..Len(findings)
  BY DEF TypeOK
<1>2. runs = {}
  BY <1>1 DEF Authors, Collected
<1>3. Cardinality(runs) = 0
  BY <1>2, FS_EmptySet
<1>4. QED
  BY <1>3 DEF Visits, Counter

\* No step takes a specialist past its visits.
LEMMA StepVisits ==
  TypeOK /\ Authors /\ VisitsInv /\ [Next]_vars => VisitsInv'
<1> SUFFICES ASSUME TypeOK, Authors, VisitsInv, [Next]_vars PROVE VisitsInv'
  OBVIOUS
<1>0. /\ \A agent \in Specialists : Visits(agent) \in Nat
      /\ MaxVisitsPerAgent \in Nat /\ MaxVisitsPerAgent > 0
  <2>1. \A agent \in Specialists : Visits(agent) \in Nat
    BY CounterType DEF TypeOK, Visits
  <2>2. MaxVisitsPerAgent \in Nat /\ MaxVisitsPerAgent > 0
    BY LimitsAssumption
  <2>3. QED
    BY <2>1, <2>2
<1>1. CASE Supervise
  <2>1. PICK agent \in AgentRoute, basis \in {"model", "fallback", "guardrail"},
             events \in Seq(GuardrailEvent) :
          /\ Dispatch(agent, basis, events)
          /\ agent # "FINISH" =>
               ~Looping(agent) \/ (agent = "TRANSACTION" /\ agent \notin Collected)
    BY <1>1, SuperviseDispatches
  <2>2. \A a : Visits(a)' = Visits(a)
    BY <2>1 DEF Dispatch, evidence, Visits
  <2>3. node' \in Specialists => node' = agent /\ agent \in Specialists /\ agent # "FINISH"
    BY <2>1 DEF Dispatch, Superstep, RouteFromState, AgentRoute, Specialists
  <2>4. node' \in Specialists => Visits(node') < MaxVisitsPerAgent
    BY <1>0, <2>1, <2>3, NoFindingNoVisit DEF Looping
  <2>5. QED
    BY <2>2, <2>4 DEF VisitsInv, NoSpecialistLoops
<1>2. ASSUME NEW agent \in Specialists, RunSpecialist(agent) PROVE VisitsInv'
  <2>1. /\ route_history' = Append(route_history, agent)
        /\ node = agent /\ node' = "supervisor"
    BY <1>2 DEF RunSpecialist, Superstep
  <2>2. \A a : Visits(a)' = Visits(a) + (IF a = agent THEN 1 ELSE 0)
    BY <2>1, CounterAppend DEF TypeOK, Visits
  <2>3. Visits(agent) < MaxVisitsPerAgent
    BY <2>1 DEF VisitsInv
  <2>4. ASSUME NEW a \in Specialists PROVE Visits(a)' <= MaxVisitsPerAgent
    <3>1. Visits(a) <= MaxVisitsPerAgent
      BY DEF VisitsInv, NoSpecialistLoops
    <3>2. QED
      BY <1>0, <2>2, <2>3, <3>1
  <2>5. QED
    BY <2>1, <2>4 DEF VisitsInv, NoSpecialistLoops, Specialists
<1>3. CASE ~Supervise /\ ~\E agent \in Specialists : RunSpecialist(agent)
  <2>1. /\ \A a : Visits(a)' = Visits(a)
        /\ node' = node \/ node' \in {"supervisor", "human_approval", "END"}
    BY <1>3, OtherSteps DEF Visits
  <2>2. QED
    BY <2>1 DEF VisitsInv, NoSpecialistLoops, Specialists
<1>4. QED
  BY <1>1, <1>2, <1>3

\* No specialist has run too often, and one on its way has a visit left.
LEMMA VisitsInvariant == Spec => []VisitsInv
<1>1. Init => VisitsInv
  <2> SUFFICES ASSUME Init PROVE VisitsInv
    OBVIOUS
  <2>1. TypeOK /\ Authors /\ Collected = {}
    BY InitTypeOK DEF Init, Authors, Collected
  <2>2. \A agent \in Specialists : Visits(agent) = 0
    BY <2>1, NoFindingNoVisit
  <2>3. QED
    BY <2>2, LimitsAssumption DEF Init, VisitsInv, NoSpecialistLoops, Specialists
<1>2. EvidenceInv => Authors
  BY DEF EvidenceInv
<1>3. QED
  BY <1>1, <1>2, StepVisits, TypeCorrect, EvidenceInvariant, PTL DEF Spec

\* No specialist runs more often than MAX_VISITS_PER_AGENT.
THEOREM SpecialistsDoNotLoop == Spec => []NoSpecialistLoops
<1>1. VisitsInv => NoSpecialistLoops
  BY DEF VisitsInv
<1>2. QED
  BY <1>1, VisitsInvariant, PTL

-----------------------------------------------------------------------------
(* The step budget comes before the recursion limit.                       *)

\* No step breaks the relation of supersteps to routing decisions.
LEMMA StepSteps == TypeOK /\ StepsInv /\ [Next]_vars => StepsInv'
<1> SUFFICES ASSUME TypeOK, StepsInv, [Next]_vars PROVE StepsInv'
  OBVIOUS
<1> USE LimitsAssumption DEF evidence, trail, outcome, Superstep, CanStep, Specialists
<1>0. ticks \in Nat /\ step_count \in Nat /\ MaxSupervisorSteps \in Nat
  BY DEF TypeOK
<1>1. CASE Supervise
  <2>1. PICK agent \in AgentRoute, basis \in {"model", "fallback", "guardrail"},
             events \in Seq(GuardrailEvent) :
          /\ Dispatch(agent, basis, events)
          /\ agent # "FINISH" => ~OverBudget
    BY <1>1, SuperviseDispatches
  <2>2. /\ node = "supervisor" /\ ticks' = ticks + 1 /\ step_count' = step_count + 1
        /\ UNCHANGED <<reply, invocation>> /\ invocation = "running"
    BY <2>1 DEF Dispatch
  <2>3. \/ agent = "FINISH" /\ node' = "report"
        \/ agent \in Specialists /\ agent # "FINISH" /\ node' = agent
    BY <2>1 DEF Dispatch, RouteFromState, AgentRoute
  <2>4. reply = None
    BY <2>2 DEF StepsInv
  <2>5. QED
    BY <1>0, <2>1, <2>2, <2>3, <2>4 DEF StepsInv, OverBudget
<1>2. ASSUME NEW agent \in Specialists, RunSpecialist(agent) PROVE StepsInv'
  BY <1>0, <1>2 DEF RunSpecialist, StepsInv
<1>3. CASE Intake
  BY <1>0, <1>3 DEF Intake, StepsInv
<1>4. CASE WriteReport \/ WriteFallbackReport
  BY <1>0, <1>4 DEF WriteReport, WriteFallbackReport, FileReport, EdgeAfterReport, StepsInv
<1>5. CASE FallbackReportInvalid \/ ProviderFails
  BY <1>0, <1>5 DEF FallbackReportInvalid, ProviderFails, NodeRaises, StepsInv
<1>6. CASE PauseForApproval
  BY <1>6 DEF PauseForApproval, StepsInv
<1>7. CASE Resume
  BY <1>0, <1>7 DEF Resume, StepsInv
<1>8. CASE RecordApproval
  BY <1>0, <1>8 DEF RecordApproval, StepsInv
<1>9. CASE Return
  BY <1>9 DEF Return, StepsInv
<1>10. CASE OutOfSteps
  <2>1. node \in Nodes
    BY DEF TypeOK
  <2>2. ticks <= 2 * MaxSupervisorSteps + 3
    BY <1>0, <2>1 DEF StepsInv, Nodes
  <2>3. ~LimitCoversBudget
    BY <1>0, <1>10, <2>2 DEF OutOfSteps, LimitCoversBudget
  <2>4. QED
    BY <1>10, <2>3 DEF OutOfSteps, StepsInv
<1>11. CASE UNCHANGED vars
  BY <1>11 DEF vars, StepsInv, LimitCoversBudget
<1>12. QED
  BY <1>1, <1>2, <1>3, <1>4, <1>5, <1>6, <1>7, <1>8, <1>9, <1>10, <1>11
     DEF Next, GraphStep, Over

\* With room for two supersteps per routing decision and four more, no case
\* ends in GraphRecursionError, whatever the models do.
THEOREM BudgetBeforeRecursionLimit == Spec => []RecursionLimitNeverStrikes
<1>1. Init => StepsInv
  BY DEF Init, StepsInv, Specialists
<1>2. StepsInv => RecursionLimitNeverStrikes
  BY DEF StepsInv, RecursionLimitNeverStrikes
<1>3. QED
  BY <1>1, <1>2, StepSteps, TypeCorrect, PTL DEF Spec
-----------------------------------------------------------------------------
(* The human gate.                                                         *)

\* None, a model value, is none of the things it stands for.
LEMMA NoneIsNothing == /\ None \notin Report
                       /\ None \notin RiskLevel
                       /\ None \notin Approval
                       /\ None \notin Replies
BY NoneAssumption, NamesAssumption DEF Approval, Replies, HumanApproval

\* What report_node writes: the highest risk on file, flagged when HIGH.
LEMMA FiledReport ==
  ASSUME TypeOK, NEW sar \in BOOLEAN, FileReport(sar)
  PROVE  /\ report' \in Report /\ report' # None
         /\ Verdict' = DeriveOverallRisk(findings)
         /\ report'.risk_level = DeriveOverallRisk(findings)
         /\ VerdictFromEvidence'
         /\ node = "report" /\ node' = EdgeAfterReport(Verdict')
         /\ status' = "reported"
         /\ UNCHANGED <<findings, approval, invocation>>
<1> DEFINE risk == DeriveOverallRisk(findings)
<1>1. risk \in RiskLevel /\ IsHighest(risk, findings)
  BY DerivedRiskType, DerivedRiskIsHighest DEF TypeOK
<1>2. /\ report' = [risk_level |-> risk, requires_sar_filing |-> sar \/ risk = "HIGH"]
      /\ node = "report" /\ node' = EdgeAfterReport(risk)
      /\ status' = "reported"
      /\ UNCHANGED <<findings, approval, invocation>>
  BY DEF FileReport, Superstep, evidence
<1> HIDE DEF risk
<1>3. /\ report' \in Report /\ report' # None
      /\ report'.risk_level = risk
      /\ risk = "HIGH" => report'.requires_sar_filing
  <2>1. [risk_level |-> risk, requires_sar_filing |-> sar \/ risk = "HIGH"] \in Report
    BY <1>1 DEF Report
  <2>2. report' \in Report
    BY <1>2, <2>1
  <2>3. report'.risk_level = risk /\ report'.requires_sar_filing = (sar \/ risk = "HIGH")
    BY <1>2
  <2>4. QED
    BY <2>2, <2>3, NoneIsNothing
<1>4. Verdict' = risk
  BY <1>3 DEF Verdict
<1>5. VerdictFromEvidence'
  BY <1>1, <1>2, <1>3 DEF VerdictFromEvidence
<1>6. QED
  BY <1>2, <1>3, <1>4, <1>5 DEF risk

\* No step breaks the gate invariant.
LEMMA StepGate == TypeOK /\ GateInv /\ [Next]_vars => GateInv'
<1> SUFFICES ASSUME TypeOK, GateInv, [Next]_vars PROVE GateInv'
  OBVIOUS
<1> USE DEF evidence, trail, outcome, Superstep, CanStep, Specialists
<1>1. CASE Supervise
  <2>1. PICK agent \in AgentRoute, basis \in {"model", "fallback", "guardrail"},
             events \in Seq(GuardrailEvent) : Dispatch(agent, basis, events)
    BY <1>1, SuperviseDispatches
  <2>2. /\ node = "supervisor" /\ node' \notin {"human_approval", "END"}
        /\ UNCHANGED <<findings, report, approval, status, invocation>>
    BY <2>1 DEF Dispatch, RouteFromState, AgentRoute
  <2>3. QED
    BY <2>2 DEF GateInv, VerdictFromEvidence, Verdict
<1>2. ASSUME NEW agent \in Specialists, RunSpecialist(agent) PROVE GateInv'
  <2>1. /\ node = agent /\ node' = "supervisor" /\ invocation = "running"
        /\ UNCHANGED <<report, approval, status, invocation>>
    BY <1>2 DEF RunSpecialist
  <2>2. report = None
    BY <2>1 DEF GateInv
  <2>3. QED
    BY <2>1, <2>2 DEF GateInv, VerdictFromEvidence, Verdict
<1>3. CASE Intake
  <2>1. report = None /\ approval = None
    BY <1>3 DEF Intake, GateInv
  <2>2. QED
    BY <1>3, <2>1 DEF Intake, GateInv, VerdictFromEvidence, Verdict
<1>4. ASSUME NEW sar \in BOOLEAN, FileReport(sar) PROVE GateInv'
  <2>1. approval = None /\ invocation \notin {"paused", "returned"}
    BY <1>4 DEF FileReport, GateInv
  <2>2. QED
    BY <1>4, <2>1, FiledReport DEF GateInv, EdgeAfterReport
<1>5. CASE WriteReport \/ WriteFallbackReport
  <2>1. (DeriveOverallRisk(findings) = "HIGH") \in BOOLEAN
    OBVIOUS
  <2>2. QED
    BY <1>4, <1>5, <2>1 DEF WriteReport, WriteFallbackReport
<1>6. CASE FallbackReportInvalid \/ ProviderFails
  BY <1>6 DEF FallbackReportInvalid, ProviderFails, NodeRaises, GateInv,
              VerdictFromEvidence, Verdict
<1>7. CASE PauseForApproval
  BY <1>7 DEF PauseForApproval, GateInv, VerdictFromEvidence, Verdict
<1>8. CASE Resume
  BY <1>8 DEF Resume, GateInv, VerdictFromEvidence, Verdict
<1>9. CASE RecordApproval
  <2>1. /\ node = "human_approval" /\ node' = "END" /\ invocation' = "running"
        /\ UNCHANGED <<findings, report>>
        /\ status' = IF approval'.approved THEN "approved" ELSE "rejected"
    BY <1>9 DEF RecordApproval
  <2>2. approval' # None
    BY <1>9, NoneIsNothing, RecordedApprovalType
  <2>3. QED
    BY <2>1, <2>2 DEF GateInv, VerdictFromEvidence, Verdict
<1>10. CASE Return \/ OutOfSteps
  BY <1>10 DEF Return, OutOfSteps, GateInv, VerdictFromEvidence, Verdict
<1>11. CASE UNCHANGED vars
  BY <1>11 DEF vars, GateInv, VerdictFromEvidence, Verdict
<1>12. QED
  BY <1>1, <1>2, <1>3, <1>5, <1>6, <1>7, <1>8, <1>9, <1>10, <1>11
     DEF Next, GraphStep, Over

\* The gate invariant: the report agrees with the evidence, and the case is past
\* the gate only with the decision the report calls for.
THEOREM GateInvariant == Spec => []GateInv
<1>1. Init => GateInv
  BY DEF Init, GateInv, VerdictFromEvidence, Verdict
<1>2. QED
  BY <1>1, StepGate, TypeCorrect, PTL DEF Spec

\* The verdict on file is the highest risk any finding on file carries, and a
\* HIGH one always carries the SAR flag.
THEOREM VerdictIsReproducible == Spec => []VerdictFromEvidence
<1>1. GateInv => VerdictFromEvidence
  BY DEF GateInv
<1>2. QED
  BY <1>1, GateInvariant, PTL

\* No case with a HIGH finding concludes without a recorded human decision
\* while the gate is on, and none is "approved" that nobody approved.
THEOREM GateHolds == Spec => []HighRiskNeedsHuman
<1>1. TypeOK /\ GateInv => HighRiskNeedsHuman
  <2> SUFFICES ASSUME TypeOK, GateInv PROVE HighRiskNeedsHuman
    OBVIOUS
  <2>1. ASSUME RequireApproval, invocation = "returned",
               NEW i \in DOMAIN findings, findings[i].assessed_risk = "HIGH"
        PROVE  approval # None
    <3>1. report # None /\ node = "END"
      BY <2>1 DEF GateInv
    <3>2. IsHighest(report.risk_level, findings)
      BY <3>1 DEF GateInv, VerdictFromEvidence
    <3>3. report.risk_level = "HIGH"
      BY <2>1, <3>2 DEF IsHighest, Rank, RiskLevel
    <3>4. QED
      BY <2>1, <3>1, <3>3 DEF GateInv, Verdict
  <2>2. status = "approved" => approval # None /\ approval.approved
    BY DEF GateInv
  <2>3. approval # None => report # None /\ status \in {"approved", "rejected"}
    BY DEF GateInv
  <2>4. QED
    BY <2>1, <2>2, <2>3 DEF HighRiskNeedsHuman
<1>2. QED
  BY <1>1, GateInvariant, TypeCorrect, PTL
-----------------------------------------------------------------------------
(* What is recorded stays recorded.                                        *)

\* Appending one element keeps what was there.
LEMMA PrefixOfAppend ==
  ASSUME NEW S, NEW s \in Seq(S), NEW e \in S
  PROVE  IsPrefix(s, Append(s, e)) /\ IsPrefix(s, s)
BY DEF IsPrefix

\* Appending a list keeps what was there.
LEMMA PrefixOfConcat ==
  ASSUME NEW S, NEW s \in Seq(S), NEW t \in Seq(S)
  PROVE  IsPrefix(s, s \o t)
BY DEF IsPrefix

\* The audit trail is append-only, the evidence behind a report is closed, and a
\* report or a human decision is never rewritten.
THEOREM RecordsStay == Spec => RecordsAreFinal
<1> DEFINE Step == /\ IsPrefix(findings, findings')
                   /\ IsPrefix(route_history, route_history')
                   /\ IsPrefix(decisions, decisions')
                   /\ IsPrefix(guardrail_events, guardrail_events')
                   /\ report # None => report' = report /\ findings' = findings
                   /\ approval # None => approval' = approval
<1>1. TypeOK /\ GateInv /\ [Next]_vars => [Step]_vars
  <2> SUFFICES ASSUME TypeOK, GateInv, [Next]_vars PROVE Step
    OBVIOUS
  <2> USE DEF evidence, trail, outcome, Superstep
  <2>0. /\ IsPrefix(findings, findings) /\ IsPrefix(route_history, route_history)
        /\ IsPrefix(decisions, decisions)
        /\ IsPrefix(guardrail_events, guardrail_events)
    BY DEF IsPrefix, TypeOK
  <2>1. CASE Supervise
    <3>1. PICK agent \in AgentRoute, basis \in {"model", "fallback", "guardrail"},
               events \in Seq(GuardrailEvent) : Dispatch(agent, basis, events)
      BY <2>1, SuperviseDispatches
    <3>2. [next_agent |-> agent, basis |-> basis] \in Decision
      BY DEF Decision
    <3>3. IsPrefix(decisions, decisions')
      BY <3>1, <3>2, PrefixOfAppend DEF Dispatch, TypeOK
    <3>4. IsPrefix(guardrail_events, guardrail_events')
      BY <3>1, PrefixOfConcat DEF Dispatch, TypeOK
    <3>5. UNCHANGED <<findings, route_history, report, approval>>
      BY <3>1 DEF Dispatch
    <3>6. QED
      BY <2>0, <3>3, <3>4, <3>5
  <2>2. ASSUME NEW agent \in Specialists, RunSpecialist(agent) PROVE Step
    <3>1. PICK risk \in RiskLevel :
            findings' = Append(findings, [agent |-> agent, assessed_risk |-> risk])
      BY <2>2 DEF RunSpecialist
    <3>2. IsPrefix(findings, findings')
      <4>1. [agent |-> agent, assessed_risk |-> risk] \in Finding
        BY DEF Finding
      <4>2. QED
        BY <3>1, <4>1, PrefixOfAppend DEF TypeOK
    <3>3. IsPrefix(route_history, route_history')
      BY <2>2, PrefixOfAppend DEF RunSpecialist, TypeOK
    <3>4. report = None /\ approval = None
      BY <2>2 DEF RunSpecialist, GateInv, Specialists
    <3>5. UNCHANGED <<decisions, guardrail_events>>
      BY <2>2 DEF RunSpecialist
    <3>6. QED
      BY <2>0, <3>2, <3>3, <3>4, <3>5
  <2>3. CASE Intake
    BY <2>0, <2>3 DEF Intake
  <2>4. CASE WriteReport \/ WriteFallbackReport
    <3>1. UNCHANGED <<findings, route_history, decisions, guardrail_events, approval>>
      BY <2>4 DEF WriteReport, WriteFallbackReport, FileReport
    <3>2. report = None
      BY <2>4 DEF WriteReport, WriteFallbackReport, FileReport, GateInv
    <3>3. QED
      BY <2>0, <3>1, <3>2
  <2>5. CASE FallbackReportInvalid \/ ProviderFails
    BY <2>0, <2>5 DEF FallbackReportInvalid, ProviderFails, NodeRaises
  <2>6. CASE PauseForApproval \/ Resume \/ Return \/ OutOfSteps
    BY <2>0, <2>6 DEF PauseForApproval, Resume, Return, OutOfSteps
  <2>7. CASE RecordApproval
    <3>1. approval = None
      BY <2>7 DEF RecordApproval, GateInv
    <3>2. QED
      BY <2>0, <2>7, <3>1 DEF RecordApproval
  <2>8. CASE UNCHANGED vars
    BY <2>0, <2>8 DEF vars
  <2>9. QED
    BY <2>1, <2>2, <2>3, <2>4, <2>5, <2>6, <2>7, <2>8 DEF Next, GraphStep, Over
<1>2. QED
  BY <1>1, TypeCorrect, GateInvariant, PTL DEF Spec, RecordsAreFinal

-----------------------------------------------------------------------------
(* The investigation keeps the promise of CaseFile.                        *)

\* CaseFile speaks of the same findings, risks and order.
LEMMA SameSchemas ==
  /\ CaseFile!Finding = Finding
  /\ CaseFile!RiskLevel = RiskLevel
  /\ \A risk, f : CaseFile!IsHighest(risk, f) <=> IsHighest(risk, f)
BY DEF CaseFile!Finding, Finding, CaseFile!RiskLevel, RiskLevel, CaseFile!Specialists,
       Specialists, CaseFile!IsHighest, IsHighest, CaseFile!Rank, Rank

\* Every step of the graph is a step of the case file, or none it can see.
LEMMA StepKeepsPromise ==
  ASSUME TypeOK, TypeOK', GateInv, GateInv', [Next]_vars
  PROVE  [CaseFile!Next]_(CaseFile!vars)
<1> USE DEF CaseFile!vars
<1>1. CASE Supervise
  <2>1. PICK agent \in AgentRoute, basis \in {"model", "fallback", "guardrail"},
             events \in Seq(GuardrailEvent) : Dispatch(agent, basis, events)
    BY <1>1, SuperviseDispatches
  <2>2. UNCHANGED <<findings, report, approval, invocation>>
    BY <2>1 DEF Dispatch, Superstep, evidence, outcome
  <2>3. QED
    BY <2>2 DEF Verdict
<1>2. ASSUME NEW agent \in Specialists, RunSpecialist(agent)
      PROVE  CaseFile!FileEvidence
  <2>1. PICK risk \in RiskLevel :
          findings' = Append(findings, [agent |-> agent, assessed_risk |-> risk])
    BY <1>2 DEF RunSpecialist
  <2>2. [agent |-> agent, assessed_risk |-> risk] \in Finding
    BY DEF Finding
  <2>3. report = None /\ UNCHANGED <<report, approval, invocation>>
    BY <1>2 DEF RunSpecialist, Superstep, outcome, GateInv, Specialists
  <2>4. QED
    BY <2>1, <2>2, <2>3, SameSchemas DEF CaseFile!FileEvidence, Verdict
<1>3. ASSUME NEW sar \in BOOLEAN, FileReport(sar) PROVE CaseFile!Conclude
  <2>1. report = None
    BY <1>3, FiledReport DEF GateInv
  <2>2. Verdict' \in {risk \in RiskLevel : IsHighest(risk, findings)}
    BY <1>3, FiledReport, DerivedRiskIsHighest, DerivedRiskType DEF TypeOK
  <2>3. UNCHANGED <<findings, approval, invocation>>
    BY <1>3, FiledReport
  <2>4. QED
    BY <2>1, <2>2, <2>3, SameSchemas DEF CaseFile!Conclude, Verdict
<1>4. CASE WriteReport \/ WriteFallbackReport
  <2>1. (DeriveOverallRisk(findings) = "HIGH") \in BOOLEAN
    OBVIOUS
  <2>2. CaseFile!Conclude
    BY <1>3, <1>4, <2>1 DEF WriteReport, WriteFallbackReport
  <2>3. QED
    BY <2>2 DEF CaseFile!Next
<1>5. CASE Intake
  BY <1>5 DEF Intake, Superstep, evidence, Verdict
<1>6. CASE FallbackReportInvalid \/ ProviderFails
  <2>1. invocation # "returned" /\ invocation' # "returned"
    BY <1>6 DEF FallbackReportInvalid, ProviderFails, NodeRaises, CanStep
  <2>2. UNCHANGED <<findings, report, approval>>
    BY <1>6 DEF FallbackReportInvalid, ProviderFails, NodeRaises, evidence, outcome
  <2>3. QED
    BY <2>1, <2>2 DEF Verdict
<1>7. CASE PauseForApproval \/ Resume \/ OutOfSteps
  <2>1. invocation # "returned" /\ invocation' # "returned"
    BY <1>7 DEF PauseForApproval, Resume, OutOfSteps, CanStep
  <2>2. UNCHANGED <<findings, report, approval>>
    BY <1>7 DEF PauseForApproval, Resume, OutOfSteps, evidence, outcome
  <2>3. QED
    BY <2>1, <2>2 DEF Verdict
<1>8. CASE RecordApproval
  <2>1. /\ RequireApproval /\ Verdict = "HIGH" /\ approval = None
        /\ UNCHANGED <<findings, report, invocation>>
    BY <1>8 DEF RecordApproval, Superstep, GateInv, evidence
  <2>2. approval' \in Approval
    BY <1>8, RecordedApprovalType
  <2>3. CaseFile!Authorise
    BY <2>1, <2>2 DEF CaseFile!Authorise, CaseFile!Gated, Verdict
  <2>4. QED
    BY <2>3 DEF CaseFile!Next
<1>9. CASE Return
  <2>1. /\ node = "END" /\ invocation = "running" /\ invocation' = "returned"
        /\ UNCHANGED <<findings, report, approval>>
    BY <1>9 DEF Return, CanStep, evidence, outcome
  <2>2. report # None /\ (RequireApproval /\ Verdict = "HIGH" => approval # None)
    BY <2>1 DEF GateInv
  <2>3. Verdict # None
    BY <2>2, NoneIsNothing DEF Verdict, TypeOK, Report
  <2>4. CaseFile!Release
    BY <2>1, <2>2, <2>3 DEF CaseFile!Release, CaseFile!Gated, Verdict
  <2>5. QED
    BY <2>4 DEF CaseFile!Next
<1>10. CASE UNCHANGED vars
  BY <1>10 DEF vars, evidence, outcome, Verdict
<1>11. QED
  BY <1>1, <1>2, <1>4, <1>5, <1>6, <1>7, <1>8, <1>9, <1>10
     DEF Next, GraphStep, Over, CaseFile!Next

\* Every investigation is a case file: evidence filed piece by piece, one
\* verdict drawn from all of it, a HIGH one released only after a decision.
THEOREM KeepsThePromise == Spec => ImplementsCaseFile
<1>1. Init => CaseFile!Init
  BY DEF Init, CaseFile!Init, Verdict
<1>2. TypeOK /\ TypeOK' /\ GateInv /\ GateInv' /\ [Next]_vars
        => [CaseFile!Next]_(CaseFile!vars)
  BY StepKeepsPromise
<1>3. QED
  BY <1>1, <1>2, TypeCorrect, GateInvariant, PTL
     DEF Spec, ImplementsCaseFile, CaseFile!Spec

-----------------------------------------------------------------------------
(* The audit trail and the budget.                                         *)

\* What each branch of the supervisor records, and when it may.
LEMMA SuperviseRecords ==
  ASSUME TypeOK, Supervise
  PROVE  \E agent \in AgentRoute, basis \in {"model", "fallback", "guardrail"},
            events \in Seq(GuardrailEvent) :
           /\ Dispatch(agent, basis, events)
           /\ Len(events) = IF basis = "guardrail" THEN 1 ELSE 0
           /\ OverBudget => agent = "FINISH" /\ basis = "guardrail"
           /\ agent = "FINISH" /\ basis = "guardrail" =>
                OverBudget \/ \E other \in Specialists : Looping(other)
<1> USE DEF AgentRoute, Specialists
<1> /\ <<"STEP_BUDGET_EXHAUSTED">> \in Seq(GuardrailEvent)
    /\ <<"ORDERING_VIOLATION">> \in Seq(GuardrailEvent)
    /\ <<"LOOP_DETECTED">> \in Seq(GuardrailEvent)
  BY DEF GuardrailEvent
<1>1. Len(<< >>) = 0 /\ \A e : Len(<<e>>) = 1
  OBVIOUS
<1>2. CASE SupervisorOutOfBudget
  <2>1. OverBudget /\ Dispatch("FINISH", "guardrail", <<"STEP_BUDGET_EXHAUSTED">>)
    BY <1>2 DEF SupervisorOutOfBudget
  <2> WITNESS "FINISH" \in AgentRoute, "guardrail" \in {"model", "fallback", "guardrail"},
              <<"STEP_BUDGET_EXHAUSTED">> \in Seq(GuardrailEvent)
  <2>2. QED
    BY <1>1, <2>1
<1>3. CASE SupervisorFollowsModel
  <2>1. PICK choice \in AgentRoute : Dispatch(choice, "model", << >>)
    BY <1>3 DEF SupervisorFollowsModel
  <2>2. ~OverBudget
    BY <1>3 DEF SupervisorFollowsModel, AskModel
  <2> WITNESS choice \in AgentRoute, "model" \in {"model", "fallback", "guardrail"},
              << >> \in Seq(GuardrailEvent)
  <2>3. QED
    BY <1>1, <2>1, <2>2
<1>4. CASE SupervisorFallsBack
  <2>1. ~OverBudget /\ Dispatch("FINISH", "fallback", << >>)
    BY <1>4 DEF SupervisorFallsBack, AskModel
  <2> WITNESS "FINISH" \in AgentRoute, "fallback" \in {"model", "fallback", "guardrail"},
              << >> \in Seq(GuardrailEvent)
  <2>2. QED
    BY <1>1, <2>1
<1>5. CASE SupervisorRedirects
  <2>1. ~OverBudget /\ Dispatch("TRANSACTION", "guardrail", <<"ORDERING_VIOLATION">>)
    BY <1>5 DEF SupervisorRedirects, AskModel
  <2> WITNESS "TRANSACTION" \in AgentRoute, "guardrail" \in {"model", "fallback", "guardrail"},
              <<"ORDERING_VIOLATION">> \in Seq(GuardrailEvent)
  <2>2. QED
    BY <1>1, <2>1
<1>6. CASE SupervisorBreaksLoop
  <2>1. /\ ~OverBudget /\ Dispatch("FINISH", "guardrail", <<"LOOP_DETECTED">>)
        /\ \E other \in Specialists : Looping(other)
    BY <1>6 DEF SupervisorBreaksLoop, AskModel
  <2> WITNESS "FINISH" \in AgentRoute, "guardrail" \in {"model", "fallback", "guardrail"},
              <<"LOOP_DETECTED">> \in Seq(GuardrailEvent)
  <2>2. QED
    BY <1>1, <2>1
<1>7. QED
  BY <1>2, <1>3, <1>4, <1>5, <1>6 DEF Supervise

\* No other step touches the trail, and only a specialist's touches the evidence.
LEMMA OtherStepsKeepTrail ==
  ASSUME [Next]_vars, ~Supervise, ~\E agent \in Specialists : RunSpecialist(agent)
  PROVE  /\ UNCHANGED <<findings, route_history, decisions, guardrail_events, step_count>>
         /\ \/ node' = node
            \/ node = "intake" /\ node' = "supervisor"
            \/ node \in {"report", "human_approval"} /\ node' \in {"human_approval", "END"}
<1> USE DEF evidence, trail, outcome, Superstep
<1>1. CASE Intake \/ RecordApproval
  BY <1>1 DEF Intake, RecordApproval
<1>2. CASE WriteReport \/ WriteFallbackReport
  BY <1>2 DEF WriteReport, WriteFallbackReport, FileReport, EdgeAfterReport
<1>3. CASE FallbackReportInvalid \/ ProviderFails
  BY <1>3 DEF FallbackReportInvalid, ProviderFails, NodeRaises
<1>4. CASE PauseForApproval \/ Resume \/ Return \/ OutOfSteps
  BY <1>4 DEF PauseForApproval, Resume, Return, OutOfSteps
<1>5. CASE UNCHANGED vars
  BY <1>5 DEF vars
<1>6. QED
  BY <1>1, <1>2, <1>3, <1>4, <1>5 DEF Next, GraphStep, Over

\* Only a case not yet finished routes, and the budget is spent by routing alone.
BudgetInv ==
  /\ Len(decisions) = step_count
  /\ step_count <= MaxSupervisorSteps + 1
  /\ node \in {"intake", "supervisor"} \cup Specialists => step_count <= MaxSupervisorSteps
  /\ \A i \in 1..Len(decisions) : i > MaxSupervisorSteps =>
       decisions[i].basis = "guardrail" /\ decisions[i].next_agent = "FINISH"

TrailInv == AuditTrailReconstructs /\ BudgetInv /\ OverridesExplained

LEMMA StepAuditTrail ==
  ASSUME TypeOK, AuditTrailReconstructs, [Next]_vars
  PROVE  AuditTrailReconstructs'
<1> DEFINE ran == Len(route_history)
<1>0. /\ ran \in Nat /\ Len(findings) = ran
      /\ \A i \in 1..ran : /\ findings[i].agent = route_history[i]
                          /\ decisions[i].next_agent = route_history[i]
      /\ Len(decisions) = IF node \in {"intake", "supervisor"} THEN ran ELSE ran + 1
      /\ node \notin {"intake", "supervisor"} =>
           decisions[ran + 1].next_agent = IF node \in Specialists THEN node ELSE "FINISH"
  BY DEF AuditTrailReconstructs, TypeOK
<1>1. CASE Supervise
  <2>1. PICK agent \in AgentRoute, basis \in {"model", "fallback", "guardrail"},
             events \in Seq(GuardrailEvent) : Dispatch(agent, basis, events)
    BY <1>1, SuperviseRecords
  <2>2. /\ node = "supervisor"
        /\ UNCHANGED <<findings, route_history>>
        /\ decisions' = Append(decisions, [next_agent |-> agent, basis |-> basis])
        /\ node' = IF agent = "FINISH" THEN "report" ELSE agent
    BY <2>1 DEF Dispatch, Superstep, RouteFromState, evidence
  <2>3. decisions \in Seq(Decision) /\ Len(decisions) = ran
    BY <1>0, <2>2 DEF TypeOK
  <2>4. /\ Len(decisions') = ran + 1
        /\ decisions'[ran + 1] = [next_agent |-> agent, basis |-> basis]
        /\ \A i \in 1..ran : decisions'[i] = decisions[i]
    BY <2>2, <2>3
  <2>5. /\ node' \notin {"intake", "supervisor"}
        /\ decisions'[ran + 1].next_agent = IF node' \in Specialists THEN node' ELSE "FINISH"
    BY <2>2, <2>4 DEF AgentRoute, Specialists
  <2>6. QED
    BY <1>0, <2>2, <2>4, <2>5 DEF AuditTrailReconstructs
<1>2. ASSUME NEW agent \in Specialists, RunSpecialist(agent)
      PROVE  AuditTrailReconstructs'
  <2>1. PICK risk \in RiskLevel :
          findings' = Append(findings, [agent |-> agent, assessed_risk |-> risk])
    BY <1>2 DEF RunSpecialist
  <2>2. /\ node = agent /\ node' = "supervisor" /\ decisions' = decisions
        /\ route_history' = Append(route_history, agent)
    BY <1>2 DEF RunSpecialist, Superstep, trail
  <2>3. node \in Specialists /\ node \notin {"intake", "supervisor"}
    BY <2>2 DEF Specialists
  <2>4. findings \in Seq(Finding) /\ route_history \in Seq(Specialists)
    BY DEF TypeOK
  <2>5. /\ Len(findings') = ran + 1 /\ Len(route_history') = ran + 1
        /\ findings'[ran + 1].agent = agent /\ route_history'[ran + 1] = agent
        /\ \A i \in 1..ran : findings'[i] = findings[i] /\ route_history'[i] = route_history[i]
    BY <1>0, <2>1, <2>2, <2>4
  <2>6. Len(decisions) = ran + 1 /\ decisions[ran + 1].next_agent = agent
    BY <1>0, <2>2, <2>3
  <2>7. \A i \in 1..(ran + 1) : i \in 1..ran \/ i = ran + 1
    BY <1>0
  <2>8. QED
    BY <1>0, <2>2, <2>5, <2>6, <2>7 DEF AuditTrailReconstructs
<1>3. CASE ~Supervise /\ ~\E agent \in Specialists : RunSpecialist(agent)
  BY <1>0, <1>3, OtherStepsKeepTrail DEF AuditTrailReconstructs, Specialists
<1>4. QED
  BY <1>1, <1>2, <1>3

LEMMA StepBudget ==
  ASSUME TypeOK, BudgetInv, [Next]_vars
  PROVE  BudgetInv'
<1> USE LimitsAssumption
<1>1. CASE Supervise
  <2>1. PICK agent \in AgentRoute, basis \in {"model", "fallback", "guardrail"},
             events \in Seq(GuardrailEvent) :
          /\ Dispatch(agent, basis, events)
          /\ OverBudget => agent = "FINISH" /\ basis = "guardrail"
    BY <1>1, SuperviseRecords
  <2> DEFINE n == Len(decisions)
  <2>2. /\ node = "supervisor" /\ step_count' = step_count + 1
        /\ decisions' = Append(decisions, [next_agent |-> agent, basis |-> basis])
        /\ node' = IF agent = "FINISH" THEN "report" ELSE agent
    BY <2>1 DEF Dispatch, Superstep, RouteFromState
  <2>3. decisions \in Seq(Decision) /\ n = step_count /\ n <= MaxSupervisorSteps /\ n \in Nat
    BY <2>2 DEF BudgetInv, TypeOK
  <2>4. /\ Len(decisions') = n + 1
        /\ decisions'[n + 1] = [next_agent |-> agent, basis |-> basis]
        /\ \A i \in 1..n : decisions'[i] = decisions[i]
    BY <2>2, <2>3
  <2>5. n + 1 > MaxSupervisorSteps => agent = "FINISH" /\ basis = "guardrail"
    BY <2>1, <2>3 DEF OverBudget
  <2>6. ASSUME NEW i \in 1..(n + 1), i > MaxSupervisorSteps
        PROVE  decisions'[i].basis = "guardrail" /\ decisions'[i].next_agent = "FINISH"
    <3>1. i = n + 1
      BY <2>3, <2>6
    <3>2. QED
      BY <2>4, <2>5, <2>6, <3>1
  <2>7. node' \in {"intake", "supervisor"} \cup Specialists => n + 1 <= MaxSupervisorSteps
    BY <2>2, <2>3, <2>5 DEF Specialists
  <2>8. QED
    BY <2>2, <2>3, <2>4, <2>6, <2>7 DEF BudgetInv
<1>2. ASSUME NEW agent \in Specialists, RunSpecialist(agent)
      PROVE  BudgetInv'
  <2>1. node = agent /\ UNCHANGED <<decisions, step_count>>
    BY <1>2 DEF RunSpecialist, Superstep, trail
  <2>2. QED
    BY <2>1 DEF BudgetInv
<1>3. CASE ~Supervise /\ ~\E agent \in Specialists : RunSpecialist(agent)
  BY <1>3, OtherStepsKeepTrail DEF BudgetInv, Specialists
<1>4. QED
  BY <1>1, <1>2, <1>3

\* One decision more is one override more or none.
LEMMA OverridesAppend ==
  ASSUME NEW log \in Seq(Decision), NEW d \in Decision
  PROVE  Cardinality({i \in DOMAIN Append(log, d) : Append(log, d)[i].basis = "guardrail"})
           = Cardinality({i \in DOMAIN log : log[i].basis = "guardrail"})
             + (IF d.basis = "guardrail" THEN 1 ELSE 0)
<1> DEFINE old == {i \in DOMAIN log : log[i].basis = "guardrail"}
           new == {i \in DOMAIN Append(log, d) : Append(log, d)[i].basis = "guardrail"}
<1>1. /\ Len(log) \in Nat /\ DOMAIN log = 1..Len(log)
      /\ DOMAIN Append(log, d) = 1..(Len(log) + 1)
      /\ Append(log, d)[Len(log) + 1] = d
      /\ \A i \in 1..Len(log) : Append(log, d)[i] = log[i]
  OBVIOUS
<1>2. IsFiniteSet(old) /\ Cardinality(old) \in Nat /\ Len(log) + 1 \notin old
  <2>1. old \subseteq 1..Len(log) /\ IsFiniteSet(1..Len(log))
    BY <1>1, FS_Interval
  <2>2. QED
    BY <1>1, <2>1, FS_Subset, FS_CardinalityType
<1>3. CASE d.basis = "guardrail"
  <2>1. new = old \cup {Len(log) + 1}
    BY <1>1, <1>3
  <2> HIDE DEF old, new
  <2>2. Cardinality(new) = Cardinality(old) + 1
    BY <1>2, <2>1, FS_AddElement
  <2>3. QED
    BY <1>3, <2>2 DEF old, new
<1>4. CASE d.basis # "guardrail"
  <2>1. new = old
    BY <1>1, <1>4
  <2>2. /\ Cardinality(new) = Cardinality(old)
        /\ (IF d.basis = "guardrail" THEN 1 ELSE 0) = 0
    BY <1>4, <2>1
  <2> HIDE DEF old, new
  <2>3. Cardinality(new) = Cardinality(old) + 0
    BY <1>2, <2>2
  <2>4. QED
    BY <2>2, <2>3 DEF old, new
<1>5. QED
  BY <1>3, <1>4

LEMMA StepOverrides ==
  ASSUME TypeOK, VisitsInv, AuditTrailReconstructs, BudgetInv, OverridesExplained,
         [Next]_vars
  PROVE  OverridesExplained'
<1> USE LimitsAssumption
<1> DEFINE n == Len(decisions)
           Forced(log) == \E i \in DOMAIN log : /\ log[i].basis = "guardrail"
                                               /\ log[i].next_agent = "FINISH"
           Reason == \/ Len(decisions) > MaxSupervisorSteps
                     \/ \E agent \in Specialists : Visits(agent) = MaxVisitsPerAgent
           Count(log) == Cardinality({i \in DOMAIN log : log[i].basis = "guardrail"})
<1>1. /\ Len(guardrail_events) = Count(decisions) /\ (Forced(decisions) => Reason)
      /\ decisions \in Seq(Decision) /\ DOMAIN decisions = 1..n /\ n \in Nat
      /\ guardrail_events \in Seq(GuardrailEvent)
  BY DEF OverridesExplained, TypeOK
<1>2. SUFFICES /\ Len(guardrail_events') = Count(decisions')
               /\ Forced(decisions') => Reason'
  BY DEF OverridesExplained
<1>3. CASE Supervise
  <2>1. PICK agent \in AgentRoute, basis \in {"model", "fallback", "guardrail"},
             events \in Seq(GuardrailEvent) :
          /\ Dispatch(agent, basis, events)
          /\ Len(events) = IF basis = "guardrail" THEN 1 ELSE 0
          /\ agent = "FINISH" /\ basis = "guardrail" =>
               OverBudget \/ \E other \in Specialists : Looping(other)
    BY <1>3, SuperviseRecords
  <2> DEFINE d == [next_agent |-> agent, basis |-> basis]
  <2>2. /\ node = "supervisor" /\ decisions' = Append(decisions, d)
        /\ guardrail_events' = guardrail_events \o events
        /\ UNCHANGED route_history /\ d \in Decision
    BY <2>1 DEF Dispatch, Superstep, evidence, Decision
  <2>3. Len(guardrail_events') = Count(decisions')
    <3>1. Count(decisions') = Count(decisions) + (IF basis = "guardrail" THEN 1 ELSE 0)
      <4>1. Count(Append(decisions, d)) = Count(decisions) + (IF d.basis = "guardrail" THEN 1 ELSE 0)
        BY <1>1, <2>2, OverridesAppend
      <4>2. d.basis = basis
        OBVIOUS
      <4> HIDE DEF Count, d
      <4>3. QED
        BY <2>2, <4>1, <4>2
    <3> HIDE DEF Count, Forced, Reason
    <3>2. Len(guardrail_events') = Len(guardrail_events) + Len(events)
      <4>1. guardrail_events \in Seq(GuardrailEvent) /\ events \in Seq(GuardrailEvent)
        BY <1>1
      <4>2. guardrail_events' = guardrail_events \o events
        BY <2>2
      <4>3. QED
        BY ONLY <4>1, <4>2
    <3>3. QED
      BY <1>1, <2>1, <3>1, <3>2
  <2>4. /\ Len(decisions') = n + 1 /\ DOMAIN decisions' = 1..(n + 1)
        /\ decisions'[n + 1] = d
        /\ \A i \in 1..n : decisions'[i] = decisions[i]
    BY <1>1, <2>2
  <2>5. ASSUME Forced(decisions')  PROVE Reason'
    <3>1. PICK i \in 1..(n + 1) : /\ decisions'[i].basis = "guardrail"
                                  /\ decisions'[i].next_agent = "FINISH"
      BY <2>4, <2>5
    <3>2. CASE i \in 1..n
      <4>1. Forced(decisions)
        BY <1>1, <2>4, <3>1, <3>2
      <4>2. QED
        BY <1>1, <2>2, <2>4, <4>1 DEF Visits
    <3>3. CASE i = n + 1
      <4>1. OverBudget \/ \E other \in Specialists : Looping(other)
        BY <2>1, <2>4, <3>1, <3>3
      <4>2. CASE OverBudget
        BY <2>4, <4>2 DEF OverBudget, BudgetInv
      <4>3. ASSUME NEW other \in Specialists, Looping(other)
            PROVE  Visits(other)' = MaxVisitsPerAgent
        <5>1. Visits(other) <= MaxVisitsPerAgent
          BY DEF VisitsInv, NoSpecialistLoops
        <5>2. Visits(other) \in Nat
          BY CounterType DEF Visits, TypeOK
        <5>3. Visits(other)' = Visits(other)
          BY <2>2 DEF Visits
        <5>4. QED
          BY <4>3, <5>1, <5>2, <5>3 DEF Looping
      <4>4. QED
        BY <4>1, <4>2, <4>3
    <3>4. QED
      BY <1>1, <3>1, <3>2, <3>3
  <2>6. QED
    BY <2>3, <2>5
\* A forced FINISH is the last decision: no specialist is on its way any more.
<1>4. ASSUME NEW agent \in Specialists, RunSpecialist(agent)
      PROVE  /\ Len(guardrail_events') = Count(decisions')
             /\ Forced(decisions') => Reason'
  <2>1. node = agent /\ UNCHANGED <<decisions, guardrail_events>>
    BY <1>4 DEF RunSpecialist, Superstep, trail
  <2>2. /\ n = Len(route_history) + 1 /\ route_history \in Seq(Specialists)
        /\ decisions[n].next_agent = agent
        /\ \A i \in 1..Len(route_history) : decisions[i].next_agent = route_history[i]
    BY <2>1 DEF AuditTrailReconstructs, Specialists, TypeOK
  <2>3. \A i \in 1..n : decisions[i].next_agent \in Specialists
    BY <2>2
  <2>4. ~Forced(decisions)
    BY <1>1, <2>3 DEF Specialists
  <2>5. QED
    BY <1>1, <2>1, <2>4
<1>5. CASE ~Supervise /\ ~\E agent \in Specialists : RunSpecialist(agent)
  <2>1. UNCHANGED <<route_history, decisions, guardrail_events>>
    BY <1>5, OtherStepsKeepTrail
  <2>2. QED
    BY <1>1, <2>1 DEF Visits
<1>6. QED
  BY <1>3, <1>4, <1>5

LEMMA TrailInvariant == Spec => []TrailInv
<1>1. Init => TrailInv
  <2> SUFFICES ASSUME Init  PROVE TrailInv
    OBVIOUS
  <2>1. AuditTrailReconstructs /\ BudgetInv
    BY LimitsAssumption DEF Init, AuditTrailReconstructs, BudgetInv
  <2>2. OverridesExplained
    <3>1. DOMAIN decisions = {} /\ Len(guardrail_events) = 0
      BY DEF Init
    <3>2. {i \in DOMAIN decisions : decisions[i].basis = "guardrail"} = {}
      BY <3>1
    <3>3. QED
      BY <3>1, <3>2, FS_EmptySet DEF OverridesExplained
  <2>3. QED
    BY <2>1, <2>2 DEF TrailInv
<1>2. TypeOK /\ VisitsInv /\ TrailInv /\ [Next]_vars => TrailInv'
  BY StepAuditTrail, StepBudget, StepOverrides DEF TrailInv
<1>3. QED
  BY <1>1, <1>2, TypeCorrect, VisitsInvariant, PTL DEF Spec

\* The decisions on file, read in order, are the specialists that ran and the
\* authors of the findings, but for the last one while it is under way.
THEOREM AuditTrailExplains == Spec => []AuditTrailReconstructs
<1>1. TrailInv => AuditTrailReconstructs
  BY DEF TrailInv
<1>2. QED
  BY <1>1, TrailInvariant, PTL

-----------------------------------------------------------------------------
(* The budget is one of model calls.                                       *)

Forced == "STEP_BUDGET_EXHAUSTED" \in ToSet(guardrail_events)

\* The case ended in the call of the routing model.
Failed == invocation = "provider_error" /\ node = "supervisor"

\* Calls and decisions go together, but for the call that failed and for the
\* FINISH nobody was asked about, after which no one is asked again.
AskedInv ==
  /\ node \in {"intake", "supervisor"} \cup Specialists => ~Forced
  /\ asked <= MaxSupervisorSteps
  /\ Forced => asked = MaxSupervisorSteps /\ step_count = asked + 1
  /\ ~Forced => asked = step_count + (IF Failed THEN 1 ELSE 0)

\* One event more is that event more.
LEMMA EventsAppend ==
  ASSUME NEW log \in Seq(GuardrailEvent), NEW e \in GuardrailEvent
  PROVE  /\ ToSet(log \o <<e>>) = ToSet(log) \cup {e}
         /\ ToSet(log \o << >>) = ToSet(log)
<1>1. /\ Len(log) \in Nat /\ DOMAIN log = 1..Len(log)
      /\ DOMAIN (log \o <<e>>) = 1..(Len(log) + 1)
      /\ (log \o <<e>>)[Len(log) + 1] = e
      /\ \A i \in 1..Len(log) : (log \o <<e>>)[i] = log[i]
  OBVIOUS
<1>2. ToSet(log \o <<e>>) = ToSet(log) \cup {e}
  BY <1>1 DEF ToSet
<1>3. log \o << >> = log
  OBVIOUS
<1>4. QED
  BY <1>2, <1>3

\* A turn of the supervisor calls the model once and says nothing of the budget,
\* or finds the budget spent, says so and calls nobody.
LEMMA SuperviseAsks ==
  ASSUME TypeOK, Supervise
  PROVE  /\ node = "supervisor" /\ invocation = "running" /\ invocation' = "running"
         /\ step_count' = step_count + 1
         /\ ~OverBudget => asked' = asked + 1 /\ Forced' = Forced
         /\ OverBudget => /\ asked' = asked /\ Forced'
                         /\ node' = "report"
<1> USE DEF Dispatch, Superstep, CanStep, Forced
<1>1. /\ "STEP_BUDGET_EXHAUSTED" \in GuardrailEvent /\ "ORDERING_VIOLATION" \in GuardrailEvent
      /\ "LOOP_DETECTED" \in GuardrailEvent /\ guardrail_events \in Seq(GuardrailEvent)
  BY DEF GuardrailEvent, TypeOK
<1>2. CASE SupervisorOutOfBudget
  <2>1. /\ OverBudget /\ asked' = asked
        /\ Dispatch("FINISH", "guardrail", <<"STEP_BUDGET_EXHAUSTED">>)
    BY <1>2 DEF SupervisorOutOfBudget
  <2>2. ToSet(guardrail_events') = ToSet(guardrail_events) \cup {"STEP_BUDGET_EXHAUSTED"}
    BY <1>1, <2>1, EventsAppend
  <2>3. QED
    BY <2>1, <2>2 DEF RouteFromState
<1>3. ASSUME AskModel, NEW agent, NEW basis,
             NEW events \in {<< >>, <<"ORDERING_VIOLATION">>, <<"LOOP_DETECTED">>},
             Dispatch(agent, basis, events)
      PROVE  /\ node = "supervisor" /\ invocation = "running" /\ invocation' = "running"
             /\ step_count' = step_count + 1
             /\ ~OverBudget /\ asked' = asked + 1 /\ Forced' = Forced
  <2>1. ~OverBudget /\ asked' = asked + 1
    BY <1>3 DEF AskModel
  <2>2. ToSet(guardrail_events') \in
          {ToSet(guardrail_events), ToSet(guardrail_events) \cup {"ORDERING_VIOLATION"},
           ToSet(guardrail_events) \cup {"LOOP_DETECTED"}}
    BY <1>1, <1>3, EventsAppend
  <2>3. Forced' = Forced
    BY <2>2
  <2>4. QED
    BY <1>3, <2>1, <2>3
<1>4. CASE SupervisorFollowsModel
  BY <1>3, <1>4 DEF SupervisorFollowsModel
<1>5. CASE SupervisorFallsBack
  BY <1>3, <1>5 DEF SupervisorFallsBack
<1>6. CASE SupervisorRedirects
  BY <1>3, <1>6 DEF SupervisorRedirects
<1>7. CASE SupervisorBreaksLoop
  BY <1>3, <1>7 DEF SupervisorBreaksLoop
<1>8. QED
  BY <1>2, <1>4, <1>5, <1>6, <1>7 DEF Supervise

\* No other step asks the routing model, but the one in which the asking fails.
LEMMA OtherStepsAsk ==
  ASSUME [Next]_vars, ~Supervise, ~\E agent \in Specialists : RunSpecialist(agent)
  PROVE  /\ UNCHANGED <<guardrail_events, step_count>>
         /\ \/ AskModel /\ invocation = "running" /\ node = "supervisor" /\ node' = node
               /\ invocation' = "provider_error"
            \/ /\ UNCHANGED asked
               /\ \/ UNCHANGED <<node, invocation>>
                  \/ invocation' # "provider_error" /\ invocation # "provider_error"
                  \/ node' # "supervisor" /\ node # "supervisor"
               /\ node' = node \/ node = "intake" \/ node' \in {"human_approval", "END"}
<1> USE DEF evidence, trail, outcome, Superstep, CanStep
<1>1. CASE Intake \/ RecordApproval
  BY <1>1 DEF Intake, RecordApproval
<1>2. CASE WriteReport \/ WriteFallbackReport
  BY <1>2 DEF WriteReport, WriteFallbackReport, FileReport, EdgeAfterReport
<1>3. CASE FallbackReportInvalid
  BY <1>3 DEF FallbackReportInvalid, NodeRaises
<1>4. CASE ProviderFails
  BY <1>4 DEF ProviderFails, NodeRaises, Specialists
<1>5. CASE PauseForApproval \/ Resume \/ Return \/ OutOfSteps
  BY <1>5 DEF PauseForApproval, Resume, Return, OutOfSteps
<1>6. CASE UNCHANGED vars
  BY <1>6 DEF vars
<1>7. QED
  BY <1>1, <1>2, <1>3, <1>4, <1>5, <1>6 DEF Next, GraphStep, Over

LEMMA StepAsked ==
  ASSUME TypeOK, BudgetInv, AskedInv, [Next]_vars
  PROVE  AskedInv'
<1> USE LimitsAssumption
<1>0. /\ asked \in Nat /\ step_count \in Nat /\ MaxSupervisorSteps \in Nat
      /\ node = "supervisor" => step_count <= MaxSupervisorSteps
  BY DEF TypeOK, BudgetInv
<1>1. CASE Supervise
  <2>1. /\ node = "supervisor" /\ ~Forced /\ ~Failed /\ ~Failed'
        /\ asked = step_count /\ step_count' = step_count + 1
    BY <1>0, <1>1, SuperviseAsks DEF AskedInv, Failed
  <2>2. CASE OverBudget
    <3>1. asked' = MaxSupervisorSteps /\ step_count' = asked' + 1
      BY <1>0, <1>1, <2>1, <2>2, SuperviseAsks DEF OverBudget
    <3>2. Forced' /\ node' = "report"
      BY <1>1, <2>2, SuperviseAsks
    <3>3. QED
      BY <1>0, <3>1, <3>2 DEF AskedInv, Specialists
  <2>3. CASE ~OverBudget
    <3>1. asked' = step_count' /\ asked' <= MaxSupervisorSteps
      BY <1>0, <1>1, <2>1, <2>3, SuperviseAsks DEF OverBudget
    <3>2. ~Forced'
      BY <1>1, <2>1, <2>3, SuperviseAsks
    <3>3. asked' = step_count' + 0
      BY <1>0, <2>1, <3>1
    <3>4. QED
      BY <2>1, <3>1, <3>2, <3>3 DEF AskedInv
  <2>4. QED
    BY <2>2, <2>3
<1>2. ASSUME NEW agent \in Specialists, RunSpecialist(agent)
      PROVE  AskedInv'
  <2>1. /\ node = agent /\ node' = "supervisor" /\ invocation' = "running"
        /\ UNCHANGED <<guardrail_events, step_count, asked>>
    BY <1>2 DEF RunSpecialist, Superstep, CanStep, trail
  <2>2. ~Forced /\ ~Forced' /\ ~Failed /\ ~Failed'
    BY <2>1 DEF AskedInv, Forced, Failed, Specialists
  <2>3. QED
    BY <2>1, <2>2 DEF AskedInv
<1>3. CASE ~Supervise /\ ~\E agent \in Specialists : RunSpecialist(agent)
  <2>1. Forced' = Forced /\ step_count' = step_count
    BY <1>3, OtherStepsAsk DEF Forced
  <2>2. CASE /\ AskModel /\ invocation = "running" /\ node = "supervisor" /\ node' = node
             /\ invocation' = "provider_error"
    <3>1. ~Forced /\ ~Failed /\ Failed' /\ asked = step_count
      BY <1>0, <2>2 DEF AskedInv, Failed
    <3>2. asked' = step_count' + 1 /\ asked' <= MaxSupervisorSteps
      BY <1>0, <2>1, <2>2, <3>1 DEF AskModel, OverBudget
    <3>3. QED
      BY <2>1, <2>2, <3>1, <3>2 DEF AskedInv
  <2>3. CASE ~(/\ AskModel /\ invocation = "running" /\ node = "supervisor" /\ node' = node
               /\ invocation' = "provider_error")
    <3>1. /\ asked' = asked /\ Failed' = Failed
          /\ node' = node \/ node = "intake" \/ node' \in {"human_approval", "END"}
      BY <1>3, <2>3, OtherStepsAsk DEF Failed
    <3>2. QED
      BY <2>1, <3>1 DEF AskedInv, Specialists
  <2>4. QED
    BY <2>2, <2>3
<1>4. QED
  BY <1>1, <1>2, <1>3

LEMMA AskedInvariant == Spec => []AskedInv
<1>1. Init => AskedInv
  BY LimitsAssumption DEF Init, AskedInv, Forced, Failed, ToSet
<1>2. TypeOK /\ TrailInv /\ AskedInv /\ [Next]_vars => AskedInv'
  BY StepAsked DEF TrailInv
<1>3. QED
  BY <1>1, <1>2, TypeCorrect, TrailInvariant, PTL DEF Spec

\* The routing model is called at most MaxSupervisorSteps times, answers thrown
\* away and calls that fail included; only a spent budget forces the end, with
\* no call behind it; and every call that came back has its decision on file.
THEOREM BudgetIsRespected == Spec => []BudgetRespected
<1>1. TrailInv /\ AskedInv => BudgetRespected
  BY DEF TrailInv, BudgetInv, AskedInv, BudgetRespected, Forced, Failed
<1>2. QED
  BY <1>1, TrailInvariant, AskedInvariant, PTL

\* Every override of the model has its event, and every forced FINISH its reason.
THEOREM OverridesAreExplained == Spec => []OverridesExplained
<1>1. TrailInv => OverridesExplained
  BY DEF TrailInv
<1>2. QED
  BY <1>1, TrailInvariant, PTL
=============================================================================
