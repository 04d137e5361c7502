------------------------------ MODULE Schemas ------------------------------
(***************************************************************************)
(* The vocabulary shared by the investigation graph and by the services    *)
(* around it: the specialists a supervisor may dispatch, the risk levels    *)
(* with their order, and the one computed verdict, derive_overall_risk.     *)
(***************************************************************************)
EXTENDS Integers, Sequences

\* The four specialists of SPECIALIST_NODES.
Specialists == {"CUSTOMER", "TRANSACTION", "FRAUD", "POLICY"}

\* AgentRoute: everything a routing decision may name.
AgentRoute == Specialists \cup {"FINISH"}

RiskLevel == {"LOW", "MEDIUM", "HIGH"}

\* RiskLevel.rank.
Rank == [LOW |-> 0, MEDIUM |-> 1, HIGH |-> 2]

\* What the graph tells apart in a Finding: who produced it, how risky it is.
Finding == [agent : Specialists, assessed_risk : RiskLevel]

\* HumanApproval; only the verdict and whose name it carries are kept.
HumanApproval(names) == [approved : BOOLEAN, approver : names]

RisksIn(findings) == {findings[i].assessed_risk : i \in DOMAIN findings}

\* A plausible mistake, for the runs that try the properties against one.
BugLatestRisk(findings) ==
  IF findings = <<>> THEN "LOW" ELSE findings[Len(findings)].assessed_risk

\* derive_overall_risk: LOW without evidence, else the highest risk evidenced.
DeriveOverallRisk(findings) ==
  IF findings = <<>>
  THEN "LOW"
  ELSE CHOOSE r \in RisksIn(findings) :
         \A s \in RisksIn(findings) : Rank[s] <= Rank[r]

(***************************************************************************)
(* The reference definition the computed verdict is held to: no finding is  *)
(* above it, and some finding is as high (none is needed for LOW).          *)
(***************************************************************************)
IsHighest(risk, findings) ==
  /\ risk \in RiskLevel
  /\ \A i \in DOMAIN findings : Rank[findings[i].assessed_risk] <= Rank[risk]
  /\ risk = "LOW" \/ \E i \in DOMAIN findings : findings[i].assessed_risk = risk
=============================================================================
