------------------------------ MODULE CaseFile ------------------------------
(***************************************************************************)
(* What an investigation promises to the people who rely on it, with no     *)
(* graph, no model and no guardrail in sight: evidence is filed one piece   *)
(* at a time, the verdict is drawn once and from all the evidence filed,    *)
(* and a HIGH verdict leaves the building only once a person has decided.   *)
(* Investigation implements this specification.                             *)
(***************************************************************************)
EXTENDS Schemas

CONSTANTS RequireApproval,   \* whether HIGH verdicts need a person
          Approvals,         \* the decisions a person can leave on the file
          None               \* nothing recorded yet

VARIABLES file,              \* the findings filed so far, oldest first
          verdict,           \* the risk level concluded, or None
          authorisation,     \* the human decision on it, or None
          closed             \* whether the outcome was released

vars == <<file, verdict, authorisation, closed>>

Gated == RequireApproval /\ verdict = "HIGH"

Init == /\ file = <<>>
        /\ verdict = None
        /\ authorisation = None
        /\ closed = FALSE

FileEvidence ==
  /\ verdict = None
  /\ \E f \in Finding : file' = Append(file, f)
  /\ UNCHANGED <<verdict, authorisation, closed>>

Conclude ==
  /\ verdict = None
  /\ verdict' \in {risk \in RiskLevel : IsHighest(risk, file)}
  /\ UNCHANGED <<file, authorisation, closed>>

Authorise ==
  /\ Gated
  /\ authorisation = None
  /\ authorisation' \in Approvals
  /\ UNCHANGED <<file, verdict, closed>>

Release ==
  /\ ~closed
  /\ verdict # None
  /\ Gated => authorisation # None
  /\ closed' = TRUE
  /\ UNCHANGED <<file, verdict, authorisation>>

Next == FileEvidence \/ Conclude \/ Authorise \/ Release

Spec == Init /\ [][Next]_vars
=============================================================================
