SPECIFICATION FairSpec
CONSTANTS
  RequireApproval = TRUE
  Approvers = {alice}
  System = system
  Malformed = malformed
  None = none
  MaxSupervisorSteps = 4
  MaxVisitsPerAgent = 2
  RecursionLimit = 12
  MaxKeyFindings = 3
INVARIANTS
  TypeOK
  ScoredOnEvidence
  NoSpecialistLoops
  AuditTrailReconstructs
  BudgetRespected
  OverridesExplained
  VerdictFromEvidence
  HighRiskNeedsHuman
  RecursionLimitNeverStrikes
PROPERTIES
  RecordsAreFinal
  ImplementsCaseFile
  ReachesItsReport
