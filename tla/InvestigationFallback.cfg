SPECIFICATION Spec
CONSTANTS
  RequireApproval = TRUE
  Approvers = {alice}
  System = system
  Malformed = malformed
  None = none
  MaxSupervisorSteps = 3
  MaxVisitsPerAgent = 2
  RecursionLimit = 10
  MaxKeyFindings = 2
INVARIANT
  MalformedOutputNeverAborts
