SPECIFICATION ScriptedSpec
CONSTANTS
  RequireApproval = TRUE
  Approvers = {demo}
  DemoReviewer = demo
  System = system
  Malformed = malformed
  None = none
  MaxSupervisorSteps = 4
  MaxVisitsPerAgent = 2
  RecursionLimit = 12
  MaxKeyFindings = 4
INVARIANT
  ScriptIsDefensible
PROPERTY
  CommandConcludes
