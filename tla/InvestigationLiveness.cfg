SPECIFICATION FairSpec
CONSTANTS
  RequireApproval = TRUE
  Approvers = {alice}
  System = system
  Malformed = malformed
  None = none
  MaxSupervisorSteps = 3
  MaxVisitsPerAgent = 2
  RecursionLimit = 6
  MaxKeyFindings = 1
PROPERTY
  ReplyIsRecorded
