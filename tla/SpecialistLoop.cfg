SPECIFICATION FairSpec
CONSTANTS
  Route = "FRAUD"
  MaxToolIterations = 3
  MaxRequests = 3
  None = none
INVARIANTS
  TypeOK
  NoCallLeftUnanswered
  FindingIsItsOwn
PROPERTY
  GetsItsFinding
