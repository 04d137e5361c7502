SPECIFICATION Spec
CONSTANTS
  Bookable <- MCBookable
  Profiles <- MCProfiles
  HighRiskCountries = {"Panama", "Cyprus"}
  Cutoffs = {0, 24}
  MaxEntries = 3
  MaxReturned = 2
  MaxShown = 1
INVARIANTS
  PatternsAreFound
  ObligationsEscalate
  ToolsAgree
PROPERTY
  EvidenceNeverHelps
