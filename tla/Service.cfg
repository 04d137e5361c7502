SPECIFICATION Spec
CONSTANTS
  Workers = {w1, w2}
  Threads = {t1, t2, t3}
  MaxThreads = 2
  Principals = {ann, bob}
  CanApprove = {bob}
  AuthEnabled = TRUE
  LimitCoversBudget = FALSE
  None = none
INVARIANTS
  TypeOK
  AcknowledgedIsRecorded
  KeepsMostRecentlyWritten
  DecisionsAreAttributable
  FilesAreWhole
  AnswersTellWhatIsHeld
