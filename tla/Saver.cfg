SPECIFICATION Spec
CONSTANTS
  Workers = {w1, w2, w3}
  Threads = {t1, t2, t3}
  MaxThreads = 2
  None = none
INVARIANTS
  TypeOK
  RetentionIsBounded
  EvictionNeverFails
  KeepsWhatItPromises
