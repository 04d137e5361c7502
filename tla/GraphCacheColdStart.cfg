SPECIFICATION Spec
CONSTANTS
  Workers = {w1, w2}
  Threads = {t1, t2}
  None = none
INVARIANT
  AnsweredCasesAreFound
