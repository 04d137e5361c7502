SPECIFICATION GatewaySpec
CONSTANTS
  Workers = {w1, w2}
  Threads = {t1, t2, t3}
  None = none
  Configurations <- MCConfigurations
  Lowered <- MCLowered
  Tokens = {"k1", "k2"}
  Names = {"ann", "bob"}
SYMMETRY MCSymmetry
INVARIANTS
  LossIsBounded
  AdmitsExactlyTheConfigured
  ProductionDecisionsAreSigned
