SPECIFICATION Spec
CONSTANTS
  Callers = {c1, c2}
  HealthTTL = 2
  MaxTime = 3
INVARIANTS
  TypeOK
  VerdictIsRecent
  TierRespected
  FallsBack
SYMMETRY Symmetry
