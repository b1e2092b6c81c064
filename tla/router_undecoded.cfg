SPECIFICATION Spec
CONSTANTS
  Callers = {c1}
  HealthTTL = 1
  MaxTime = 0
INVARIANTS
  AlwaysFallsBack
