SPECIFICATION Spec
CONSTANTS
  N = 4
  Graphs <- AllDags
  FailFast = FALSE
  MaxRuns = 1
  Outcomes = {"ok", "err"}
INVARIANTS
  TypeOK
  NothingLost
  SkipExact
  Quiescent
  ViewAgrees
PROPERTIES
  KeepsContract
