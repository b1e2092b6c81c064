SPECIFICATION Spec
CONSTANTS
  N = 3
  Graphs <- AllDags
  FailFast = TRUE
  MaxRuns = 2
  Outcomes = {"ok", "err", "cancelled"}
INVARIANTS
  FreshContext
  NoOrphan
PROPERTIES
  FinalStable
  Termination
