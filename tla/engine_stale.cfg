SPECIFICATION Spec
CONSTANTS
  N = 2
  Graphs <- AllDags
  FailFast = TRUE
  MaxRuns = 2
  Outcomes = {"ok", "err"}
INVARIANTS
  RestSkipped
