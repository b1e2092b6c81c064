SPECIFICATION SwarmSpec
CONSTANTS
  N = 2
  Graphs <- AllDags
  FailFast = TRUE
  MaxRuns = 2
  Outcomes = {"ok", "err"}
  Actions <- EverySort
  Answers = {"yes", "no", "raises"}
  MaxRetries = 1
  FragileAgents = TRUE
  Assigned <- Mixed
INVARIANTS
  SwarmTypeOK
  Reviewed
  AttemptsExact
  TornDown
  SnapshotHasDeps
  MemoryMatches
  NotTornInUse
PROPERTIES
  ImplementsEngine
