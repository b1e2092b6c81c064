SPECIFICATION Spec
CONSTANTS
  N = 2
  DepLists <- Repeated
INVARIANTS
  CycleIsExact
