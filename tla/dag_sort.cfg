SPECIFICATION Spec
CONSTANTS
  N = 3
  DepLists <- Ascending
INVARIANTS
  TypeOK
  CycleIsExact
  LayersAreTight
PROPERTIES
  SortsTopologically
