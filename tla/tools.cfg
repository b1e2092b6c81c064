SPECIFICATION Spec
CONSTANTS
  Clients = {b1, b2}
  Names = {n1, n2}
  ValidNames = {n1}
  Codes <- AllCodes
  TornWrites = FALSE
  MaxRetries = 2
  MaxBuilds = 1
INVARIANTS
  FactoryTypeOK
  CleanedUp
  Retrievable
  OnlyProven
  HonestFailure
PROPERTY BuildsEnd
