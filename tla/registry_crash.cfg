SPECIFICATION Spec
CONSTANTS
  Clients = {b1, b2}
  Names = {n1, n2}
  ValidNames = {n1, n2}
  Codes <- AllCodes
  TornWrites = TRUE
  MaxRetries = 0
  MaxBuilds = 1
INVARIANT
  Survives
