SPECIFICATION Spec
CONSTANTS
  Captures = {r1}
  CsvFiles = {c1}
  H5Files = {h1}
  BaseName <- SameName
  NewNames = {"n", "m"}
  MaxSignals = 4
  MaxForeign = 1
INVARIANTS
  OwnershipExact
PROPERTIES
  OthersKept
CHECK_DEADLOCK FALSE
