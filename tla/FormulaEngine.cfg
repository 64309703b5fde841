SPECIFICATION FairSpec
CONSTANTS
  Names = {x, y, z}
  Compute <- SumPlusOne
  MaxRefs = 2
  MaxEdits = 4
INVARIANTS
  OrderedIsFresh
  NoFormulaLeftOut
  UndoRestoresValues
PROPERTIES
  DefinitionsKept
  ComesToRest
CHECK_DEADLOCK FALSE
