SPECIFICATION FairSpec
CONSTANTS
  Docs = {d1, d2, d3}
  MaxDepth = 4
INVARIANTS
  SettledIsRecorded
PROPERTIES
  ImplementsHistory
  EditSettles
