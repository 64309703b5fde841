SPECIFICATION Spec
CONSTANTS
  Sources <- MCSources
  Scalars <- MCScalars
  Rates <- MCRates
  MaxGrid = 10
  Events <- MCEvents
  Second = 120
  kNoSourceStart <- MCNoSourceStart
  kMaxOut = 8
  MaxCalls = 3
INVARIANTS
  TimeRespected
  SliceSelectsWhatIsShown
  AlgorithmsMatchDefinitions
CHECK_DEADLOCK FALSE
