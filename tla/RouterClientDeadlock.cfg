SPECIFICATION FairSpec
CONSTANTS
  MaxRequests = 2
  MaxSamples = 0
  MaxConnects = 1
PROPERTY
  ExitUnblocksWaiters
CHECK_DEADLOCK FALSE
