SPECIFICATION FairSpec
CONSTANTS
  NSlots = 2
  Name <- TwoNames
  ChannelName <- OwnNames
  MaxBatch = 1
  MaxSamples = 2
  MaxSessions = 2
INVARIANTS
  Conservation
  FileFollowsSignal
  StopKeepsABatch
  OverrunsReported
  NoCallbackWithoutSession
PROPERTIES
  QueuedIsRecorded
