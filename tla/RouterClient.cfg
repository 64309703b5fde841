SPECIFICATION FairSpec
CONSTANTS
  MaxRequests = 4
  MaxSamples = 2
  MaxConnects = 2
INVARIANTS
  PendingPointsToLiveFrame
  ReplyBelongsToRequest
  HandlerOutlivesDispatch
  NotificationsAccountedFor
  NoRequestForgotten
PROPERTIES
  DisconnectReturns
CHECK_DEADLOCK FALSE
