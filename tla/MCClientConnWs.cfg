SPECIFICATION FairSpec
CONSTANTS
  s1 = s1
  s2 = s2
  Senders <- TwoSenders
  MaxRequests = 2
  MaxSends = 1
  InCap = 2
  OutCap = 1
  Malformed = TRUE
  CallbackResults <- AnyResult
CHECK_DEADLOCK FALSE
INVARIANTS Inv NothingPastMalformed DisconnectOnceUnlessPanic NoOverlapUnlessMalformed
PROPERTIES ImplementsSession DisconnectNoticed SendMsgReturns RefusalEnds
