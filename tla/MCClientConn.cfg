SPECIFICATION FairSpec
CONSTANTS
  s1 = s1
  s2 = s2
  Senders <- TwoSenders
  MaxRequests = 3
  MaxSends = 1
  InCap = 2
  OutCap = 1
  CallbackResults <- ReplyErrorOrNil
CHECK_DEADLOCK FALSE
INVARIANTS RequestsInOrder DisconnectOnce OneLateRequest Inv
PROPERTIES ImplementsSession DisconnectNoticed SendMsgReturns RequestsAnswered
