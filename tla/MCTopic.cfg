CONSTANTS
  Consumers = 2
  Binding <- Bindings
  Keys <- TwoKeys
  MaxMessages = 3
  SetupMayFail = TRUE
SPECIFICATION FairSpec
INVARIANTS Inv OncePerConsumer
PROPERTIES ImplementsSubscription PublishedIsCalled
CHECK_DEADLOCK FALSE
