CONSTANTS
  InitSteps = 1
  Processes <- ThreeProcesses
  Kind <- Kinds
  Fallible <- AllMayFail
SPECIFICATION FairSpec
INVARIANTS Inv FailuresCounted StopClosesServing
PROPERTIES SignalStops FailureStops
CHECK_DEADLOCK FALSE
