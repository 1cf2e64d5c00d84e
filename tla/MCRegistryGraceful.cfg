CONSTANTS
  InitSteps = 1
  Processes <- OneTcp
  Kind <- Kinds
  Fallible <- NoneFails
SPECIFICATION Spec
INVARIANT GracefulStop
CHECK_DEADLOCK FALSE
