CONSTANTS
  Stores = {"minio"}
  ExpireDays = 7
  Callers = {c1, c2, c3}
  MaxCalls = 2
  MaxRestarts = 0
SPECIFICATION Spec
INVARIANT NilMeansBucket
CHECK_DEADLOCK FALSE
