CONSTANTS
  Stores = {"minio", "s3", "cloudStorage"}
  ExpireDays = 7
  Callers = {c1, c2}
  MaxCalls = 3
  MaxRestarts = 1
  MaxOps = 3
  Paths <- Slashed
  FileNames <- FileNames1
SPECIFICATION ObjFairSpec
INVARIANTS ObjInv RunnerHasBucket NilMeansReady StoredIsLoaded
PROPERTY CallsReturn
CHECK_DEADLOCK FALSE
