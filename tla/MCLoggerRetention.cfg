CONSTANTS
  MaxBackups = 100
  MaxAge = 1
  Compress = FALSE
  FirstDay = 3
  LastDay = 4
  Existing <- OldLogs
  MaxWrites = 2
  MaxRestarts = 0
  MaxFailures = 0
SPECIFICATION Spec
INVARIANT OldLogsDeleted
CHECK_DEADLOCK FALSE
