CONSTANTS
  MaxBackups = 2
  MaxAge = 3
  Compress = TRUE
  FirstDay = 3
  LastDay = 4
  Existing <- OldDirectory
  MaxWrites = 2
  MaxRestarts = 1
  MaxFailures = 1
SPECIFICATION FairSpec
INVARIANT Inv
PROPERTIES ImplementsStore PlanIsDefinition OldBackupsGo
CHECK_DEADLOCK FALSE
