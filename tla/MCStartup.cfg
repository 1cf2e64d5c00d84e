SPECIFICATION StartSpec
CONSTANTS
  Starts <- ReadingsAndPrograms
  Failing <- AllMayFail
  MaxRuns = 2
CHECK_DEADLOCK FALSE
INVARIANTS StartInv FlagsResolved PathsMeet
