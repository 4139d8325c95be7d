SPECIFICATION FairSpec
CONSTANTS
  MaxRetries = 3
  MaxFailures = 3
  MaxBusy = 3
  MaxCrashes = 2
  MaxFocus = 2
  MaxKeys = 3
  Faults = {}
INVARIANTS  NothingForgotten
PROPERTIES ModeKept EventuallyKnown
CHECK_DEADLOCK FALSE
