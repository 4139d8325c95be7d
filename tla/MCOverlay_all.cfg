SPECIFICATION Spec
CONSTANTS
  Code <- Codes
  Text = {1, 2}
  Op <- AllOps
  Limit = {0, 1}
  MaxCount = 3
  TailMax = 1
  MaxOps = 3
  MaxBatch = 2
INVARIANTS SegmentHoldsFolded LookupsFindAll ScanFindsAll PrefixFindsBest
CHECK_DEADLOCK FALSE
