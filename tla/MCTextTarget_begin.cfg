SPECIFICATION Spec
CONSTANTS
  MaxSeq = 2
  MaxEdit = 1
  Faults = {"write_in_begin"}
INVARIANTS NoLoss
CHECK_DEADLOCK FALSE
