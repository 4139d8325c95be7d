SPECIFICATION Spec
CONSTANTS
  MaxSeq = 2
  MaxEdit = 1
  Faults = {"crash", "bad_save", "restore"}
INVARIANTS TypeOK NoLoss NoDoubleApply NotResurrected UserEditsKept SegmentShowsText
CHECK_DEADLOCK FALSE
