SPECIFICATION Spec
CONSTANTS
  MaxSeq = 1
  MaxEdit = 1
  Faults = {"crash_in_job", "io_error", "segment_rot", "state_rot", "bad_save"}
INVARIANTS NoLoss
CHECK_DEADLOCK FALSE
