SPECIFICATION Spec
CONSTANTS
  t1 = t1
  t2 = t2
  Target <- TwoTargets
  MaxSeq = 2
  MaxBatch = 2
  MaxSealed = 1
  Faults = {"append_error", "power_loss", "segment_rot", "state_rot", "journal_deleted", "sealed_unreadable"}
SYMMETRY Symmetry
INVARIANTS TypeOK NoLoss NoDoubleApply Recoverable FreshNumbers
PROPERTY WatermarkNeverBack ImplementsUserStore
