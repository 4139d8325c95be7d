SPECIFICATION FairSpec
CONSTANTS
  MaxSeq = 3
  MaxTorn = 1
  Faults = {"short_write", "sync_error", "reopen_error"}
INVARIANTS OnlyStrayLost SyncedSurvives NumbersGoOn
PROPERTY EventuallyDurable
