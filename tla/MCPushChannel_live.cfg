SPECIFICATION FairSpec
CONSTANTS
  dll1 = dll1
  dll2 = dll2
  Tokens = {dll1}
  NoToken = none
  none = none
  Conns = {1, 2, 3}
  QueueCap = 2
  WireCap = 1
  MaxReloads = 1
  MaxCommits = 1
  MaxErrors = 2
  MaxCrashes = 1
  Faults = {"read_error"}
INVARIANTS TableServed QuietIsCurrent CommitOnce
PROPERTIES EventuallyCurrent
CHECK_DEADLOCK FALSE
