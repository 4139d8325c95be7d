SPECIFICATION PoolSpec
CONSTANTS
  Threads = {t1, t2}
  Writers = {w1, w2}
  MaxVer = 3
  MaxGen = 3
INVARIANTS NoStaleReader NewestAfterRename
CHECK_DEADLOCK FALSE
