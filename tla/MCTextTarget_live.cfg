SPECIFICATION FairSpec
CONSTANTS
  MaxSeq = 1
  MaxEdit = 2
  Faults = {"open_unheld"}
PROPERTIES EventuallyInText
CHECK_DEADLOCK FALSE
