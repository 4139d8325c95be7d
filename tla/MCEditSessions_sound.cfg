SPECIFICATION FairSpec
CONSTANTS
  File = {words, phrases}
  Holdable = {words}
  Client = {c1, c2}
  MaxGen = 3
  MaxWrite = 1
  Faults = {"sync_fails"}
INVARIANTS HeldWithSession SessionStaysOpen ChangesSurvive
PROPERTIES AbandonedEnds
CHECK_DEADLOCK FALSE
