SPECIFICATION FairSpec
CONSTANTS
  MaxId = 4
  MaxFd = 2
CHECK_DEADLOCK FALSE
INVARIANTS
  NoUseAfterDelete
  CallbacksInOrder
  NoLeak
  WithinMax
PROPERTIES
  DeleteHonoured
  ShutdownLeavesNoneBefore
