SPECIFICATION Spec
CONSTANTS
  Fields <- MCFields
  Vals <- MCVals
  Guarded <- MCGuarded
  Compared <- MCCompared
  ByRpc <- MCCompared
  Ranged <- MCRanged
  LIGHT = "light"
  TEMP = "temp"
  Default <- MCDefault
  Frames <- MCFrames
  Offered <- MCOffered
  Counts <- MCCounts
  COUNT_MAX = 1
  Rooms <- MCRooms
  MAX_ROOM = 1
  DefaultCount = 1
  DefaultRoom = 1
  Delivered <- NoFile
  MaxFaults = 0
INVARIANT
  RoomNotZero
