SPECIFICATION FairSpec
CONSTANTS
  CountChoices <- UnitCounts
  COUNT_MAX <- TwoUnits
  Absent <- NoLight
  SavedFire <- NoFire
  Budget <- LiveBudget
PROPERTIES
  EveryDevicePolled
  AlarmReachesUnit
