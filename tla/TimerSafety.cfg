SPECIFICATION Spec
CONSTANTS
  CountChoices <- SomeCounts
  COUNT_MAX <- OneOfEach
  Absent <- NoLight
  SavedFire <- NoFire
  Budget <- SafetyBudget
INVARIANTS
  TypeOK
  RingIsConfiguration
  PreemptBound
  SyncOncePerFrame
