SPECIFICATION Spec
CONSTANTS
  Consumers <- MCConsumers
  FrameLen = 6
  MinLen = 5
  MaxLen = 13
  MaxExchanges = 6
  MaxFaults = 2
CHECK_DEADLOCK FALSE
INVARIANTS
  TypeOK
  NoLostWakeup
  CleanExchangeSucceeds
  DamageBounded
PROPERTY
  ExchangeRefined
