SPECIFICATION FairSpec
CONSTANTS
  Requests <- AllRequests
  Ids <- CheckSums
  Id <- CheckSum
  Malformed <- Bad
  Local <- Inner
  Sets <- SetCmds
  Curtains <- Blinds
  MaxAsks = 3
  MaxQueue = 3
  MaxFaults = 1
INVARIANTS
  NoEcho
PROPERTY
  RequestAnswered
