SPECIFICATION MCSpec
CONSTANTS
  Inputs = {"door", "sink"}
  Lights = {11}
  Dev <- MCDev
  Units = {1}
  Curtains = {21}
  Tables <- MCTables
  MaxTrips = 2
  MaxCalls = 1
  MaxTables = 1
  MaxFaults = 1
CONSTRAINT Few
PROPERTIES
  SensorsSettle
  UnitsFollow
  CurtainsFollow
  
