SPECIFICATION Spec
CONSTANTS
  Inputs = {"door", "sink"}
  Lights = {11}
  Dev <- MCDev
  Units = {1}
  Curtains = {21}
  Tables <- UnlinkedCurtain
  MaxTrips = 1
  MaxCalls = 1
  MaxTables = 1
  MaxFaults = 1
PROPERTY
  LeaksAreNoPresence
