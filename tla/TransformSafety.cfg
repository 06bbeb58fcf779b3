SPECIFICATION Spec
CONSTANTS
  Addrs = {a1, a2}
  Absent = {a2}
  Polled <- MCPolled
  Commands <- MCCommands
  Infos <- MCNoInfos
  CmdTrans <- MCTrans
  Rpcs <- OneRpc
  Kongguan = "kongguan"
  Poller = "timer"
  RESEND_COUNT = 3
  MaxCmds = 2
  MaxFaults = 1
INVARIANTS
  OwnFrameOnBus
  ResendRestored
  CommandReachesBus
  CacheProvenance
PROPERTY
  BusRefined
