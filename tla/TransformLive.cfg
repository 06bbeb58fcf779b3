SPECIFICATION FairSpec
CONSTANTS
  Addrs = {a1, a2}
  Absent = {a2}
  Polled <- MCPolled
  Commands <- MCCommands
  Infos <- MCInfos
  CmdTrans <- MCTrans
  Rpcs <- NoRpc
  Kongguan = "kongguan"
  Poller = "timer"
  RESEND_COUNT = 3
  MaxCmds = 1
  MaxFaults = 1
INVARIANTS
  TypeOK
PROPERTIES
  QueriesStayLocal
  BusReleased
  CacheConverges
