SPECIFICATION FairSpec
CONSTANTS
  Router = Router
  Ula = Ula
  Host1 = Host1
  Host2 = Host2
  AllNodes = AllNodes
  NoQuery = NoQuery
  NoPacket = NoPacket
  ServerAddr <- Ula
  Addrs <- MCAddrs
  Packets <- MCPackets
  Verdicts <- MCVerdicts
  InCapacity = 2
  OutCapacity = 1
  MaxDue = 2
CHECK_DEADLOCK FALSE
PROPERTY BothTasksStop
