SPECIFICATION FairSpec
CONSTANTS
  Interfaces = {tun0, wg0}
  NoInterface = NoInterface
  Configs = {here}
  Loopback = {here}
  NoConfig = NoConfig
  Links <- MCLinks
  Paths <- MCPaths
  Defaults <- MCDefaults
  Overrides <- MCOverrides
  Changes = TRUE
INVARIANTS
  TypeOK
  PicksByPriority
  SetOkTakesEffectAsProbed
  OthersReachable
  NothingLeftBehind
PROPERTIES
  NeverPassedOver
  ProbeReturns
