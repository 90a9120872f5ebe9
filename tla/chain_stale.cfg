SPECIFICATION Spec
CONSTANTS
  Interfaces = {tun0}
  NoInterface = NoInterface
  Configs = {here}
  Loopback = {}
  NoConfig = NoConfig
  Links <- PlainLinks
  Paths <- NoPaths
  Defaults <- NoDefaults
  Overrides = {"not-a-backend"}
  Changes = TRUE
INVARIANT SetOkTakesEffect
