SPECIFICATION Spec
CONSTANTS
  Interfaces = {tun0, wg0}
  Configs = {c1, c2}
  NoConfig = NoConfig
  MaxIndex = 3
  Faults = {"links", "dbus", "crash"}
INVARIANTS TypeOK SetOkIsWhole ActiveLinkRoutes ResetUndoesSet
PROPERTY ImplementsDnsRoute
