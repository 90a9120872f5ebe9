SPECIFICATION Spec
CONSTANTS
  Interfaces = {tun0}
  Configs = {c1}
  NoConfig = NoConfig
  MaxIndex = 1
  Faults = {"dbus"}
INVARIANT ResetOkMeansUndone
