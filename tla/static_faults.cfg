SPECIFICATION Spec
CONSTANTS
  Vpn = Vpn
  Lan = Lan
  Isp = Isp
  NoOwner = NoOwner
  NoFile = NoFile
  Owners = {vpnd}
  Faults = {"crash", "torn", "ioerr", "race"}
  Addrs <- MCAddrs
  Configs <- MCConfigs
  HostTexts <- MCHostTexts
INVARIANTS OverrideIsUndoable ResetWithdraws OwnOverrideIsActive
