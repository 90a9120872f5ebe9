SPECIFICATION Spec
CONSTANTS
  Vpn = Vpn
  Lan = Lan
  Isp = Isp
  NoOwner = NoOwner
  NoFile = NoFile
  Owners = {vpnd}
  Faults = {"crash", "ioerr"}
  Addrs <- MCAddrs
  Configs <- MCConfigs
  HostTexts <- MCHostTexts
INVARIANTS TypeOK HostTextPreserved ResetRestoresHost FallbackKept
PROPERTY ImplementsDnsRoute
