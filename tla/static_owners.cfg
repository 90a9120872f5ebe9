SPECIFICATION Spec
CONSTANTS
  Vpn = Vpn
  Lan = Lan
  Isp = Isp
  NoOwner = NoOwner
  NoFile = NoFile
  Owners = {vpnd, meshd}
  Faults = {}
  Addrs <- MCAddrs
  Configs <- MCConfigs
  HostTexts <- MCHostTexts
INVARIANT ResetOkMeansUndone
CONSTRAINT BoundedTexts
