SPECIFICATION Spec
CONSTANTS
  Vpn = Vpn
  Lan = Lan
  Isp = Isp
  NoOwner = NoOwner
  NoFile = NoFile
  Owners = {vpnd}
  Faults = {"crash", "torn"}
  Addrs <- MCAddrs
  Configs <- MCConfigs
  HostTexts <- MCHostTexts
INVARIANT HostTextPreserved
