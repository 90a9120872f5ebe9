SPECIFICATION Spec
CHECK_DEADLOCK FALSE
CONSTANTS
  NoPacket = NoPacket
  Panic = Panic
  Octets = {0, 1, 254, 255}
  MaxPayload = 4
  ManyServers = 127
  MaxName = 5
  MaxDomains = 3
INVARIANTS
  ChecksumsVerify
  DatagramRoundTrip
  ParseStaysInBounds
  AdvertisementDecodes
  RefusesExactlyOthers
  AcceptsExactlyDomains
  EqualConfigsRouteAlike
