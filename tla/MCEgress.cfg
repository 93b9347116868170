SPECIFICATION RelaySpec
CONSTANTS
  IPBits = 3
  MaxPort = 3
  aclCacheSize = 2
  maxSessionACLCache = 1
  Tcps = {"t1", "t2"}
  Uot = "uot"
  GeoIPs <- MCGeoIPs
  GeoSites <- MCGeoSites
  Setups <- MCSetups
  PrivateIPs <- MCPrivateIPs
INVARIANTS
  FirstRuleDecides
  FilterHolds
  SocketsOwned
PROPERTIES
  CloseEndsRelay
