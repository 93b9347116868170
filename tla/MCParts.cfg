SPECIFICATION PartsSpec
CONSTANTS
  Readers = {"r1"}
  Writers = {"w1", "w2"}
  Setters = {"p1"}
  WriteLens = {2}
  BufLens = {1}
  MaxSets = 2
  Names = {"a", "b", "c"}
  Host = "a"
  Zones <- MCZones
  DnsModes = {"pool", "udp", "doh"}
  maxIdleDNSConns = 1
  maxCNAMEDepth = 1
  Handshakes = {"t1", "t2"}
  LastVersion = 3
  Schemes <- MCSchemes
  FrameLens = {1, 3}
  MaxWrites = 4
  headerOverHeadSize = 2
  LenMod = 8
  StopMod = 16
  Bursts = {0, 2}
  Conns = {"c1", "c2"}
  Streams = {}
  Blobs = {"b1"}
  Password = "b1"
  PasswordId = "u1"
  Ids = {"u1"}
  Hosts = {"h1"}
  ConnIds = {"i1", "i2"}
  Nil = Nil
  AuthModes = {"password"}
  MaxConcurrent = 1
  MaxChanges = 1
  MaxCount = 1
  Configs <- MCConfigs
INVARIANTS
  WaiterSeesDeadline
  PipeGated
  DnsConnsOwned
  LookupRight
  PaddingTransparent
  LimitExact
  GeoStartsAgain
PROPERTIES
  PipeCallsEnd
  ResolveReturns
  CertCatchesUp
  KickedEnds
CHECK_DEADLOCK FALSE
