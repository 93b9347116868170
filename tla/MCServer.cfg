CONSTANTS
  c1 = c1
  c2 = c2
  h1 = h1
  h2 = h2
  i1 = i1
  i2 = i2
  s1 = s1
  s2 = s2
  Conns = {c1, c2}
  Streams = {s1, s2}
  Blobs = {"b1", "b2"}
  Password = "b1"
  PasswordId = "u1"
  Ids = {"u1", "u2"}
  Hosts = {h1, h2}
  ConnIds = {i1, i2}
  Nil = Nil
  AuthModes = {"password", "http", "cache", "cache+neg"}
  MaxConcurrent = 1
  MaxChanges = 1
  MaxCount = 1
  Configs <- MCConfigs
SPECIFICATION ServerSpec
SYMMETRY Symmetry
INVARIANTS SlotsExact OnlyVerdictsCached DevicesShared AttachedIsRegistered StreamRowsDistinct
CHECK_DEADLOCK FALSE
