CONSTANTS
  Requests = {r1, r2, r3}
  Ids = {i1, i2}
  NoRequest = NoRequest
  Workers = 2
  MemoryCapacity = 3
  StorageCapacity = 1
  Bytes <- SmallBytes
SPECIFICATION SafetySpec
SYMMETRY Symmetry
INVARIANTS TypeOK PermitsFollowWork LeasesFollowWork RegistryNamesActiveWork MetricsMatchResponse
CHECK_DEADLOCK FALSE
