CONSTANTS
  Requests = {r1, r2}
  Ids = {i1}
  NoRequest = NoRequest
  Workers = 1
  MemoryCapacity = 3
  StorageCapacity = 1
  Bytes <- SmallBytes
SPECIFICATION Spec
PROPERTIES AbandonedWorkEnds LateWorkEnds
CHECK_DEADLOCK FALSE
