SPECIFICATION SinkSpec
CONSTANTS
  c1 = c1
  j1 = j1
  j2 = j2
  Clusters = {c1}
  Jobs = {j1}
  ClusterOf <- OneJobs
  KeyRank <- OneJobRank
  Names = {n1}
  Values = {v1, v2}
  Null = Null
  Lost = Lost
  Done = Done
INVARIANTS
  OwnAttrsFresh
  SinkAgrees
  MessageInv
  SinkAgreesWithDump
  SinkInv
PROPERTIES
  DirtyDrains
  SinkReleased
