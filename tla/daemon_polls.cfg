SPECIFICATION DaemonSpec
CONSTANTS
  c1 = c1
  c2 = c2
  j1 = j1
  Clusters = {c1}
  Jobs = {j1}
  ClusterOf <- OneJob
  KeyRank <- OneJobRank
  Names = {n1}
  Values = {v1}
  Null = Null
  Lost = Lost
  Address = FALSE
  MaxLen = 4
  MaxGen = 2
  Written = {"NewClassAd", "DestroyClassAd", "SetAttribute", "unsupported"}
  Faults = {}
INVARIANTS
  TypeOK
  MemoryIsPrefix
  PollCovers
  AssertHolds
  DaemonInv
PROPERTIES
  PollsAsAssumed
  ResetOnlyForCause
