SPECIFICATION Spec
CONSTANTS
  c1 = c1
  j1 = j1
  j2 = j2
  Clusters = {c1}
  Jobs = {j1, j2}
  ClusterOf <- TwoJobs
  KeyRank <- TwoJobRank
  Names = {n1}
  Values = {v1}
  Null = Null
  Lost = Lost
INVARIANTS
  TypeOK
  AssertHolds
  ParentAlive
  QueueMatchesLog
  IInv
PROPERTIES
  ImplementsJobFeed
