SPECIFICATION DaemonSpec
CONSTANTS
  c1 = c1
  c2 = c2
  j1 = j1
  Clusters = {c1, c2}
  Jobs = {}
  ClusterOf <- NoJob
  KeyRank <- NoJobRank
  Names = {n1}
  Values = {v1}
  Null = Null
  Lost = Lost
  Address = TRUE
  MaxLen = 4
  MaxGen = 1
  Written = {"NewClassAd", "DestroyClassAd", "BeginTransaction"}
  Faults = {"backtrack"}
INVARIANTS
  AssertHolds
