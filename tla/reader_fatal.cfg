SPECIFICATION Spec
CONSTANTS
  c1 = c1
  j1 = j1
  Clusters = {c1}
  Jobs = {j1}
  ClusterOf <- OneJob
  Names = {n1}
  Values = {v1}
  Null = Null
  MaxLen = 4
  MaxGen = 1
  Written = {"NewClassAd", "SetAttribute", "BeginTransaction", "EndTransaction"}
  Faults = {"tear", "crash"}
INVARIANTS
  NoFatalError
