SPECIFICATION Spec
CONSTANTS
  c1 = c1
  j1 = j1
  Clusters = {c1}
  Jobs = {}
  ClusterOf <- NoJob
  Names = {n1}
  Values = {v1}
  Null = Null
  MaxLen = 4
  MaxGen = 2
  Written = {"NewClassAd", "BeginTransaction", "EndTransaction"}
  Faults = {"empty", "tear", "crash"}
INVARIANTS
  MemoryIsPrefix
  PollCovers
  ReaderInv
