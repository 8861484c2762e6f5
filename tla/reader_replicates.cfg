SPECIFICATION FairSpec
CONSTANTS
  c1 = c1
  j1 = j1
  Clusters = {c1}
  Jobs = {j1}
  ClusterOf <- OneJob
  Names = {n1}
  Values = {v1}
  Null = Null
  MaxLen = 3
  MaxGen = 2
  Written = {"NewClassAd", "DestroyClassAd"}
  Faults = {}
PROPERTIES
  CatchesUp
