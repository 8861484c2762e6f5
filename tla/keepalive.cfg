SPECIFICATION TimedSpec
CONSTANTS
  c1 = c1
  j1 = j1
  Clusters = {c1}
  Jobs = {j1}
  ClusterOf <- OneJob
  KeyRank <- OneJobRank
  Names = {n1}
  Values = {v1}
  Null = Null
  Lost = Lost
  Interval = 15
  WorkTime = 15
  Pid = 40000
INVARIANTS
  NamesProcess
  SilenceBounded
  KeepAliveInv
