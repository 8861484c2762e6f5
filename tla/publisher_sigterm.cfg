SPECIFICATION FairSpec
CONSTANTS
  c1 = c1
  j1 = j1
  j2 = j2
  Clusters = {c1}
  Jobs = {j1}
  ClusterOf <- OneJobs
  KeyRank <- OneJobRank
  Names = {n1}
  Values = {v1}
  Null = Null
  Lost = Lost
PROPERTIES
  SigtermStops
