SPECIFICATION FairClusterSpec
CHECK_DEADLOCK FALSE
CONSTANTS
  STMax = 2
  Servers = {a, m, n}
  Supers = {m, n}
  Doomed = {n}
  Conns = {c1, c2}
  MaxNodes = 3
  MaxInst = 3
INVARIANTS
  ClusterTypeOK
  LoggedInListed
  SameAtEntry
  
  NodeCntCounts
  UsedNotDeleted
  HiCovers

  
