SPECIFICATION ClusterSpec
CHECK_DEADLOCK FALSE
CONSTANTS
  STMax = 1
  Servers = {a, m, n}
  Supers = {m, n}
  Doomed = {n}
  Conns = {c1, c2}
  MaxNodes = 3
  MaxInst = 3
INVARIANT RightNode
