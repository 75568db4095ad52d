SPECIFICATION LocSpec
CONSTANTS
  f1 = f1
  rd1 = rd1
  wr1 = wr1
  loc1 = loc1
  Files = {f1}
  Servers = {0, 1}
  TickRate = 1
  NilTMO = TRUE
  MaxBounces = 3
  Reqs = {wr1}
  LocateReqs = {}
  WriteReqs = {wr1}
  RWServers = {1}
  StageServers = {1}
  Newcomers = {0}
  Avoid = {0}
  Refreshes = {wr1}
  RWDelay = FALSE
CHECK_DEADLOCK FALSE
VIEW CurrentView
INVARIANTS LocTypeOK 
