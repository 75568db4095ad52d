SPECIFICATION CacheSpec
CONSTANTS
  f1 = f1
  f2 = f2
  Files <- MCFiles
  Servers = {0, 1}
  TickRate = 2
  NilTMO = FALSE
  MaxBounces = 2
SYMMETRY FileSym
VIEW KnownView
INVARIANTS CacheTypeOK HistoryComplete FreshUnlessSkipped ExpiresOnTime
