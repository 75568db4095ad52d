SPECIFICATION FairSchedSpec
CONSTANTS
  j1 = j1
  j2 = j2
  mon = mon
  w1 = w1
  w2 = w2
  w3 = w3
  Workers = {w1, w2, w3}
  Jobs = {j1, j2, mon}
  Monitor = mon
  NoJob = NoJob
  Lists <- MCLists
  Endless = {j1}
  MinWorkers = 1
  MaxWorkers = 3
  MaxPosts = 1
  MaxFails = 1
CHECK_DEADLOCK FALSE
INVARIANTS WorkHasPost CountersExact
PROPERTIES ImplementsScheduling JobStarts
