SPECIFICATION PendSpec
CONSTANTS
  s1 = s1
  s2 = s2
  i1 = i1
  rd1 = rd1
  rd2 = rd2
  wr1 = wr1
  NoSlot = NoSlot
  NoItem = NoItem
  NoReq = NoReq
  Slots = {s1, s2}
  Items = {i1}
  Reqs = {rd1, wr1}
  LocateReqs = {}
  WriteReqs = {wr1}
  Servers = {0, 1}
  RWServers = {1}
  MinR = 0
  MaxInst = 1
  MaxPosts = 1
  MaxFiles = 2
  IsDFS = FALSE
  Redirectors = {1}
SYMMETRY SlotSym
CHECK_DEADLOCK FALSE
INVARIANTS PendTypeOK AnswerAboutFile WaitingIsFindable
