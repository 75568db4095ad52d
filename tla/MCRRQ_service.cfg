SPECIFICATION FairSpec
CONSTANTS
  s1 = s1
  s2 = s2
  i1 = i1
  sel1 = sel1
  sel2 = sel2
  loc1 = loc1
  Slots <- MCSlots
  NoSlot = NoSlot
  Items = {i1}
  NoItem = NoItem
  Reqs = {sel1, loc1}
  NoReq = NoReq
  LocateReqs <- MCLocates
  Servers = {0}
  MinR = 0
  IsDFS = FALSE
  Redirectors = {1, 2}
  MaxInst = 2
  MaxPosts = 1
CHECK_DEADLOCK FALSE
INVARIANTS RightRedirector
PROPERTIES ImplementsService HeldAnswered
