SPECIFICATION Spec
CONSTANTS
  s1 = s1
  s2 = s2
  i1 = i1
  sel1 = sel1
  sel2 = sel2
  loc1 = loc1
  Slots <- MCSlots
  NoSlot = NoSlot
  Items = {i1}
  NoItem = NoItem
  Reqs <- MCReqs
  NoReq = NoReq
  LocateReqs <- MCLocates
  Servers = {0}
  MinR = 1
  IsDFS = FALSE
  Redirectors = {1}
  MaxInst = 1
  MaxPosts = 2
SYMMETRY SlotSym
CHECK_DEADLOCK FALSE
INVARIANTS RRQTypeOK NoLostWakeup SlotsAccounted AnsweredOnce
