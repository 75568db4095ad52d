SPECIFICATION FairPoscSpec
CONSTANTS
  p1 = p1
  p2 = p2
  Paths = {p1, p2}
  NoPath = NoPath
  MaxSlots = 3
  MaxCrashes = 2
  MaxErrors = 1
CHECK_DEADLOCK FALSE
INVARIANTS PoscTypeOK PartRecorded  
 
