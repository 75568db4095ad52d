SPECIFICATION FairOfsSpec
CONSTANTS
  f1 = f1
  f2 = f2
  f3 = f3
  u1 = u1
  u2 = u2
  h1 = h1
  h2 = h2
  x1 = x1
  x2 = x2
  Files = {f1, f2, f3}
  Users = {u1, u2}
  User <- MCUser
  Handles = {h1}
  Xprs = {x1}
  NoHandle = NoHandle
  NoUser = NoUser
  NoXpr = NoXpr
  Nobody = Nobody
  Expirer = Expirer
  MaxLinks = 3
CHECK_DEADLOCK FALSE
INVARIANTS OfsTypeOK NeverFreedInUse LinksCover XprValid 
PROPERTIES CloseCompletes
