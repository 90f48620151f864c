SPECIFICATION Spec
CONSTANTS
  Users = {u1}
  Logins = {l1, l2}
  Refreshes = {r1, r2}
  Logouts = {o1}
  AccessTTL = 1
  RefreshTTL = 2
  MaxTime = 2
  MaxFailures = 1
SYMMETRY Symmetry
INVARIANTS
  TypeOK
  OneLiveToken
  NoLockout
PROPERTY DeadStaysDead
CHECK_DEADLOCK FALSE
