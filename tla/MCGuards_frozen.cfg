SPECIFICATION Spec
CONSTANTS
  Requests = {r1}
  Grants <- MCGrants
  MaxChanges = 2
  MaxFailures = 0
INVARIANT FrozenMovesNoMoney
CHECK_DEADLOCK FALSE
