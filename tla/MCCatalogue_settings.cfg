SPECIFICATION Spec
CONSTANTS
  Calls = {c1, c2, c3}
  Ids = {i1}
  Files = {"f1"}
  Settings <- MCSettings
  MaxFailures = 0
PROPERTY OnlyUpdatesChange
CHECK_DEADLOCK FALSE
