SPECIFICATION Spec
CONSTANTS
  Users = {u1}
  Submits = {s1, s2}
  Decisions = {d1, d2}
  Saves = {}
  Parts = 1
  Amounts = {1}
  MinAmount = 1
  MaxAmount = 2
  InitialBalance <- MCInitialBalance
  AdjustTo = {1}
  NoPrivacyRow = {u1}
  MaxFailures = 1
CHECK_DEADLOCK FALSE
INVARIANT RejectedIsRefunded
