SPECIFICATION Spec
CONSTANTS
  Users = {u1}
  Submits = {s1, s2}
  Decisions = {d1, d2}
  Saves = {w1}
  Parts = 2
  Amounts = {3, 4}
  MinAmount = 2
  MaxAmount = 4
  InitialBalance <- MCInitialBalance
  AdjustTo = {1}
  NoPrivacyRow = {u1}
  MaxFailures = 1
SYMMETRY Symmetry
INVARIANTS
  TypeOK
  NonNegative
  Conservation
  SingleDecision
  FrozenBeforeVisible
  RefundOnlyRejected
  LedgerReconciles
PROPERTY ImplementsMoney
CHECK_DEADLOCK FALSE
