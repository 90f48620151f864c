SPECIFICATION AllSpec
CONSTANTS
  Users = {u1}
  Calls = {c1, c2}
  CustomCodes = {"EDITOR"}
  Seeds <- MCSeeds
  Bodies <- MCBodies
  Required <- MCRequired
  MaxInserts = 2
  MaxFailures = 1
  Three = {r1, r2, r3}
  None = None
  Wx = {"w1"}
  Phones = {"p1"}
  Cooldown = 1
  CodeLife = 1
  MaxUsers = 2
  Orders = {"o1"}
  Transactions = {"t1"}
  Notifies = {"n1"}
  Receipts = {"receipt"}
  MaxToken = 3
  Life = 3
  Margin = 1
  Entries = {"e1", "e2", "e3"}
  FlushSize = 2
  MaxNotices = 2
  DeviceIds = {"d1", "d2"}
  MaxRows = 3
  PictureIds = {"i1"}
  Files = {"f1"}
  Settings <- MCSettings
  Sheet <- MCSheet
  Names = {"s"}
  MaxCompanies = 4
  Tasks = {"t1", "t2"}
  Rewards <- MCRewards
  File <- MCFile
  MaxId = 7
  Requests = {"q1"}
  Grants <- MCGrants
  MaxChanges = 2
SYMMETRY Symmetry
INVARIANTS
  TypesOK
  CodesUnique
  SystemCodesReserved
  GuardIsCurrent
  TokenIsCurrent
  CodeUsedOnce
  AccountsComplete
  BannedStayOut
  ReceiptMatchesStatus
  AuditIsTrue
  LevelMatchesGrowth
  GrowthAddsUp
  StoredOnce
  HandedOutIsGood
  ConfirmedNotPending
  StoredIsBare
  TreeShowsFile
  ImportedOnce
  DecisionIsJust
PROPERTIES
  SystemRolesStay
  PaidIsFinal
CHECK_DEADLOCK FALSE
