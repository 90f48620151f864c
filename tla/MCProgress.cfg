SPECIFICATION MCSpec
CONSTANTS
  Readers = {r1}
  Updates = {u1, u2}
  Fields = {f1}
  Values = {blank, set}
  Blank = blank
  Objects = {1, 2, 3}
  None = None
  TTL = 2
  MaxFailures = 1
INVARIANTS
  TypeOK
  CacheIsCurrent
PROPERTIES
  StaleEnds
  RejectedComesBack
  FrozenGetsFiled
  PendingEnds
  BufferDrains
CHECK_DEADLOCK FALSE
