SPECIFICATION Spec
CONSTANTS
  Readers = {r1}
  Updates = {u1, u2}
  Fields = {f1, f2}
  Values = {blank, set}
  Blank = blank
  Objects = {o1, o2, o3}
  None = None
  TTL = 1
  MaxFailures = 0
PROPERTY OnlyPassedFields
