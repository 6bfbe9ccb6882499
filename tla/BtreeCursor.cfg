SPECIFICATION Spec
CONSTANTS
  v1 = v1
  None = None
  Full = 6
  Slot = 1
  LeafSize = 2
  IntSize = 1
  MaxKey = 3
  Data = {v1}
  MaxPages = 4
  Memory = {3}
  Ops = {"put", "del", "cursor", "open"}
PROPERTY ImplementsDictionary
CONSTRAINT Undamaged
CHECK_DEADLOCK FALSE
