SPECIFICATION Spec
CONSTANTS
  v1 = v1
  None = None
  Full = 4
  Slot = 1
  LeafSize = 1
  IntSize = 1
  MaxKey = 4
  Data = {v1}
  MaxPages = 7
  Memory = {3}
  Ops = {"put", "del"}
INVARIANT PutEnters
CONSTRAINT Undamaged
CHECK_DEADLOCK FALSE
