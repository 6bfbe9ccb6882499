SPECIFICATION FairSpec
CONSTANTS
  None = None
  g = g
  MaxKey = 3
  Data <- MCData
  Handle = {}
  Global = g
  Buffer = {0, 1, 2, 3}
  MaxDepth = 2
INVARIANTS GetStrIsString WalkMeetsAll WalkInOrder
PROPERTY WalkEnds
CHECK_DEADLOCK FALSE
