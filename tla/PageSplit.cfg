SPECIFICATION Spec
CONSTANTS
  Full = 48
  Slot = 1
  Record = {6, 12, 20, 23}
  BigKey = {20}
  MaxRecords = 7
INVARIANTS LoopIsCut SmallRecordsSplit CursorFollowsApart
CHECK_DEADLOCK FALSE
