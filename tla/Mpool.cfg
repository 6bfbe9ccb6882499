SPECIFICATION Spec
CONSTANTS
  v1 = v1
  v2 = v2
  Val = {v1, v2}
  MaxPages = 3
  MaxCache = 2
  Memory = 3
  NeedSwap = FALSE
  NoPage = NoPage
INVARIANTS ListIsCache HeldStayPinned CleanOnDisk SyncIsComplete
PROPERTY ImplementsPageStore
