SPECIFICATION Spec
CONSTANTS
    Heads = {h1, h2}
    Entries = {e1, e2, e3}
    LIST_POISON1 = LIST_POISON1
    LIST_POISON2 = LIST_POISON2
    Stale = Stale
    NULL = NULL
INVARIANTS
    ListsAreRings
    LoopMeetsAll
    CarefulMeansDone
PROPERTY LoopEnds
CHECK_DEADLOCK TRUE
