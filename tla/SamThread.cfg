SPECIFICATION FairSpec
CONSTANTS
  c1 = c1
  c2 = c2
  c3 = c3
  a1 = a1
  a2 = a2
  Failure = Failure
  None = None
  Child = {c1, c2, c3}
  Addr = {a1, a2}
  Handlers = TRUE
INVARIANTS ResultUnlessEarly StackOwned
PROPERTIES JoinEnds
CHECK_DEADLOCK FALSE
