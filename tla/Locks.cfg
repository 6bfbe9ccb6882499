SPECIFICATION LocksFairSpec
CONSTANTS
  t1 = t1
  t2 = t2
  t3 = t3
  d = d
  NoThread = NoThread
  Thread = {t1, t2, t3, d}
  Destroyer = {d}
INVARIANTS SpinExclusion ExclusionUntilStolen NoLostWakeup CountedAreSafe CountIsWaiters
PROPERTIES ImplementsLock SomeoneEnters SleepersWoken DestroyEnds
CHECK_DEADLOCK FALSE
