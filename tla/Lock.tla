-------------------------------- MODULE Lock --------------------------------
(***************************************************************************)
(* What a mutual-exclusion lock promises its callers: at most one thread   *)
(* holds it, it is taken in one step when it is free and given back in one *)
(* step by the thread that holds it.  The locks of samthread.h and mutex.c *)
(* are compared with this specification.                                   *)
(***************************************************************************)
CONSTANTS Thread,   \* the threads that use the lock
          NoThread  \* the value of holder when the lock is free, not in Thread

VARIABLE holder

Init == holder = NoThread

Acquire(t) == /\ holder = NoThread
              /\ holder' = t

Release(t) == /\ holder = t
              /\ holder' = NoThread

Next == \E t \in Thread : Acquire(t) \/ Release(t)

Spec == Init /\ [][Next]_holder
=============================================================================
