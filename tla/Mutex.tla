------------------------------- MODULE Mutex --------------------------------
(***************************************************************************)
(* The futex mutex of mutex.c (the Linux build).  A mutex_t is two ints:   *)
(* state, 1 while the mutex is taken, and count, the number of threads in  *)
(* the slow path of mutex_lock.  One action is one atomic access to them   *)
(* or one futex system call.                                               *)
(*                                                                         *)
(* The callers reach the mutex through a shared pointer, as tests/mutex.c  *)
(* does through global_mutex: mutex_lock and mutex_unlock return at once   *)
(* when it is NULL, and mutex_destroy sets it to NULL.  A thread of        *)
(* Destroyer calls mutex_destroy, once; the others lock and unlock.        *)
(*                                                                         *)
(* After free() the memory is gone: a thread whose next access is to it    *)
(* has undefined behaviour and is followed no further ("undefined").       *)
(***************************************************************************)
EXTENDS Integers, FiniteSets, Threads

CONSTANT Destroyer  \* the threads that call mutex_destroy

ASSUME DestroyerAssumption == Destroyer \subseteq Thread

ASSUME ThreadsFinite == IsFiniteSet(Thread)

VARIABLES state,   \* mutex->state
          count,   \* mutex->count
          live,    \* the shared mutex_t pointer is not NULL
          freed,   \* mutex_destroy has called free
          pc,      \* pc[t]: where thread t is
          stolen   \* history: an unlock cleared a state another thread had set

vars == <<state, count, live, freed, pc, stolen>>

\* The accesses of mutex_lock, of mutex_unlock and of mutex_destroy still to
\* come, and the places of a thread outside them.
LockPC    == {"fast", "inc", "cas", "wait", "dec"}
UnlockPC  == {"release", "check", "store", "wake"}
DestroyPC == {"null", "test", "dstore", "dwake"}
PC == LockPC \cup UnlockPC \cup DestroyPC
        \cup {"out", "sleep", "in", "gone", "undefined"}

TypeOK == /\ state \in {0, 1}
          /\ count \in Nat
          /\ live \in BOOLEAN
          /\ freed \in BOOLEAN
          /\ pc \in [Thread -> PC]
          /\ stolen \in BOOLEAN

At(S) == {t \in Thread : pc[t] \in S}

\* The kernel's queue of the threads blocked on &mutex->state.
Sleepers == At({"sleep"})

\* The threads in the slow path, between atomic_inc and atomic_dec.
Counted == At({"cas", "wait", "sleep", "dec"})

\* The threads whose compare-and-swap took the mutex and that have not begun
\* to release it.
Holding == At({"dec", "in", "release", "null"})

\* The threads in the loop of mutex_destroy.
Draining == At({"test", "dstore", "dwake"})

Goto(t, l) == pc' = [pc EXCEPT ![t] = l]

\* mutex_create (calloc) or DEFINE_MUTEX.
Init == /\ state = 0
        /\ count = 0
        /\ live = TRUE
        /\ freed = FALSE
        /\ pc = [t \in Thread |-> "out"]
        /\ stolen = FALSE
-----------------------------------------------------------------------------
(* mutex_lock *)

\* Where mutex_lock returns to: into the caller's critical section, or into
\* mutex_destroy.
Returned(t) == IF t \in Destroyer THEN "null" ELSE "in"

\* mutex_lock(global_mutex), and the first call of mutex_destroy.  With a NULL
\* pointer both return with no effect.
CallLock(t) == /\ pc[t] = "out"
               /\ live
               /\ Goto(t, "fast")
               /\ UNCHANGED <<state, count, live, freed, stolen>>

\* The non-contended compare-and-swap.
Fast(t) == /\ pc[t] = "fast"
           /\ ~freed
           /\ IF state = 0
              THEN state' = 1 /\ Goto(t, Returned(t))
              ELSE UNCHANGED state /\ Goto(t, "inc")
           /\ UNCHANGED <<count, live, freed, stolen>>

\* Mutant: the slow path forgets to announce itself.
IncForgotten(t) == /\ pc[t] = "inc"
                   /\ ~freed
                   /\ Goto(t, "cas")
                   /\ UNCHANGED <<state, count, live, freed, stolen>>

Inc(t) == /\ pc[t] = "inc"
          /\ ~freed
          /\ count' = count + 1
          /\ Goto(t, "cas")
          /\ UNCHANGED <<state, live, freed, stolen>>

\* Mutant: the retry takes the mutex without comparing.
CasUnchecked(t) == /\ pc[t] = "cas"
                   /\ ~freed
                   /\ state' = 1
                   /\ Goto(t, "dec")
                   /\ UNCHANGED <<count, live, freed, stolen>>

Cas(t) == /\ pc[t] = "cas"
          /\ ~freed
          /\ IF state = 0
             THEN state' = 1 /\ Goto(t, "dec")
             ELSE UNCHANGED state /\ Goto(t, "wait")
          /\ UNCHANGED <<count, live, freed, stolen>>

Dec(t) == /\ pc[t] = "dec"
          /\ ~freed
          /\ count' = count - 1
          /\ Goto(t, Returned(t))
          /\ UNCHANGED <<state, live, freed, stolen>>

\* Mutant: FUTEX_WAIT blocks without comparing the word with 1.
FutexWaitUnchecked(t) == /\ pc[t] = "wait"
                         /\ ~freed
                         /\ Goto(t, "sleep")
                         /\ UNCHANGED <<state, count, live, freed, stolen>>

\* FUTEX_WAIT(&state, 1): the kernel compares and blocks in one step, and
\* returns EAGAIN when the word is no longer 1; the loop retries either way.
FutexWait(t) == /\ pc[t] = "wait"
                /\ ~freed
                /\ Goto(t, IF state = 1 THEN "sleep" ELSE "cas")
                /\ UNCHANGED <<state, count, live, freed, stolen>>

\* A signal makes FUTEX_WAIT return EINTR.
Interrupted(t) == /\ pc[t] = "sleep"
                  /\ Goto(t, "cas")
                  /\ UNCHANGED <<state, count, live, freed, stolen>>
-----------------------------------------------------------------------------
(* mutex_unlock *)

CallUnlock(t) == /\ pc[t] = "in"
                 /\ Goto(t, IF live THEN "release" ELSE "out")
                 /\ UNCHANGED <<state, count, live, freed, stolen>>

\* r = atomic_exchange(&mutex->state, 1, 0); r != 1 goes straight to the store.
Release(t) == /\ pc[t] = "release"
              /\ ~freed
              /\ Goto(t, IF state = 1 THEN "check" ELSE "store")
              /\ state' = 0
              /\ UNCHANGED <<count, live, freed, stolen>>

\* ... || mutex->count != 0, read after the mutex has been given up.
Check(t) == /\ pc[t] = "check"
            /\ ~freed
            /\ Goto(t, IF count # 0 THEN "store" ELSE "out")
            /\ UNCHANGED <<state, count, live, freed, stolen>>

\* mutex->state = 0, a plain store: by now another thread may hold the mutex.
Store(t) == /\ pc[t] = "store"
            /\ ~freed
            /\ state' = 0
            /\ stolen' = (stolen \/ Holding # {})
            /\ Goto(t, "wake")
            /\ UNCHANGED <<count, live, freed>>

\* FUTEX_WAKE(&state, 1) returning to l: the kernel wakes one sleeper, if any.
FutexWake(t, l) ==
  IF Sleepers = {}
  THEN Goto(t, l)
  ELSE \E s \in Sleepers : pc' = [pc EXCEPT ![s] = "cas", ![t] = l]

\* Mutant: the slow path of mutex_unlock returns without waking.
WakeForgotten(t) == /\ pc[t] = "wake"
                    /\ Goto(t, "out")
                    /\ UNCHANGED <<state, count, live, freed, stolen>>

\* The system call needs no more than the address of the word.
Wake(t) == /\ pc[t] = "wake"
           /\ FutexWake(t, "out")
           /\ UNCHANGED <<state, count, live, freed, stolen>>
-----------------------------------------------------------------------------
(* mutex_destroy, once mutex_lock(save) has returned *)

Null(t) == /\ pc[t] = "null"
           /\ live' = FALSE
           /\ Goto(t, "test")
           /\ UNCHANGED <<state, count, freed, stolen>>

\* Mutant: mutex_destroy frees without draining the slow path.
TestSkipped(t) == /\ pc[t] = "test"
                  /\ ~freed
                  /\ freed' = TRUE
                  /\ Goto(t, "gone")
                  /\ UNCHANGED <<state, count, live, stolen>>

\* while (save->count > 0) ..., free(save).
Test(t) == /\ pc[t] = "test"
           /\ ~freed
           /\ IF count > 0
              THEN UNCHANGED freed /\ Goto(t, "dstore")
              ELSE freed' = TRUE /\ Goto(t, "gone")
           /\ UNCHANGED <<state, count, live, stolen>>

\* Mutant: the loop wakes the waiters but leaves the mutex taken.
DestroyStoreForgotten(t) == /\ pc[t] = "dstore"
                            /\ ~freed
                            /\ Goto(t, "dwake")
                            /\ UNCHANGED <<state, count, live, freed, stolen>>

DestroyStore(t) == /\ pc[t] = "dstore"
                   /\ ~freed
                   /\ state' = 0
                   /\ Goto(t, "dwake")
                   /\ UNCHANGED <<count, live, freed, stolen>>

DestroyWake(t) == /\ pc[t] = "dwake"
                  /\ FutexWake(t, "test")
                  /\ UNCHANGED <<state, count, live, freed, stolen>>

\* The next access of t is to freed memory.
Touch(t) == /\ freed
            /\ pc[t] \in LockPC \cup {"release", "check", "store", "test", "dstore"}
            /\ Goto(t, "undefined")
            /\ UNCHANGED <<state, count, live, freed, stolen>>
-----------------------------------------------------------------------------
LockStep(t)    == Fast(t) \/ Inc(t) \/ Cas(t) \/ Dec(t) \/ FutexWait(t)
UnlockStep(t)  == CallUnlock(t) \/ Release(t) \/ Check(t) \/ Store(t) \/ Wake(t)
DestroyStep(t) == Null(t) \/ Test(t) \/ DestroyStore(t) \/ DestroyWake(t)

\* The steps a thread takes once it has called into the mutex.
Step(t) == LockStep(t) \/ UnlockStep(t) \/ DestroyStep(t)

Next == \E t \in Thread : CallLock(t) \/ Step(t) \/ Interrupted(t) \/ Touch(t)

\* Every thread inside a call is scheduled, and critical sections end; nobody
\* has to call mutex_lock again and no signal has to arrive.
Fairness == \A t \in Thread : WF_vars(Step(t))

Spec == Init /\ [][Next]_vars
FairSpec == Spec /\ Fairness
-----------------------------------------------------------------------------
\* At most one thread holds a mutex that nobody is destroying: what
\* mutex_lock is for.  The code does not guarantee it, because the plain store
\* of mutex_unlock (mutex.c:103) can clear the state of the next holder.
MutualExclusion ==
  live => \A s, t \in Holding : s = t

\* The store of mutex_unlock's slow path is the only thing that breaks mutual
\* exclusion: until it has cleared another thread's state, one thread holds
\* the mutex at most, whatever the interleaving of the fast path, of the slow
\* path and of the wake-ups.
ExclusionUntilStolen == ~stolen => MutualExclusion

\* No wake-up is lost: while a thread is blocked in FUTEX_WAIT there is always
\* a thread on its way to wake it, or to take the mutex and release it later.
NoLostWakeup ==
  Sleepers # {} =>
    \/ Holding # {}
    \/ Draining # {}
    \/ state = 0 /\ At({"check", "store", "wake", "cas", "wait"}) # {}

\* mutex_destroy frees the mutex only when no thread of the slow path still
\* has to access it: the wait for count to drop to 0 is long enough, because
\* the decrement is the last access of mutex_lock.
CountedAreSafe == freed => Counted = {}

\* count is the number of threads in the slow path of mutex_lock.
CountIsWaiters == count = Cardinality(Counted)

\* The blocked threads are not forgotten: as long as there are any, one of them
\* is woken again and again while critical sections end.  (Which one is up to
\* the kernel and to the threads that barge in on the fast path, so a single
\* thread may starve when there are three.)
SleepersWoken ==
  <>[](Sleepers # {}) => []<><<\E t \in Thread : pc[t] = "sleep" /\ pc'[t] # "sleep">>_vars

\* mutex_destroy returns: the loop that releases the waiters one by one ends.
DestroyEnds == \A t \in Destroyer : pc[t] = "null" ~> pc[t] \in {"gone", "undefined"}

\* The inductive invariant behind the three: while the state word is set there
\* is a thread to clear it; the holder is unique until the first steal.
StateHasOwner == state = 1 => freed \/ Holding # {} \/ Draining # {}
NullMeansDraining == /\ ~live => freed \/ Draining # {}
                     /\ Draining # {} => ~live
HeldIsSet == live /\ ~stolen /\ Holding # {} => state = 1

IInv == /\ TypeOK
        /\ CountIsWaiters
        /\ CountedAreSafe
        /\ StateHasOwner
        /\ NullMeansDraining
        /\ HeldIsSet
        /\ ExclusionUntilStolen
        /\ NoLostWakeup
=============================================================================
