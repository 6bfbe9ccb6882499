----------------------------- MODULE LockProofs -----------------------------
(***************************************************************************)
(* The mutex for any finite set of threads: no wake-up is lost, a counted  *)
(* waiter never touches a freed mutex, and mutual exclusion holds until    *)
(* the store of mutex_unlock has cleared the state of another thread.      *)
(*                                                                         *)
(* The spinlock for any set of threads: it excludes and implements the     *)
(* abstract lock.  And both in one program: neither disturbs the other.    *)
(***************************************************************************)
EXTENDS Locks, FiniteSetTheorems, TLAPS

\* The places of a thread in the slow path of mutex_lock.
CountedPC == {"cas", "wait", "sleep", "dec"}

LEMMA CountedFinite == IsFiniteSet(Counted) /\ Cardinality(Counted) \in Nat
BY ThreadsFinite, FS_Subset, FS_CardinalityType DEF Counted, At

\* How one thread's step changes the set of counted threads, and with it the
\* number the count has to be.
LEMMA CountedEnters ==
  ASSUME TypeOK, NEW t \in Thread, pc[t] \notin CountedPC,
         NEW l \in CountedPC, Goto(t, l)
  PROVE  Cardinality(Counted') = Cardinality(Counted) + 1
<1>1. Counted' = Counted \cup {t} /\ t \notin Counted
  BY DEF TypeOK, Counted, At, Goto, CountedPC
<1>2. QED
  BY <1>1, CountedFinite, FS_AddElement

LEMMA CountedLeaves ==
  ASSUME TypeOK, NEW t \in Thread, pc[t] \in CountedPC,
         NEW l, l \notin CountedPC, Goto(t, l)
  PROVE  Cardinality(Counted') = Cardinality(Counted) - 1
<1>1. Counted' = Counted \ {t} /\ t \in Counted
  BY DEF TypeOK, Counted, At, Goto, CountedPC
<1>2. QED
  BY <1>1, CountedFinite, FS_RemoveElement

\* A blocked thread is a counted thread, so the count is not 0.
LEMMA SleeperCounted ==
  ASSUME CountIsWaiters, Counted # {}
  PROVE  count > 0
<1>1. Cardinality(Counted) # 0
  BY CountedFinite, FS_EmptySet
<1>2. QED
  BY <1>1, CountedFinite DEF CountIsWaiters

LEMMA NoneCounted ==
  ASSUME CountIsWaiters, ~(count > 0)
  PROVE  Counted = {}
BY SleeperCounted
-----------------------------------------------------------------------------
LEMMA InitIInv == Init => IInv
<1> SUFFICES ASSUME Init PROVE IInv
  OBVIOUS
<1> USE DEF Init
<1>1. TypeOK
  BY DEF TypeOK, PC
<1>2. Counted = {} /\ Sleepers = {} /\ Holding = {} /\ Draining = {}
  BY DEF Counted, Sleepers, Holding, Draining, At
<1>3. CountIsWaiters
  BY <1>2, FS_EmptySet DEF CountIsWaiters
<1>4. QED
  BY <1>1, <1>2, <1>3 DEF IInv, CountedAreSafe, StateHasOwner, NullMeansDraining,
     HeldIsSet, ExclusionUntilStolen, MutualExclusion, NoLostWakeup

-----------------------------------------------------------------------------
\* The part of the invariant that does not mention cardinalities.
Places == /\ CountedAreSafe
          /\ StateHasOwner
          /\ NullMeansDraining
          /\ HeldIsSet
          /\ ExclusionUntilStolen
          /\ NoLostWakeup

LEMMA StepPlaces == IInv /\ [Next]_vars => TypeOK' /\ Places'
<1> SUFFICES ASSUME IInv, [Next]_vars PROVE TypeOK' /\ Places'
  OBVIOUS
<1>a. TypeOK /\ Places
  BY DEF IInv, Places
<1>b. Counted # {} => count > 0
  BY SleeperCounted DEF IInv
<1>c. count > 0 \/ Counted = {}
  BY NoneCounted DEF IInv
<1> USE <1>a, <1>b, <1>c
        DEF TypeOK, PC, LockPC, UnlockPC, DestroyPC, Places, CountedAreSafe, StateHasOwner,
        NullMeansDraining, HeldIsSet, ExclusionUntilStolen, MutualExclusion,
        NoLostWakeup, Sleepers, Counted, Holding, Draining, At, Goto, Returned, FutexWake
<1>1. ASSUME NEW t \in Thread, CallLock(t) PROVE TypeOK' /\ Places'
  BY <1>1 DEF CallLock
<1>2. ASSUME NEW t \in Thread, Fast(t) PROVE TypeOK' /\ Places'
  BY <1>2 DEF Fast
<1>3. ASSUME NEW t \in Thread, Inc(t) PROVE TypeOK' /\ Places'
  BY <1>3 DEF Inc
<1>4. ASSUME NEW t \in Thread, Cas(t) PROVE TypeOK' /\ Places'
  BY <1>4 DEF Cas
<1>5. ASSUME NEW t \in Thread, Dec(t) PROVE TypeOK' /\ Places'
  BY <1>5 DEF Dec
<1>6. ASSUME NEW t \in Thread, FutexWait(t) PROVE TypeOK' /\ Places'
  BY <1>6 DEF FutexWait
<1>7. ASSUME NEW t \in Thread, Interrupted(t) PROVE TypeOK' /\ Places'
  BY <1>7 DEF Interrupted
<1>8. ASSUME NEW t \in Thread, CallUnlock(t) PROVE TypeOK' /\ Places'
  BY <1>8 DEF CallUnlock
<1>9. ASSUME NEW t \in Thread, Release(t) PROVE TypeOK' /\ Places'
  BY <1>9 DEF Release
<1>10. ASSUME NEW t \in Thread, Check(t) PROVE TypeOK' /\ Places'
  BY <1>10 DEF Check
<1>11. ASSUME NEW t \in Thread, Store(t) PROVE TypeOK' /\ Places'
  BY <1>11 DEF Store
<1>12. ASSUME NEW t \in Thread, Wake(t) PROVE TypeOK' /\ Places'
  BY <1>12 DEF Wake
<1>13. ASSUME NEW t \in Thread, Null(t) PROVE TypeOK' /\ Places'
  <2>1. t \in Draining' /\ ~live'
    BY <1>13 DEF Null
  <2>2. Sleepers' = Sleepers /\ Counted' = Counted /\ freed' = freed
    BY <1>13 DEF Null
  <2>3. TypeOK'
    BY <1>13 DEF Null
  <2>4. QED
    BY <2>1, <2>2, <2>3
<1>14. ASSUME NEW t \in Thread, Test(t) PROVE TypeOK' /\ Places'
  BY <1>14 DEF Test
<1>15. ASSUME NEW t \in Thread, DestroyStore(t) PROVE TypeOK' /\ Places'
  BY <1>15 DEF DestroyStore
<1>16. ASSUME NEW t \in Thread, DestroyWake(t) PROVE TypeOK' /\ Places'
  BY <1>16 DEF DestroyWake
<1>17. ASSUME NEW t \in Thread, Touch(t) PROVE TypeOK' /\ Places'
  BY <1>17 DEF Touch
<1>18. CASE UNCHANGED vars
  BY <1>18 DEF vars
<1>19. QED
  BY <1>1, <1>2, <1>3, <1>4, <1>5, <1>6, <1>7, <1>8, <1>9, <1>10, <1>11, <1>12, <1>13, <1>14, <1>15, <1>16, <1>17, <1>18 DEF Next, Step, LockStep, UnlockStep, DestroyStep

LEMMA StepCount == IInv /\ [Next]_vars => CountIsWaiters'
<1> SUFFICES ASSUME IInv, [Next]_vars PROVE CountIsWaiters'
  OBVIOUS
<1>a. TypeOK /\ count = Cardinality(Counted)
  BY DEF IInv, CountIsWaiters
<1>1. ASSUME NEW t \in Thread, Inc(t) PROVE count' = Cardinality(Counted')
  <2>1. Cardinality(Counted') = Cardinality(Counted) + 1
    BY <1>1, <1>a, CountedEnters DEF Inc, CountedPC
  <2>2. QED
    BY <1>1, <1>a, <2>1 DEF Inc
<1>2. ASSUME NEW t \in Thread, Dec(t) PROVE count' = Cardinality(Counted')
  <2>1. Returned(t) \notin CountedPC
    BY DEF Returned, CountedPC
  <2>2. Cardinality(Counted') = Cardinality(Counted) - 1
    BY <1>2, <1>a, <2>1, CountedLeaves DEF Dec, CountedPC
  <2>3. QED
    BY <1>2, <1>a, <2>2 DEF Dec
<1>3. ASSUME NEW t \in Thread,
             \/ CallLock(t) \/ Fast(t) \/ Cas(t) \/ FutexWait(t) \/ Interrupted(t)
             \/ UnlockStep(t) \/ DestroyStep(t)
      PROVE  count' = count /\ Counted' = Counted
  BY <1>3, <1>a DEF TypeOK, Counted, At, Goto, Returned, FutexWake, Sleepers,
     UnlockStep, DestroyStep, CallLock, Fast, Cas, FutexWait, Interrupted, CallUnlock,
     Release, Check, Store, Wake, Null, Test, DestroyStore, DestroyWake
<1>4. ASSUME NEW t \in Thread, Touch(t) PROVE count' = count /\ Counted' = Counted
  <2>1. Counted = {} /\ Counted' = {}
    BY <1>4, <1>a DEF Touch, IInv, CountedAreSafe, Counted, At, Goto, TypeOK
  <2>2. QED
    BY <1>4, <2>1 DEF Touch
<1>5. CASE UNCHANGED vars
  BY <1>5, <1>a DEF vars, Counted, At, CountIsWaiters
<1>6. QED
  BY <1>a, <1>1, <1>2, <1>3, <1>4, <1>5
     DEF Next, Step, LockStep, CountIsWaiters

\* The inductive invariant: the count is the number of threads in the slow path,
\* a set state word has an owner, a NULL pointer means a destroyer at work.
THEOREM Invariance == Spec => []IInv
<1>1. IInv /\ [Next]_vars => IInv'
  BY StepPlaces, StepCount DEF IInv, Places
<1>2. QED
  BY InitIInv, <1>1, PTL DEF Spec

\* count is, at every moment, the number of threads between their increment and
\* their decrement in mutex_lock, so mutex_destroy and mutex_unlock read the truth.
THEOREM CountIsExact == Spec => []CountIsWaiters
<1>1. IInv => CountIsWaiters
  BY DEF IInv
<1>2. QED
  BY <1>1, Invariance, PTL

\* While a thread is blocked in mutex_lock another one is on its way to wake it,
\* to take the mutex and release it, or to drain it.
THEOREM WakeupsNotLost == Spec => []NoLostWakeup
<1>1. IInv => NoLostWakeup
  BY DEF IInv
<1>2. QED
  BY <1>1, Invariance, PTL

\* mutex_destroy frees only when every counted waiter has made its last access.
THEOREM DestroyIsSafeForCounted == Spec => []CountedAreSafe
<1>1. IInv => CountedAreSafe
  BY DEF IInv
<1>2. QED
  BY <1>1, Invariance, PTL

\* Until the store of mutex_unlock hits another thread's state, at most one
\* thread holds the mutex.
THEOREM ExclusionUnlessStolen == Spec => []ExclusionUntilStolen
<1>1. IInv => ExclusionUntilStolen
  BY DEF IInv
<1>2. QED
  BY <1>1, Invariance, PTL
-----------------------------------------------------------------------------
(* The spinlock: its own word, and its own place for each thread. *)

\* The invariant holds initially and every step preserves it.
LEMMA SpinInitIInv == SpinInit => SpinInv
BY DEF SpinInit, SpinInv, SpinTypeOK, SpinExclusion, WordTracksHolder, SpinPC

LEMMA SpinStepIInv == SpinInv /\ [SpinNext]_spinvars => SpinInv'
<1> SUFFICES ASSUME SpinInv, [SpinNext]_spinvars PROVE SpinInv'
  OBVIOUS
<1> USE DEF SpinInv, SpinTypeOK, SpinExclusion, WordTracksHolder, SpinPC
<1>1. ASSUME NEW t \in Thread, CallSpinLock(t) PROVE SpinInv'
  BY <1>1 DEF CallSpinLock
<1>2. ASSUME NEW t \in Thread, CasTakes(t) PROVE SpinInv'
  BY <1>2 DEF CasTakes
<1>3. ASSUME NEW t \in Thread, CasFails(t) PROVE SpinInv'
  BY <1>3 DEF CasFails
<1>4. ASSUME NEW t \in Thread, YieldReturns(t) PROVE SpinInv'
  BY <1>4 DEF YieldReturns
<1>5. ASSUME NEW t \in Thread, SpinUnlock(t) PROVE SpinInv'
  BY <1>5 DEF SpinUnlock
<1>6. CASE UNCHANGED spinvars
  BY <1>6 DEF spinvars
<1>7. QED
  BY <1>1, <1>2, <1>3, <1>4, <1>5, <1>6 DEF SpinNext, Spins

\* The lock word is 1 exactly while one thread is between spin_lock and
\* spin_unlock, in every reachable state.
THEOREM SpinInvariance == SpinSpec => []SpinInv
BY SpinInitIInv, SpinStepIInv, PTL DEF SpinSpec

\* spin_lock and spin_unlock exclude: at most one thread is between them.
THEOREM SpinExcludes == SpinSpec => []SpinExclusion
<1>1. SpinInv => SpinExclusion
  BY DEF SpinInv
<1>2. QED
  BY <1>1, SpinInvariance, PTL

\* The abstract holder is the thread that is in, if there is one.
LEMMA SpinHolderIs ==
  ASSUME SpinInv, NEW t \in Thread
  PROVE  (holder = t) <=> (spinpc[t] = "in")
BY ThreadAssumption DEF holder, SpinInv, SpinExclusion

LEMMA SpinHolderIsPrimed ==
  ASSUME SpinInv', NEW t \in Thread
  PROVE  (holder' = t) <=> (spinpc'[t] = "in")
BY ThreadAssumption DEF holder, SpinInv, SpinExclusion

LEMMA SpinHolderNone ==
  ASSUME \A t \in Thread : spinpc[t] # "in"
  PROVE  holder = NoThread
BY DEF holder

\* The compare-and-swap loop and the plain store implement the abstract lock.
THEOREM SpinRefinement == SpinSpec => ImplementsLock
<1>1. SpinInit => L!Init
  BY DEF SpinInit, L!Init, holder
<1>2. SpinInv /\ SpinInv' /\ [SpinNext]_spinvars => [L!Next]_holder
  <2> SUFFICES ASSUME SpinInv, SpinInv', [SpinNext]_spinvars PROVE [L!Next]_holder
    OBVIOUS
  <2> USE DEF SpinInv, SpinTypeOK, SpinPC
  <2>1. ASSUME NEW t \in Thread, CasTakes(t) PROVE L!Acquire(t)
    <3>1. \A s \in Thread : spinpc[s] # "in"
      BY <2>1 DEF CasTakes, WordTracksHolder
    <3>2. spinpc'[t] = "in"
      BY <2>1 DEF CasTakes
    <3>3. QED
      BY <3>1, <3>2, SpinHolderIsPrimed, SpinHolderNone DEF L!Acquire
  <2>2. ASSUME NEW t \in Thread, SpinUnlock(t) PROVE L!Release(t)
    <3>1. holder = t
      BY <2>2, SpinHolderIs DEF SpinUnlock
    <3>2. \A s \in Thread : spinpc'[s] # "in"
      BY <2>2 DEF SpinUnlock, SpinExclusion
    <3>3. holder' = NoThread
      BY <3>2 DEF holder
    <3>4. QED
      BY <3>1, <3>3 DEF L!Release
  <2>3. ASSUME NEW t \in Thread, CallSpinLock(t) \/ CasFails(t) \/ YieldReturns(t)
        PROVE  holder' = holder
    <3>1. \A s \in Thread : (spinpc'[s] = "in") <=> (spinpc[s] = "in")
      BY <2>3 DEF CallSpinLock, CasFails, YieldReturns
    <3>2. QED
      BY <3>1 DEF holder
  <2>4. CASE UNCHANGED spinvars
    BY <2>4 DEF spinvars, holder
  <2>5. QED
    BY <2>1, <2>2, <2>3, <2>4 DEF SpinNext, Spins, L!Next
<1>3. QED
  BY <1>1, <1>2, SpinInvariance, PTL DEF SpinSpec, ImplementsLock, L!Spec
-----------------------------------------------------------------------------
\* A program that uses both locks is a program that uses each of them: what is
\* proved of the spinlock and of the mutex alone holds in it.
THEOREM LocksCompose == LocksSpec => SpinSpec /\ Spec
<1>1. LocksInit => SpinInit /\ Init
  BY DEF LocksInit
<1>2. [LocksNext]_locksvars => [SpinNext]_spinvars
  <2>1. ASSUME NEW t \in Thread, SpinStep(t) PROVE SpinNext
    BY <2>1 DEF SpinStep, SpinNext
  <2>2. ASSUME NEW t \in Thread, MutexStep(t) PROVE UNCHANGED spinvars
    BY <2>2 DEF MutexStep
  <2>3. QED
    BY <2>1, <2>2 DEF LocksNext, locksvars
<1>3. [LocksNext]_locksvars => [Next]_vars
  <2>1. ASSUME NEW t \in Thread, SpinStep(t) PROVE UNCHANGED vars
    BY <2>1 DEF SpinStep
  <2>2. ASSUME NEW t \in Thread, MutexStep(t) PROVE Next
    BY <2>2 DEF MutexStep, Next
  <2>3. QED
    BY <2>1, <2>2 DEF LocksNext, locksvars
<1>4. QED
  BY <1>1, <1>2, <1>3, PTL DEF LocksSpec, SpinSpec, Spec
=============================================================================
