------------------------------- MODULE Locks --------------------------------
(***************************************************************************)
(* A program with both kinds of lock: its threads use a spinlock and a     *)
(* mutex, one at a time, so that a thread that waits for the one keeps     *)
(* whoever needs it at the other waiting, too.                             *)
(***************************************************************************)
EXTENDS Spinlock, Mutex

locksvars == <<spinvars, vars>>

LocksInit == SpinInit /\ Init

\* A thread is in a call of one lock only.
SpinStep(t)  == pc[t] = "out" /\ (CallSpinLock(t) \/ Spins(t)) /\ UNCHANGED vars
MutexStep(t) == /\ spinpc[t] = "out"
                /\ CallLock(t) \/ Step(t) \/ Interrupted(t) \/ Touch(t)
                /\ UNCHANGED spinvars

LocksNext == \E t \in Thread : SpinStep(t) \/ MutexStep(t)

LocksSpec == LocksInit /\ [][LocksNext]_locksvars

LocksFairSpec == LocksSpec /\ SpinFairness /\ Fairness
=============================================================================
