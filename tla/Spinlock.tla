------------------------------ MODULE Spinlock ------------------------------
(***************************************************************************)
(* The spinlock of samthread.h: spin_lock retries a compare-and-swap of    *)
(* the lock word from 0 to 1 and yields the processor after each failure;  *)
(* spin_unlock is a plain store of 0.                                      *)
(*                                                                         *)
(* A thread calls spin_lock, runs its critical section and calls           *)
(* spin_unlock, any number of times.  Nothing in the lock word says who    *)
(* holds it: that only the holder unlocks is the callers' discipline, and  *)
(* it is what spinpc records.                                              *)
(***************************************************************************)
EXTENDS Naturals, Threads

CONSTANT NoThread  \* no thread holds the lock

ASSUME ThreadAssumption == NoThread \notin Thread

VARIABLES word,   \* the spinlock_t
          spinpc  \* spinpc[t]: where thread t is

spinvars == <<word, spinpc>>

SpinPC == {"out",    \* not using the lock
           "cas",    \* in spin_lock, about to compare and swap
           "yield",  \* in spin_lock, in sched_yield after a failed swap
           "in"}     \* between spin_lock and spin_unlock

SpinTypeOK == /\ word \in {0, 1}
              /\ spinpc \in [Thread -> SpinPC]

\* DEFINE_SPINLOCK / spinlock_init.
SpinInit == /\ word = 0
            /\ spinpc = [t \in Thread |-> "out"]

CallSpinLock(t) == /\ spinpc[t] = "out"
                   /\ spinpc' = [spinpc EXCEPT ![t] = "cas"]
                   /\ UNCHANGED word

\* Mutant: test and set as two steps, the test being stale.
CasTakesStale(t) == /\ spinpc[t] = "cas"
                    /\ word' = 1
                    /\ spinpc' = [spinpc EXCEPT ![t] = "in"]

\* __sync_bool_compare_and_swap(lock, 0, 1), succeeding.
CasTakes(t) == /\ spinpc[t] = "cas"
               /\ word = 0
               /\ word' = 1
               /\ spinpc' = [spinpc EXCEPT ![t] = "in"]

\* ... failing: the loop body yields.
CasFails(t) == /\ spinpc[t] = "cas"
               /\ word # 0
               /\ spinpc' = [spinpc EXCEPT ![t] = "yield"]
               /\ UNCHANGED word

YieldReturns(t) == /\ spinpc[t] = "yield"
                   /\ spinpc' = [spinpc EXCEPT ![t] = "cas"]
                   /\ UNCHANGED word

\* Mutant: the store of spin_unlock is lost.
SpinUnlockLost(t) == /\ spinpc[t] = "in"
                     /\ spinpc' = [spinpc EXCEPT ![t] = "out"]
                     /\ UNCHANGED word

\* spin_unlock
SpinUnlock(t) == /\ spinpc[t] = "in"
                 /\ word' = 0
                 /\ spinpc' = [spinpc EXCEPT ![t] = "out"]

\* The steps of a thread that has called spin_lock or spin_unlock.
Spins(t) == CasTakes(t) \/ CasFails(t) \/ YieldReturns(t) \/ SpinUnlock(t)

SpinNext == \E t \in Thread : CallSpinLock(t) \/ Spins(t)

\* The scheduler runs every thread; a thread may stop calling spin_lock.
SpinFairness == \A t \in Thread : WF_spinvars(Spins(t))

SpinSpec == SpinInit /\ [][SpinNext]_spinvars
SpinFairSpec == SpinSpec /\ SpinFairness
-----------------------------------------------------------------------------
\* At most one thread is between spin_lock and spin_unlock, the property
\* tests/spinlock.c counts "inuse" for.
SpinExclusion ==
  \A s, t \in Thread : spinpc[s] = "in" /\ spinpc[t] = "in" => s = t

\* The inductive invariant: the lock word is 1 exactly while a thread is in.
WordTracksHolder == (word = 1) <=> \E t \in Thread : spinpc[t] = "in"

SpinInv == SpinTypeOK /\ SpinExclusion /\ WordTracksHolder

\* The holder as the abstract lock sees it.
holder == IF \E t \in Thread : spinpc[t] = "in"
          THEN CHOOSE t \in Thread : spinpc[t] = "in"
          ELSE NoThread

L == INSTANCE Lock

\* The compare-and-swap loop and the plain store implement the abstract lock:
\* the swap that succeeds is Acquire, the store is Release, and every other
\* step of spin_lock leaves the abstract lock alone.
ImplementsLock == L!Spec

\* Deadlock freedom of spin_lock: when some thread spins, some thread gets in.
\* (A particular thread may starve: the word is handed to whoever swaps first.)
SomeoneEnters == (\E t \in Thread : spinpc[t] \in {"cas", "yield"})
                     ~> (\E t \in Thread : spinpc[t] = "in")
=============================================================================
