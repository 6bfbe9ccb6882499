----------------------------- MODULE SamThread ------------------------------
(***************************************************************************)
(* Creating and joining threads (samthread.c, the Linux build).  A thread  *)
(* runs on a stack from mmap; the lowest bytes of the stack hold a struct  *)
(* athread {tid, rc, ...} and the address of the stack is the samthread_t. *)
(* tid is 1 until the thread function has returned; the address of the     *)
(* stack is also the CLONE_CHILD_CLEARTID word, which the kernel zeroes    *)
(* and FUTEX_WAKEs when the thread is gone.                                *)
(*                                                                         *)
(* One thread, main, creates the children and joins each of them once.     *)
(* The children of Child run their function once and return their own      *)
(* name, which is what tests/threadtest.c makes its threads do.  A child   *)
(* that runs on a stack that is no longer mapped, or is mapped for another *)
(* child, kills the process.                                               *)
(***************************************************************************)
EXTENDS Integers, FiniteSets

CONSTANTS Child,     \* the threads created, and the values they return
          Addr,      \* the addresses mmap may return
          Failure,   \* the -1 of rc, and of a failed create or join
          None,      \* nothing yet
          Handlers   \* the program has signal handlers without SA_RESTART

ASSUME SamThreadAssumption == /\ Failure \notin Child
                              /\ None \notin Child \cup {Failure} \cup Addr
                              /\ Failure \notin Addr
                              /\ Handlers \in BOOLEAN

VARIABLES mem,     \* mem[a]: the athread at a and the child a is mapped for
          stack,   \* stack[c]: the samthread_t of c
          pc,      \* pc[c]: where child c is
          join,    \* the create or join in progress in main
          got,     \* got[c]: what samthread_join(c) returned
          early    \* history: a join stopped waiting before its thread was gone

vars == <<mem, stack, pc, join, got, early>>

Unmapped == [for |-> None, tid |-> 0, rc |-> None]
Idle == [at |-> "idle", c |-> None, rc |-> None]
Dead == [at |-> "dead", c |-> None, rc |-> None]

PC == {"new", "fn", "clear", "wake", "awake", "exit", "done", "dead"}

TypeOK ==
  /\ mem \in [Addr -> [for : Child \cup {None}, tid : {0, 1},
                       rc : Child \cup {Failure, None}]]
  /\ stack \in [Child -> Addr \cup {Failure, None}]
  /\ pc \in [Child -> PC]
  /\ join \in [at : {"idle", "clone", "wait", "blocked", "read", "unmap", "dead"},
               c : Child \cup {None}, rc : Child \cup {Failure, None}]
  /\ got \in [Child -> Child \cup {Failure, None}]
  /\ early \in BOOLEAN

Init == /\ mem = [a \in Addr |-> Unmapped]
        /\ stack = [c \in Child |-> None]
        /\ pc = [c \in Child |-> "new"]
        /\ join = Idle
        /\ got = [c \in Child |-> None]
        /\ early = FALSE
-----------------------------------------------------------------------------
(* samthread_create, by main *)

\* mmap, and fill in the athread.
CreateMaps(c) == /\ join = Idle
                 /\ stack[c] = None
                 /\ \E a \in Addr :
                      /\ mem[a] = Unmapped
                      /\ mem' = [mem EXCEPT ![a] = [for |-> c, tid |-> 1, rc |-> Failure]]
                      /\ stack' = [stack EXCEPT ![c] = a]
                 /\ join' = [at |-> "clone", c |-> c, rc |-> None]
                 /\ UNCHANGED <<pc, got, early>>

\* fn is NULL, or getrlimit or mmap failed.
CreateFails(c) == /\ join = Idle
                  /\ stack[c] = None
                  /\ stack' = [stack EXCEPT ![c] = Failure]
                  /\ UNCHANGED <<mem, pc, join, got, early>>

\* clone: the thread runs, and its stack is returned.
Clone == /\ join.at = "clone"
         /\ pc' = [pc EXCEPT ![join.c] = "fn"]
         /\ join' = Idle
         /\ UNCHANGED <<mem, stack, got, early>>

\* Mutant: the stack stays mapped.
CloneFailsLeaks == /\ join.at = "clone"
                   /\ stack' = [stack EXCEPT ![join.c] = Failure]
                   /\ join' = Idle
                   /\ UNCHANGED <<mem, pc, got, early>>

\* clone failed: the stack is unmapped again.
CloneFails == /\ join.at = "clone"
              /\ mem' = [mem EXCEPT ![stack[join.c]] = Unmapped]
              /\ stack' = [stack EXCEPT ![join.c] = Failure]
              /\ join' = Idle
              /\ UNCHANGED <<pc, got, early>>
-----------------------------------------------------------------------------
(* samthread_func, on the child's stack *)

\* A user-mode step of c that goes from one place to the next.  Every one of
\* them uses the stack.
OnStack(c, from, to) ==
  /\ pc[c] = from
  /\ mem[stack[c]].for = c
  /\ pc' = [pc EXCEPT ![c] = to]
  /\ UNCHANGED <<stack, join, got, early>>

\* Mutant: the result is not stored.
FnReturnsLost(c) == OnStack(c, "fn", "clear") /\ UNCHANGED mem

\* f->rc = f->fn(f->arg)
FnReturns(c) == /\ OnStack(c, "fn", "clear")
                /\ mem' = [mem EXCEPT ![stack[c]].rc = c]

\* f->tid = 0
ClearTid(c) == /\ OnStack(c, "clear", "wake")
               /\ mem' = [mem EXCEPT ![stack[c]].tid = 0]

\* futex(&f->tid, FUTEX_WAKE_PRIVATE, 1): the joiner waits on the shared key of
\* the word, which a private wake does not match, so nobody is woken.
WakePrivate(c) == /\ OnStack(c, "wake", "awake")
                  /\ UNCHANGED mem

\* Back from the system call, into syscall(__NR_exit, 0).
EnterExit(c) == /\ OnStack(c, "awake", "exit")
                /\ UNCHANGED mem

\* The stack of a running child is gone: the next access faults, and the
\* signal kills the whole process.
Fault(c) == /\ pc[c] \in {"fn", "clear", "wake", "awake"}
            /\ mem[stack[c]].for # c
            /\ pc' = [d \in Child |-> "dead"]
            /\ join' = Dead
            /\ UNCHANGED <<mem, stack, got, early>>

\* Mutant: a kernel that does not know CLONE_CHILD_CLEARTID.
KernelExitSilent(c) == /\ pc[c] = "exit"
                       /\ pc' = [pc EXCEPT ![c] = "done"]
                       /\ UNCHANGED <<mem, stack, join, got, early>>

\* CLONE_CHILD_CLEARTID: at exit the kernel stores 0 at the stack address,
\* whatever is mapped there by now, and FUTEX_WAKEs one waiter on it.
KernelExit(c) ==
  LET a == stack[c] IN
  /\ pc[c] = "exit"
  /\ pc' = [pc EXCEPT ![c] = "done"]
  /\ mem' = IF mem[a] = Unmapped THEN mem ELSE [mem EXCEPT ![a].tid = 0]
  /\ join' = IF join.at = "blocked" /\ stack[join.c] = a
             THEN [join EXCEPT !.at = "read"] ELSE join
  /\ UNCHANGED <<stack, got, early>>
-----------------------------------------------------------------------------
(* samthread_join, by main *)

JoinCall(c) == /\ join = Idle
               /\ stack[c] \in Addr
               /\ got[c] = None
               /\ join' = [at |-> "wait", c |-> c, rc |-> None]
               /\ UNCHANGED <<mem, stack, pc, got, early>>

\* tid == (samthread_t)-1
JoinInvalid(c) == /\ join = Idle
                  /\ stack[c] = Failure
                  /\ got[c] = None
                  /\ got' = [got EXCEPT ![c] = Failure]
                  /\ UNCHANGED <<mem, stack, pc, join, early>>

\* futex(tid, FUTEX_WAIT, 1), called once: it blocks when the word is 1 and
\* returns EAGAIN when it is not.
JoinWait == /\ join.at = "wait"
            /\ join' = [join EXCEPT !.at = IF mem[stack[join.c]].tid = 1
                                           THEN "blocked" ELSE "read"]
            /\ UNCHANGED <<mem, stack, pc, got, early>>

\* A signal handler ran: FUTEX_WAIT returns EINTR, and is not called again.
JoinInterrupted == /\ Handlers
                   /\ join.at = "blocked"
                   /\ join' = [join EXCEPT !.at = "read"]
                   /\ UNCHANGED <<mem, stack, pc, got, early>>

\* rc = f->rc
JoinRead == /\ join.at = "read"
            /\ join' = [join EXCEPT !.at = "unmap", !.rc = mem[stack[join.c]].rc]
            /\ early' = (early \/ pc[join.c] # "done")
            /\ UNCHANGED <<mem, stack, pc, got>>

\* munmap(f, f->stack_size); return rc
JoinUnmap == /\ join.at = "unmap"
             /\ mem' = [mem EXCEPT ![stack[join.c]] = Unmapped]
             /\ got' = [got EXCEPT ![join.c] = join.rc]
             /\ join' = Idle
             /\ UNCHANGED <<stack, pc, early>>
-----------------------------------------------------------------------------
\* What main may begin, what main has begun, and what a child does.
MainCalls == \E c \in Child : CreateMaps(c) \/ CreateFails(c) \/ JoinCall(c) \/ JoinInvalid(c)
MainGoesOn == Clone \/ CloneFails \/ JoinWait \/ JoinRead \/ JoinUnmap
ChildStep(c) == \/ FnReturns(c) \/ ClearTid(c) \/ WakePrivate(c) \/ EnterExit(c)
                \/ Fault(c) \/ KernelExit(c)

Next == MainCalls \/ MainGoesOn \/ JoinInterrupted \/ \E c \in Child : ChildStep(c)

\* Thread functions return and the scheduler runs every thread.
Fairness == /\ WF_vars(MainGoesOn)
            /\ \A c \in Child : WF_vars(ChildStep(c))

Spec == Init /\ [][Next]_vars
FairSpec == Spec /\ Fairness
-----------------------------------------------------------------------------
\* samthread_join returns what the thread's function returned, as
\* tests/threadtest.c expects.  The code does not guarantee it: see
\* ResultUnlessEarly.
JoinReturnsResult ==
  \A c \in Child : stack[c] \in Addr => got[c] \in {None, c}

\* The root of every wrong result and of every fault is one event, a join that
\* goes on (EAGAIN, EINTR) before the kernel is done with its thread: as long
\* as that has not happened, joins return the right value and no thread runs
\* without its stack.
ResultUnlessEarly ==
  ~early => /\ JoinReturnsResult
            /\ \A c \in Child : pc[c] \notin {"new", "done"} => mem[stack[c]].for = c
            /\ join # Dead

\* A thread that is being created, or was created and not joined, keeps its
\* stack to itself, and a stack is mapped only for such a thread: nothing leaks
\* when clone fails after mmap (samthread.c:96) or when a thread is joined.
StackOwned ==
  \A a \in Addr, c \in Child :
     mem[a].for = c <=> stack[c] = a /\ got[c] = None

\* samthread_create and samthread_join return, the join although the wake-up
\* that samthread_func sends cannot reach it: the kernel's wake-up at thread exit does.
JoinEnds == (join # Idle) ~> (join \in {Idle, Dead})

\* The inductive invariant behind StackOwned and ResultUnlessEarly: the thread
\* of a create or join in progress has its stack and was not joined before, a
\* thread not created was not joined and does not run, a mapped athread has a
\* result; and until a join is early, only threads that are gone have been
\* joined, and a thread past its function has stored its result.
JoinInProgress ==
  join.at \notin {"idle", "dead"} =>
    /\ join.c \in Child
    /\ stack[join.c] \in Addr
    /\ got[join.c] = None
    /\ join.at = "unmap" => join.rc # None
    /\ join.at = "clone" => pc[join.c] \in {"new", "dead"}

Fresh == \A c \in Child : /\ stack[c] = None => got[c] = None
                          /\ stack[c] \notin Addr => pc[c] \in {"new", "dead"}

MappedHasResult == \A a \in Addr : mem[a].for # None => mem[a].rc # None

NotEarly ==
  ~early =>
    /\ join # Dead
    /\ \A c \in Child : pc[c] = "new" <=> stack[c] \notin Addr \/ (join.at = "clone" /\ join.c = c)
    /\ \A c \in Child : stack[c] \in Addr /\ got[c] # None => got[c] = c /\ pc[c] = "done"
    /\ \A c \in Child : stack[c] \in Addr /\ got[c] = None /\ pc[c] \notin {"new", "fn"}
                           => mem[stack[c]].rc = c
    /\ join.at = "unmap" => join.rc = join.c /\ pc[join.c] = "done"

IInv == TypeOK /\ StackOwned /\ JoinInProgress /\ Fresh /\ MappedHasResult /\ NotEarly
=============================================================================
