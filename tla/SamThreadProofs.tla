-------------------------- MODULE SamThreadProofs ---------------------------
(***************************************************************************)
(* Creating and joining any number of threads over any set of stack        *)
(* addresses: stacks are owned and do not leak, and results are right as   *)
(* long as no join goes on before its thread is gone.                      *)
(***************************************************************************)
EXTENDS SamThread, TLAPS

\* The invariant holds initially.
LEMMA InitIInv == Init => IInv
<1> SUFFICES ASSUME Init PROVE IInv
  OBVIOUS
<1> USE SamThreadAssumption DEF Init
<1>1. TypeOK
  BY DEF TypeOK, PC, Unmapped, Idle
<1>2. StackOwned
  BY DEF StackOwned, Unmapped
<1>3. JoinInProgress /\ Fresh
  BY DEF JoinInProgress, Fresh, Idle
<1>4. MappedHasResult
  BY DEF MappedHasResult, Unmapped
<1>5. NotEarly
  BY DEF NotEarly, Idle, Dead
<1>6. QED
  BY <1>1, <1>2, <1>3, <1>4, <1>5 DEF IInv

\* A step of a child on its own stack moves only the child and its athread.
LEMMA ChildOnStack ==
  ASSUME IInv, NEW c \in Child, FnReturns(c) \/ ClearTid(c) \/ WakePrivate(c) \/ EnterExit(c)
  PROVE  IInv'
<1> USE SamThreadAssumption DEF IInv, OnStack, FnReturns, ClearTid, WakePrivate, EnterExit
<1>1. TypeOK'
  BY DEF TypeOK, PC
<1>2. StackOwned'
  BY DEF TypeOK, StackOwned
<1>3. JoinInProgress'
  BY DEF TypeOK, JoinInProgress
<1>4. MappedHasResult' /\ Fresh'
  BY DEF TypeOK, MappedHasResult, Fresh
<1>5. stack[c] \in Addr /\ got[c] = None
  BY DEF TypeOK, StackOwned, Fresh
<1>6. \A d \in Child : stack[d] \in Addr /\ got[d] = None /\ d # c
                       => mem'[stack[d]].rc = mem[stack[d]].rc
  BY <1>5 DEF TypeOK, StackOwned
<1>7. NotEarly'
  <2>1. CASE FnReturns(c)
    <3>1. mem'[stack[c]].rc = c
      BY <1>5, <2>1 DEF TypeOK
    <3>2. QED
      BY <1>5, <1>6, <2>1, <3>1 DEF TypeOK, NotEarly
  <2>2. CASE ClearTid(c) \/ WakePrivate(c) \/ EnterExit(c)
    <3>1. mem'[stack[c]].rc = mem[stack[c]].rc
      BY <1>5, <2>2 DEF TypeOK
    <3>2. pc[c] \notin {"new", "fn"} /\ pc'[c] \notin {"new", "fn"}
      BY <2>2 DEF TypeOK
    <3>3. \A d \in Child \ {c} : pc'[d] = pc[d]
      BY DEF TypeOK
    <3>4. UNCHANGED <<stack, join, got, early>>
      OBVIOUS
    <3>5. ~early /\ join.at = "unmap" => join.c \in Child \ {c}
      BY <2>2 DEF NotEarly, JoinInProgress
    <3> HIDE DEF OnStack, FnReturns, ClearTid, WakePrivate, EnterExit
    <3>6. QED
      BY <1>5, <1>6, <3>1, <3>2, <3>3, <3>4, <3>5 DEF NotEarly, Dead
  <2>3. QED
    BY <2>1, <2>2
<1>8. QED
  BY <1>1, <1>2, <1>3, <1>4, <1>7

\* A child without its stack kills the process, but only after an early join.
LEMMA ChildFaults ==
  ASSUME IInv, NEW c \in Child, Fault(c)
  PROVE  IInv'
<1> USE SamThreadAssumption DEF IInv, Fault, Dead
<1>1. TypeOK'
  BY DEF TypeOK, PC
<1>2. StackOwned' /\ JoinInProgress' /\ Fresh' /\ MappedHasResult'
  BY DEF StackOwned, JoinInProgress, Fresh, MappedHasResult
<1>3. early
  BY DEF TypeOK, NotEarly, StackOwned
<1>4. NotEarly'
  BY <1>3 DEF NotEarly
<1>5. QED
  BY <1>1, <1>2, <1>4

\* The kernel's store and wake-up at the exit of a child.
LEMMA ChildGone ==
  ASSUME IInv, NEW c \in Child, KernelExit(c)
  PROVE  IInv'
<1> USE SamThreadAssumption DEF IInv, KernelExit
<1>1. TypeOK'
  <2>1. mem' \in [Addr -> [for : Child \cup {None}, tid : {0, 1},
                          rc : Child \cup {Failure, None}]]
    BY ZenonT(60) DEF TypeOK
  <2>2. join' \in [at : {"idle", "clone", "wait", "blocked", "read", "unmap", "dead"},
                  c : Child \cup {None}, rc : Child \cup {Failure, None}]
    BY DEF TypeOK
  <2>3. pc' \in [Child -> PC]
    BY DEF TypeOK, PC
  <2>4. QED
    BY <2>1, <2>2, <2>3 DEF TypeOK
<1>2. \A a \in Addr : mem'[a].for = mem[a].for /\ mem'[a].rc = mem[a].rc
  BY DEF TypeOK
<1>3. StackOwned'
  BY <1>2 DEF TypeOK, StackOwned
<1>4. JoinInProgress'
  BY DEF TypeOK, JoinInProgress
<1>5. MappedHasResult' /\ Fresh'
  BY <1>2 DEF MappedHasResult, Fresh
<1>6. NotEarly'
  BY <1>2 DEF TypeOK, NotEarly, Dead
<1>7. QED
  BY <1>1, <1>3, <1>4, <1>5, <1>6

\* samthread_create up to clone: a stack is mapped, or the call has failed.
LEMMA MainCreates ==
  ASSUME IInv, NEW c \in Child, CreateMaps(c) \/ CreateFails(c)
  PROVE  IInv'
<1> USE SamThreadAssumption DEF IInv, Idle
<1>1. CASE CreateMaps(c)
  <2>1. PICK a \in Addr :
          /\ mem[a] = Unmapped
          /\ mem' = [mem EXCEPT ![a] = [for |-> c, tid |-> 1, rc |-> Failure]]
          /\ stack' = [stack EXCEPT ![c] = a]
    BY <1>1 DEF CreateMaps
  <2> USE <1>1, <2>1 DEF CreateMaps
  <2>2. TypeOK'
    <3>1. [for |-> c, tid |-> 1, rc |-> Failure]
            \in [for : Child \cup {None}, tid : {0, 1}, rc : Child \cup {Failure, None}]
      OBVIOUS
    <3>2. mem' \in [Addr -> [for : Child \cup {None}, tid : {0, 1},
                            rc : Child \cup {Failure, None}]]
      BY <3>1 DEF TypeOK
    <3>3. QED
      BY <3>2 DEF TypeOK, PC
  <2>3. got[c] = None
    BY DEF TypeOK, Fresh
  <2>4. StackOwned'
    BY <2>3 DEF TypeOK, StackOwned, Unmapped
  <2>5. /\ stack'[c] \in Addr
        /\ pc'[c] \in {"new", "dead"}
    BY DEF TypeOK, Fresh
  <2>6. JoinInProgress'
    BY <2>3, <2>5 DEF JoinInProgress
  <2>7. Fresh' /\ MappedHasResult'
    BY DEF TypeOK, Fresh, MappedHasResult
  <2>8. NotEarly'
    <3>1. \A d \in Child \ {c} : stack[d] \in Addr /\ got[d] = None
                                => mem'[stack[d]].rc = mem[stack[d]].rc
      BY DEF TypeOK, StackOwned, Unmapped
    <3>2. /\ stack[c] \notin Addr /\ stack'[c] \in Addr /\ got'[c] = None
          /\ \A d \in Child \ {c} : stack'[d] = stack[d]
      BY <2>3, <2>5 DEF TypeOK
    <3>3. join'.at = "clone" /\ join'.c = c /\ join' # Dead /\ join.at = "idle"
      BY DEF Dead
    <3>4. UNCHANGED <<pc, got, early>>
      OBVIOUS
    <3> HIDE DEF CreateMaps
    <3>5. QED
      BY <3>1, <3>2, <3>3, <3>4 DEF NotEarly
  <2>9. QED
    BY <2>2, <2>4, <2>6, <2>7, <2>8
<1>2. CASE CreateFails(c)
  BY <1>2 DEF CreateFails, TypeOK, PC, StackOwned, JoinInProgress, Fresh, MappedHasResult,
     NotEarly, Dead
<1>3. QED
  BY <1>1, <1>2

\* clone, with and without success.
LEMMA MainClones ==
  ASSUME IInv, Clone \/ CloneFails
  PROVE  IInv'
<1> USE SamThreadAssumption DEF IInv
<1>1. PICK c : c = join.c
  OBVIOUS
<1>2. /\ c \in Child /\ stack[c] \in Addr /\ got[c] = None
      /\ pc[c] \in {"new", "dead"} /\ join.at = "clone" /\ join' = Idle
  BY <1>1 DEF Clone, CloneFails, JoinInProgress
<1>3. /\ JoinInProgress'
      /\ join' \in [at : {"idle", "clone", "wait", "blocked", "read", "unmap", "dead"},
                    c : Child \cup {None}, rc : Child \cup {Failure, None}]
  BY <1>2 DEF JoinInProgress, Idle
<1>4. CASE Clone
  <2>1. pc' = [pc EXCEPT ![c] = "fn"] /\ UNCHANGED <<mem, stack, got, early>>
    BY <1>1, <1>4 DEF Clone
  <2>2. TypeOK'
    BY <1>2, <1>3, <2>1 DEF TypeOK, PC
  <2>3. StackOwned' /\ Fresh' /\ MappedHasResult'
    BY <1>2, <2>1 DEF TypeOK, StackOwned, Fresh, MappedHasResult
  <2>4. NotEarly'
    BY <1>1, <1>2, <2>1 DEF TypeOK, NotEarly, Idle, Dead
  <2>5. QED
    BY <1>3, <2>2, <2>3, <2>4
<1>5. CASE CloneFails
  <2>1. /\ mem' = [mem EXCEPT ![stack[c]] = Unmapped]
        /\ stack' = [stack EXCEPT ![c] = Failure]
        /\ UNCHANGED <<pc, got, early>>
    BY <1>1, <1>5 DEF CloneFails
  <2>2. TypeOK'
    BY <1>2, <1>3, <2>1 DEF TypeOK, Unmapped
  <2>3. StackOwned'
    BY <1>2, <2>1 DEF TypeOK, StackOwned, Unmapped
  <2>4. Fresh' /\ MappedHasResult'
    BY <1>2, <2>1 DEF TypeOK, Fresh, MappedHasResult, Unmapped
  <2>5. NotEarly'
    <3>1. \A d \in Child \ {c} : stack[d] \in Addr /\ got[d] = None
                                => mem'[stack[d]].rc = mem[stack[d]].rc
      BY <1>2, <2>1 DEF TypeOK, StackOwned
    <3>2. stack'[c] \notin Addr /\ \A d \in Child \ {c} : stack'[d] = stack[d]
      BY <1>2, <2>1 DEF TypeOK
    <3>3. QED
      BY <1>1, <1>2, <2>1, <3>1, <3>2 DEF NotEarly, Idle, Dead
  <2>6. QED
    BY <1>3, <2>2, <2>3, <2>4, <2>5
<1>6. QED
  BY <1>4, <1>5

\* The steps of samthread_join before the stack is unmapped.
LEMMA MainWaits ==
  ASSUME IInv,
         \/ \E c \in Child : JoinCall(c) \/ JoinInvalid(c)
         \/ JoinWait \/ JoinInterrupted \/ JoinRead
  PROVE  IInv'
<1> USE SamThreadAssumption DEF IInv
<1>1. ASSUME NEW c \in Child, JoinCall(c) PROVE IInv'
  BY <1>1 DEF JoinCall, TypeOK, StackOwned, JoinInProgress, Fresh, MappedHasResult,
     NotEarly, Idle, Dead
<1>2. ASSUME NEW c \in Child, JoinInvalid(c) PROVE IInv'
  BY <1>2 DEF JoinInvalid, TypeOK, StackOwned, JoinInProgress, Fresh, MappedHasResult,
     NotEarly, Idle, Dead
<1>3. CASE JoinWait \/ JoinInterrupted
  BY <1>3 DEF JoinWait, JoinInterrupted, TypeOK, StackOwned, JoinInProgress, Fresh,
     MappedHasResult, NotEarly, Dead
<1>4. CASE JoinRead
  <2> USE <1>4 DEF JoinRead
  <2>1. mem[stack[join.c]].for = join.c
    BY DEF TypeOK, StackOwned, JoinInProgress
  <2>2. mem[stack[join.c]].rc \in Child \cup {Failure}
    BY <2>1 DEF TypeOK, JoinInProgress, MappedHasResult
  <2>3. TypeOK'
    BY <2>2 DEF TypeOK, JoinInProgress
  <2>4. StackOwned' /\ Fresh' /\ MappedHasResult'
    BY DEF StackOwned, Fresh, MappedHasResult
  <2>5. JoinInProgress'
    BY <2>2 DEF TypeOK, JoinInProgress
  <2>6. NotEarly'
    BY <2>2 DEF TypeOK, JoinInProgress, NotEarly, Dead
  <2>7. QED
    BY <2>3, <2>4, <2>5, <2>6
<1>5. QED
  BY <1>1, <1>2, <1>3, <1>4

\* munmap, and the return of samthread_join.
LEMMA MainUnmaps == ASSUME IInv, JoinUnmap PROVE IInv'
<1> USE SamThreadAssumption DEF IInv, JoinUnmap
<1>1. TypeOK'
  BY DEF TypeOK, JoinInProgress, Unmapped, Idle
<1>2. got'[join.c] # None
  BY DEF TypeOK, JoinInProgress
<1>3. StackOwned'
  BY <1>2 DEF TypeOK, StackOwned, JoinInProgress, Unmapped
<1>4. JoinInProgress' /\ Fresh' /\ MappedHasResult'
  BY DEF TypeOK, JoinInProgress, Fresh, MappedHasResult, Unmapped, Idle
<1>5. NotEarly'
  BY <1>2 DEF TypeOK, JoinInProgress, StackOwned, NotEarly, Unmapped, Idle, Dead
<1>6. QED
  BY <1>1, <1>3, <1>4, <1>5

\* Every step of main, of a child or of the kernel preserves the invariant.
LEMMA StepIInv == IInv /\ [Next]_vars => IInv'
<1> SUFFICES ASSUME IInv, [Next]_vars PROVE IInv'
  OBVIOUS
<1>1. CASE MainCalls
  BY <1>1, MainCreates, MainWaits DEF MainCalls
<1>2. CASE MainGoesOn
  BY <1>2, MainClones, MainWaits, MainUnmaps DEF MainGoesOn
<1>3. CASE JoinInterrupted
  BY <1>3, MainWaits
<1>4. ASSUME NEW c \in Child, ChildStep(c) PROVE IInv'
  BY <1>4, ChildOnStack, ChildFaults, ChildGone DEF ChildStep
<1>5. CASE UNCHANGED vars
  BY <1>5 DEF vars, IInv, TypeOK, StackOwned, JoinInProgress, Fresh, MappedHasResult, NotEarly
<1>6. QED
  BY <1>1, <1>2, <1>3, <1>4, <1>5 DEF Next

\* The invariant holds in every reachable state.
THEOREM Invariance == Spec => []IInv
BY InitIInv, StepIInv, PTL DEF Spec

\* The variables of samthread.c keep their types, for any threads and stacks.
THEOREM TypeCorrect == Spec => []TypeOK
<1>1. IInv => TypeOK
  BY DEF IInv
<1>2. QED
  BY <1>1, Invariance, PTL

\* A stack is mapped exactly as long as a thread that was created and not
\* joined has it: samthread_create and samthread_join neither leak nor share.
THEOREM StacksAreOwned == Spec => []StackOwned
<1>1. IInv => StackOwned
  BY DEF IInv
<1>2. QED
  BY <1>1, Invariance, PTL

\* A join that went on before its thread was gone is behind every wrong result
\* of samthread_join and every thread that lost its stack.
THEOREM ResultsUnlessEarly == Spec => []ResultUnlessEarly
<1>1. IInv => ResultUnlessEarly
  BY SamThreadAssumption
     DEF IInv, TypeOK, StackOwned, NotEarly, ResultUnlessEarly, JoinReturnsResult, Dead
<1>2. QED
  BY <1>1, Invariance, PTL
=============================================================================
