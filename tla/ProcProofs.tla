----------------------------- MODULE ProcProofs -----------------------------
(* Proofs about Proc, for every size of the process table, every set of    *)
(* harts and every bound on pids.                                          *)
EXTENDS Proc, TLAPS, FiniteSetTheorems

(* The slots are the indices below NPROC.                                  *)
LEMMA SlotFacts ==
    /\ initproc \in Slots
    /\ NoProc \notin Slots
    /\ \A s \in Slots : s \in 0 .. NPROC /\ s < NPROC
    /\ \A i \in 0 .. NPROC : i < NPROC => i \in Slots
  BY ProcAssumption DEF Slots, initproc, NoProc

(* A thread that is about to lock a child has found it in the table.       *)
IndexInTable ==
    \A p \in Slots : pc[p] \in {"adopt", "waitLock"} => idx[p] < NPROC

TypeInv == TypeOK /\ IndexInTable

-----------------------------------------------------------------------------
(* TypeInv holds initially ...                                             *)
LEMMA TypeInit == Init => TypeInv
  BY SlotFacts, ProcAssumption
     DEF Init, TypeInv, TypeOK, IndexInTable, States, OpenPoints,
         LockedPoints, Points

(* ... and every step of the kernel keeps it.                              *)
LEMMA TypeStep == TypeInv /\ [Next]_vars => TypeInv'
<1> SUFFICES ASSUME TypeInv, [Next]_vars PROVE TypeInv'
  OBVIOUS
<1> USE SlotFacts, ProcAssumption DEF TypeInv, TypeOK, IndexInTable, States, OpenPoints, LockedPoints,
            Points
<1>1. CASE UNCHANGED vars
  BY <1>1 DEF vars, table, harts, locals
<1>2. ASSUME NEW c \in CPUs, NEW p \in Slots, Step(c, p)
      PROVE TypeInv'
  <2> USE DEF table, harts, locals, At, Goto, Free, Acquire, Advance, Return
  <2>1. CASE Schedule(c, p)
    BY <2>1 DEF Schedule
  <2>2. CASE Swtch(c, p)
    BY <2>2 DEF Swtch
  <2>3. CASE Yield(c, p)
    BY <2>3 DEF Yield
  <2>4. CASE YieldReturn(c, p)
    BY <2>4 DEF YieldReturn
  <2>5. CASE forkret(c, p)
    BY <2>5 DEF forkret
  <2>6. CASE Syscall(c, p)
    BY <2>6 DEF Syscall
  <2>7. CASE AllocSkip(c, p)
    <3>1. CASE idx[p] = NPROC
      <4>1. Return(p) /\ UNCHANGED <<table, harts>>
        BY <2>7, <3>1 DEF AllocSkip
      <4> QED
        BY <4>1
    <3>2. CASE idx[p] < NPROC
      BY <2>7, <3>2 DEF AllocSkip
    <3> QED
      BY <2>7, <3>1, <3>2 DEF AllocSkip
  <2>8. CASE fork(c, p)
    BY <2>8 DEF fork, AllocFound, PidAfter
  <2>9. CASE ForkNoTrapframe(c, p)
    BY <2>9 DEF ForkNoTrapframe, AllocFound, PidAfter
  <2>10. CASE ForkNoMemory(c, p)
    BY <2>10 DEF ForkNoMemory, AllocFound, freeproc, PidAfter
  <2>11. CASE KillSkip(c, p)
    <3>1. CASE idx[p] = NPROC
      <4>1. Return(p) /\ UNCHANGED <<table, harts>>
        BY <2>11, <3>1 DEF KillSkip
      <4> QED
        BY <4>1
    <3>2. CASE idx[p] < NPROC
      BY <2>11, <3>2 DEF KillSkip
    <3> QED
      BY <2>11, <3>1, <3>2 DEF KillSkip
  <2>12. CASE KillHit(c, p)
    BY <2>12 DEF KillHit
  <2>13. CASE ExitWakeInit(c, p)
    BY <2>13 DEF ExitWakeInit, Wakeup1
  <2>14. CASE ExitCopyParent(c, p)
    BY <2>14 DEF ExitCopyParent
  <2>15. CASE ExitLock(c, p)
    BY <2>15 DEF ExitLock, LockOrder
  <2>16. CASE reparent(c, p)
    BY <2>16 DEF reparent
  <2>17. CASE Adopt(c, p)
    BY <2>17 DEF Adopt, AfterAdopt
  <2>18. CASE ExitZombie(c, p)
    BY <2>18 DEF ExitZombie, ReleasedByExit, Wakeup1
  <2>19. CASE WaitLockSelf(c, p)
    BY <2>19 DEF WaitLockSelf
  <2>20. CASE WaitScan(c, p)
    BY <2>20 DEF WaitScan
  <2>21. CASE WaitChildLives(c, p)
    BY <2>21 DEF WaitChildLives
  <2>22. CASE WaitZombie(c, p)
    <3>1. CASE freeproc(idx[p])
      BY <2>22, <3>1 DEF WaitZombie, WaitReturn, freeproc
    <3>2. CASE UNCHANGED <<state, parent, chan, killed, pid>>
      BY <2>22, <3>2 DEF WaitZombie, WaitReturn
    <3> QED
      BY <2>22, <3>1, <3>2 DEF WaitZombie
  <2>23. CASE WaitGiveUp(c, p)
    BY <2>23 DEF WaitGiveUp, WaitReturn
  <2>24. CASE WaitSleep(c, p)
    BY <2>24 DEF WaitSleep
  <2>25. CASE WaitWoken(c, p)
    BY <2>25 DEF WaitWoken, ScanFrom
  <2> QED
    BY <1>2, <2>1, <2>2, <2>3, <2>4, <2>5, <2>6, <2>7, <2>8, <2>9, <2>10,
       <2>11, <2>12, <2>13, <2>14, <2>15, <2>16, <2>17, <2>18, <2>19, <2>20,
       <2>21, <2>22, <2>23, <2>24, <2>25 DEF Step
<1> QED
  BY <1>1, <1>2 DEF Next

(* Every variable keeps its type, and no loop over proc[] runs past its    *)
(* end.                                                                    *)
THEOREM TypeCorrect == Spec => []TypeOK
<1>1. Spec => []TypeInv
  BY TypeInit, TypeStep, PTL DEF Spec
<1>2. TypeInv => TypeOK
  BY DEF TypeInv
<1> QED
  BY <1>1, <1>2, PTL

-----------------------------------------------------------------------------
(* The inductive invariant behind the lock and stack discipline.           *)

(* The kernel thread of slot p is on a hart.                                *)
OnHart(p) == \E c \in CPUs : cproc[c] = p

(* Where the thread is, or will be when yield() returns.                   *)
Where(p) == IF pc[p] \in {"yieldSched", "yieldReturn"} THEN ret[p] ELSE pc[p]

(* The locks the thread of slot p holds at its program point.              *)
HeldAt(p) ==
    CASE pc[p] \in OpenPoints \cup {"none"} -> {}
      [] pc[p] = "exitLockSecond" -> {orig[p]}
      [] pc[p] \in {"reparent", "adopt", "exitZombie"} -> {orig[p], p}
      [] OTHER -> {p}

(* No process runs on two harts.                                            *)
HartsDistinct ==
    \A c, d \in CPUs : cproc[c] = cproc[d] /\ cproc[c] # NoProc => c = d

(* p->state tells where the thread is, on a hart ...                       *)
StateOnHart ==
    \A p \in Slots : OnHart(p) =>
        /\ pc[p] # "none"
        /\ state[p] = CASE pc[p] = "exitSched" -> "ZOMBIE"
                        [] pc[p] = "waitSched" -> "SLEEPING"
                        [] pc[p] = "yieldSched" -> "RUNNABLE"
                        [] OTHER -> "RUNNING"

(* ... and off it.                                                         *)
StateOffHart ==
    \A p \in Slots : ~OnHart(p) =>
        CASE state[p] = "RUNNABLE" ->
                 pc[p] \in {"waitWoken", "yieldReturn", "forkret"}
          [] state[p] = "SLEEPING" -> pc[p] = "waitWoken"
          [] state[p] \in {"ZOMBIE", "UNUSED"} -> pc[p] = "none"
          [] OTHER -> FALSE

(* A hart holds just the locks its thread took.                            *)
LockInv ==
    \A c \in CPUs, s \in Slots :
        lock[s] = c <=> cproc[c] \in Slots /\ s \in HeldAt(cproc[c])

ExitPoints == {"exitParent", "exitLockFirst", "exitLockSecond", "reparent",
               "adopt", "exitZombie"}

(* The family: init never exits, a process in use has a parent that has    *)
(* not exited, and parents do not go round in a circle of two.             *)
FamilyInv ==
    /\ parent[initproc] = NoProc
    /\ state[initproc] \notin {"UNUSED", "ZOMBIE"}
    /\ Where(initproc) \notin ExitPoints \cup {"exitSched"}
    /\ \A q \in Slots \ {initproc} :
           /\ state[q] = "UNUSED" <=> parent[q] = NoProc
           /\ state[q] # "UNUSED" =>
                  /\ parent[q] # q
                  /\ state[parent[q]] \notin {"UNUSED", "ZOMBIE"}
                  /\ parent[parent[q]] # q

(* The loops over proc[] start at the first slot.                          *)
IndexStart ==
    \A p \in Slots :
        Where(p) \in {"none", "forkret", "user", "wait", "exitParent",
                     "exitLockFirst", "exitLockSecond", "exitSched"} =>
            idx[p] = 0

(* exit() has no child left behind its loop variable.                      *)
ChildInv ==
    \A p \in Slots :
        /\ pc[p] \in {"reparent", "adopt"} =>
               \A q \in Slots : q < idx[p] => parent[q] # p
        /\ pc[p] \in {"exitZombie", "exitSched"} =>
               \A q \in Slots : parent[q] # p

(* The parent exit() has copied is another slot, and not that of a child.  *)
OrigInv ==
    \A p \in Slots : Where(p) \in ExitPoints \ {"exitParent"} =>
        orig[p] \in Slots /\ orig[p] # p /\ parent[orig[p]] # p

IInv == TypeInv /\ HartsDistinct /\ StateOnHart /\ StateOffHart /\ LockInv
        /\ FamilyInv /\ IndexStart /\ ChildInv /\ ParentSettled /\ OrigInv

-----------------------------------------------------------------------------
(* IInv holds initially: the first process waits for a hart in forkret().  *)
LEMMA InvInit == Init => IInv
<1> SUFFICES ASSUME Init PROVE IInv
  OBVIOUS
<1>1. TypeInv
  BY TypeInit
<1> QED
  BY <1>1, SlotFacts, ProcAssumption
     DEF Init, IInv, HartsDistinct, StateOnHart, StateOffHart, LockInv,
         FamilyInv, IndexStart, ChildInv, ParentSettled, OrigInv, OnHart,
         Where, HeldAt, OpenPoints, ExitPoints

(* Every step keeps IInv.  The steps that take a lock use LockInv (a free  *)
(* lock means that its process is not at a point where it holds it); those *)
(* that change the family use ParentSettled and ChildInv.                  *)
LEMMA InvStep == IInv /\ [Next]_vars => IInv'
<1> SUFFICES ASSUME IInv, [Next]_vars PROVE IInv'
  OBVIOUS
<1>0. TypeInv'
  BY TypeStep DEF IInv
<1> USE SlotFacts, ProcAssumption, <1>0
    DEF IInv, HartsDistinct, StateOnHart, StateOffHart, LockInv, FamilyInv,
        IndexStart, ChildInv, ParentSettled, OrigInv, TypeInv, TypeOK,
        IndexInTable, OnHart, Where, HeldAt, ExitPoints, OpenPoints,
        LockedPoints, Points, States, table, harts, locals
<1>1. CASE UNCHANGED vars
  BY <1>1 DEF vars
<1>2. ASSUME NEW c \in CPUs, NEW p \in Slots, Step(c, p)
      PROVE IInv'
  <2> USE DEF At, Goto, Free, Acquire, Unused, Advance, Return
  <2>1. CASE Schedule(c, p)
    BY <2>1, SMTT(30) DEF Schedule
  <2>2. CASE Swtch(c, p)
    BY <2>2, SMTT(30) DEF Swtch
  <2>3. CASE Yield(c, p)
    BY <2>3, SMTT(30) DEF Yield
  <2>4. CASE YieldReturn(c, p)
    BY <2>4, SMTT(30) DEF YieldReturn
  <2>5. CASE forkret(c, p)
    BY <2>5, SMTT(30) DEF forkret
  <2>6. CASE Syscall(c, p)
    BY <2>6, SMTT(30) DEF Syscall
  <2>7. CASE AllocSkip(c, p)
    <3>1. CASE idx[p] = NPROC
      <4>1. At(c, p, "fork") /\ Return(p) /\ UNCHANGED <<table, harts>>
        BY <2>7, <3>1 DEF AllocSkip
      <4> QED
        BY <4>1
    <3>2. CASE idx[p] < NPROC
      BY <2>7, <3>2, SMTT(30) DEF AllocSkip
    <3> QED
      BY <2>7, <3>1, <3>2 DEF AllocSkip
  <2>8. CASE fork(c, p)
    BY <2>8, SMTT(60) DEF fork, AllocFound, PidAfter
  <2>9. CASE ForkNoTrapframe(c, p)
    BY <2>9, SMTT(30) DEF ForkNoTrapframe, AllocFound, PidAfter
  <2>10. CASE ForkNoMemory(c, p)
    BY <2>10, SMTT(30) DEF ForkNoMemory, AllocFound, PidAfter, freeproc
  <2>11. CASE KillSkip(c, p)
    <3>1. CASE idx[p] = NPROC
      <4>1. At(c, p, "kill") /\ Return(p) /\ UNCHANGED <<table, harts>>
        BY <2>11, <3>1 DEF KillSkip
      <4> QED
        BY <4>1
    <3>2. CASE idx[p] < NPROC
      BY <2>11, <3>2, SMTT(30) DEF KillSkip
    <3> QED
      BY <2>11, <3>1, <3>2 DEF KillSkip
  <2>12. CASE KillHit(c, p)
    BY <2>12, SMTT(30) DEF KillHit
  <2>13. CASE ExitWakeInit(c, p)
    BY <2>13, SMTT(30) DEF ExitWakeInit, Wakeup1
  <2>14. CASE ExitCopyParent(c, p)
    BY <2>14, SMTT(30) DEF ExitCopyParent
  <2>15. CASE ExitLock(c, p)
    BY <2>15, SMTT(30) DEF ExitLock, LockOrder
  <2>16. CASE reparent(c, p)
    BY <2>16, SMTT(30) DEF reparent
  <2>17. CASE Adopt(c, p)
    <3>1. idx[p] \in Slots /\ idx[p] # initproc /\ parent[idx[p]] = p
      BY <2>17 DEF Adopt
    <3>2. HartsDistinct'
      BY <2>17, <3>1 DEF Adopt, AfterAdopt
    <3>3. StateOnHart'
      BY <2>17, <3>1 DEF Adopt, AfterAdopt
    <3>4. StateOffHart'
      BY <2>17, <3>1 DEF Adopt, AfterAdopt
    <3>5. LockInv'
      BY <2>17, <3>1 DEF Adopt, AfterAdopt
    <3>6. FamilyInv'
      BY <2>17, <3>1 DEF Adopt, AfterAdopt
    <3>7. IndexStart'
      BY <2>17, <3>1 DEF Adopt, AfterAdopt
    <3>8. ChildInv'
      BY <2>17, <3>1 DEF Adopt, AfterAdopt
    <3>9. ParentSettled'
      BY <2>17, <3>1 DEF Adopt, AfterAdopt
    <3>10. OrigInv'
      BY <2>17, <3>1 DEF Adopt, AfterAdopt
    <3> QED
      BY <3>2, <3>3, <3>4, <3>5, <3>6, <3>7, <3>8, <3>9, <3>10
  <2>18. CASE ExitZombie(c, p)
    BY <2>18, SMTT(60) DEF ExitZombie, ReleasedByExit, Wakeup1
  <2>19. CASE WaitLockSelf(c, p)
    BY <2>19, SMTT(30) DEF WaitLockSelf
  <2>20. CASE WaitScan(c, p)
    BY <2>20, SMTT(30) DEF WaitScan
  <2>21. CASE WaitChildLives(c, p)
    BY <2>21, SMTT(30) DEF WaitChildLives
  <2>22. CASE WaitZombie(c, p)
    BY <2>22, SMTT(60) DEF WaitZombie, WaitReturn, freeproc
  <2>23. CASE WaitGiveUp(c, p)
    BY <2>23, SMTT(30) DEF WaitGiveUp, WaitReturn
  <2>24. CASE WaitSleep(c, p)
    BY <2>24, SMTT(30) DEF WaitSleep
  <2>25. CASE WaitWoken(c, p)
    BY <2>25, SMTT(30) DEF WaitWoken, ScanFrom
  <2> QED
    BY <1>2, <2>1, <2>2, <2>3, <2>4, <2>5, <2>6, <2>7, <2>8, <2>9, <2>10,
       <2>11, <2>12, <2>13, <2>14, <2>15, <2>16, <2>17, <2>18, <2>19,
       <2>20, <2>21, <2>22, <2>23, <2>24, <2>25 DEF Step
<1> QED
  BY <1>1, <1>2 DEF Next

(* The invariant holds in every reachable state.                            *)
LEMMA Invariance == Spec => []IInv
  BY InvInit, InvStep, PTL DEF Spec

(* No hart panics in sched(), wakeup1() or acquire(), and no zombie is     *)
(* resumed.                                                                *)
THEOREM NeverPanics == Spec => []NoPanic
<1>1. IInv => NoPanic
  <2> SUFFICES ASSUME IInv, NEW c \in CPUs, cproc[c] # NoProc
               PROVE  LET p == cproc[c]
                          held == {s \in Slots : lock[s] = c} IN
                      /\ pc[p] # "none"
                      /\ pc[p] \in {"exitSched", "waitSched", "yieldSched"} =>
                             held = {p} /\ state[p] # "RUNNING"
                      /\ pc[p] = "exitZombie" => {orig[p], p} \subseteq held
                      /\ Wanted(c) \notin held
    BY DEF NoPanic
  <2> DEFINE p == cproc[c]
             held == {s \in Slots : lock[s] = c}
  <2>1. p \in Slots /\ OnHart(p)
    BY DEF IInv, TypeInv, TypeOK, OnHart
  <2>2. held = HeldAt(p) \cap Slots
    BY <2>1 DEF IInv, LockInv
  <2>3. pc[p] # "none" /\ (pc[p] \in {"exitSched", "waitSched", "yieldSched"}
                               => state[p] # "RUNNING")
    BY <2>1 DEF IInv, StateOnHart
  <2>4. Wanted(c) \notin held
    BY <2>1, <2>2, SlotFacts
       DEF Wanted, HeldAt, LockOrder, IInv, OrigInv, ParentSettled, FamilyInv,
           TypeInv, TypeOK, IndexInTable, Where, ExitPoints, OpenPoints
  <2> QED
    BY <2>1, <2>2, <2>3, <2>4
       DEF HeldAt, OpenPoints, IInv, OrigInv, Where, ExitPoints
<1> QED
  BY <1>1, Invariance, PTL

(* No two harts use one kernel stack, and a process leaves its stack       *)
(* before anybody else can take its lock.                                  *)
THEOREM OneHartPerStack == Spec => []StackExclusive
<1>1. IInv => StackExclusive
  BY DEF IInv, StackExclusive, HartsDistinct, StateOnHart, LockInv, OnHart,
         HeldAt, OpenPoints, TypeInv, TypeOK
<1> QED
  BY <1>1, Invariance, PTL

(* The unlocked reads of np->parent in reparent() and wait() are safe.     *)
THEOREM UnlockedReadsSafe == Spec => []ParentSettled
<1>1. IInv => ParentSettled
  BY DEF IInv
<1> QED
  BY <1>1, Invariance, PTL

-----------------------------------------------------------------------------
(***************************************************************************)
(* The family: pids, the loops of wait(), kill(), and that Proc implements *)
(* ProcTree.                                                               *)
(***************************************************************************)
Scanning(p) == pc[p] \in {"waitScan", "waitLock"}

(* No pid is given out twice, and pids go up from parent to child.         *)
PidInv ==
    /\ nextpid >= 2 /\ pid[initproc] = 1
    /\ UniquePids
    /\ \A q \in Slots \ {initproc} :
           state[q] # "UNUSED" => pid[parent[q]] < pid[q]

(* What exit() has copied is still the parent, or init has become it.      *)
OrigIsParent ==
    \A p \in Slots : Where(p) \in ExitPoints \ {"exitParent"} =>
        parent[p] \in {orig[p], initproc}

(* Who sleeps does so in wait(), and has not been killed.                  *)
SleepInv ==
    \A p \in Slots : state[p] = "SLEEPING" => chan[p] = p /\ ~killed[p]

(* wait() of any process but init has seen every child behind its loop     *)
(* variable, and none of these is a zombie.                                *)
SeenInv ==
    \A p \in Slots \ {initproc} : Scanning(p) =>
        \A q \in Slots : q < idx[p] /\ parent[q] = p =>
            havekids[p] /\ state[q] # "ZOMBIE"

(* havekids is cleared outside wait()'s loop.                              *)
KidsStart ==
    \A p \in Slots :
        pc[p] \notin {"waitScan", "waitLock", "waitSched", "waitWoken"} =>
            ~havekids[p]

(* Who has seen a child, or is asleep, has one.                            *)
HasChild ==
    \A p \in Slots : state[p] = "SLEEPING" \/ (Scanning(p) /\ havekids[p]) =>
        \E q \in Slots : parent[q] = p

(* Children may be given to init behind its loop variable.  As long as it  *)
(* has seen none, though, there is one before it, or nobody is left.       *)
InitScan ==
    Scanning(initproc) /\ ~havekids[initproc] =>
        \/ \E q \in Slots : parent[q] = initproc /\ q >= idx[initproc]
        \/ \A q \in Slots \ {initproc} : state[q] = "UNUSED"

KinInv == PidInv /\ OrigIsParent /\ SleepInv /\ SeenInv /\ KidsStart
          /\ HasChild /\ NoLostChildExit /\ InitScan

-----------------------------------------------------------------------------
(* A set of natural numbers has a least element, and a greatest one if it  *)
(* is bounded.                                                             *)
LEMMA Smallest ==
  ASSUME NEW S \in SUBSET Nat, S # {}
  PROVE  \E m \in S : \A k \in S : m <= k
<1> DEFINE T == {0 .. n : n \in S}
<1>1. IsWellFoundedOn(StrictSubsetOrdering(Nat), FiniteSubsetsOf(Nat))
  BY FS_StrictSubsetOrderingWellFounded
<1>2. T \subseteq FiniteSubsetsOf(Nat)
  <2>1. \A n \in S : IsFiniteSet(0 .. n) /\ 0 .. n \in SUBSET Nat
    BY FS_Interval
  <2> QED
    BY <2>1 DEF FiniteSubsetsOf
<1>3. PICK x \in T : \A y \in T : ~(<<y, x>> \in StrictSubsetOrdering(Nat))
  <2>1. T # {}
    OBVIOUS
  <2> HIDE DEF T
  <2> QED
    BY <1>1, <1>2, <2>1, WFMin
<1>4. PICK m \in S : x = 0 .. m
  BY <1>3
<1>5. ASSUME NEW k \in S, k < m PROVE FALSE
  <2>1. 0 .. k \subseteq 0 .. m /\ 0 .. k # 0 .. m
    <3>1. m \in 0 .. m /\ m \notin 0 .. k
      BY <1>5
    <3> QED
      BY <1>5, <3>1
  <2>2. <<0 .. k, 0 .. m>> \in StrictSubsetOrdering(Nat)
    BY <2>1 DEF StrictSubsetOrdering
  <2> QED
    BY <1>3, <1>4, <2>2
<1> QED
  BY <1>5

(* A bounded set has a greatest element.                                    *)
LEMMA Greatest ==
  ASSUME NEW S \in SUBSET Nat, S # {}, NEW b \in Nat, \A k \in S : k <= b
  PROVE  \E m \in S : \A k \in S : k <= m
<1> DEFINE T == {b - k : k \in S}
<1>1. T \in SUBSET Nat /\ T # {}
  <2>1. \A k \in S : b - k \in Nat
    OBVIOUS
  <2> QED
    BY <2>1
<1>2. PICK t \in T : \A k \in T : t <= k
  BY <1>1, Smallest
<1>3. PICK m \in S : t = b - m
  BY <1>2
<1>4. ASSUME NEW k \in S PROVE k <= m
  <2>1. b - k \in T
    OBVIOUS
  <2>2. b - m <= b - k
    BY <1>2, <1>3, <2>1
  <2> QED
    BY <2>2
<1> QED
  BY <1>4

(* KinInv holds initially.                                                 *)
LEMMA KinInit == Init => KinInv
<1> SUFFICES ASSUME Init PROVE KinInv
  OBVIOUS
<1> QED
  BY SlotFacts
     DEF Init, KinInv, PidInv, UniquePids, OrigIsParent, SleepInv, SeenInv,
         KidsStart, HasChild, NoLostChildExit, InitScan, Scanning, Where,
         ExitPoints

(* While there is another process than init, init has a child: the process *)
(* with the smallest pid can have no other parent.                         *)
LEMMA InitHasChild ==
  ASSUME IInv, PidInv, NEW p \in Slots \ {initproc}, state[p] # "UNUSED"
  PROVE  \E q \in Slots : parent[q] = initproc
<1> DEFINE Used == {q \in Slots \ {initproc} : state[q] # "UNUSED"}
           S == {pid[q] : q \in Used}
<1>1. S \in SUBSET Nat /\ S # {}
  <2>1. \A q \in Slots : pid[q] \in Nat
    BY DEF IInv, TypeInv, TypeOK
  <2>2. p \in Used
    OBVIOUS
  <2> QED
    BY <2>1, <2>2
<1>2. PICK m \in S : \A k \in S : m <= k
  BY <1>1, Smallest
<1>3. PICK q \in Used : m = pid[q]
  BY <1>2
<1>4. parent[q] \in Slots /\ state[parent[q]] # "UNUSED" /\ pid[parent[q]] < pid[q]
  BY SlotFacts DEF IInv, FamilyInv, TypeInv, TypeOK, PidInv
<1>5. parent[q] = initproc
  <2>1. ASSUME parent[q] # initproc PROVE FALSE
    <3>1. pid[parent[q]] \in S
      BY <1>4, <2>1
    <3>2. pid[parent[q]] \in Nat /\ pid[q] \in Nat
      BY <1>4 DEF IInv, TypeInv, TypeOK
    <3> QED
      BY <1>2, <1>3, <1>4, <3>1, <3>2
  <2> QED
    BY <2>1
<1> QED
  BY <1>5

-----------------------------------------------------------------------------
(* The steps that create, give away or free nobody.                        *)
Quiet(c, p) ==
    \/ Schedule(c, p) \/ Swtch(c, p)
    \/ Yield(c, p) \/ YieldReturn(c, p) \/ forkret(c, p)
    \/ Syscall(c, p) \/ AllocSkip(c, p)
    \/ KillSkip(c, p) \/ KillHit(c, p)
    \/ ExitWakeInit(c, p) \/ ExitCopyParent(c, p) \/ ExitLock(c, p)
    \/ reparent(c, p) \/ ExitZombie(c, p)
    \/ WaitLockSelf(c, p) \/ WaitScan(c, p) \/ WaitChildLives(c, p)
    \/ WaitGiveUp(c, p) \/ WaitSleep(c, p) \/ WaitWoken(c, p)

(* They leave pids and parents alone, and the slots in use as they were.   *)
LEMMA QuietStep ==
  ASSUME IInv, NEW c \in CPUs, NEW p \in Slots, Quiet(c, p)
  PROVE  /\ UNCHANGED <<parent, pid, nextpid>>
         /\ \A q \in Slots : state'[q] = "UNUSED" <=> state[q] = "UNUSED"
<1> USE DEF table, At
<1>1. cproc[c] = p => state[p] # "UNUSED"
  BY DEF IInv, StateOnHart, OnHart
<1>2. state \in [Slots -> States]
  BY DEF IInv, TypeInv, TypeOK
<1>3. CASE Schedule(c, p) \/ Yield(c, p) \/ WaitSleep(c, p)
  BY <1>1, <1>2, <1>3 DEF Schedule, Yield, WaitSleep
<1>4. CASE KillHit(c, p)
  BY <1>2, <1>4 DEF KillHit
<1>5. CASE ExitWakeInit(c, p) \/ ExitZombie(c, p)
  BY <1>1, <1>2, <1>5 DEF ExitWakeInit, ExitZombie, Wakeup1
<1>6. CASE UNCHANGED table
  BY <1>6
<1> QED
  BY <1>3, <1>4, <1>5, <1>6
     DEF Quiet, Swtch, YieldReturn, forkret, Syscall, AllocSkip, KillSkip,
         ExitCopyParent, ExitLock, reparent, WaitLockSelf, WaitScan,
         WaitChildLives, WaitGiveUp, WaitReturn, WaitWoken

(* fork() takes a pid above all others, its parent's included; init, to    *)
(* which children are given, has the smallest.                             *)
LEMMA PidStep ==
  ASSUME IInv, PidInv, NEW c \in CPUs, NEW p \in Slots, Step(c, p)
  PROVE  PidInv'
<1> USE SlotFacts, ProcAssumption
    DEF IInv, FamilyInv, TypeInv, TypeOK, IndexInTable, ParentSettled, PidInv,
        UniquePids, table, At, Unused
<1>1. CASE fork(c, p)
  BY <1>1, SMTT(30) DEF fork, AllocFound, PidAfter
<1>2. CASE ForkNoTrapframe(c, p)
  BY <1>2, SMTT(30) DEF ForkNoTrapframe, AllocFound, PidAfter
<1>3. CASE ForkNoMemory(c, p)
  BY <1>3, SMTT(30) DEF ForkNoMemory, AllocFound, PidAfter, freeproc
<1>4. CASE Adopt(c, p)
  BY <1>4, SMTT(30) DEF Adopt
<1>5. CASE WaitZombie(c, p)
  BY <1>5, SMTT(60) DEF WaitZombie, WaitReturn, freeproc
<1>6. CASE Quiet(c, p)
  BY <1>6, QuietStep
<1> QED
  BY <1>1, <1>2, <1>3, <1>4, <1>5, <1>6 DEF Step, Quiet

(* After exit() has copied p->parent only the parent's own exit() changes  *)
(* it, to init.                                                            *)
LEMMA OrigStep ==
  ASSUME IInv, OrigIsParent, NEW c \in CPUs, NEW p \in Slots, Step(c, p)
  PROVE  OrigIsParent'
<1> USE SlotFacts, ProcAssumption
    DEF IInv, TypeInv, TypeOK, IndexInTable, ParentSettled, OrigIsParent, ExitPoints,
        OpenPoints, Where, table, harts, locals, At, Goto, Advance, Return
<1>1. CASE \/ fork(c, p) \/ ForkNoTrapframe(c, p) \/ ForkNoMemory(c, p)
  BY <1>1, SMTT(60)
     DEF fork, ForkNoTrapframe, ForkNoMemory, freeproc, AllocFound, Unused,
         StateOnHart, StateOffHart, OnHart
<1>2. CASE WaitZombie(c, p)
  BY <1>2, SMTT(60)
     DEF WaitZombie, WaitReturn, freeproc, StateOnHart, StateOffHart, OnHart
<1>3. CASE Adopt(c, p) \/ ExitCopyParent(c, p)
  BY <1>3, SMTT(60) DEF Adopt, AfterAdopt, ExitCopyParent
<1>4. CASE \/ Yield(c, p) \/ YieldReturn(c, p) \/ Swtch(c, p) \/ forkret(c, p)
  BY <1>4, SMTT(60) DEF Yield, YieldReturn, Swtch, forkret
<1>5. CASE \/ Schedule(c, p) \/ Syscall(c, p) \/ AllocSkip(c, p)
           \/ KillSkip(c, p) \/ KillHit(c, p)
  BY <1>5, SMTT(60) DEF Schedule, Syscall, AllocSkip, KillSkip, KillHit
<1>6. CASE \/ ExitWakeInit(c, p) \/ ExitLock(c, p) \/ reparent(c, p) \/ ExitZombie(c, p)
  BY <1>6, SMTT(60) DEF ExitWakeInit, ExitLock, reparent, ExitZombie
<1>7. CASE \/ WaitLockSelf(c, p) \/ WaitScan(c, p) \/ WaitChildLives(c, p)
           \/ WaitGiveUp(c, p) \/ WaitSleep(c, p) \/ WaitWoken(c, p)
  BY <1>7, SMTT(60)
     DEF WaitLockSelf, WaitScan, WaitChildLives, WaitGiveUp, WaitReturn,
         WaitSleep, WaitWoken
<1> QED
  BY <1>1, <1>2, <1>3, <1>4, <1>5, <1>6, <1>7 DEF Step

(* wait() goes to sleep on p, not killed, and kill() wakes who sleeps.     *)
LEMMA SleepStep ==
  ASSUME IInv, SleepInv, NEW c \in CPUs, NEW p \in Slots, Step(c, p)
  PROVE  SleepInv'
<1> USE SlotFacts, ProcAssumption
    DEF IInv, TypeInv, TypeOK, IndexInTable, SleepInv, table, At
<1>1. CASE \/ fork(c, p) \/ ForkNoTrapframe(c, p) \/ ForkNoMemory(c, p)
  BY <1>1, SMTT(60)
     DEF fork, ForkNoTrapframe, ForkNoMemory, freeproc, AllocFound, Unused
<1>2. CASE \/ Schedule(c, p) \/ Yield(c, p) \/ KillHit(c, p)
           \/ ExitWakeInit(c, p) \/ ExitZombie(c, p)
  BY <1>2, SMTT(60)
     DEF Schedule, Yield, KillHit, ExitWakeInit, ExitZombie, Wakeup1
<1>3. CASE \/ Adopt(c, p) \/ WaitSleep(c, p) \/ WaitZombie(c, p) \/ WaitGiveUp(c, p)
           \/ WaitWoken(c, p)
  BY <1>3, SMTT(60)
     DEF Adopt, WaitZombie, WaitReturn, freeproc, WaitSleep, StaysInWait,
         WaitWoken, WaitGiveUp, StateOnHart, StateOffHart, OnHart
<1>4. CASE UNCHANGED table
  BY <1>4
<1> QED
  BY <1>1, <1>2, <1>3, <1>4
     DEF Step, Swtch, YieldReturn, forkret, Syscall, AllocSkip, KillSkip,
         ExitCopyParent, ExitLock, reparent, WaitLockSelf, WaitScan,
         WaitChildLives

(* A process whose child is about to become a zombie does not scan: exit() *)
(* and wait() both hold the lock of the parent.                            *)
LEMMA ParentWaits ==
  ASSUME IInv, OrigIsParent, NEW c \in CPUs, NEW p \in Slots, ExitZombie(c, p)
  PROVE  parent[p] # initproc => ~Scanning(parent[p])
<1> SUFFICES ASSUME parent[p] # initproc, Scanning(parent[p]) PROVE FALSE
  OBVIOUS
<1>1. At(c, p, "exitZombie")
  BY DEF ExitZombie
<1>2. parent[p] = orig[p] /\ orig[p] \in Slots /\ orig[p] # p
  BY <1>1 DEF At, OrigIsParent, IInv, OrigInv, Where, ExitPoints
<1>3. lock[orig[p]] = c
  BY <1>1, <1>2 DEF At, IInv, LockInv, HeldAt, OpenPoints
<1>4. PICK d \in CPUs : cproc[d] = orig[p]
  BY <1>2 DEF Scanning, IInv, StateOffHart, OnHart, TypeInv, TypeOK, States
<1>5. lock[orig[p]] = d
  BY <1>2, <1>4 DEF Scanning, IInv, LockInv, HeldAt, OpenPoints
<1> QED
  BY <1>1, <1>2, <1>3, <1>4, <1>5 DEF At

(* A child behind the loop variable of wait() becomes no zombie while the  *)
(* loop goes on (ParentWaits), and a new child comes from the process      *)
(* itself.                                                                 *)
LEMMA SeenStep ==
  ASSUME IInv, OrigIsParent, SeenInv,
         NEW c \in CPUs, NEW p \in Slots, Step(c, p)
  PROVE  SeenInv'
<1> USE SlotFacts, ProcAssumption
    DEF IInv, TypeInv, TypeOK, IndexInTable, ParentSettled, SeenInv, Scanning,
        table, harts, locals, At, Goto, Advance, Return
<1>1. CASE \/ fork(c, p) \/ ForkNoTrapframe(c, p) \/ ForkNoMemory(c, p)
  BY <1>1, SMTT(60)
     DEF fork, ForkNoTrapframe, ForkNoMemory, freeproc, AllocFound, Unused,
         StateOnHart, StateOffHart, OnHart
<1>2. CASE WaitZombie(c, p)
  BY <1>2, SMTT(60) DEF WaitZombie, WaitReturn, freeproc
<1>3. CASE Adopt(c, p) \/ ExitCopyParent(c, p)
  BY <1>3, SMTT(60) DEF Adopt, AfterAdopt, ExitCopyParent
<1>4. CASE \/ Yield(c, p) \/ YieldReturn(c, p) \/ Swtch(c, p) \/ forkret(c, p)
  BY <1>4, SMTT(60) DEF Yield, YieldReturn, Swtch, forkret, OpenPoints
<1>5. CASE \/ Schedule(c, p) \/ Syscall(c, p) \/ AllocSkip(c, p)
           \/ KillSkip(c, p) \/ KillHit(c, p)
  BY <1>5, SMTT(60) DEF Schedule, Syscall, AllocSkip, KillSkip, KillHit
<1>6. CASE \/ ExitWakeInit(c, p) \/ ExitLock(c, p) \/ reparent(c, p)
  BY <1>6, SMTT(60) DEF ExitWakeInit, ExitLock, reparent, Wakeup1
<1>7. CASE ExitZombie(c, p)
  <2>1. \A q \in Slots : state'[q] = "ZOMBIE" => state[q] = "ZOMBIE" \/ q = p
    BY <1>7 DEF ExitZombie, Wakeup1
  <2>2. UNCHANGED <<parent, havekids>> /\ ~Scanning(p)'
    BY <1>7 DEF ExitZombie
  <2>3. \A x \in Slots \ {p} : Scanning(x)' = Scanning(x) /\ idx'[x] = idx[x]
    BY <1>7 DEF ExitZombie
  <2> QED
    BY <1>7, <2>1, <2>2, <2>3, ParentWaits
<1>8. CASE WaitLockSelf(c, p)
  BY <1>8, SMTT(60) DEF WaitLockSelf, IndexStart, Where
<1>9. CASE WaitScan(c, p)
  BY <1>9, SMTT(60) DEF WaitScan
<1>10. CASE WaitChildLives(c, p)
  <2>1. /\ UNCHANGED <<parent, state>>
        /\ havekids'[p] /\ Scanning(p) /\ state[idx[p]] # "ZOMBIE"
        /\ idx'[p] = idx[p] + 1
    BY <1>10 DEF WaitChildLives
  <2>2. \A x \in Slots \ {p} : /\ Scanning(x)' = Scanning(x)
                              /\ idx'[x] = idx[x] /\ havekids'[x] = havekids[x]
    BY <1>10 DEF WaitChildLives
  <2>3. \A q \in Slots : q < idx[p] + 1 => q < idx[p] \/ q = idx[p]
    <3>1. \A a, b \in Int : a < b + 1 => a < b \/ a = b
      OBVIOUS
    <3>2. idx[p] \in Int /\ \A q \in Slots : q \in Int
      BY SlotFacts
    <3> QED
      BY <3>1, <3>2
  <2> QED
    BY <2>1, <2>2, <2>3
<1>11. CASE WaitGiveUp(c, p)
  BY <1>11, SMTT(60) DEF WaitGiveUp, WaitReturn
<1>12. CASE WaitSleep(c, p)
  BY <1>12, SMTT(60) DEF WaitSleep
<1>13. CASE WaitWoken(c, p)
  BY <1>13, SMTT(60) DEF WaitWoken, ScanFrom
<1> QED
  BY <1>1, <1>2, <1>3, <1>4, <1>5, <1>6, <1>7, <1>8, <1>9, <1>10, <1>11,
     <1>12, <1>13 DEF Step

(* havekids is set in the loop and cleared on every way out of it.         *)
LEMMA KidsStartStep ==
  ASSUME IInv, KidsStart, NEW c \in CPUs, NEW p \in Slots, Step(c, p)
  PROVE  KidsStart'
<1> USE SlotFacts, ProcAssumption
    DEF IInv, TypeInv, TypeOK, IndexInTable, KidsStart, table, harts, locals, At,
        Goto, Advance, Return, OpenPoints
<1>1. CASE \/ fork(c, p) \/ ForkNoTrapframe(c, p) \/ ForkNoMemory(c, p)
  BY <1>1, SMTT(60)
     DEF fork, ForkNoTrapframe, ForkNoMemory, freeproc, AllocFound, Unused,
         StateOffHart, StateOnHart, OnHart
<1>2. CASE WaitZombie(c, p) \/ WaitGiveUp(c, p)
  BY <1>2, SMTT(60) DEF WaitZombie, WaitGiveUp, WaitReturn, freeproc
<1>4. CASE \/ Yield(c, p) \/ YieldReturn(c, p) \/ Swtch(c, p) \/ forkret(c, p)
  BY <1>4, SMTT(60) DEF Yield, YieldReturn, Swtch, forkret
<1>5. CASE \/ Schedule(c, p) \/ Syscall(c, p) \/ AllocSkip(c, p)
           \/ KillSkip(c, p) \/ KillHit(c, p)
  BY <1>5, SMTT(60) DEF Schedule, Syscall, AllocSkip, KillSkip, KillHit
<1>6. CASE \/ ExitWakeInit(c, p) \/ ExitLock(c, p) \/ reparent(c, p)
           \/ ExitZombie(c, p) \/ ExitCopyParent(c, p) \/ Adopt(c, p)
  BY <1>6, SMTT(60)
     DEF ExitWakeInit, ExitLock, reparent, ExitZombie, ExitCopyParent, Adopt,
         AfterAdopt
<1>7. CASE \/ WaitLockSelf(c, p) \/ WaitScan(c, p) \/ WaitChildLives(c, p)
           \/ WaitSleep(c, p) \/ WaitWoken(c, p)
  BY <1>7, SMTT(60)
     DEF WaitLockSelf, WaitScan, WaitChildLives, WaitSleep, WaitWoken
<1> QED
  BY <1>1, <1>2, <1>4, <1>5, <1>6, <1>7 DEF Step

(* A process in wait() loses no child: it does not exit, and frees one     *)
(* only to return.                                                         *)
LEMMA HasChildStep ==
  ASSUME IInv, KidsStart, HasChild, NEW c \in CPUs, NEW p \in Slots, Step(c, p)
  PROVE  HasChild'
<1> USE SlotFacts, ProcAssumption
    DEF IInv, TypeInv, TypeOK, IndexInTable, ParentSettled, HasChild, Scanning,
        table, harts, locals, At, Goto, Advance, Return
<1>1. CASE \/ fork(c, p) \/ ForkNoTrapframe(c, p) \/ ForkNoMemory(c, p)
  BY <1>1, SMTT(60)
     DEF fork, ForkNoTrapframe, ForkNoMemory, freeproc, AllocFound, Unused,
         StateOnHart, StateOffHart, OnHart, FamilyInv
<1>2. CASE WaitZombie(c, p)
  BY <1>2, SMTT(60) DEF WaitZombie, WaitReturn, freeproc, StateOnHart, OnHart
<1>3. CASE Adopt(c, p)
  <2>1. state[p] = "RUNNING" /\ parent[idx[p]] = p
    BY <1>3 DEF Adopt, StateOnHart, OnHart
  <2> QED
    BY <1>3, <2>1, SMTT(60) DEF Adopt, AfterAdopt
<1>4. CASE \/ Yield(c, p) \/ YieldReturn(c, p) \/ Swtch(c, p) \/ forkret(c, p)
  BY <1>4, SMTT(60) DEF Yield, YieldReturn, Swtch, forkret, OpenPoints
<1>5. CASE \/ Schedule(c, p) \/ Syscall(c, p) \/ AllocSkip(c, p)
           \/ KillSkip(c, p) \/ KillHit(c, p)
  BY <1>5, SMTT(60) DEF Schedule, Syscall, AllocSkip, KillSkip, KillHit
<1>6. CASE \/ ExitWakeInit(c, p) \/ ExitLock(c, p) \/ reparent(c, p)
           \/ ExitZombie(c, p) \/ ExitCopyParent(c, p)
  BY <1>6, SMTT(60)
     DEF ExitWakeInit, ExitLock, reparent, ExitZombie, ExitCopyParent, Wakeup1
<1>8. CASE WaitLockSelf(c, p)
  BY <1>8, SMTT(60) DEF WaitLockSelf, KidsStart
<1>9. CASE WaitScan(c, p)
  BY <1>9, SMTT(60) DEF WaitScan
<1>10. CASE WaitChildLives(c, p)
  BY <1>10, SMTT(60) DEF WaitChildLives
<1>11. CASE WaitGiveUp(c, p)
  BY <1>11, SMTT(60) DEF WaitGiveUp, WaitReturn
<1>12. CASE WaitSleep(c, p)
  BY <1>12, SMTT(60) DEF WaitSleep, StaysInWait
<1>13. CASE WaitWoken(c, p)
  BY <1>13, SMTT(60) DEF WaitWoken
<1> QED
  BY <1>1, <1>2, <1>3, <1>4, <1>5, <1>6, <1>8, <1>9, <1>10, <1>11,
     <1>12, <1>13 DEF Step

(* A child that becomes a zombie wakes its parent, which sleeps on itself; *)
(* a parent goes to sleep when its scan has seen all of its children.      *)
LEMMA LostStep ==
  ASSUME IInv, OrigIsParent, SleepInv, SeenInv, NoLostChildExit,
         NEW c \in CPUs, NEW p \in Slots, Step(c, p)
  PROVE  NoLostChildExit'
<1> USE SlotFacts, ProcAssumption
    DEF IInv, TypeInv, TypeOK, IndexInTable, ParentSettled, NoLostChildExit,
        Children, table, harts, locals, At, Goto, Advance, Return
<1>1. CASE \/ fork(c, p) \/ ForkNoTrapframe(c, p) \/ ForkNoMemory(c, p)
  BY <1>1, SMTT(60)
     DEF fork, ForkNoTrapframe, ForkNoMemory, freeproc, AllocFound, Unused
<1>2. CASE WaitZombie(c, p)
  BY <1>2, SMTT(60) DEF WaitZombie, WaitReturn, freeproc
<1>3. CASE Adopt(c, p)
  BY <1>3, SMTT(60) DEF Adopt
<1>4. CASE \/ Schedule(c, p) \/ Yield(c, p) \/ KillHit(c, p) \/ ExitWakeInit(c, p)
  BY <1>4, SMTT(60) DEF Schedule, Yield, KillHit, ExitWakeInit, Wakeup1
<1>5. CASE ExitZombie(c, p)
  <2>1. UNCHANGED parent /\ parent[p] \in {orig[p], initproc}
    BY <1>5 DEF ExitZombie, OrigIsParent, Where, ExitPoints
  <2>2. \A q \in Slots : state'[q] = "ZOMBIE" => state[q] = "ZOMBIE" \/ q = p
    BY <1>5 DEF ExitZombie, Wakeup1
  <2>3. \A q \in Slots : state'[q] = "SLEEPING" => state[q] = "SLEEPING" /\ q # orig[p]
    BY <1>5 DEF ExitZombie, Wakeup1, SleepInv
  <2> QED
    BY <2>1, <2>2, <2>3
<1>6. CASE WaitSleep(c, p)
  <2>1. UNCHANGED parent /\ idx[p] = NPROC /\ Scanning(p)
    BY <1>6 DEF WaitSleep, Scanning
  <2>2. \A q \in Slots : state'[q] = IF q = p THEN "SLEEPING" ELSE state[q]
    BY <1>6 DEF WaitSleep
  <2> QED
    BY <2>1, <2>2 DEF SeenInv
<1>7. CASE UNCHANGED <<state, parent>>
  BY <1>7
<1> QED
  BY <1>1, <1>2, <1>3, <1>4, <1>5, <1>6, <1>7
     DEF Step, Swtch, YieldReturn, forkret, Syscall, AllocSkip, KillSkip,
         ExitCopyParent, ExitLock, reparent, WaitLockSelf, WaitScan,
         WaitChildLives, WaitGiveUp, WaitWoken

(* Children come to init while it scans; but as long as it has seen none,  *)
(* a process is left that has it for a parent already (InitHasChild).      *)
LEMMA InitScanStep ==
  ASSUME IInv, PidInv, KidsStart, InitScan, NEW c \in CPUs, NEW p \in Slots, Step(c, p)
  PROVE  InitScan'
<1> USE SlotFacts, ProcAssumption
    DEF IInv, TypeInv, TypeOK, IndexInTable, ParentSettled, FamilyInv, InitScan, Scanning,
        table, harts, locals, At, Goto, Advance, Return
<1>1. CASE \/ fork(c, p) \/ ForkNoTrapframe(c, p) \/ ForkNoMemory(c, p)
  BY <1>1, SMTT(60)
     DEF fork, ForkNoTrapframe, ForkNoMemory, freeproc, AllocFound, Unused,
         StateOnHart, StateOffHart, OnHart
<1>2. CASE WaitZombie(c, p)
  BY <1>2, SMTT(60)
     DEF WaitZombie, WaitReturn, freeproc, StateOnHart, StateOffHart, OnHart
<1>3. CASE Adopt(c, p)
  BY <1>3, SMTT(60) DEF Adopt, AfterAdopt
<1>4. CASE WaitLockSelf(c, p)
  BY <1>4, InitHasChild, SMTT(60) DEF WaitLockSelf, IndexStart, Where
<1>5. CASE WaitWoken(c, p)
  BY <1>5, InitHasChild, SMTT(60) DEF WaitWoken, ScanFrom
<1>6. CASE WaitScan(c, p)
  <2>1. UNCHANGED <<parent, state, havekids>>
    BY <1>6 DEF WaitScan
  <2>2. CASE p = initproc
    <3>1. \A q \in Slots : parent[q] = initproc /\ q >= idx[initproc] => q >= idx'[initproc]
      BY <1>6, <2>2 DEF WaitScan
    <3> QED
      BY <1>6, <2>1, <2>2, <3>1 DEF WaitScan
  <2>3. CASE p # initproc
    <3>1. Scanning(initproc)' = Scanning(initproc) /\ idx'[initproc] = idx[initproc]
      BY <1>6, <2>3 DEF WaitScan
    <3> QED
      BY <2>1, <3>1
  <2> QED
    BY <2>2, <2>3
<1>7. CASE WaitChildLives(c, p)
  <2>1. UNCHANGED <<parent, state>> /\ havekids'[p]
    BY <1>7 DEF WaitChildLives
  <2>2. p # initproc => /\ Scanning(initproc)' = Scanning(initproc)
                        /\ idx'[initproc] = idx[initproc]
                        /\ havekids'[initproc] = havekids[initproc]
    BY <1>7, ZenonT(40) DEF WaitChildLives
  <2> QED
    BY <2>1, <2>2
<1>8. CASE WaitGiveUp(c, p)
  BY <1>8, SMTT(60) DEF WaitGiveUp, WaitReturn
<1>9. CASE WaitSleep(c, p)
  <2>1. UNCHANGED <<parent, havekids, idx>> /\ ~Scanning(p)'
    BY <1>9 DEF WaitSleep
  <2>2. p # initproc => Scanning(initproc)' = Scanning(initproc)
    BY <1>9 DEF WaitSleep
  <2>3. \A q \in Slots : state[q] = "UNUSED" => state'[q] = "UNUSED"
    BY <1>9, QuietStep DEF Quiet
  <2> QED
    BY <2>1, <2>2, <2>3
<1>10. CASE \/ Yield(c, p) \/ YieldReturn(c, p) \/ Swtch(c, p) \/ forkret(c, p)
            \/ Schedule(c, p) \/ Syscall(c, p) \/ AllocSkip(c, p)
            \/ KillSkip(c, p) \/ KillHit(c, p)
            \/ ExitWakeInit(c, p) \/ ExitLock(c, p) \/ reparent(c, p)
            \/ ExitZombie(c, p) \/ ExitCopyParent(c, p)
  <2>1. Scanning(initproc)' => /\ Scanning(initproc) /\ idx'[initproc] = idx[initproc]
                               /\ havekids'[initproc] = havekids[initproc]
    <3>1. CASE \/ Yield(c, p) \/ YieldReturn(c, p) \/ Swtch(c, p) \/ forkret(c, p)
      BY <3>1, SMTT(60) DEF Yield, YieldReturn, Swtch, forkret, OpenPoints
    <3>2. CASE \/ Schedule(c, p) \/ Syscall(c, p) \/ AllocSkip(c, p)
               \/ KillSkip(c, p) \/ KillHit(c, p)
      BY <3>2, SMTT(60) DEF Schedule, Syscall, AllocSkip, KillSkip, KillHit
    <3>3. CASE \/ ExitWakeInit(c, p) \/ ExitLock(c, p) \/ reparent(c, p)
               \/ ExitZombie(c, p) \/ ExitCopyParent(c, p)
      BY <3>3, SMTT(60)
         DEF ExitWakeInit, ExitLock, reparent, ExitZombie, ExitCopyParent
    <3> QED
      BY <1>10, <3>1, <3>2, <3>3
  <2>2. UNCHANGED parent /\ \A q \in Slots : state'[q] = "UNUSED" <=> state[q] = "UNUSED"
    BY <1>10, QuietStep DEF Quiet
  <2> QED
    BY <2>1, <2>2
<1> QED
  BY <1>1, <1>2, <1>3, <1>4, <1>5, <1>6, <1>7, <1>8, <1>9, <1>10 DEF Step

(* Every step keeps KinInv.                                                *)
LEMMA KinStep == IInv /\ KinInv /\ [Next]_vars => KinInv'
<1> SUFFICES ASSUME IInv, KinInv, [Next]_vars PROVE KinInv'
  OBVIOUS
<1>1. CASE UNCHANGED vars
  BY <1>1
     DEF vars, table, harts, locals, KinInv, PidInv, UniquePids, OrigIsParent,
         SleepInv, SeenInv, KidsStart, HasChild, NoLostChildExit, Children,
         InitScan, Scanning, Where
<1>2. ASSUME NEW c \in CPUs, NEW p \in Slots, Step(c, p) PROVE KinInv'
  BY <1>2, PidStep, OrigStep, SleepStep, SeenStep, KidsStartStep,
     HasChildStep, LostStep, InitScanStep DEF KinInv
<1> QED
  BY <1>1, <1>2 DEF Next

(* KinInv, with IInv of ProcProofs, is an invariant.                       *)
LEMMA KinInvariance == Spec => [](IInv /\ KinInv)
<1>1. Init => IInv /\ KinInv
  BY InvInit, KinInit
<1>2. IInv /\ KinInv /\ [Next]_vars => (IInv /\ KinInv)'
  BY InvStep, KinStep
<1> QED
  BY <1>1, <1>2, PTL DEF Spec

-----------------------------------------------------------------------------
(* No two slots of proc[] have the same pid, whatever failed in fork().    *)
THEOREM PidsUnique == Spec => []UniquePids
<1>1. KinInv => UniquePids
  BY DEF KinInv, PidInv
<1> QED
  BY <1>1, KinInvariance, PTL

(* kill() and wait() do not miss each other: no killed process is asleep.  *)
THEOREM KilledRuns == Spec => []KilledAwake
<1>1. KinInv => KilledAwake
  BY DEF KinInv, SleepInv, KilledAwake
<1> QED
  BY <1>1, KinInvariance, PTL

(* exit() and wait() do not miss each other: who sleeps in wait(), init    *)
(* excepted, has no zombie child.                                          *)
THEOREM ChildExitSeen == Spec => []NoLostChildExit
<1>1. KinInv => NoLostChildExit
  BY DEF KinInv
<1> QED
  BY <1>1, KinInvariance, PTL

(* The scan of wait() misses no child, for init either, though exit() may  *)
(* give init a child in a slot it has passed.                              *)
THEOREM WaitTellsTruth == Spec => []WaitHonest
<1>1. IInv /\ KinInv => WaitHonest
  <2> SUFFICES ASSUME IInv, KinInv, NEW p \in Slots,
                      pc[p] = "waitScan", idx[p] = NPROC, ~havekids[p],
                      NEW q \in Slots, parent[q] = p
               PROVE  FALSE
    BY DEF WaitHonest, Children
  <2>1. Scanning(p) /\ q < idx[p] /\ q \in Int /\ NPROC \in Int
    BY SlotFacts, ProcAssumption DEF Scanning
  <2>2. CASE p # initproc
    BY <2>1, <2>2 DEF KinInv, SeenInv
  <2>3. CASE p = initproc
    <3>1. \A r \in Slots : ~(r >= NPROC)
      BY SlotFacts, ProcAssumption
    <3>2. \A r \in Slots \ {initproc} : state[r] = "UNUSED"
      BY <2>1, <2>3, <3>1 DEF KinInv, InitScan
    <3> QED
      BY <2>3, <3>2, SlotFacts DEF IInv, FamilyInv
  <2> QED
    BY <2>2, <2>3
<1> QED
  BY <1>1, KinInvariance, PTL

(* Every process but init has a parent that is alive, and the parents of   *)
(* every process end at init: in any set of processes the one with the     *)
(* smallest pid has its parent outside.                                    *)
THEOREM FamilyRooted == Spec => []Rooted
<1>1. IInv /\ KinInv => Rooted
  <2> SUFFICES ASSUME IInv, KinInv PROVE Rooted
    OBVIOUS
  <2>1. ASSUME NEW q \in Slots \ {initproc}, state[q] # "UNUSED"
        PROVE  parent[q] # NoProc /\ Live(parent[q])
    BY <2>1 DEF IInv, FamilyInv, Live
  <2>2. ASSUME NEW S \in SUBSET {q \in Slots \ {initproc} : state[q] # "UNUSED"},
               S # {}
        PROVE  \E q \in S : parent[q] \notin S
    <3> DEFINE P == {pid[q] : q \in S}
    <3>1. \A q \in Slots : pid[q] \in Nat
      BY DEF IInv, TypeInv, TypeOK
    <3>2. P \in SUBSET Nat /\ P # {}
      BY <2>2, <3>1
    <3>3. PICK m \in P : \A k \in P : m <= k
      BY <3>2, Smallest
    <3>4. PICK q \in S : m = pid[q]
      BY <3>3
    <3>5. pid[parent[q]] < pid[q]
      BY DEF KinInv, PidInv
    <3>6. ASSUME parent[q] \in S PROVE FALSE
      <4>1. pid[parent[q]] \in P /\ pid[parent[q]] \in Nat /\ pid[q] \in Nat
        BY <3>1, <3>6
      <4> QED
        BY <3>3, <3>4, <3>5, <4>1
    <3> QED
      BY <3>6
  <2> QED
    BY <2>1, <2>2 DEF Rooted
<1> QED
  BY <1>1, KinInvariance, PTL

(* A hart of a circle that holds a lock wants that of a younger process in *)
(* use: exit() holds the lock of the parent for that of p and the locks of *)
(* both for that of a child, wait() holds that of p for that of a child.   *)
LEMMA YoungerWanted ==
  ASSUME IInv, KinInv, NEW c \in CPUs, Wanted(c) # NoProc,
         ~ParentReused(cproc[c]), NEW s \in Slots, lock[s] = c
  PROVE  /\ Wanted(c) \in Slots
         /\ state[Wanted(c)] # "UNUSED"
         /\ state[s] # "UNUSED" => pid[s] < pid[Wanted(c)]
<1> DEFINE p == cproc[c]
<1>1. p \in Slots /\ s \in HeldAt(p) /\ OnHart(p)
  BY DEF IInv, LockInv, OnHart
<1>2. pc[p] \in {"exitLockSecond", "adopt", "waitLock"}
  BY <1>1 DEF Wanted, HeldAt, OpenPoints
<1>3. \A q \in Slots : pid[q] \in Nat
  BY DEF IInv, TypeInv, TypeOK
<1>4. ASSUME pc[p] \in {"exitLockSecond", "adopt"}, state[orig[p]] # "UNUSED"
      PROVE  pid[orig[p]] < pid[p]
  <2>1. orig[p] \in Slots /\ orig[p] # p
    BY <1>1, <1>4 DEF IInv, OrigInv, Where, ExitPoints
  <2>2. p # initproc /\ state[p] = "RUNNING"
    BY <1>1, <1>4 DEF IInv, FamilyInv, StateOnHart, Where, ExitPoints
  <2>3. parent[p] \in Slots
    BY <1>1, <2>2, SlotFacts DEF IInv, FamilyInv, TypeInv, TypeOK
  <2>4. pid[parent[p]] < pid[p] /\ UniquePids
    BY <1>1, <2>2 DEF KinInv, PidInv
  <2>5. pid[p] # 0 /\ pid[orig[p]] # pid[p]
    BY <1>1, <1>3, <2>1, <2>3, <2>4 DEF UniquePids
  <2>6. ~(pid[orig[p]] > pid[p])
    BY <1>4 DEF ParentReused
  <2> QED
    BY <1>1, <1>3, <2>1, <2>5, <2>6
<1>5. CASE pc[p] = "exitLockSecond"
  <2>1. Wanted(c) = p /\ s = orig[p]
    BY <1>1, <1>5, SlotFacts DEF Wanted, LockOrder, HeldAt, OpenPoints
  <2>2. state[p] = "RUNNING"
    BY <1>1, <1>5 DEF IInv, StateOnHart
  <2> QED
    BY <1>1, <1>4, <1>5, <2>1, <2>2
<1>6. CASE pc[p] \in {"adopt", "waitLock"}
  <2>1. Wanted(c) = idx[p] /\ idx[p] \in Slots /\ parent[idx[p]] = p
    BY <1>1, <1>6, SlotFacts
       DEF Wanted, IInv, ParentSettled, TypeInv, IndexInTable, TypeOK
  <2>2. idx[p] # initproc /\ state[idx[p]] # "UNUSED"
    BY <1>1, <2>1, SlotFacts DEF IInv, FamilyInv
  <2>3. pid[p] < pid[idx[p]]
    BY <2>1, <2>2 DEF KinInv, PidInv
  <2>4. s = p \/ (pc[p] = "adopt" /\ s = orig[p])
    BY <1>1, <1>6 DEF HeldAt, OpenPoints
  <2>5. CASE s = p
    BY <2>1, <2>2, <2>3, <2>5
  <2>6. CASE pc[p] = "adopt" /\ s = orig[p]
    <3>1. state[s] # "UNUSED" => pid[s] < pid[p]
      BY <1>4, <2>6
    <3>2. pid[s] \in Nat /\ pid[p] \in Nat /\ pid[idx[p]] \in Nat
      BY <1>1, <1>3, <2>1
    <3> QED
      BY <2>1, <2>2, <2>3, <3>1, <3>2
  <2> QED
    BY <2>4, <2>5, <2>6
<1> QED
  BY <1>2, <1>5, <1>6

(* No circle of harts that wait for each other's p->locks without a parent *)
(* slot that was used again: the youngest of the processes the harts want  *)
(* would be wanted by the holder of a younger one.                         *)
THEOREM LockCyclesNeedReuse == Spec => []LockCycleNeedsReuse
<1>1. IInv /\ KinInv => LockCycleNeedsReuse
  <2> SUFFICES ASSUME IInv, KinInv, NEW D \in SUBSET CPUs, Circle(D),
                      \A c \in D : ~ParentReused(cproc[c])
               PROVE  FALSE
    BY DEF LockCycleNeedsReuse
  <2> DEFINE Holders == {lock[Wanted(c)] : c \in D}
             P == {pid[Wanted(c)] : c \in Holders}
  <2>1. \A c \in D : Wanted(c) # NoProc /\ lock[Wanted(c)] \in D
    BY DEF Circle
  <2>2. Holders \subseteq D /\ Holders # {}
    BY <2>1 DEF Circle
  <2>3. \A c \in D : Wanted(c) \in Slots
    BY <2>1, SlotFacts
       DEF Wanted, LockOrder, IInv, TypeInv, TypeOK, IndexInTable
  <2>4. ASSUME NEW c \in Holders
        PROVE  Wanted(c) \in Slots /\ state[Wanted(c)] # "UNUSED"
    <3>1. PICK d \in D : lock[Wanted(d)] = c
      BY <2>4
    <3> QED
      BY <2>1, <2>2, <2>3, <2>4, <3>1, YoungerWanted
  <2>5. ASSUME NEW c \in Holders
        PROVE  /\ lock[Wanted(c)] \in Holders
               /\ pid[Wanted(c)] < pid[Wanted(lock[Wanted(c)])]
    <3> DEFINE d == lock[Wanted(c)]
    <3>1. d \in Holders /\ d \in D
      BY <2>2, <2>5
    <3>2. state[Wanted(c)] # "UNUSED" /\ Wanted(c) \in Slots
      BY <2>4, <2>5
    <3> QED
      BY <2>1, <3>1, <3>2, YoungerWanted
  <2> HIDE DEF Holders
  <2>6. nextpid \in Nat /\ \A s \in Slots : pid[s] \in Nat /\ pid[s] <= nextpid
    BY DEF IInv, TypeInv, TypeOK
  <2>7. P \in SUBSET Nat /\ P # {} /\ \A k \in P : k <= nextpid
    BY <2>2, <2>4, <2>6
  <2>8. PICK m \in P : \A k \in P : k <= m
    <3> HIDE DEF P
    <3> QED
      BY <2>6, <2>7, Greatest
  <2>9. PICK c \in Holders : m = pid[Wanted(c)]
    BY <2>8
  <2>10. lock[Wanted(c)] \in Holders /\ pid[Wanted(lock[Wanted(c)])] \in P
    BY <2>5
  <2>11. /\ pid[Wanted(lock[Wanted(c)])] \in Nat
         /\ pid[Wanted(c)] \in Nat
    BY <2>4, <2>6, <2>10
  <2>12. /\ pid[Wanted(lock[Wanted(c)])] <= pid[Wanted(c)]
         /\ pid[Wanted(c)] < pid[Wanted(lock[Wanted(c)])]
    BY <2>5, <2>8, <2>9, <2>10
  <2> QED
    BY <2>11, <2>12
<1> QED
  BY <1>1, KinInvariance, PTL

(* A kernel in which nothing can run has only init left: of the processes  *)
(* asleep in wait() the one with the greatest pid would have a child, and  *)
(* that child could be neither a zombie nor asleep.                        *)
THEOREM RestMeansInit == Spec => []OnlyInitHangs
<1>1. IInv /\ KinInv => OnlyInitHangs
  <2> SUFFICES ASSUME IInv, KinInv,
                      \A p \in Slots : state[p] \notin {"RUNNABLE", "RUNNING"},
                      NEW q \in Slots \ {initproc}, Live(q)
               PROVE  FALSE
    BY DEF OnlyInitHangs
  <2> DEFINE Asleep == {r \in Slots \ {initproc} : state[r] = "SLEEPING"}
             P == {pid[r] : r \in Asleep}
  <2>1. q \in Asleep
    BY DEF Live, IInv, TypeInv, TypeOK, States
  <2>2. nextpid \in Nat /\ \A r \in Slots : pid[r] \in Nat /\ pid[r] <= nextpid
    BY DEF IInv, TypeInv, TypeOK
  <2>3. P \in SUBSET Nat /\ P # {} /\ \A k \in P : k <= nextpid
    BY <2>1, <2>2
  <2>4. PICK m \in P : \A k \in P : k <= m
    <3> HIDE DEF P
    <3> QED
      BY <2>2, <2>3, Greatest
  <2>5. PICK r \in Asleep : m = pid[r]
    BY <2>4
  <2>6. PICK s \in Slots : parent[s] = r
    BY DEF KinInv, HasChild
  <2>7. s # initproc /\ state[s] # "UNUSED"
    BY <2>6, SlotFacts DEF IInv, FamilyInv
  <2>8. state[s] # "ZOMBIE"
    BY <2>6 DEF KinInv, NoLostChildExit, Children
  <2>9. s \in Asleep
    BY <2>7, <2>8 DEF IInv, TypeInv, TypeOK, States
  <2>10. pid[r] < pid[s]
    BY <2>6, <2>7 DEF KinInv, PidInv
  <2>11. pid[s] \in P /\ pid[s] \in Nat /\ pid[r] \in Nat
    BY <2>2, <2>9
  <2> QED
    BY <2>4, <2>5, <2>10, <2>11
<1> QED
  BY <1>1, KinInvariance, PTL

-----------------------------------------------------------------------------
(* The kernel starts as the family tree does, with init alone.             *)
LEMMA TreeInit == Init => Tree!TInit
  BY SlotFacts DEF Init, Tree!TInit, Status

(* The cases of Status, in a state and in the next one.                    *)
LEMMA StatusCases ==
  ASSUME NEW p \in Slots
  PROVE  LET X == {"reparent", "adopt", "exitZombie"} IN
         /\ state[p] = "UNUSED" => Status(p) = "free"
         /\ state[p] = "ZOMBIE" => Status(p) = "zombie"
         /\ state[p] \notin {"UNUSED", "ZOMBIE"} =>
                Status(p) = IF pc[p] \in X THEN "exiting" ELSE "live"
         /\ state'[p] = "UNUSED" => Status(p)' = "free"
         /\ state'[p] = "ZOMBIE" => Status(p)' = "zombie"
         /\ state'[p] \notin {"UNUSED", "ZOMBIE"} =>
                Status(p)' = IF pc'[p] \in X THEN "exiting" ELSE "live"
  BY DEF Status, Live

(* A process whose state and program point stay keeps its status.          *)
LEMMA StatusFrame ==
  ASSUME NEW p \in Slots, state'[p] = state[p], pc'[p] = pc[p]
  PROVE  Status(p)' = Status(p)
  BY DEF Status, Live

(* A step that changes the status of one process.                          *)
LEMMA StatusStep ==
  ASSUME NEW q \in Slots, NEW s,
         \A r \in Slots : Status(r)' = IF r = q THEN s ELSE Status(r)
  PROVE  [r \in Slots |-> Status(r)]'
             = [[r \in Slots |-> Status(r)] EXCEPT ![q] = s]
  OBVIOUS

(* Every step of the kernel is a step of the family tree or none.          *)
LEMMA TreeStep ==
  ASSUME IInv, [Next]_vars PROVE [Tree!TNext]_(Tree!treeVars)
<1> DEFINE st == [p \in Slots |-> Status(p)]
<1> SUFFICES \/ UNCHANGED <<parent, st>>
             \/ \E p \in Slots :
                  \/ Tree!BeginExit(p) \/ Tree!Die(p)
                  \/ \E q \in Slots : \/ Tree!Create(p, q) \/ Tree!GiveAway(p, q)
                                      \/ Tree!Reap(p, q)
  BY DEF Tree!TNext, Tree!treeVars
<1> USE SlotFacts, ProcAssumption
    DEF IInv, TypeInv, TypeOK, IndexInTable, table, harts, locals, At, Goto, Advance,
        Return
<1>1. CASE UNCHANGED vars
  BY <1>1 DEF vars, Status, Live
<1>2. ASSUME NEW c \in CPUs, NEW p \in Slots, Step(c, p)
      PROVE  \/ UNCHANGED <<parent, st>>
             \/ Tree!BeginExit(p) \/ Tree!Die(p)
             \/ \E q \in Slots : \/ Tree!Create(p, q) \/ Tree!GiveAway(p, q)
                                 \/ Tree!Reap(p, q)
  <2>1. CASE fork(c, p)
    <3>0. PICK q \in Slots : q = idx[p]
      BY <2>1 DEF fork, AllocFound
    <3>1. /\ q \in Slots /\ state[q] = "UNUSED" /\ state[p] = "RUNNING"
          /\ state' = [state EXCEPT ![q] = "RUNNABLE"]
          /\ parent' = [parent EXCEPT ![q] = p]
          /\ pc' = [pc EXCEPT ![p] = "user", ![q] = "forkret"]
          /\ pc[p] = "fork"
      BY <2>1, <3>0 DEF fork, AllocFound, Unused, StateOnHart, OnHart
    <3>2. Status(p) = "live" /\ Status(q) = "free" /\ Status(q)' = "live"
      BY <3>1, StatusCases
    <3>3. \A r \in Slots : Status(r)' = IF r = q THEN "live" ELSE Status(r)
      <4>1. Status(p)' = "live"
        BY <3>1, StatusCases
      <4>2. \A r \in Slots \ {p, q} : state'[r] = state[r] /\ pc'[r] = pc[r]
        BY <3>1
      <4> QED
        BY <3>2, <4>1, <4>2, StatusFrame
    <3>4. Tree!Create(p, q)
      BY <3>1, <3>2, <3>3, StatusStep DEF Tree!Create
    <3> QED
      BY <3>1, <3>4
  <2>2. CASE Adopt(c, p)
    <3>0. PICK q \in Slots : q = idx[p]
      BY <2>2 DEF Adopt
    <3>1. /\ q \in Slots /\ parent[q] = p /\ state[p] = "RUNNING"
          /\ UNCHANGED state
          /\ parent' = [parent EXCEPT ![q] = initproc]
          /\ pc[p] = "adopt" /\ pc' = [pc EXCEPT ![p] = "reparent"]
      BY <2>2, <3>0 DEF Adopt, AfterAdopt, ParentSettled, StateOnHart, OnHart
    <3>2. Status(p) = "exiting" /\ \A r \in Slots : Status(r)' = Status(r)
      BY <3>1 DEF Status, Live
    <3>3. Tree!GiveAway(p, q)
      BY <3>1, <3>2 DEF Tree!GiveAway
    <3> QED
      BY <3>1, <3>3
  <2>3. CASE ExitZombie(c, p)
    <3>1. /\ pc[p] = "exitZombie" /\ state[p] = "RUNNING"
          /\ UNCHANGED parent /\ pc' = [pc EXCEPT ![p] = "exitSched"]
          /\ \A r \in Slots : parent[r] # p
      BY <2>3 DEF ExitZombie, StateOnHart, OnHart, ChildInv
    <3>2. /\ state'[p] = "ZOMBIE"
          /\ \A r \in Slots \ {p} : \/ state'[r] = state[r]
                                    \/ state[r] = "SLEEPING" /\ state'[r] = "RUNNABLE"
      <4>1. state' = [state EXCEPT ![orig[p]] = Wakeup1(orig[p]), ![p] = "ZOMBIE"]
        BY <2>3 DEF ExitZombie
      <4>2. \A r \in Slots \ {p} : state'[r] \in {state[r], Wakeup1(r)}
        <5>1. \A r \in Slots \ {p} :
                  state'[r] = IF r = orig[p] THEN Wakeup1(orig[p]) ELSE state[r]
          BY <4>1
        <5> QED
          BY <5>1
      <4>3. state'[p] = "ZOMBIE"
        BY <4>1
      <4>4. \A r \in Slots : \/ Wakeup1(r) = state[r]
                             \/ state[r] = "SLEEPING" /\ Wakeup1(r) = "RUNNABLE"
        BY DEF Wakeup1
      <4> QED
        BY <4>2, <4>3, <4>4
    <3>3. Status(p) = "exiting"
      BY <3>1 DEF Status, Live
    <3>4. \A r \in Slots : Status(r)' = IF r = p THEN "zombie" ELSE Status(r)
      BY <3>1, <3>2 DEF Status, Live
    <3>5. Tree!Die(p)
      BY <3>1, <3>3, <3>4, StatusStep DEF Tree!Die, Tree!Kids
    <3> QED
      BY <3>5
  <2>4. CASE WaitZombie(c, p)
    <3>0. PICK q \in Slots : q = idx[p]
      BY <2>4 DEF WaitZombie
    <3>1. /\ q \in Slots /\ parent[q] = p /\ state[q] = "ZOMBIE"
          /\ state[p] = "RUNNING"
          /\ pc[p] = "waitLock" /\ pc' = [pc EXCEPT ![p] = "user"]
      BY <2>4, <3>0
         DEF WaitZombie, WaitReturn, ParentSettled, StateOnHart, OnHart
    <3>2. CASE UNCHANGED <<state, parent>>
      BY <3>1, <3>2 DEF Status, Live
    <3>3. CASE freeproc(q)
      <4>1. /\ state' = [state EXCEPT ![q] = "UNUSED"]
            /\ parent' = [parent EXCEPT ![q] = NoProc]
        BY <3>3 DEF freeproc
      <4>2. Status(p) = "live" /\ Status(q) = "zombie" /\ Status(q)' = "free"
        BY <3>1, <4>1, StatusCases
      <4>3. \A r \in Slots : Status(r)' = IF r = q THEN "free" ELSE Status(r)
        <5>1. p # q /\ Status(p)' = "live"
          BY <3>1, <4>1, StatusCases
        <5>2. \A r \in Slots \ {p, q} : state'[r] = state[r] /\ pc'[r] = pc[r]
          BY <3>1, <4>1
        <5> QED
          BY <4>2, <5>1, <5>2, StatusFrame
      <4>4. Tree!Reap(p, q)
        BY <3>1, <4>1, <4>2, <4>3, StatusStep DEF Tree!Reap
      <4> QED
        BY <3>1, <4>4
    <3> QED
      BY <2>4, <3>0, <3>2, <3>3 DEF WaitZombie
  <2>5. CASE ExitLock(c, p)
    <3>1. /\ state[p] = "RUNNING" /\ UNCHANGED <<parent, state>>
          /\ p # initproc
      BY <2>5 DEF ExitLock, StateOnHart, OnHart, FamilyInv, Where, ExitPoints
    <3>2. CASE pc[p] = "exitLockFirst" /\ pc' = [pc EXCEPT ![p] = "exitLockSecond"]
      BY <3>1, <3>2 DEF Status, Live
    <3>3. CASE pc[p] = "exitLockSecond" /\ pc' = [pc EXCEPT ![p] = "reparent"]
      <4>1. Status(p) = "live"
        BY <3>1, <3>3 DEF Status, Live
      <4>2. \A r \in Slots : Status(r)' = IF r = p THEN "exiting" ELSE Status(r)
        BY <3>1, <3>3 DEF Status, Live
      <4>3. Tree!BeginExit(p)
        BY <3>1, <4>1, <4>2, StatusStep DEF Tree!BeginExit
      <4> QED
        BY <4>3
    <3> QED
      BY <2>5, <3>2, <3>3 DEF ExitLock
  <2>6. CASE ForkNoTrapframe(c, p) \/ ForkNoMemory(c, p)
    BY <2>6, SMTT(60)
       DEF ForkNoTrapframe, ForkNoMemory, freeproc, AllocFound, Unused,
           Status, Live, FamilyInv
  <2>7. CASE \/ Yield(c, p) \/ YieldReturn(c, p) \/ Swtch(c, p) \/ forkret(c, p)
    BY <2>7, SMTT(60)
       DEF Yield, YieldReturn, Swtch, forkret, OpenPoints, Status, Live,
           StateOnHart, OnHart
  <2>8. CASE \/ Schedule(c, p) \/ Syscall(c, p) \/ AllocSkip(c, p)
             \/ KillSkip(c, p) \/ KillHit(c, p)
    BY <2>8, SMTT(60)
       DEF Schedule, Syscall, AllocSkip, KillSkip, KillHit, Status, Live
  <2>9. CASE \/ ExitWakeInit(c, p) \/ reparent(c, p) \/ ExitCopyParent(c, p)
    BY <2>9, SMTT(60)
       DEF ExitWakeInit, reparent, ExitCopyParent, Wakeup1, Status, Live
  <2>10. CASE \/ WaitLockSelf(c, p) \/ WaitScan(c, p) \/ WaitChildLives(c, p)
              \/ WaitGiveUp(c, p) \/ WaitSleep(c, p) \/ WaitWoken(c, p)
    BY <2>10, SMTT(60) DEF WaitLockSelf, WaitScan, WaitChildLives, WaitGiveUp,
       WaitReturn, WaitSleep, WaitWoken, Status, Live, StateOnHart, OnHart
  <2> QED
    BY <1>2, <2>1, <2>2, <2>3, <2>4, <2>5, <2>6, <2>7, <2>8, <2>9, <2>10
       DEF Step
<1> QED
  BY <1>1, <1>2 DEF Next

(* Proc implements ProcTree: with its locks, harts and loops it does to    *)
(* the family of processes what the family tree may do, and nothing else.  *)
THEOREM TreeRefinement == Spec => ImplementsTree
<1>1. IInv /\ [Next]_vars => [Tree!TNext]_(Tree!treeVars)
  BY TreeStep
<1> QED
  BY <1>1, TreeInit, Invariance, PTL DEF Spec, ImplementsTree, Tree!TSpec
=============================================================================
