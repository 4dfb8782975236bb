-------------------------------- MODULE Proc --------------------------------
(***************************************************************************)
(* The life of a process in the teaching kernel of Lab 2                   *)
(* (xv6-labs/Lab2-syscall/codes/proc.c): fork, exit, wait, kill, yield and *)
(* the per-CPU scheduler, at the grain of the per-process spin locks.      *)
(*                                                                         *)
(* A critical section that takes ONE p->lock and touches only what that    *)
(* lock protects is one atomic step, enabled while the lock is free.  The  *)
(* places where the code reads np->parent WITHOUT the lock, or takes a     *)
(* second lock while it holds a first one, are separate steps: they are    *)
(* what the comments of proc.c argue about.                                *)
(***************************************************************************)
EXTENDS Integers, FiniteSets

CONSTANTS
    NPROC,      \* size of the process table (param.h)
    CPUs,       \* the harts that run scheduler()
    NoCpu,      \* "no hart holds the lock"
    MaxPid,     \* bound of the model: the last pid fork() may hand out
    KillPids    \* the arguments user programs give to kill()

Slots == 0 .. NPROC - 1     \* proc[]
initproc == 0               \* userinit() takes the first slot
NoProc == -1                \* the null pointer

(* Killing init makes the kernel panic ("init exiting"), on purpose: no    *)
(* program of the labs does it.                                            *)
ASSUME ProcAssumption ==
    /\ NPROC \in Nat \ {0}
    /\ NoCpu \notin CPUs
    /\ MaxPid \in Nat
    /\ KillPids \subseteq Nat
    /\ 1 \notin KillPids

VARIABLES
    state, parent, chan, killed, pid,   \* the fields of struct proc
    nextpid,
    lock,       \* p->lock.cpu: the hart that holds p->lock, or NoCpu
    cproc,      \* c->proc: the process whose stack hart c runs on, or NoProc
    pc,         \* where the kernel thread of slot p is
    ret,        \* where yield() returns to
    idx,        \* the loop variable (p, np or pp) of the thread, as an index
    orig,       \* exit()'s local original_parent
    havekids,   \* wait()'s local havekids
    target      \* kill()'s argument

table == <<state, parent, chan, killed, pid, nextpid>>
harts == <<lock, cproc>>
locals == <<idx, orig, havekids, target>>
vars == <<table, harts, pc, ret, locals>>

States == {"UNUSED", "SLEEPING", "RUNNABLE", "RUNNING", "ZOMBIE"}

(* Program points at which the thread holds no lock, so that a timer       *)
(* interrupt may come and call yield(), and those inside critical sections.*)
OpenPoints == {"user", "fork", "wait", "kill", "exitParent", "exitLockFirst"}
LockedPoints == {"exitLockSecond", "reparent", "adopt", "exitZombie",
                 "exitSched", "waitScan", "waitLock", "waitSched",
                 "waitWoken", "yieldSched", "yieldReturn", "forkret"}
Points == OpenPoints \cup LockedPoints \cup {"none"}

(* main() has run userinit() and the harts enter scheduler().              *)
Init ==
    /\ state = [p \in Slots |-> IF p = initproc THEN "RUNNABLE" ELSE "UNUSED"]
    /\ parent = [p \in Slots |-> NoProc]
    /\ chan = [p \in Slots |-> NoProc]
    /\ killed = [p \in Slots |-> FALSE]
    /\ pid = [p \in Slots |-> IF p = initproc THEN 1 ELSE 0]
    /\ nextpid = 2
    /\ lock = [p \in Slots |-> NoCpu]
    /\ cproc = [c \in CPUs |-> NoProc]
    /\ pc = [p \in Slots |-> IF p = initproc THEN "forkret" ELSE "none"]
    /\ ret = [p \in Slots |-> "user"]
    /\ idx = [p \in Slots |-> 0]
    /\ orig = [p \in Slots |-> NoProc]
    /\ havekids = [p \in Slots |-> FALSE]
    /\ target = [p \in Slots |-> 0]

-----------------------------------------------------------------------------
(* Mistakes one could make in proc.c.  The specification does not use them:*)
(* each replaces a definition below, to see a property fail.               *)

Wakeup1Forgotten(p) == state[p]                 \* exit() wakes nobody
UnusedOrZombie(s) == state[s] \in {"UNUSED", "ZOMBIE"}
PidsWrap == IF nextpid = 3 THEN 2 ELSE nextpid + 1
ChildThenParent(p) == <<p, orig[p]>>
OneChildOnly == "exitZombie"                    \* reparent() stops early
ReleasesBoth(p) == {orig[p], p}                 \* exit(), before sched()
SleepsWhenKilled(p) == havekids[p]
GoesOnScanning(p) == idx[p]                     \* wait() when it wakes up

-----------------------------------------------------------------------------
(* The parts of the code the actions below are built from.                 *)

Free(s) == lock[s] = NoCpu
Acquire(c, s) == Free(s) /\ lock' = [lock EXCEPT ![s] = c]
Unused(s) == state[s] = "UNUSED"

(* The thread of slot p runs on hart c and is at program point l.          *)
At(c, p, l) == cproc[c] = p /\ pc[p] = l
Goto(p, l) == pc' = [pc EXCEPT ![p] = l] /\ UNCHANGED ret

(* Turn to the next slot of the table, at program point l.                 *)
Advance(p, l) ==
    /\ idx' = [idx EXCEPT ![p] = @ + 1]
    /\ Goto(p, l)
    /\ UNCHANGED <<orig, havekids, target>>

(* Return from a system call: the locals are dead.                         *)
Return(p) ==
    /\ idx' = [idx EXCEPT ![p] = 0]
    /\ havekids' = [havekids EXCEPT ![p] = FALSE]
    /\ target' = [target EXCEPT ![p] = 0]
    /\ Goto(p, "user")
    /\ UNCHANGED orig

(* wakeup1(p): the state p gets.  The caller holds p->lock.                *)
Wakeup1(p) == IF chan[p] = p /\ state[p] = "SLEEPING" THEN "RUNNABLE"
                                                     ELSE state[p]

freeproc(s) ==
    /\ pid' = [pid EXCEPT ![s] = 0]
    /\ parent' = [parent EXCEPT ![s] = NoProc]
    /\ chan' = [chan EXCEPT ![s] = NoProc]
    /\ killed' = [killed EXCEPT ![s] = FALSE]
    /\ state' = [state EXCEPT ![s] = "UNUSED"]

(* allocpid(): the pid is nextpid, and this is the next one.               *)
PidAfter == nextpid + 1

-----------------------------------------------------------------------------
(* scheduler(): acquire, see RUNNABLE, swtch into the process, which       *)
(* resumes with its own lock held by this hart.                            *)
Schedule(c, p) ==
    /\ cproc[c] = NoProc
    /\ Acquire(c, p)
    /\ state[p] = "RUNNABLE"
    /\ state' = [state EXCEPT ![p] = "RUNNING"]
    /\ cproc' = [cproc EXCEPT ![c] = p]
    /\ UNCHANGED <<parent, chan, killed, pid, nextpid, pc, ret, locals>>

(* sched(): swtch away; back in scheduler(), c->proc = 0 and release.      *)
Swtch(c, p) ==
    /\ cproc[c] = p
    /\ pc[p] \in {"exitSched", "waitSched", "yieldSched"}
    /\ cproc' = [cproc EXCEPT ![c] = NoProc]
    /\ lock' = [lock EXCEPT ![p] = NoCpu]
    /\ Goto(p, CASE pc[p] = "exitSched" -> "none"
                 [] pc[p] = "waitSched" -> "waitWoken"
                 [] pc[p] = "yieldSched" -> "yieldReturn")
    /\ UNCHANGED <<table, locals>>

(* A timer interrupt calls yield(): acquire, RUNNABLE, on to sched().      *)
Yield(c, p) ==
    /\ cproc[c] = p
    /\ pc[p] \in OpenPoints
    /\ Acquire(c, p)
    /\ state' = [state EXCEPT ![p] = "RUNNABLE"]
    /\ ret' = [ret EXCEPT ![p] = pc[p]]
    /\ pc' = [pc EXCEPT ![p] = "yieldSched"]
    /\ UNCHANGED <<parent, chan, killed, pid, nextpid, cproc, locals>>

(* The tail of yield(), and forkret(): release the lock the scheduler took.*)
YieldReturn(c, p) ==
    /\ At(c, p, "yieldReturn")
    /\ lock' = [lock EXCEPT ![p] = NoCpu]
    /\ pc' = [pc EXCEPT ![p] = ret[p]]
    /\ ret' = [ret EXCEPT ![p] = "user"]
    /\ UNCHANGED <<table, cproc, locals>>

forkret(c, p) ==
    /\ At(c, p, "forkret")
    /\ lock' = [lock EXCEPT ![p] = NoCpu]
    /\ Goto(p, "user")
    /\ UNCHANGED <<table, cproc, locals>>

-----------------------------------------------------------------------------
(* The forks in progress, so that MaxPid bounds what they will hand out.   *)
Forking == {q \in Slots : "fork" \in {pc[q], ret[q]}}

(* usertrap() lets a process that is not killed enter a system call; its   *)
(* first lock is taken later, so kill() can come in between.               *)
Syscall(c, p) ==
    /\ At(c, p, "user")
    /\ ~killed[p]
    /\ \/ /\ nextpid + Cardinality(Forking) <= MaxPid
          /\ Goto(p, "fork") /\ UNCHANGED target
       \/ Goto(p, "wait") /\ UNCHANGED target
       \/ /\ Goto(p, "kill")
          /\ \E k \in KillPids : target' = [target EXCEPT ![p] = k]
    /\ UNCHANGED <<table, harts, idx, orig, havekids>>

-----------------------------------------------------------------------------
(* allocproc(): pass over the slots in use; after the last one fork fails. *)
AllocSkip(c, p) ==
    /\ At(c, p, "fork")
    /\ \/ idx[p] = NPROC /\ Return(p)
       \/ idx[p] < NPROC /\ Free(idx[p]) /\ ~Unused(idx[p])
          /\ Advance(p, "fork")
    /\ UNCHANGED <<table, harts>>

AllocFound(c, p) ==
    /\ At(c, p, "fork")
    /\ idx[p] < NPROC
    /\ Free(idx[p])
    /\ Unused(idx[p])
    /\ nextpid' = PidAfter

(* fork() succeeds: allocproc() has given the slot a pid, fork() fills it  *)
(* in.  Neither clears killed.                                             *)
fork(c, p) ==
    /\ AllocFound(c, p)
    /\ LET np == idx[p] IN
       /\ pid' = [pid EXCEPT ![np] = nextpid]
       /\ parent' = [parent EXCEPT ![np] = p]
       /\ state' = [state EXCEPT ![np] = "RUNNABLE"]
       /\ pc' = [pc EXCEPT ![p] = "user", ![np] = "forkret"]
    /\ idx' = [idx EXCEPT ![p] = 0]
    /\ UNCHANGED <<chan, killed, harts, ret, orig, havekids, target>>

(* allocproc() finds no page for the trapframe: it returns without         *)
(* freeproc(), so the UNUSED slot keeps the pid.                           *)
ForkNoTrapframe(c, p) ==
    /\ AllocFound(c, p)
    /\ pid' = [pid EXCEPT ![idx[p]] = nextpid]
    /\ Return(p)
    /\ UNCHANGED <<state, parent, chan, killed, harts>>

(* No memory for the page table or for the copy: freeproc().               *)
ForkNoMemory(c, p) ==
    /\ AllocFound(c, p)
    /\ freeproc(idx[p])
    /\ Return(p)
    /\ UNCHANGED harts

-----------------------------------------------------------------------------
(* kill(): one slot of the table at a time.                                *)
KillSkip(c, p) ==
    /\ At(c, p, "kill")
    /\ \/ idx[p] = NPROC /\ Return(p)
       \/ idx[p] < NPROC /\ Free(idx[p]) /\ pid[idx[p]] # target[p]
          /\ Advance(p, "kill")
    /\ UNCHANGED <<table, harts>>

KillHit(c, p) ==
    /\ At(c, p, "kill")
    /\ idx[p] < NPROC
    /\ Free(idx[p])
    /\ pid[idx[p]] = target[p]
    /\ killed' = [killed EXCEPT ![idx[p]] = TRUE]
    /\ state' = [state EXCEPT ![idx[p]] =
                     IF @ = "SLEEPING" THEN "RUNNABLE" ELSE @]
    /\ Return(p)
    /\ UNCHANGED <<parent, chan, pid, nextpid, harts>>

-----------------------------------------------------------------------------
(* exit(): wake init in case a child of p will be given to it.  The first  *)
(* process is /init, which loops in fork and wait and never exits.         *)
ExitWakeInit(c, p) ==
    /\ At(c, p, "user")
    /\ p # initproc
    /\ Free(initproc)
    /\ state' = [state EXCEPT ![initproc] = Wakeup1(initproc)]
    /\ Goto(p, "exitParent")
    /\ UNCHANGED <<parent, chan, killed, pid, nextpid, harts, locals>>

(* Copy p->parent under p->lock, and release it.                           *)
ExitCopyParent(c, p) ==
    /\ At(c, p, "exitParent")
    /\ Free(p)
    /\ orig' = [orig EXCEPT ![p] = parent[p]]
    /\ Goto(p, "exitLockFirst")
    /\ UNCHANGED <<table, harts, idx, havekids, target>>

(* The parent-then-child rule.                                             *)
LockOrder(p) == <<orig[p], p>>

ExitLock(c, p) ==
    /\ \/ /\ At(c, p, "exitLockFirst")
          /\ Acquire(c, LockOrder(p)[1])
          /\ Goto(p, "exitLockSecond")
       \/ /\ At(c, p, "exitLockSecond")
          /\ Acquire(c, LockOrder(p)[2])
          /\ Goto(p, "reparent")
    /\ UNCHANGED <<table, cproc, locals>>

(* reparent(): look at pp->parent without pp->lock ...                     *)
reparent(c, p) ==
    /\ At(c, p, "reparent")
    /\ \/ /\ idx[p] < NPROC /\ parent[idx[p]] # p
          /\ Advance(p, "reparent")
       \/ /\ idx[p] < NPROC /\ parent[idx[p]] = p
          /\ Goto(p, "adopt") /\ UNCHANGED locals
       \/ /\ idx[p] = NPROC
          /\ Goto(p, "exitZombie") /\ UNCHANGED locals
    /\ UNCHANGED <<table, harts>>

AfterAdopt == "reparent"

(* ... and give the child to init under pp->lock.                          *)
Adopt(c, p) ==
    /\ At(c, p, "adopt")
    /\ Free(idx[p])
    /\ parent' = [parent EXCEPT ![idx[p]] = initproc]
    /\ Advance(p, AfterAdopt)
    /\ UNCHANGED <<state, chan, killed, pid, nextpid, harts>>

ReleasedByExit(p) == {orig[p]}

(* Wake the parent, become a zombie, release the parent's lock.            *)
ExitZombie(c, p) ==
    /\ At(c, p, "exitZombie")
    /\ state' = [state EXCEPT ![orig[p]] = Wakeup1(orig[p]),
                              ![p] = "ZOMBIE"]
    /\ lock' = [s \in Slots |->
                    IF s \in ReleasedByExit(p) THEN NoCpu ELSE lock[s]]
    /\ idx' = [idx EXCEPT ![p] = 0]
    /\ orig' = [orig EXCEPT ![p] = NoProc]
    /\ Goto(p, "exitSched")
    /\ UNCHANGED <<parent, chan, killed, pid, nextpid, cproc, havekids,
                   target>>

-----------------------------------------------------------------------------
(* wait(): take p->lock and hold it until wait() returns or sleeps.        *)
WaitLockSelf(c, p) ==
    /\ At(c, p, "wait")
    /\ Acquire(c, p)
    /\ Goto(p, "waitScan")
    /\ UNCHANGED <<table, cproc, locals>>

(* One turn of the scan: np->parent is read without np->lock.              *)
WaitScan(c, p) ==
    /\ At(c, p, "waitScan")
    /\ idx[p] < NPROC
    /\ \/ parent[idx[p]] # p /\ Advance(p, "waitScan")
       \/ parent[idx[p]] = p /\ Goto(p, "waitLock") /\ UNCHANGED locals
    /\ UNCHANGED <<table, harts>>

(* The child is no zombie: go on with the scan.                            *)
WaitChildLives(c, p) ==
    /\ At(c, p, "waitLock")
    /\ Free(idx[p])
    /\ state[idx[p]] # "ZOMBIE"
    /\ havekids' = [havekids EXCEPT ![p] = TRUE]
    /\ idx' = [idx EXCEPT ![p] = @ + 1]
    /\ Goto(p, "waitScan")
    /\ UNCHANGED <<table, harts, orig, target>>

WaitReturn(p) ==
    /\ lock' = [lock EXCEPT ![p] = NoCpu]
    /\ Return(p)
    /\ UNCHANGED <<nextpid, cproc>>

(* A zombie is freed, or left alone when its status cannot be copied out.  *)
WaitZombie(c, p) ==
    /\ At(c, p, "waitLock")
    /\ Free(idx[p])
    /\ state[idx[p]] = "ZOMBIE"
    /\ freeproc(idx[p]) \/ UNCHANGED <<state, parent, chan, killed, pid>>
    /\ WaitReturn(p)

(* After the scan: no children, or killed ...                              *)
StaysInWait(p) == havekids[p] /\ ~killed[p]

WaitGiveUp(c, p) ==
    /\ At(c, p, "waitScan")
    /\ idx[p] = NPROC
    /\ ~StaysInWait(p)
    /\ WaitReturn(p)
    /\ UNCHANGED <<state, parent, chan, killed, pid>>

(* ... or sleep(p, &p->lock), which keeps p->lock up to the swtch.         *)
WaitSleep(c, p) ==
    /\ At(c, p, "waitScan")
    /\ idx[p] = NPROC
    /\ StaysInWait(p)
    /\ chan' = [chan EXCEPT ![p] = p]
    /\ state' = [state EXCEPT ![p] = "SLEEPING"]
    /\ Goto(p, "waitSched")
    /\ UNCHANGED <<parent, killed, pid, nextpid, harts, locals>>

(* Back from sched(), still holding p->lock: tidy up and scan again, from  *)
(* the first slot and with havekids = 0.                                   *)
ScanFrom(p) == 0

WaitWoken(c, p) ==
    /\ At(c, p, "waitWoken")
    /\ chan' = [chan EXCEPT ![p] = NoProc]
    /\ idx' = [idx EXCEPT ![p] = ScanFrom(p)]
    /\ havekids' = [havekids EXCEPT ![p] = FALSE]
    /\ Goto(p, "waitScan")
    /\ UNCHANGED <<state, parent, killed, pid, nextpid, harts, orig, target>>

-----------------------------------------------------------------------------
Step(c, p) ==
    \/ Schedule(c, p) \/ Swtch(c, p)
    \/ Yield(c, p) \/ YieldReturn(c, p) \/ forkret(c, p)
    \/ Syscall(c, p)
    \/ AllocSkip(c, p) \/ fork(c, p)
    \/ ForkNoTrapframe(c, p) \/ ForkNoMemory(c, p)
    \/ KillSkip(c, p) \/ KillHit(c, p)
    \/ ExitWakeInit(c, p) \/ ExitCopyParent(c, p) \/ ExitLock(c, p)
    \/ reparent(c, p) \/ Adopt(c, p) \/ ExitZombie(c, p)
    \/ WaitLockSelf(c, p) \/ WaitScan(c, p) \/ WaitChildLives(c, p)
    \/ WaitZombie(c, p) \/ WaitGiveUp(c, p) \/ WaitSleep(c, p)
    \/ WaitWoken(c, p)

Next == \E c \in CPUs, p \in Slots : Step(c, p)

Spec == Init /\ [][Next]_vars

-----------------------------------------------------------------------------
(* Properties.                                                             *)

Live(p) == state[p] \notin {"UNUSED", "ZOMBIE"}
Children(p) == {q \in Slots : parent[q] = p}

(* Every variable has its type; pids are numbers given out before.         *)
TypeOK ==
    /\ state \in [Slots -> States]
    /\ parent \in [Slots -> Slots \cup {NoProc}]
    /\ chan \in [Slots -> Slots \cup {NoProc}]
    /\ killed \in [Slots -> BOOLEAN]
    /\ nextpid \in Nat
    /\ pid \in [Slots -> 0 .. nextpid - 1]
    /\ lock \in [Slots -> CPUs \cup {NoCpu}]
    /\ cproc \in [CPUs -> Slots \cup {NoProc}]
    /\ pc \in [Slots -> Points]
    /\ ret \in [Slots -> OpenPoints]
    /\ idx \in [Slots -> 0 .. NPROC]
    /\ orig \in [Slots -> Slots \cup {NoProc}]
    /\ havekids \in [Slots -> BOOLEAN]
    /\ target \in [Slots -> KillPids \cup {0}]

(* The p->lock that exit() or wait() on hart c takes next, or NoProc.      *)
Wanted(c) ==
    IF cproc[c] = NoProc THEN NoProc
    ELSE LET p == cproc[c] IN
         CASE pc[p] = "exitLockFirst" -> LockOrder(p)[1]
           [] pc[p] = "exitLockSecond" -> LockOrder(p)[2]
           [] pc[p] \in {"adopt", "waitLock"} -> idx[p]
           [] OTHER -> NoProc

(* The panics of sched() ("sched p->lock", "sched locks", "sched running"),*)
(* of wakeup1() and of acquire() (a hart that takes a lock it holds) do    *)
(* not happen, and the scheduler never resumes a zombie ("zombie exit").   *)
NoPanic ==
    \A c \in CPUs : cproc[c] # NoProc =>
        LET p == cproc[c]
            held == {s \in Slots : lock[s] = c} IN
        /\ pc[p] # "none"
        /\ pc[p] \in {"exitSched", "waitSched", "yieldSched"} =>
               held = {p} /\ state[p] # "RUNNING"
        /\ pc[p] = "exitZombie" => {orig[p], p} \subseteq held
        /\ Wanted(c) \notin held

(* A kernel stack is used by one hart at a time: no process runs on two    *)
(* harts, and a process that has said it is no longer RUNNING, but has not *)
(* left its stack yet, is protected by its own lock (the scheduler, kill   *)
(* and the parent's wait() all take it first).                             *)
StackExclusive ==
    \A c \in CPUs : cproc[c] # NoProc =>
        /\ \A d \in CPUs \ {c} : cproc[d] # cproc[c]
        /\ state[cproc[c]] = "RUNNING" \/ lock[cproc[c]] = c

(* "pp->parent can't change between the check and the acquire()": the      *)
(* unlocked reads of np->parent in reparent() and wait() stay true until   *)
(* the lock is taken.                                                      *)
ParentSettled ==
    \A p \in Slots : pc[p] \in {"adopt", "waitLock"} => parent[idx[p]] = p

(* Each hart of D wants a p->lock that one of them holds.                  *)
Circle(D) ==
    /\ D # {}
    /\ \A c \in D : Wanted(c) # NoProc /\ lock[Wanted(c)] \in D

(* The slot of the parent that exit() has copied belongs to a process that *)
(* is younger than p by now: the parent has been freed meanwhile.          *)
ParentReused(p) ==
    /\ pc[p] \in {"exitLockSecond", "adopt"}
    /\ state[orig[p]] # "UNUSED" /\ pid[orig[p]] > pid[p]

(* Harts wait for each other's p->locks in a circle only if exit() on one  *)
(* of them has locked a slot that is not its parent's any more: otherwise  *)
(* a lock is taken by who holds that of the parent, and a child has the    *)
(* larger pid.                                                             *)
LockCycleNeedsReuse ==
    \A D \in SUBSET CPUs : Circle(D) => \E c \in D : ParentReused(cproc[c])

(* A process asleep in wait() has no zombie child: exit() makes the zombie *)
(* and wakes the parent under the parent's lock.  (Not so for init.)       *)
NoLostChildExit ==
    \A p \in Slots \ {initproc} :
        state[p] = "SLEEPING" =>
            \A q \in Children(p) : state[q] # "ZOMBIE"

(* wait() says -1 to a process that was not killed only when it has no     *)
(* child: the scan, which reads np->parent without locks, misses none.     *)
WaitHonest ==
    \A p \in Slots :
        pc[p] = "waitScan" /\ idx[p] = NPROC /\ ~havekids[p]
            => Children(p) = {}

(* Every process but init has a parent that is alive, so that somebody can *)
(* wait for it, and following the parents one always gets to init.         *)
Rooted ==
    /\ \A q \in Slots \ {initproc} :
           state[q] # "UNUSED" => parent[q] # NoProc /\ Live(parent[q])
    /\ \A S \in SUBSET {q \in Slots \ {initproc} : state[q] # "UNUSED"} :
           S # {} => \E q \in S : parent[q] \notin S

(* A pid names one slot, also after failed forks.                          *)
UniquePids ==
    \A p, q \in Slots : p # q /\ pid[p] # 0 => pid[p] # pid[q]

(* A killed process does not sleep: kill() wakes it, and wait() looks at   *)
(* p->killed under the lock it goes to sleep with.                         *)
KilledAwake == \A p \in Slots : killed[p] => state[p] # "SLEEPING"

(* When no process can run, only init is left: nobody else waits for an    *)
(* event that nobody is left to produce.                                   *)
OnlyInitHangs ==
    (\A p \in Slots : state[p] \notin {"RUNNABLE", "RUNNING"})
        => \A p \in Slots \ {initproc} : ~Live(p)

-----------------------------------------------------------------------------
(* Proc implements ProcTree: what wait() and fork() see of a process is its*)
(* status, and a process is "exiting" once exit() holds the two locks.     *)
Status(p) ==
    CASE state[p] = "UNUSED" -> "free"
      [] state[p] = "ZOMBIE" -> "zombie"
      [] Live(p) /\ pc[p] \in {"reparent", "adopt", "exitZombie"} -> "exiting"
      [] OTHER -> "live"

Tree == INSTANCE ProcTree WITH
            Init0 <- initproc, Nobody <- NoProc,
            status <- [p \in Slots |-> Status(p)], par <- parent

(* Every step of the kernel is a step of the family tree, or none: a child *)
(* is freed once, by its parent, after it has exited; an exiting process   *)
(* forgets none of its children and gets no new one.                       *)
ImplementsTree == Tree!TSpec

-----------------------------------------------------------------------------
(* What the comments and docs say and the code does not do.                *)

(* exit(): "init may miss this wakeup, but that seems harmless".  Harmless *)
(* would be: the system does not come to rest with init asleep in wait()   *)
(* on top of a zombie child.                                               *)
MissedWakeupHarmless ==
    ~ /\ \A p \in Slots : state[p] \notin {"RUNNABLE", "RUNNING"}
      /\ \E q \in Children(initproc) : state[q] = "ZOMBIE"

(* exit(): a race with an exiting parent "will be a harmless spurious      *)
(* wakeup to a dead or wrong process".  Harmless would be: harts never     *)
(* wait for each other's locks in a circle.                                *)
NoLockCycle == \A D \in SUBSET CPUs : ~Circle(D)

(* kill(): "Kill the process with the given pid", p->killed: "If non-zero, *)
(* have been killed".  A process nobody has killed yet is born with killed *)
(* clear.                                                                  *)
NewbornNotKilled ==
    [][\A p \in Slots :
           state[p] = "UNUSED" /\ state'[p] # "UNUSED" => ~killed'[p]]_vars
=============================================================================
