------------------------------- MODULE Sleep -------------------------------
(***************************************************************************)
(* sleep(), wakeup() and kill() (proc.c) as sys_sleep() (sysproc.c) and    *)
(* the clock use them.  A process tests the clock under tickslock, checks  *)
(* p->killed, takes p->lock, lets go of tickslock and sleeps; the clock    *)
(* counts a tick and wakes one process after the other, all under          *)
(* tickslock.  ticks is unsigned and wraps; the argument of sleep is a     *)
(* signed int that is converted when it is compared.  All sleepers are on  *)
(* the channel &ticks; wait(), the other user of sleep(), is in Proc.      *)
(***************************************************************************)
EXTENDS Integers

CONSTANTS
    NPROC,
    Wrap,       \* where an unsigned int wraps, 2^32
    Requests,   \* arguments of sleep
    Lag,        \* ticks in which a woken process gets a hart and tickslock
    Nobody

SleepAssumption ==
    /\ NPROC \in Nat \ {0}
    /\ Wrap \in Nat \ {0} /\ Wrap % 2 = 0
    /\ Requests \subseteq -(Wrap \div 2) .. (Wrap \div 2) - 1
    /\ Lag \in 1 .. (Wrap \div 2) - 1
    /\ Nobody \notin 0 .. NPROC

Procs == 1 .. NPROC
Clock == 0      \* the interrupt handler, as a holder of tickslock

VARIABLES
    ticks,
    tickslock,  \* who holds it
    scan,       \* the process wakeup() looks at next, 0 if it is not running
    pc,         \* "user"; in sys_sleep(): "test" (holds tickslock), "lock"
                \* (is not killed, and about to call sleep()), "sleep" (holds
                \* p->lock), "off" (has left its hart), "woken"; or "gone"
    state,      \* p->state
    killed,
    n, ticks0,  \* the locals of sys_sleep()
    elapsed,    \* ticks since ticks0 was read (history)
    lag         \* ticks since p was woken (history)

vars == <<ticks, tickslock, scan, pc, state, killed, n, ticks0, elapsed, lag>>

Init ==
    /\ ticks = 0
    /\ tickslock = Nobody
    /\ scan = 0
    /\ pc = [p \in Procs |-> "user"]
    /\ state = [p \in Procs |-> "RUNNING"]
    /\ killed = [p \in Procs |-> FALSE]
    /\ n = [p \in Procs |-> 0] /\ ticks0 = [p \in Procs |-> 0]
    /\ elapsed = [p \in Procs |-> 0] /\ lag = [p \in Procs |-> 0]

Unsigned(i) == i % Wrap

-----------------------------------------------------------------------------
(* Mistakes: sleep() does not keep p->lock; the end of the sleep is        *)
(* computed, and compared, instead of its length; the loop does not look   *)
(* at p->killed; wakeup() stops before the last process, or after it.      *)
NotLocked(p) == FALSE
PastTheEnd(p) == ticks >= Unsigned(ticks0[p] + n[p])
NotAsked(p) == FALSE
LastLeftOut == scan + 1 >= NPROC
OneTooMany == scan > NPROC

PLocked(p) == pc[p] = "sleep"
Expired(p) == Unsigned(ticks - ticks0[p]) >= Unsigned(n[p])
Killed(p) == killed[p]
ScanEnds == scan = NPROC

Goto(p, l) == pc' = [pc EXCEPT ![p] = l]

-----------------------------------------------------------------------------
(* usertrap() lets a killed process neither into a system call nor back to *)
(* user space.                                                             *)
Call(p, i) ==
    /\ pc[p] = "user" /\ ~killed[p]
    /\ tickslock = Nobody
    /\ tickslock' = p
    /\ ticks0' = [ticks0 EXCEPT ![p] = ticks]
    /\ n' = [n EXCEPT ![p] = i]
    /\ elapsed' = [elapsed EXCEPT ![p] = 0]
    /\ Goto(p, "test")
    /\ UNCHANGED <<ticks, scan, state, killed, lag>>

ExitKilled(p) ==
    /\ pc[p] = "user" /\ killed[p]
    /\ Goto(p, "gone")
    /\ UNCHANGED <<ticks, tickslock, scan, state, killed, n, ticks0, elapsed, lag>>

(* The locals of a call that has returned.                                 *)
LocalsEnd(p) ==
    /\ n' = [n EXCEPT ![p] = 0]
    /\ ticks0' = [ticks0 EXCEPT ![p] = 0]
    /\ elapsed' = [elapsed EXCEPT ![p] = 0]

(* sys_sleep(): the loop ends, or p is killed and gives up.                *)
Return(p) ==
    /\ pc[p] = "test"
    /\ Expired(p) \/ Killed(p)
    /\ tickslock' = Nobody
    /\ Goto(p, IF Expired(p) THEN "user" ELSE "gone")
    /\ LocalsEnd(p)
    /\ UNCHANGED <<ticks, scan, state, killed, lag>>

Again(p) ==
    /\ pc[p] = "test"
    /\ ~Expired(p)
    /\ ~Killed(p)
    /\ Goto(p, "lock")
    /\ UNCHANGED <<ticks, tickslock, scan, state, killed, n, ticks0, elapsed, lag>>

(* sleep(): p->lock is free, nobody else holds it over a step.             *)
SleepLock(p) ==
    /\ pc[p] = "lock"
    /\ tickslock' = Nobody
    /\ Goto(p, "sleep")
    /\ UNCHANGED <<ticks, scan, state, killed, n, ticks0, elapsed, lag>>

(* ... and sched(); the scheduler lets go of p->lock.                      *)
SleepSched(p) ==
    /\ pc[p] = "sleep"
    /\ state' = [state EXCEPT ![p] = "SLEEPING"]
    /\ Goto(p, "off")
    /\ UNCHANGED <<ticks, tickslock, scan, killed, n, ticks0, elapsed, lag>>

Resume(p) ==
    /\ pc[p] = "off" /\ state[p] = "RUNNABLE"
    /\ state' = [state EXCEPT ![p] = "RUNNING"]
    /\ Goto(p, "woken")
    /\ UNCHANGED <<ticks, tickslock, scan, killed, n, ticks0, elapsed, lag>>

Relock(p) ==
    /\ pc[p] = "woken"
    /\ tickslock = Nobody
    /\ tickslock' = p
    /\ lag' = [lag EXCEPT ![p] = 0]
    /\ Goto(p, "test")
    /\ UNCHANGED <<ticks, scan, state, killed, n, ticks0, elapsed>>

-----------------------------------------------------------------------------
Wake(p) == [state EXCEPT ![p] = IF @ = "SLEEPING" THEN "RUNNABLE" ELSE @]

(* kill() by some other process.                                           *)
Kill(p) ==
    /\ pc[p] # "gone" /\ ~killed[p]
    /\ ~PLocked(p)
    /\ killed' = [killed EXCEPT ![p] = TRUE]
    /\ state' = Wake(p)
    /\ UNCHANGED <<ticks, tickslock, scan, pc, n, ticks0, elapsed, lag>>

(* clockintr() counts, if nobody is left without a hart for too long ...   *)
Late(p) == pc[p] = "woken" \/ state[p] = "RUNNABLE"

MaxElapsed == Wrap - 1      \* the bound of the history variable

Tick ==
    /\ tickslock = Nobody
    /\ \A p \in Procs : lag[p] < Lag
    /\ tickslock' = Clock
    /\ ticks' = Unsigned(ticks + 1)
    /\ elapsed' = [p \in Procs |->
           IF pc[p] \in {"user", "gone"} \/ elapsed[p] = MaxElapsed
           THEN elapsed[p] ELSE elapsed[p] + 1]
    /\ lag' = [p \in Procs |-> IF Late(p) THEN lag[p] + 1 ELSE lag[p]]
    /\ scan' = 1
    /\ UNCHANGED <<pc, state, killed, n, ticks0>>

(* ... and calls wakeup(&ticks).                                           *)
Wakeup ==
    /\ scan # 0
    /\ ~PLocked(scan)
    /\ state' = Wake(scan)
    /\ IF ScanEnds THEN scan' = 0 /\ tickslock' = Nobody
       ELSE scan' = scan + 1 /\ UNCHANGED tickslock
    /\ UNCHANGED <<ticks, pc, killed, n, ticks0, elapsed, lag>>

-----------------------------------------------------------------------------
SysSleep(p) ==
    \/ Return(p) \/ Again(p) \/ SleepLock(p) \/ SleepSched(p) \/ Resume(p)
    \/ ExitKilled(p)

Next ==
    \/ \E p \in Procs :
           SysSleep(p) \/ Relock(p) \/ Kill(p) \/ \E i \in Requests : Call(p, i)
    \/ Tick \/ Wakeup

(* The scheduler runs who is runnable, and whoever spins on tickslock, the *)
(* clock too, gets it in the end; calls and kills may stop.                *)
Spec ==
    /\ Init /\ [][Next]_vars
    /\ SF_vars(Tick) /\ WF_vars(Wakeup)
    /\ \A p \in Procs : WF_vars(SysSleep(p)) /\ SF_vars(Relock(p))

-----------------------------------------------------------------------------
(* Properties.                                                             *)

InSysSleep(p) == pc[p] \notin {"user", "gone"}

TypeOK ==
    /\ ticks \in 0 .. Wrap - 1
    /\ tickslock \in Procs \cup {Clock, Nobody}
    /\ scan \in 0 .. NPROC
    /\ pc \in [Procs ->
           {"user", "test", "lock", "sleep", "off", "woken", "gone"}]
    /\ state \in [Procs -> {"RUNNING", "SLEEPING", "RUNNABLE"}]
    /\ killed \in [Procs -> BOOLEAN]
    /\ n \in [Procs -> Requests \cup {0}]
    /\ ticks0 \in [Procs -> 0 .. Wrap - 1]
    /\ elapsed \in [Procs -> 0 .. MaxElapsed]
    /\ lag \in [Procs -> 0 .. Lag]

(* A sleep returns 0 only after its number of ticks, also over the wrap of *)
(* ticks; a negative number counts as the unsigned one it converts to.     *)
NotEarly ==
    [][\A p \in Procs :
           pc[p] = "test" /\ pc'[p] = "user" => elapsed[p] >= Unsigned(n[p])]_vars

(* No wakeup is lost between the test of ticks and the sleep: nobody stays *)
(* in sys_sleep() longer than it asked for and the scheduler takes.        *)
NotLate ==
    \A p \in Procs : InSysSleep(p) /\ n[p] >= 0 => elapsed[p] <= n[p] + Lag

(* A sleep ends however the locks are interleaved: whoever is asleep for   *)
(* no negative length, or is killed before, between the check of p->killed *)
(* and the sleep, or in sleep(-1), leaves sys_sleep().                     *)
SleepersLeave ==
    \A p \in Procs :
        InSysSleep(p) /\ (n[p] >= 0 \/ killed[p]) ~> ~InSysSleep(p)
=============================================================================
