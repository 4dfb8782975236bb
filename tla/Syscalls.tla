------------------------------ MODULE Syscalls ------------------------------
(***************************************************************************)
(* The system calls of Lab 2: the way from a stub (usys.pl) through the    *)
(* table (syscall.c) to the handlers (sysproc.c), with trace and sysinfo,  *)
(* while processes are born and freed (ProcTree).  fork() makes the child  *)
(* runnable before it copies the mask, and freeproc() leaves the mask of   *)
(* the dead process in the slot; count_proc() locks one slot at a time.    *)
(***************************************************************************)
EXTENDS Integers, FiniteSets

CONSTANTS
    Slots, Init0, NoSlot,
    Numbers,    \* what programs put into register a7
    Masks       \* the arguments of trace(), as sets of the names in the mask

VARIABLES
    status, par,        \* the processes
    mask,               \* p->mask
    at,                 \* of each process: "user", "fork" or "count"
    np,                 \* the slot its fork() has locked
    i, found,           \* the locals i and n of count_proc()
    last,               \* the call that has returned last: the process, the
                        \* name, and whether syscall() has printed a line
    asked,              \* what the process or the ancestors before its birth
                        \* have asked to trace (history)
    always, ever        \* the slots in use all the time, and at some time,
                        \* since count_proc() has started (history)

treeVars == <<status, par>>
locals == <<at, np, i, found>>
callVars == <<treeVars, mask, locals, last, asked, always, ever>>

Tree == INSTANCE ProcTree WITH Nobody <- NoSlot

NPROC == Cardinality(Slots)

(* syscalls[] at the numbers of syscall.h, which the stubs load into a7;   *)
(* sysname[] has the same names, but for "stat".                           *)
syscalls ==
    <<"fork", "exit", "wait", "pipe", "read", "kill", "exec", "fstat", "chdir",
      "dup", "getpid", "sbrk", "sleep", "uptime", "open", "write", "mknod",
      "unlink", "link", "mkdir", "close", "trace", "sysinfo">>
sysname == {syscalls[k] : k \in DOMAIN syscalls}

SyscallsAssumption ==
    /\ NPROC \in Nat /\ Slots = 0 .. NPROC - 1
    /\ Init0 \in Slots /\ NoSlot \notin Slots
    /\ Masks \subseteq SUBSET sysname

CallsInit ==
    /\ Tree!TInit
    /\ mask = [p \in Slots |-> {}]
    /\ at = [p \in Slots |-> "user"]
    /\ np = [p \in Slots |-> NoSlot]
    /\ i = [p \in Slots |-> 0] /\ found = [p \in Slots |-> 0]
    /\ last = <<>>
    /\ asked = [p \in Slots |-> {}]
    /\ always = [p \in Slots |-> {}] /\ ever = [p \in Slots |-> {}]

-----------------------------------------------------------------------------
(* Mistakes: fork() does not copy the mask, or releases the child before;  *)
(* count_proc() leaves zombies out.                                        *)
NotCopied(p, q) == mask
ReleasedEarly(q) == FALSE
AliveOnly(s) == status[s] = "live"

MaskOfChild(p, q) == [mask EXCEPT ![q] = mask[p]]
LockedByFork(q) == \E p \in Slots : np[p] = q
Counted(s) == status[s] # "free"

-----------------------------------------------------------------------------
UserCode(p) == status[p] = "live" /\ at[p] = "user" /\ ~LockedByFork(p)

(* The histories of the counts, in a step that changes the table.          *)
Used(t) == {s \in Slots : t[s] # "free"}
Watch ==
    /\ always' = [p \in Slots |-> always[p] \cap Used(status')]
    /\ ever' = [p \in Slots |-> IF at[p] = "count" THEN ever[p] \cup Used(status')
                                                   ELSE ever[p]]

(* syscall(): the stub has put number k into a7, the handler is called.    *)
Calls(p, k, name) ==
    /\ UserCode(p)
    /\ k \in DOMAIN syscalls
    /\ name = syscalls[k]

(* The handler returns to syscall(), which looks at the mask.              *)
Returned(p, name) == last' = <<p, name, name \in mask'[p]>>

(* A number that is not in the table: a line on the console, and -1.       *)
Unknown(p, k) ==
    /\ UserCode(p) /\ k \notin DOMAIN syscalls
    /\ last' = <<p, "unknown", TRUE>>
    /\ UNCHANGED <<treeVars, mask, locals, asked, always, ever>>

(* fork() under the lock of the child: RUNNABLE, then the mask.            *)
SysFork(p, k) ==
    /\ Calls(p, k, "fork")
    /\ \E q \in Slots :
           /\ ~LockedByFork(q)
           /\ Tree!Create(p, q)
           /\ at' = [at EXCEPT ![p] = "fork"]
           /\ np' = [np EXCEPT ![p] = q]
           /\ asked' = [asked EXCEPT ![q] = asked[p]]
    /\ Watch
    /\ UNCHANGED <<mask, i, found, last>>

ForkReturns(p) ==
    /\ at[p] = "fork"
    /\ mask' = MaskOfChild(p, np[p])
    /\ at' = [at EXCEPT ![p] = "user"]
    /\ np' = [np EXCEPT ![p] = NoSlot]
    /\ UNCHANGED <<treeVars, i, found, asked, always, ever>>
    /\ Returned(p, "fork")

(* -1: fork() without a free slot or without memory for the child, wait()  *)
(* without children or of a process that has been killed.                  *)
Fails(p, k) ==
    /\ UNCHANGED <<treeVars, mask, locals, asked, always, ever>>
    /\ \E name \in {"fork", "wait"} : Calls(p, k, name) /\ Returned(p, name)

(* exit() does not return; it gives its children away and dies.            *)
SysExit(p, k) ==
    /\ Calls(p, k, "exit")
    /\ Tree!BeginExit(p)
    /\ UNCHANGED <<mask, locals, last, asked, always, ever>>

Exiting(p) ==
    /\ \/ Tree!Die(p)
       \/ \E q \in Slots : ~LockedByFork(q) /\ Tree!GiveAway(p, q)
    /\ UNCHANGED <<mask, locals, last, asked, always, ever>>

(* freeproc() does not touch the mask.                                     *)
SysWait(p, k) ==
    /\ Calls(p, k, "wait")
    /\ \E q \in Slots : Tree!Reap(p, q) /\ asked' = [asked EXCEPT ![q] = {}]
    /\ Watch
    /\ UNCHANGED <<mask, locals>>
    /\ Returned(p, "wait")

SysTrace(p, k) ==
    /\ Calls(p, k, "trace")
    /\ \E m \in Masks :
           mask' = [mask EXCEPT ![p] = m] /\ asked' = [asked EXCEPT ![p] = m]
    /\ UNCHANGED <<treeVars, locals, always, ever>>
    /\ Returned(p, "trace")

(* Handlers that change nothing here.                                      *)
Other(p, k) ==
    /\ Calls(p, k, syscalls[k])
    /\ syscalls[k] \notin {"fork", "exit", "wait", "trace", "sysinfo"}
    /\ UNCHANGED <<treeVars, mask, locals, asked, always, ever>>
    /\ Returned(p, syscalls[k])

-----------------------------------------------------------------------------
(* sys_sysinfo(): free_mem() (Kalloc), then count_proc().                  *)
SysInfo(p, k) ==
    /\ Calls(p, k, "sysinfo")
    /\ at' = [at EXCEPT ![p] = "count"]
    /\ always' = [always EXCEPT ![p] = Used(status)]
    /\ ever' = [ever EXCEPT ![p] = Used(status)]
    /\ UNCHANGED <<treeVars, mask, np, i, found, last, asked>>

CountSlot(p) ==
    /\ at[p] = "count" /\ i[p] < NPROC
    /\ ~LockedByFork(i[p])
    /\ found' = [found EXCEPT ![p] = IF Counted(i[p]) THEN @ + 1 ELSE @]
    /\ i' = [i EXCEPT ![p] = @ + 1]
    /\ UNCHANGED <<treeVars, mask, at, np, last, asked, always, ever>>

SysInfoReturns(p) ==
    /\ at[p] = "count" /\ i[p] = NPROC
    /\ at' = [at EXCEPT ![p] = "user"]
    /\ i' = [i EXCEPT ![p] = 0] /\ found' = [found EXCEPT ![p] = 0]
    /\ always' = [always EXCEPT ![p] = {}] /\ ever' = [ever EXCEPT ![p] = {}]
    /\ UNCHANGED <<treeVars, mask, np, asked>>
    /\ Returned(p, "sysinfo")

-----------------------------------------------------------------------------
CallsNext ==
    \E p \in Slots :
        \/ \E k \in Numbers :
               \/ Unknown(p, k) \/ SysFork(p, k) \/ Fails(p, k)
               \/ SysExit(p, k) \/ SysWait(p, k) \/ SysTrace(p, k)
               \/ Other(p, k) \/ SysInfo(p, k)
        \/ ForkReturns(p) \/ Exiting(p) \/ CountSlot(p) \/ SysInfoReturns(p)

CallsSpec == CallsInit /\ [][CallsNext]_callVars

-----------------------------------------------------------------------------
(* Properties.                                                             *)

CallsTypeOK ==
    /\ Tree!TreeTypeOK
    /\ mask \in [Slots -> SUBSET sysname]
    /\ at \in [Slots -> {"user", "fork", "count"}]
    /\ np \in [Slots -> Slots \cup {NoSlot}]
    /\ i \in [Slots -> 0 .. NPROC] /\ found \in [Slots -> 0 .. NPROC]
    /\ \A p \in Slots : found[p] <= i[p]

(* report.md: trace() is for the caller and the children it has later, and *)
(* for no other process.  A call is printed when it returns if and only if *)
(* the process, or the ancestor it comes from, has asked for it, whoever   *)
(* has had the slot before.                                                *)
TraceInFamily ==
    last # <<>> /\ last[2] # "unknown" =>
        (last[3] <=> last[2] \in asked[last[1]])

(* sysinfo counts every process that is there during the whole call, and   *)
(* none that is not there at any time of it.  The sum may be a number the  *)
(* table never had: the count is no snapshot.                              *)
CountBracket ==
    \A p \in Slots : at[p] = "count" =>
        LET seen == 0 .. i[p] - 1 IN
        /\ Cardinality(always[p] \cap seen) <= found[p]
        /\ found[p] <= Cardinality(ever[p] \cap seen)
=============================================================================
