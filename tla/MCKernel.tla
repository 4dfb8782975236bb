------------------------------ MODULE MCKernel ------------------------------
(***************************************************************************)
(* The kernel beside its process table, for one run of TLC: the page       *)
(* allocator, the memory of processes, sleep and the clock, the system     *)
(* calls.  Each is checked against what it promises the others: Memory     *)
(* takes pages as PagePool gives them, Syscalls has the processes of       *)
(* ProcTree.  A behaviour is one of the subsystem it has chosen.           *)
(***************************************************************************)
EXTENDS Kalloc, Memory, Syscalls

CONSTANTS
    SleepProcs, Wrap, Requests, Lag         \* Sleep

VARIABLES
    subsystem,
    ticks, tickslock, scan, sleepPc, state, killed, sleepN, ticks0, elapsed, lag

Clk == INSTANCE Sleep WITH NPROC <- SleepProcs, pc <- sleepPc, n <- sleepN

ASSUME KernelAssumption ==
    MemoryAssumption /\ Clk!SleepAssumption /\ SyscallsAssumption

(* A negative, a zero and a positive argument of a 2-bit int.              *)
MCRequests == {-1, 0, 1}
(* sbrk(): less than the one page there is, and one more.                  *)
MCDeltas == {-2, 1}

clockVars ==
    <<ticks, tickslock, scan, sleepPc, state, killed, sleepN, ticks0, elapsed, lag>>

KernelInit ==
    /\ subsystem \in {"pages", "memory", "sleep", "calls"}
    /\ Init /\ MemInit /\ Clk!Init /\ CallsInit

InPages == subsystem = "pages" /\ UNCHANGED <<subsystem, memVars, clockVars, callVars>>
InMemory == subsystem = "memory" /\ UNCHANGED <<subsystem, vars, clockVars, callVars>>
InSleep == subsystem = "sleep" /\ UNCHANGED <<subsystem, vars, memVars, callVars>>
InCalls == subsystem = "calls" /\ UNCHANGED <<subsystem, vars, memVars, clockVars>>

KernelNext ==
    \/ InPages /\ Next
    \/ InMemory /\ MemNext
    \/ InSleep /\ Clk!Next
    \/ InCalls /\ CallsNext

(* The fairness of Sleep.                                                  *)
KernelSpec ==
    /\ KernelInit
    /\ [][KernelNext]_<<subsystem, vars, memVars, clockVars, callVars>>
    /\ SF_clockVars(InSleep /\ Clk!Tick) /\ WF_clockVars(InSleep /\ Clk!Wakeup)
    /\ \A p \in 1 .. SleepProcs :
           /\ WF_clockVars(InSleep /\ Clk!SysSleep(p))
           /\ SF_clockVars(InSleep /\ Clk!Relock(p))

-----------------------------------------------------------------------------
(* Properties, beside those of Kalloc, Memory and Syscalls.                *)

KernelTypeOK == MemTypeOK /\ Clk!TypeOK /\ CallsTypeOK

(* sys_sleep(): no return before the number of ticks, ...                  *)
NotEarly == Clk!NotEarly

(* ... no wakeup lost between the test of ticks and the sleep, ...         *)
NotLate == Clk!NotLate

(* ... and every sleep and every killed sleeper ends.                      *)
SleepersLeave == subsystem = "sleep" => Clk!SleepersLeave
=============================================================================
