\* Four processes on two harts, and one pid more than slots: three
\* generations, and the slot of a dead parent that a grandchild gets.
CONSTANTS
    NPROC = 4
    CPUs = {c1, c2}
    c1 = c1
    c2 = c2
    NoCpu = NoCpu
    MaxPid = 5
    KillPids = {}
SPECIFICATION Spec
SYMMETRY CpuSymmetry
\* A bound on timer interrupts: at most one process has been preempted.
CONSTRAINT OnePreempted
INVARIANTS
    LockCycleNeedsReuse
    WaitHonest
    Rooted
\* all processes may end asleep: see MissedWakeupHarmless
CHECK_DEADLOCK FALSE
