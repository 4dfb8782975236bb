CONSTANTS
    NPROC = 4
    CPUs = {c1, c2}
    c1 = c1
    c2 = c2
    NoCpu = NoCpu
    MaxPid = 5
    KillPids = {}
SPECIFICATION Spec
SYMMETRY CpuSymmetry
CONSTRAINT NoPreemption
INVARIANT NoLockCycle
CHECK_DEADLOCK FALSE
