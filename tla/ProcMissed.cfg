CONSTANTS
    NPROC = 3
    CPUs = {c1, c2}
    c1 = c1
    c2 = c2
    NoCpu = NoCpu
    MaxPid = 4
    KillPids = {2}
SPECIFICATION Spec
INVARIANT MissedWakeupHarmless
CHECK_DEADLOCK FALSE
