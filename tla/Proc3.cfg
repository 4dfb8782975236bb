\* Three processes on three harts; a slot is used again by the last pid.
CONSTANTS
    NPROC = 3
    CPUs = {c1, c2, c3}
    c1 = c1
    c2 = c2
    c3 = c3
    NoCpu = NoCpu
    MaxPid = 4
    KillPids = {2}
SPECIFICATION Spec
SYMMETRY CpuSymmetry
INVARIANTS
    TypeOK
    NoPanic
    StackExclusive
    ParentSettled
    NoLostChildExit
    UniquePids
    KilledAwake
    OnlyInitHangs
PROPERTY ImplementsTree
\* all processes may end asleep: see MissedWakeupHarmless
CHECK_DEADLOCK FALSE
