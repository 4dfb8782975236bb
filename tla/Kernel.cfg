CONSTANTS
    \* As many pages as harts can take: the list is often empty.
    NPAGES = 3
    Harts = {h1, h2, h3}
    Nobody = Nobody
    \* After booting two forks just fit, or one and two sbrk(1).
    TableSize = 3
    Ram = 25
    SizeWrap = 64
    Deltas <- MCDeltas
    \* 2-bit integers: ticks wraps within every sleep of 1 tick that starts late.
    SleepProcs = 2
    Wrap = 4
    Requests <- MCRequests
    Lag = 1
    \* A process, its child, and one more: a grandchild or a sibling.
    Slots = {0, 1, 2}
    Init0 = 0
    NoSlot = NoSlot
    \* fork, exit, wait, getpid, trace, sysinfo, and two that are not in the table.
    Numbers = {0, 1, 2, 3, 11, 22, 23, 24}
    Masks = {{}, {"fork"}}
SPECIFICATION KernelSpec
INVARIANTS
    TypeOK
    OneOwner
    NoLeak
    FreesWhatIsMapped
    KernelTypeOK
    NotLate
    TraceInFamily
    CountBracket
PROPERTIES
    ImplementsPool
    NotEarly
    SleepersLeave
\* everybody may be killed, and memory may run out
CHECK_DEADLOCK FALSE
