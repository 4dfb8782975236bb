CONSTANTS
    \* A ring of 2 slots and three producers: it gets full, and wraps.
    BufferSlots = 2
    Producers = {p1, p2, p3}
    Consumers = {c1, c2, c3}
    NoItem = NoItem
    \* More students than chairs, so that some are sent back to study.
    Students = {s1, s2, s3, s4, s5}
    Chairs = 3
    \* Just as many pids as threads: the tightest map.
    PidThreads = {t1, t2, t3, t4}
    MIN_PID = 3
    MAX_PID = 6
    PhilosopherCount = 5
    SortThreads = 2
    Values = {0, 1, 2}
    BarrierLength = 6
    MergeLength = 5
    \* Two producers and two consumers; a resource of 8 and more wraps.
    Rounds = 3
    AtStart = 1
    Counting = 3
    MaxInt = 7
    Lists <- MCLists
    SIZE = 3
    SquareSide = 3
    Sudokus <- MCSudokus
    Left = {l1, l2, l3}
    Right = {r1, r2}
    Customers = {c1, c2}
    Resources = {1, 2}
    Total <- MCTotal
SPECIFICATION Spec
INVARIANTS
    TypeOK
    PidsDistinct
    NoSignalLost
    PrintsRight
    OneWay
    BankConserves
PROPERTIES
    ImplementsFifo
    ThreadsFinish
\* all threads end, and the philosophers may wait for each other
CHECK_DEADLOCK FALSE
