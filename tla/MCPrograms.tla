----------------------------- MODULE MCPrograms -----------------------------
(***************************************************************************)
(* The thread programs, for one run of TLC: a behaviour is a behaviour of  *)
(* the program it has chosen at the start, and the variables of the others *)
(* keep their first values.  The two sorting programs share theirs.  The   *)
(* programs do not interact; each property below is that of a module, for  *)
(* the behaviours of its program.                                          *)
(***************************************************************************)
EXTENDS Integers, Sequences, Bridge

CONSTANTS
    BufferSlots, Producers, Consumers, NoItem,  \* project3.c
    Students, Chairs,                           \* project1.c
    PidThreads, MIN_PID, MAX_PID,               \* 6-30.c
    PhilosopherCount,                           \* project2.c
    SortThreads, Values,                        \* both sorting programs
    BarrierLength,                              \* 6-34.c
    MergeLength,                                \* projects2.c
    Rounds, AtStart, Counting, MaxInt,          \* SharedCount
    Lists, SIZE, Sudokus, SquareSide,           \* Readers
    Customers, Resources, Total                 \* Banker

VARIABLES
    program,
    buffer, fast, slow, empty, full, mutex, bufferPc, item,
    seats, ta, helper, count, student,
    bitset, pidPc, scanned, pid,
    forks, philPc,
    num, input, tpc, lo, hi, i, j, temp, out,
    created, arrived,
    main, joined, left, right, merged,
    counter, resource, lock, turn, read, has, ret, hits, joins, sum,
    task, numbers, sudoku, place, found, result, printed,
    available, allocation, need, flag, bankPc, amount

Buffer == INSTANCE BoundedBuffer WITH MAX <- BufferSlots, pc <- bufferPc
TA == INSTANCE SleepingTA
Map == INSTANCE PidMap WITH Threads <- PidThreads, pc <- pidPc, i <- scanned
Table == INSTANCE Philosophers WITH MAX <- PhilosopherCount, pc <- philPc
Barrier == INSTANCE BarrierSort WITH
               Length <- BarrierLength, Threads <- SortThreads
Merge == INSTANCE MergeSort WITH Length <- MergeLength, Threads <- SortThreads
Sums == INSTANCE SharedCount WITH
            MAX <- AtStart, i <- turn, temp <- read, joined <- joins
Reads == INSTANCE Readers WITH
             Side <- SquareSide, num <- numbers, i <- place, ret <- found
Bank == INSTANCE Banker WITH pc <- bankPc

ASSUME ProgramsAssumption ==
    /\ Buffer!BufferAssumption /\ TA!TAAssumption /\ Map!PidMapAssumption
    /\ Table!PhilosophersAssumption
    /\ Barrier!BarrierSortAssumption /\ Merge!MergeSortAssumption
    /\ Sums!SharedCountAssumption /\ Reads!ReadersAssumption
    /\ BridgeAssumption /\ Bank!BankerAssumption

(* Sums that wrap, at 7, and one list that is too long.                    *)
MCLists == UNION {[1 .. k -> {-5, -1, 0, 2, 6}] : k \in 1 .. 3} \cup {<<1, 2, 3, 4>>}

(* The sudoku of projects1.c, with two rows or columns exchanged, or with  *)
(* another number in a cell: in squares of three, rows and columns may be  *)
(* right and only the lower squares wrong.                                 *)
MCSudoku ==
    << <<6, 2, 4, 5, 3, 9, 1, 8, 7>>, <<5, 1, 9, 7, 2, 8, 6, 3, 4>>,
       <<8, 3, 7, 6, 1, 4, 2, 9, 5>>, <<1, 4, 3, 8, 6, 5, 7, 2, 9>>,
       <<9, 5, 8, 2, 4, 7, 3, 6, 1>>, <<7, 6, 2, 3, 9, 1, 4, 5, 8>>,
       <<3, 7, 1, 9, 5, 6, 8, 4, 2>>, <<4, 9, 6, 1, 8, 2, 5, 7, 3>>,
       <<2, 8, 5, 4, 7, 3, 9, 1, 6>> >>
MCSudokus ==
    LET cells == 0 .. 8
        other(k, a, b) == IF k = a THEN b ELSE IF k = b THEN a ELSE k
        grid == [x \in cells |-> [y \in cells |-> MCSudoku[x + 1][y + 1]]]
    IN  UNION {
            {[x \in cells |-> grid[other(x, a, b)]] : a, b \in {0, 1, 3, 6}},
            {[x \in cells |-> [y \in cells |-> grid[x][other(y, a, b)]]] :
                a, b \in {0, 1, 3, 6}},
            {[grid EXCEPT ![x][8 - x] = v] : x \in cells, v \in 1 .. 9}}

(* A resource of which there are two, and one of which there is one.       *)
MCTotal == [r \in Resources |-> IF r = 1 THEN 2 ELSE 1]

bufferVars == <<buffer, fast, slow, empty, full, mutex, bufferPc, item>>
taVars == <<seats, ta, helper, count, student>>
mapVars == <<bitset, pidPc, scanned, pid>>
tableVars == <<forks, philPc>>
barrierVars == <<created, arrived>>
mergeVars == <<main, joined, left, right, merged>>
sortVars == <<num, input, tpc, lo, hi, i, j, temp, out>>
sumVars == <<counter, resource, lock, turn, read, has, ret, hits, joins, sum>>
readVars == <<task, numbers, sudoku, place, found, result, printed>>
bankVars == <<available, allocation, need, flag, bankPc, amount>>
chapter6Vars == <<bufferVars, taVars, mapVars, tableVars>>
sorterVars == <<sortVars, barrierVars, mergeVars>>
otherVars == <<sumVars, readVars, bridgeVars, bankVars>>
vars == <<program, chapter6Vars, sorterVars, otherVars>>

BarrierRests == created = 0 /\ arrived = {}
MergeRests ==
    main = "create" /\ joined = 0 /\ left = 0 /\ right = 0 /\ merged = <<>>
SortRests ==
    /\ num = <<>> /\ input = <<>> /\ tpc = <<>> /\ lo = <<>> /\ hi = <<>>
    /\ i = <<>> /\ j = <<>> /\ temp = <<>> /\ out = <<>>
    /\ BarrierRests /\ MergeRests

(* Only the program that runs has inputs to choose.                        *)
Init ==
    /\ Buffer!Init /\ TA!Init /\ Map!Init /\ Table!Init /\ BridgeInit
    /\ \/ /\ program \in {"buffer", "ta", "map", "table", "sums", "reads", "bridge", "bank"}
          /\ SortRests
       \/ program = "barrier" /\ Barrier!Init /\ MergeRests
       \/ program = "merge" /\ Merge!Init /\ BarrierRests
    /\ IF program = "sums" THEN Sums!Inputs ELSE counter = "4-17"
    /\ IF program = "reads" THEN Reads!Inputs
       ELSE task = "4-16" /\ numbers = <<0>> /\ sudoku = <<>>
    /\ IF program = "bank" THEN Bank!Inputs ELSE need = [c \in Customers |-> Bank!Zero]
    /\ Sums!Start /\ Reads!Start /\ Bank!Start

-----------------------------------------------------------------------------
(* A step of one program.                                                  *)
InBuffer ==
    /\ program = "buffer"
    /\ UNCHANGED <<program, taVars, mapVars, tableVars, sorterVars, otherVars>>
InTA ==
    /\ program = "ta"
    /\ UNCHANGED <<program, bufferVars, mapVars, tableVars, sorterVars, otherVars>>
InMap ==
    /\ program = "map"
    /\ UNCHANGED <<program, bufferVars, taVars, tableVars, sorterVars, otherVars>>
InTable ==
    /\ program = "table"
    /\ UNCHANGED <<program, bufferVars, taVars, mapVars, sorterVars, otherVars>>
InBarrier ==
    program = "barrier" /\ UNCHANGED <<program, chapter6Vars, mergeVars, otherVars>>
InMerge ==
    program = "merge" /\ UNCHANGED <<program, chapter6Vars, barrierVars, otherVars>>
InSums ==
    /\ program = "sums"
    /\ UNCHANGED <<program, chapter6Vars, sorterVars, readVars, bridgeVars, bankVars>>
InReads ==
    /\ program = "reads"
    /\ UNCHANGED <<program, chapter6Vars, sorterVars, sumVars, bridgeVars, bankVars>>
InBridge ==
    /\ program = "bridge"
    /\ UNCHANGED <<program, chapter6Vars, sorterVars, sumVars, readVars, bankVars>>
InBank ==
    /\ program = "bank"
    /\ UNCHANGED <<program, chapter6Vars, sorterVars, sumVars, readVars, bridgeVars>>

Next ==
    \/ InBuffer /\ Buffer!Next
    \/ InTA /\ TA!Next
    \/ InMap /\ Map!Next
    \/ InTable /\ Table!Next
    \/ InBarrier /\ Barrier!Next
    \/ InMerge /\ Merge!Next
    \/ InSums /\ Sums!Next
    \/ InReads /\ Reads!Next
    \/ InBridge /\ BridgeNext
    \/ InBank /\ Bank!Next

(* The threads are scheduled.  At a semaphore or a mutex that others take  *)
(* and give back again and again, a thread gets its turn at last only if   *)
(* the steps that take it are strongly fair: the loops of the adding       *)
(* threads are finite, so that they need less.                             *)
Spec ==
    /\ Init /\ [][Next]_vars
    /\ \A p \in Producers : WF_vars(InBuffer /\ Buffer!Producer(p))
    /\ \A c \in Consumers : WF_vars(InBuffer /\ Buffer!Consumer(c))
    /\ WF_vars(InTA /\ TA!Assistant)
    /\ \A s \in Students : WF_vars(InTA /\ TA!Student(s))
    /\ \A t \in PidThreads : WF_vars(InMap /\ Map!Thread(t))
    /\ WF_vars(InBarrier /\ Barrier!Main)
    /\ \A t \in Barrier!Sorters :
           WF_vars(InBarrier /\ (Barrier!Sort(t) \/ Barrier!Arrive(t)))
    /\ WF_vars(InMerge /\ Merge!Main)
    /\ \A t \in Merge!Sorters : WF_vars(InMerge /\ Merge!Sort(t))
    /\ WF_vars(InSums /\ Sums!Join)
    /\ \A t \in Sums!Threads : SF_vars(InSums /\ Sums!Thread(t))
    /\ WF_vars(InReads /\ Reads!Next)
    /\ \A c \in Cars : WF_vars(InBridge /\ Car(c))

-----------------------------------------------------------------------------
(* Properties.                                                             *)

TypeOK ==
    /\ Buffer!TypeOK /\ TA!TypeOK /\ Map!TypeOK /\ Table!TypeOK
    /\ program = "barrier" => Barrier!TypeOK
    /\ program = "merge" => Merge!TypeOK
    /\ Sums!TypeOK /\ Reads!TypeOK /\ BridgeTypeOK /\ Bank!TypeOK

(* project3.c: the ring with its semaphores is a FIFO queue.               *)
ImplementsFifo == Buffer!ImplementsFifo

(* 6-30.c: no pid is in use twice, and no scan gets past the last pid.     *)
PidsDistinct == Map!DistinctPids /\ Map!NeverFails

(* Nobody waits for a signal that has gone to somebody else: project1.c,   *)
(* where the assistant does not sleep while a student who has posted       *)
(* waits, and project2.c, where a fork that is waited for is still to be   *)
(* returned.                                                               *)
NoSignalLost == TA!NeverSleepsOnStudents /\ Table!NobodyForgotten

(* What the programs print is right, although their threads share arrays   *)
(* and counts: 6-34.c, projects2.c, 6-31.c, 6-33.c, 4-17.c, 4-16.c and     *)
(* projects1.c.                                                            *)
PrintsRight ==
    /\ program = "barrier" => Barrier!PrintsRows
    /\ program = "merge" => Merge!PrintsSorted
    /\ Sums!AddsUp
    /\ Reads!PrintsResults

(* 第七章.md: the bank gives nothing twice, and not more than there is.    *)
BankConserves == Bank!Conserved

(* All threads end and are joined; but philosophers may wait for each      *)
(* other, and customers of the bank may make bad guesses for ever.         *)
ThreadsFinish ==
    <>(\/ program = "buffer" /\ Buffer!Over
       \/ program = "ta" /\ TA!Over
       \/ program = "map" /\ Map!Over
       \/ program = "barrier" /\ Barrier!Over
       \/ program = "merge" /\ Merge!Over
       \/ program = "sums" /\ Sums!Over
       \/ program = "reads" /\ Reads!Over
       \/ program = "bridge" /\ BridgeOver
       \/ program \in {"table", "bank"})
=============================================================================
