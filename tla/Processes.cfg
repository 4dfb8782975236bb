CONSTANTS
    \* primes.c: 19 needs 8 processes, each with the ends of its ancestors.
    Last = 19
    Cap = 3
    NOFILE = 12
    Names = {"pingpong", "3-12", "3-14", "3-15", "3-19", "3-20", "homework"}
    \* The numbers from 3 and 6 have two that do not fit into str, and the
    \* last of 6 is one too many; the numbers from 7 wrap.
    MaxInt = 31
    Arguments <- MCArguments
    StrMax = 9
    Room = 8
    X = 5
    \* Two lines of up to five characters: the second may be the shorter one,
    \* and there is room for two words of a line, but not for three.
    Given <- MCGiven
    Texts <- MCTexts
    MaxLines = 2
    MaxLine = 5
    MaxArg = 5
    \* Five entries, three descriptors: both limits are met.
    Trees <- MCTrees
    Descriptors = 6
    MaxPath = 4
    MaxUnlinks = 1
    \* The ring of the history wraps, and one shell is forked from another.
    Slots = 3
    Processes = {1, 2, 3}
    MaxCommands = 5
SPECIFICATION Spec
INVARIANTS
    TypeOK
    PrintsPrimes
    DescriptorsFit
    EndsInOrder
    ExchangesRight
    XargsRuns
    FindsOrFails
    ShellKeepsUp
PROPERTIES
    ProcessesEnd
\* all processes end, and the shell has no more commands
CHECK_DEADLOCK FALSE
