CONSTANTS
    Trees <- MCWideTrees
    NOFILE = 16
    MaxPath = 33
    MaxUnlinks = 0
SPECIFICATION Spec
INVARIANTS
    FindsAll
CHECK_DEADLOCK FALSE
