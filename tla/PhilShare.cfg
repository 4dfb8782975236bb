CONSTANT MAX = 5
SPECIFICATION Spec
INVARIANT ForkExclusive
CHECK_DEADLOCK FALSE
