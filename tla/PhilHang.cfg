CONSTANT MAX = 5
SPECIFICATION Spec
PROPERTY AllEat
CHECK_DEADLOCK FALSE
