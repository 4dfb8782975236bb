CONSTANT Goal = 3
SPECIFICATION Spec
PROPERTY WaiterEnds
CHECK_DEADLOCK FALSE
