CONSTANT MaxDials = 2
SPECIFICATION Spec
INVARIANT SendNeverPanics
CHECK_DEADLOCK FALSE
