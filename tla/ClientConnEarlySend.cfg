CONSTANT MaxDials = 2
SPECIFICATION Spec
INVARIANT SendNeedsEstablish
CHECK_DEADLOCK FALSE
