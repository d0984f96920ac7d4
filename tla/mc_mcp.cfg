SPECIFICATION Spec
CONSTANT MaxLines = 3
INVARIANTS
    GateHolds
PROPERTIES
    RepliesInOrder
    RepliesArrive
CHECK_DEADLOCK FALSE
