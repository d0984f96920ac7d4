SPECIFICATION Spec
CONSTANTS
    a = a
    b = b
    Steps = {a, b}
    Graphs <- AllGraphs
    MaxConcurrency = 2
    MaxRestarts = 1
INVARIANTS
    CheckpointedStepsCompleted
