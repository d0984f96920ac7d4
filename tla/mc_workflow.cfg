SPECIFICATION FairSpec
CONSTANTS
    a = a
    b = b
    c = c
    Steps = {a, b, c}
    Graphs <- AllGraphs
    MaxConcurrency = 2
    MaxRestarts = 2
INVARIANTS
    DependencyOrder
    CheckpointConsistent
    UnresolvedOnlyOnCycle
PROPERTIES
    ResumeNeverRepeats
    ImplementsDag
    WorkflowEnds
