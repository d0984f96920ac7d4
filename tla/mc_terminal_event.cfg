SPECIFICATION Spec
CONSTANTS
    s1 = s1
    s2 = s2
    Samples = {s1, s2}
    Reducers = {}
    MaxConcurrency = 2
    MaxRetries = 1
    CallLimit = 0
    InputLimit = 0
    OutputLimit = 0
    Budget <- MCBudget
    MaxUsage = 2
    Usages <- OneUsage
INVARIANTS
    TerminalEventPerCall
