SPECIFICATION TelemetrySpec
CONSTANTS
    s1 = s1
    s2 = s2
    s3 = s3
    r = r
    Samples = {s1, s2, s3}
    Reducers = {r}
    MaxConcurrency = 2
    MaxRetries = 1
    CallLimit = 5
    InputLimit = 2
    OutputLimit = 0
    Budget <- MCBudget
    MaxUsage = 1
    Usages <- SomeUsage
INVARIANTS
    CallBudgetRespected
    OvershootBounded
    NeverOverbilled
    TraceClosedOnce
    SummaryAgrees
PROPERTIES
    RefusalFinal
    AbortsForCause
    ImplementsMeter
    Termination
