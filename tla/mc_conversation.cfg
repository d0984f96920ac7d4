SPECIFICATION Spec
CONSTANTS
    MaxTurns = 2
    MaxRounds = 3
    MaxRequests = 3
    MaxCalls = 2
    MaxConcurrency = 2
    MaxHistory = 5
    Summarizing = TRUE
    Policies = {"raise"}
INVARIANTS
    TranscriptComplete
    WindowComplete
    SummaryFaithful
PROPERTIES
    SessionGrows
