SPECIFICATION Spec
CONSTANTS
    t1 = t1
    t2 = t2
    s1 = s1
    Callers = {t1, t2}
    Streams = {s1}
    Sessions <- MCSessions
    Period = 2
    Cap = 3
    Cooldowns = {1, 3}
    Jitters = {0}
    MaxAttempts = 2
    Lag = 1
    LastStart = 1
    Horizon = 20
    MaxLines = 1
INVARIANTS
    RateBound
    CooldownHonoured
    TranscriptWhole
    UsageSettled

    
CHECK_DEADLOCK FALSE
