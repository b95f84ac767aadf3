SPECIFICATION Spec
CONSTANTS
    UserTimers = {"wrap", "t"}
    WrapTimer = "wrap"
    ClockMod = 16
    Period = 2
    MaxAhead = 2
    Latency = 1
    Defer = 1
    PastLimit = 1
    MaxNow = 16
INVARIANT ListKept
PROPERTY ImplementsAlarms
CHECK_DEADLOCK FALSE
