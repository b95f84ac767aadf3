SPECIFICATION HostSpec
CONSTANTS
    x_max = 1
    y_max = 1
    z_max = 1
    u_max = 1
    v_max = 2
    MaxCoord = 2
    num_timers = 2
    Ms = 2
    MaxTimeout = 2
    p_Ahead = 5
    p_MaxNow = 5
    ClockMod = 16
    SendTicks = 4
    PassTicks = 3
    Gap = 3
    Offset = 1
    Refused = 3
    c_Cap = 1
    c_MaxNow = 24
    q1 = q1
    q2 = q2
    Queues = {q1, q2}
INVARIANTS
    PollPunctual ClocksExact SpeedsDrivable StepsFaithful PastPositionExact
    PoolSuffices QueuesFaithful NeverOversleeps
PROPERTY FirstHeadVerified
SYMMETRY Symmetry
CHECK_DEADLOCK FALSE
