SPECIFICATION Spec
CONSTANTS
    Steppers = {"x", "y"}
    Modes = {"full", "edge", "avr"}
    move_count = 2
    MaxCount = 2
    Bias = 8
    MaxSteps = 3
    sample_time = 1
    sample_count = 3
    rest_time = 4
    e_MaxNow = 12
    Rounds = 2
    d_ClockMod = 26
    cycle_time = 3
    d_max_duration = 5
    default_on = FALSE
    OnTicks = {0, 1, 2, 3}
    d_Ahead = 4
    d_Moves = 2
    d_Start = 21
    d_MaxNow = 31
    p_ClockMod = 16
    p_max_duration = 3
    Values = {0, 1, 2}
    default_value = 1
    p_Ahead = 4
    p_Moves = 2
    p_Start = 10
    p_MaxNow = 22
    Pins = {1}
    Reports = 5
    Pins2 = {1, 2}
    Reports2 = 2
    invert = {1}
    Size = 2
    CountMod = 5
    retransmit_count = 1
    Cap = 2
    MaxLoss = 1
INVARIANTS
    PositionExact MovesAccounted TriggerExact OutputsOnTime ReportsExact
PROPERTY StoppedStays
CHECK_DEADLOCK FALSE
