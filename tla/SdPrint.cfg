CONSTANTS
    Users = {"u1"}
    Runout = TRUE
    Lines = 2
    Chunk = 3
    Ahead = 1
SPECIFICATION FairSpec

    
    
PROPERTIES
    PauseStopsPrint
    PauseReturns
CHECK_DEADLOCK FALSE
