SPECIFICATION ProgressSpec
CONSTANT N = 3
INVARIANTS NoLostWake ReactorSafe
PROPERTIES EventuallyRun AllServed EventuallySeen
CHECK_DEADLOCK FALSE
