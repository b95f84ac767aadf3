SPECIFICATION FairSpec
CONSTANTS
  Mcus = {"a", "b"}
  E = "a"
  Retries = 1
  Rounds = 1
  Cap = 1
  MaxLoss = 1
INVARIANTS CleanAfterwards ResultIsReal
PROPERTY HomingEnds
CHECK_DEADLOCK FALSE
