SPECIFICATION Spec
CONSTANTS
  x_max = 1
  y_max = 1
  z_max = 1
  u_max = 1
  v_max = 2
  MaxCoord = 2
PROPERTY EveryMoveVerified
CHECK_DEADLOCK FALSE
