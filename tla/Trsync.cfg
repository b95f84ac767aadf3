SPECIFICATION Spec
CONSTANTS
  a = a
  b = b
  Mcus = {a, b}
  Expire = 2
  Period = 1
  MinExtend = 1
  MaxNow = 4
  Cap = 1
SYMMETRY Symmetry
INVARIANTS StopsInTime TimeoutsSafe
CHECK_DEADLOCK FALSE
