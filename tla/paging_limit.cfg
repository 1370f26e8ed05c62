CONSTANTS
  MaxProducts = 5
  PageSize = 2
  Limits = {3}
  NoLimit = NoLimit
SPECIFICATION Spec
INVARIANTS LimitHonoured
CHECK_DEADLOCK FALSE
