CONSTANTS
  MaxProducts = 4
  PageSize = 2
  Limits = {NoLimit, 1, 2, 3, 4}
  NoLimit = NoLimit
SPECIFICATION FairSpec
 
PROPERTIES LoadEnds
CHECK_DEADLOCK FALSE
