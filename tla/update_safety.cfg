CONSTANTS
  Updates = {u1, u2}
  Voids = {w1}
  Values = {v1, v2}
  Wanted <- MCWanted
  i1 = i1  i2 = i2  XS1 = XS1  XS10 = XS10
  Ids = {i1, i2}
  Number <- MCNumber
  Tokens = {i1, XS1}
  Finds <- MCFinds
  PageSize = 1
  Null = Null
SYMMETRY Symmetry
SPECIFICATION Spec
INVARIANTS AnswerNamesOrder
PROPERTIES LinesKeepIdentity UndisturbedUpdateIsExact WritesOnlyNamed MissedOnlyBeyondPage
CHECK_DEADLOCK FALSE
