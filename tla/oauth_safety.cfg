CONSTANTS
  Clients = {c1}
  Authorizations = {a1, a2}
  Binds = {b1, b2}
  Grants = {g1, g2, g3}
  Keys = {k1, k2}
  Null = Null
SYMMETRY Symmetry
SPECIFICATION MCSpec
INVARIANTS OneCodePerRequest OnePairPerCode TokensAreBound RequestsWereGranted DeadStaysDead
CHECK_DEADLOCK FALSE
