SPECIFICATION Spec
CONSTANTS
  Null = Null
  Calls = {c1, c2}
  Previews = {p1}
  Keys = {p1, k1}
  PreviewCap = 1
  ResultCap = 1
  BodyMayNotDecode = TRUE
SYMMETRY Symmetry
PROPERTIES ResendOnlyAfterRefusal
