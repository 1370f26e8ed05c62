SPECIFICATION Spec
CONSTANTS
  Null = Null
  Calls = {c1, c2, c3}
  Previews = {p1, p2}
  Keys = {p1, p2, k1}
  PreviewCap = 1
  ResultCap = 1
  BodyMayNotDecode = FALSE
SYMMETRY Symmetry
INVARIANTS AtMostOneOrder MarksAreExact TruthfulAnswers
PROPERTIES ResendOnlyAfterRefusal ImplementsLedger
