SPECIFICATION FairSpec
CONSTANTS
  Null = Null
  Calls = {c1, c2, c3}
  Previews = {p1}
  Keys = {p1, k1}
  PreviewCap = 1
  ResultCap = 1
  BodyMayNotDecode = TRUE
INVARIANTS SuccessIsSettled ReplayMatchesOriginal
PROPERTIES EverySubmitAnswered
