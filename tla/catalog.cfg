CONSTANTS
  Requests = {1, 2, 3}
  Sessions = {1, 2}
  MaxVersion = 2
  AutoSyncLimit = 2
  Limits = {1, 3}
  Null = Null
SPECIFICATION MCSpec
INVARIANTS LoadsAreShared PartialStaysPrivate QuietAfterClose
PROPERTIES CatalogNeverOlder BackgroundReplacesOnlyStale SyncIsCurrent EverythingEnds
CHECK_DEADLOCK FALSE
