CONSTANTS
  Null = Null
  NoKey <- MCNoKey
  Names <- MCNames
  Key <- MCKey
  Part <- MCPart
  Mismatch <- MCMismatch
  Terms <- MCTerms
  Ratio <- MCRatio
  Thresholds = {60, 100}
  Limit = 1
  Catalogs <- MCCatalogs
  External <- MCExternal
  Shops <- MCShops
  Items <- MCItems
  MaxItems = 2
SPECIFICATION ShopsSpec
INVARIANTS GroupsAreSynonyms CertainIsUnique NothingCertainLost ClearOrdersAreRead OrderedIsDrafted
CHECK_DEADLOCK FALSE
