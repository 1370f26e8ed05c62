CONSTANTS
  Null = Null
  Names = {"beef", "salt", "gum", "dust"}
  Products = {"p1", "p2"}
  Units = {"kg", "bag"}
  AskedUnit <- MCAskedUnit
  TooSmall = {"dust"}
  Catalog <- OneCatalog
  Entities <- MCEntities
  NameOf <- MCNameOf
  Queries <- MCQueries
  Finds <- MCFinds
  Texts <- StaleTexts
  PageSize = 2
  CandidateCap = 2
  RememberCap = 6
  BrowseAt = {}
SPECIFICATION MCSpec
INVARIANT StaleConfirmationRefused
CHECK_DEADLOCK FALSE
