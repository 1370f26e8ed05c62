CONSTANTS
  Null = Null
  Names = {"beef", "salt", "gum", "dust"}
  Products = {"p1", "p2"}
  Units = {"kg", "bag"}
  AskedUnit <- MCAskedUnit
  TooSmall = {"dust"}
  Catalog <- MCCatalog
  Entities <- MCEntities
  NameOf <- MCNameOf
  Queries <- MCQueries
  Finds <- MCFinds
  Texts <- MCTexts
  PageSize = 2
  CandidateCap = 2
  RememberCap = 6
  BrowseAt = {2}
SPECIFICATION MCSpec
INVARIANTS StoredIsConfirmed ReferencesAreNamed NoDeadEnd
PROPERTY ObedienceEnds
CHECK_DEADLOCK FALSE
