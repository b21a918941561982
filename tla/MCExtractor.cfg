SPECIFICATION FairSpec
CONSTANTS
  id1 = id1
  token1 = token1
  Configurations <- SomeConfigurations
  MaxUrl = 2
  CacheSize = 2
  DataIds = {id1}
  Tokens = {token1}
  NumFields = 2
  MaxPages = 2
INVARIANTS
  ResultsAreComplete
  UnsavedResultsAreAhead
PROPERTY StoppedExtractorExits
CHECK_DEADLOCK FALSE
