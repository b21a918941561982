SPECIFICATION RepresentationsSpec
CONSTANTS
  Parts <- BothParts
  Targets <- TwoTargets
  MaxSubSets = 3
  MaxResults = 1
  Texts <- SomeTexts
  MaxArticles = 3
  MaxDate = 2
  ChunkSizes <- Sizes
  StopWords <- Stops
  FreeEvery = 2
CHECK_DEADLOCK FALSE
INVARIANTS
  QueriesUseTheirTarget
  SubSetsAreKept
  TextsAreThoseOfArticles
  ChunksFit
