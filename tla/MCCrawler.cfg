SPECIFICATION FairSpec
CONSTANTS
  MaxUrl = 3
  FirstCount = 2
  StartPage = 2
  CustomPages <- OneCustomPage
  Configs <- AllConfigs
  Lease = 1
  MaxLock = 2
  MaxMementos = 1
CHECK_DEADLOCK FALSE
INVARIANTS
  FinishedUrlsHaveContent
  UrlsAreLeftInOrder
PROPERTIES
  UrlsAreVisited
