SPECIFICATION LibrarySpec
CONSTANTS
  Parts <- AllParts
  Configurations <- SomeConfigurations
  Uses <- SomeUses
  MaxPacket = 2
  t1 = t1
  t2 = t2
  Threads <- TwoThreads
  TableInstances <- SomeTables
  MaxEntries = 3
  Documents <- SomeDocuments
  MaxSteps = 1
  Numbers <- SomeNumbers
  c1 = c1
  c2 = c2
  Crawlers <- TwoCrawlers
  Paths <- SomePaths
  MaxId = 2
  Urls <- TwoUrls
  MaxUpdates = 2
SYMMETRY Exchange
INVARIANTS
  EveryPartIsTyped
  OptionsFit
  ResultsAreExact
  ThreadsHaveTheirTables
  MembersDescribeTheModel
  UrlsAreFound
  WebsitesKeepTheirRows
PROPERTIES
  NothingElseIsDisturbed
CHECK_DEADLOCK FALSE
