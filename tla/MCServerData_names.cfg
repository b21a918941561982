SPECIFICATION Spec
CONSTANTS
  WebsiteNames <- Nested
  ListNames <- NestedLists
  DefaultName <- Default
  Crawler = Crawler
  Parser = Parser
  Extractor = Extractor
  Analyzer = Analyzer
  web = web
  site = site
  MaxId <- ThreeLists
  MaxEvents = 0
  MaxLoad = 0
INVARIANT
  ListsHaveTheirOwnTables
