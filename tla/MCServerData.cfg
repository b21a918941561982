SPECIFICATION Spec
CONSTANTS
  WebsiteNames <- Plain
  ListNames <- PlainLists
  DefaultName <- Default
  Crawler = Crawler
  Parser = Parser
  Extractor = Extractor
  Analyzer = Analyzer
  web = web
  site = site
  MaxId <- SmallIds
  MaxEvents = 1
  MaxLoad = 2
SYMMETRY Symmetry
INVARIANTS
  UsedDataExists
  WebsiteNamespacesAreUnique
  RowsHaveThreads
  NothingIsLeftBehind
