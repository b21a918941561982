SPECIFICATION Spec
CONSTANTS
  p1 = p1
  p2 = p2
  Parsers <- TwoParsers
  Instances <- SomeInstances
  MaxUrl = 2
  Lease = 1
  MaxTime = 3
  NoParser = NoParser
SYMMETRY Interchangeable
INVARIANTS
  UrlsAreParsedOnce
  FinishedHasResults
  UnsavedResultsAreAhead
