SPECIFICATION FairSpec
CONSTANTS
  Threads = {1}
  ConfigOf <- SameConfig
  Configs = {1}
  Contents <- FewContents
  MaxId = 2
  MaxStamp = 4
CHECK_DEADLOCK FALSE
INVARIANTS
  OutdatedDataIsReset
  ListsMatch
PROPERTIES
  ConfigsArrive
