SPECIFICATION ProcessesSpec
CONSTANTS
  Parts <- BothParts
  t1 = t1
  t2 = t2
  urlList = urlList
  urlListCheck = urlListCheck
  parsingTable = parsingTable
  targetTable = targetTable
  Threads <- TwoThreads
  Names <- AllNames
  Use <- AllUses
  MaxWorkers = 4
INVARIANTS
  ExclusiveUntilGivingUp
  RunningWorkersAreKept
PROPERTIES
  TryLocksAreMutexes
  StoppedThreadLeaves
  TickCompletes
CHECK_DEADLOCK FALSE
