SPECIFICATION FairSpec
CONSTANTS
  Instances <- AnyInstance
  MaxId = 1
  DbFails <- ThreadDbFails
INVARIANT NoLostWakeup
PROPERTIES
  StoppedThreadExits
  FinishedThreadIsRemoved
