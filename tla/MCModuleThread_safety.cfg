SPECIFICATION Spec
CONSTANTS
  Instances <- AnyInstance
  MaxId = 2
  DbFails <- AllDbFails
INVARIANTS
  RowsAreKept
  DestructorJoins
PROPERTIES
  OthersAreSpared
  ImplementsLifecycle
