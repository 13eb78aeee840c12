SPECIFICATION Spec
CONSTANTS
  Names <- MCNames
  Dotted <- MCDotted
  Files <- AnyFiles
  Images <- AnyImages
  Liberties <- AllLiberties
  MaxGuid = 12
  MaxTable = 20
INVARIANTS Invariant ChildrenAreLinked OneOwner NoOverlappingGuids DiskIsForest
CHECK_DEADLOCK FALSE
