SPECIFICATION Spec
CONSTANTS
  Locales = 3
  Regions = 2
  NewData <- OneDatum
  Clients <- AnyClient
  MaxGuid = 20
  MaxEdits = 2
INVARIANTS TypeOK NoPanic SetsAreConsecutive TablesAreReachable
PROPERTY ImplementsDocument
CHECK_DEADLOCK FALSE
