SPECIFICATION Spec
CONSTANTS
  Locales = 3
  Regions = 2
  NewData <- OneDatum
  Clients <- VanillaClient
  MaxGuid = 10
  MaxEdits = 0
INVARIANT WriterIsReady
CHECK_DEADLOCK FALSE
