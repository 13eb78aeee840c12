SPECIFICATION WatchedSpec
CONSTANTS
  Locales = 3
  Regions = 2
  Names = {"A", "B"}
  Files <- NewFile
  NoData = "unset"
  NewData <- OneDatum
  Images <- SoundImages
  Liberties = {}
  Gaps = {0}
  MaxGuid = 97
  MaxEdits = 2
INVARIANTS TypeOK NoPanic
PROPERTY ImplementsDocument
CHECK_DEADLOCK FALSE
