SPECIFICATION Spec
CONSTANTS
  Locales = 3
  Regions = 2
  Names = {"A", "B"}
  Files <- NewFile
  NoData = "unset"
  NewData <- OneDatum
  Images <- PlainImage
  Liberties = {"ambiguous"}
  Gaps = {0}
  MaxGuid = 80
  MaxEdits = 2
PROPERTY GroupsKeepTheirKind
CHECK_DEADLOCK FALSE
