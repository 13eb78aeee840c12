SPECIFICATION Spec
CONSTANTS
  Locales = 3
  Regions = 2
  Names = {"A", "B"}
  Files <- BadFiles
  NoData = "unset"
  NewData <- OneDatum
  Images <- AnyImages
  Liberties = {"again", "unaddable"}
  Gaps = {0, 2}
  MaxGuid = 72
  MaxEdits = 1
INVARIANTS SetsAreConsecutive PatchInfosFollowFiles OffsetsArePositions
CHECK_DEADLOCK FALSE
