SPECIFICATION Spec
CONSTANTS
  Names <- MCNames
  Dotted <- MCDotted
  Files <- GoodFiles
  Images <- SoundImages
  Liberties = {}
  MaxGuid = 12
  MaxTable = 20
INVARIANT ParentIsParent
CHECK_DEADLOCK FALSE
