SPECIFICATION Spec
CONSTANTS
  Names <- MCNames
  Dotted <- MCDotted
  Files <- GoodFiles
  Images <- SoundImages
  Liberties = {"unlisted"}
  MaxGuid = 12
  MaxTable = 20
INVARIANT WriterIsReady
CHECK_DEADLOCK FALSE
