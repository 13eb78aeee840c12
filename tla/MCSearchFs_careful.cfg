SPECIFICATION FairSpec
CONSTANTS
  Names <- MCNames
  Dotted <- MCDotted
  Files <- GoodFiles
  Images <- SoundImages
  Liberties = {}
  MaxGuid = 20
  MaxTable = 20
INVARIANTS TypeOK LookupIsTree FolderRefsAgree NoPanic
PROPERTIES ImplementsTree CallReturns
CHECK_DEADLOCK FALSE
