SPECIFICATION EditSpec
CONSTANTS
  Names <- MCNames
  Dotted <- MCDotted
  Files <- MCFiles
  Images <- MCImages
  Clients <- MCClients
  Liberties = {}
  MaxGuid = 26
  MaxTable = 20
INVARIANTS SavesAreComplete ListsEnd
PROPERTIES SavedAsShown ResolvedAsStored CallsEnd
CHECK_DEADLOCK FALSE
