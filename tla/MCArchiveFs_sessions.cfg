SPECIFICATION Spec
CONSTANTS
  Names = {"d", "e", "f.x", "g.x"}
  Dotted = {"f.x", "g.x"}
  Packages = {"p", "q"}
  Locales = 3
  Regions = 2
  Files <- AnyFiles
  Archives <- OneArchive
  Liberties = {"unaddable", "caught", "misnamed", "duplicate"}
  MaxGuid = 90
  MaxAdds = 2
INVARIANTS FilesAreListed RefusedInTime OnlyRefusalsPanic
PROPERTY ImplementsCatalogue
