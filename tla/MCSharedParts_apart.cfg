SPECIFICATION Spec
CONSTANTS
  Threads = {t1, t2}
  Sizes = {3}
  MaxGuid = 5
  Hashes = {2, 3, 5, 8}
  Values = {p, q}
  Absent = none
  BucketCounts = {1, 3}
  WordSpan = 8
  LenSpan = 2
  IndexSpan = 4
  Indices = {0, 1, 2, 3, 4, 5, 6}
  Callers = {c1, c2, c3}
  Decompressors = {ruzstd, other}
  Default = ruzstd
  Nothing = nothing
INVARIANTS GuidsAreUnique ShortOnlyIfReordered OffsetIsExactAlone KeysFindEntries HalvesAreApart OneInUse CodesAgreeWithRegions
PROPERTIES ImplementsMap AllGetThrough
