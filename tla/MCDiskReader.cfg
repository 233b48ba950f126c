SPECIFICATION FairSpec
CONSTANTS
  NumGranules = 3
  SectorsPerGranule = 2
  BytesPerSector = 2
  Drives = {0, 1}
  Layouts <- SomeLayouts
  Requests = {3, 8}
  Targets = {1, 5, 20}
  Flaws = {{}, {"data", "fat"}}
  OffsetLimit = 7
INVARIANTS
  HaltsExplained
  PositionAgrees
PROPERTIES
  SeekToEnd
  ReadsFile
  ReadReturns
CHECK_DEADLOCK FALSE
