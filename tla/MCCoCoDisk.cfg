SPECIFICATION Spec
CONSTANTS
  n1 = n1
  n2 = n2
  n3 = n3
  nLong = nLong
  d1 = d1
  d2 = d2
  d3 = d3
  Absent = Absent
  NumGranules = 4
  SectorsPerGranule = 2
  BytesPerSector = 1
  NumDirEntries = 3
  LowGranules = 2
  LF = 10
  CR = 0
  BlankByte = 0
  NativeNames <- SomeNames
  Names <- ManyDirNames
  CoCoName <- SomeCoCoNames
  AddableNames <- SomeNames
  NativeFiles <- UniformFiles
INVARIANTS
  NoEntryPastEnd
  OneEntryPerName
  NoCrossLinks
  NoLostGranules
  ChainsEnd
  WalkVisitsChain
PROPERTIES
  OnlyOneFileTouched
