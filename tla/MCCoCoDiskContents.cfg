SPECIFICATION Spec
CONSTANTS
  n1 = n1
  n2 = n2
  n3 = n3
  nLong = nLong
  d1 = d1
  d2 = d2
  d3 = d3
  Absent = Absent
  NumGranules = 3
  SectorsPerGranule = 1
  BytesPerSector = 2
  NumDirEntries = 2
  LowGranules = 1
  LF = 10
  CR = 13
  BlankByte = 0
  NativeNames <- FewNames
  Names <- FewDirNames
  CoCoName <- FewCoCoNames
  AddableNames <- FewNames
  NativeFiles <- LineFiles
PROPERTIES
  ListingAgrees
  StoreSpec
