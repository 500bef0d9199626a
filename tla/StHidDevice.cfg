SPECIFICATION FairSpec
CONSTANTS
  InLen = 2
  OutLen = 3
  MaxOps = 12
  Sizes <- MCSizes
  ULONGs = 16
INVARIANTS
  TypeOK
  ReadsInFile
  Whole
PROPERTY DownloadEnds
