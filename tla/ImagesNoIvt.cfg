SPECIFICATION Spec
CONSTANTS
  Files <- NoIvtFiles
  W = 65536
  RamBase = 36864
  RamBase2 = 16384
  InitialSize = 4096
  DcdBytesMax = 40
  ScuWindow <- MCScuWindow
  ScuShift = 4352
  TreeSize = 128
  MaxLoadables = 3
INVARIANT RefusesWithoutIvt
