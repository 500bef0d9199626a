SPECIFICATION FairSpec
CONSTANTS
  InLen = 2
  OutLen = 4
  MaxOps = 40
  Addresses <- MCAddresses
  CanSkip = {FALSE, TRUE}
  Images <- MCImages
  Scratch = 0
  OutCells = 2
  MaxCmd = 4
  HeaderCells = 2
  MaxRegs = 2
  InitialCells = 2
INVARIANTS
  TypeOK
  Bootable
  SuccessIsReal
  DcdOnce
  MemoryReady
PROPERTY RunEnds
