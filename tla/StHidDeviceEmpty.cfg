SPECIFICATION Spec
CONSTANTS
  InLen = 2
  OutLen = 3
  MaxOps = 12
  Sizes <- MCEmpty
  ULONGs = 16
INVARIANT InFile
