SPECIFICATION FairSpec
CONSTANTS
  InLen <- MCInLen
  OutLen <- MCOutLen
  MaxOps = 4
INVARIANTS
  TypeOK
  DebtBound
  ExactWithoutTimeout
PROPERTIES
  PortSpec
  CallsReturn
