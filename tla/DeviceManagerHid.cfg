SPECIFICATION Spec
CONSTANTS
  h1 = h1
  h2 = h2
  NULL = NULL
  Handles <- MCHandles
  MaxCalls = 1
  MaxChanges = 2
INVARIANT NoMissedDevice
