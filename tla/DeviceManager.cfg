SPECIFICATION FairSpec
CONSTANTS
  h1 = h1
  h2 = h2
  NULL = NULL
  Handles <- MCHandles
  MaxCalls = 2
  MaxChanges = 2
INVARIANTS
  TypeOK
  NoLostWakeup
  RunningWhileOpen
  LeavesOnlyTimers
  WaitedForIt
PROPERTY CallsReturn
