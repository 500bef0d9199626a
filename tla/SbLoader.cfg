SPECIFICATION Spec
CONSTANTS
  Objects = {"st", "mx"}
  NULL = NULL
  Handles <- HandlesSmall
  Buses <- BusesSmall
  Guess = 1
  MaxErrors = 1
  MaxUnits = 2
  MaxProbes = 2
INVARIANT TypeOK Owned ExitMainReleases TaskReady TaskHasData TaskAsAsked ExitCodeTells
PROPERTY LosesOnlyInSearch ProgramEnds
