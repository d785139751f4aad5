CONSTANTS
  MaxKeys = 3
  ReplySleeps = 2
  CanCrash = TRUE
  Absent = FALSE
SPECIFICATION FairSpec
CHECK_DEADLOCK FALSE
INVARIANTS
  TypeOK
  NoFalseFailure
  OnlyScancodesHandled
PROPERTY
  InitTerminates
