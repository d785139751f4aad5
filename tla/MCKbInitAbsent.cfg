CONSTANTS
  MaxKeys = 1
  ReplySleeps = 2
  CanCrash = FALSE
  Absent = TRUE
SPECIFICATION FairSpec
CHECK_DEADLOCK FALSE
PROPERTY
  InitTerminates
