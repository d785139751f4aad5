CONSTANTS
  MaxKeys = 1
  ReplySleeps = 2
  CanCrash = FALSE
  Absent = FALSE
SPECIFICATION FairSpec
CHECK_DEADLOCK FALSE
PROPERTY
  KeyEventuallyHandled
