CONSTANTS
  Keys <- MC_Keys
SPECIFICATION FairSpec
CHECK_DEADLOCK FALSE
INVARIANT KeysHandledOnce
