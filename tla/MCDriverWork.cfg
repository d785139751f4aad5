CONSTANTS
  DrvThreads = {"d1", "d2"}
  Clients = {"c1", "c2"}
  DrvOf <- MC_DrvOf
  Ids <- MC_Ids
  MAX_FD_COUNT = 1
  NoFile = NoFile
  MaxMsgs = 1
  MaxSignals = 2
  BadTid = BadTid
  DRV_OPEN = 1
  DRV_READ = 2
  DRV_WRITE = 4
  DRV_CLOSE = 8
  DRV_FS = 16
  DRV_TERM = 32
  FlagWords <- MC_FlagWords
  MaxCalls = 2
SPECIFICATION FairSpec
\* every driver thread blocked in getWork with no client left is the idle server
CHECK_DEADLOCK FALSE
INVARIANTS
  TypeOK
  NoDanglingFile
  NoLostWakeup
  RegisteredFlagsValid

  
