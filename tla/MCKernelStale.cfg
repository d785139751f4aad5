CONSTANTS
  MAX_THREAD_COUNT <- MC_Tids
  Procs = {P0, P1}
  NoProc = NoProc
  BootProc = P0
  ForkedProc = P1
  INIT_TID = 0
  IDLE_TID = 1
  TickMs = 2
  PROC_TIMESLICE = 4
  SleepMs <- MC_SleepMs
  MaxListeners = 2


SPECIFICATION Spec

PROPERTY TimerWakesOnlySleepers
