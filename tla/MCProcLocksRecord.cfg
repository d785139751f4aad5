CONSTANTS
  Threads = {t1, t2, t3}
  Pids = {p1}
  BadPid = BadPid
  NoThread = NoThread
  LockOrder = TRUE
SPECIFICATION Spec
SYMMETRY Symm
INVARIANT RecordedLocksHeld
