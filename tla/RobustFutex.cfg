CONSTANTS
  Threads = {t1, t2, t3}
  Mutexes = {m, n}
  Deadlines = {2, Never}
  Never = Never
  MaxList = 2
  MaxLocks = 3
SPECIFICATION FutexSpec
INVARIANTS
  MutexKept
  TimeoutEarned
PROPERTIES
  LocksEnd
CHECK_DEADLOCK FALSE
