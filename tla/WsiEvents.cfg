CONSTANTS
  Buffers = 2
  Threads = {t1, t2}
  MaxFrame = 1
SPECIFICATION FairSpec
INVARIANTS
  NobodyWaitsInVain
PROPERTIES
  TimeoutHonest
  CallsEnd
CHECK_DEADLOCK FALSE
