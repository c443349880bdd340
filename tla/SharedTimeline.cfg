CONSTANTS
  Threads = {t1, t2}
  MaxValue = 2
  EpochModulus = 4
  MaxSignals = 3
SPECIFICATION FairSpec
INVARIANTS
  ValuesAreTrue
  NoMissedWakeup
PROPERTIES
  WaitsEnd
