CONSTANTS
  p1 = p1
  p2 = p2
  Physical = {p1, p2}
  Threads = {t1, t2}
  Hosts <- MCHosts
  Capacities <- MCCapacities
  Requests <- MCRequests
  Presents <- MCPresents
  MaxPNext = 64
  MaxCalls = 1
  Loaders <- MCLoaders
  Windows = 2
  Uncounted = 9
  Arrays = {0, 1, 2, 3, 9}
  semA = semA
  semB = semB
  Semaphores = {semA, semB}
  Process <- MCProcess
  MaxValue = 2
  Faults = 1
  Inputs = {1, 2}
  Buffer = 2
  OpenFrom = 1
  OpenTo = 3
  SelectFrom = 4
  SelectEvery = 3
  SelectFor = 1
  Presses = 2
SPECIFICATION MachineSpec
INVARIANTS
  EveryListHonest
  HostUnderstands
  MemoryRestored
  HostQueueExclusive
  WrappersWork
  DisplayUsable
  ValuesCompleted
  InputGenuine
PROPERTIES
  NeverBack
  Delivered
CHECK_DEADLOCK FALSE
