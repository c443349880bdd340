CONSTANTS
  MaxBuild = 3
  Broken = {2}
  Updaters = {u1, u2}
  Activities = {a, b}
  Pids = {1, 2, 3}
  Bridges = {a, b}
  Launches = {r}
  Windowed = {r}
  MaxApps = 4
SPECIFICATION LifeSpec
INVARIANTS
  RuntimeSafe
  ProcessesKept
PROPERTIES
  StagedOnce
  ImplementsTrial
  UpdatesEnd
  SessionFollows
