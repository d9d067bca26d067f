\* An orb with a version and a volatile one, two goroutines, one change of host.
CONSTANTS
  stable = stable
  volatile = volatile
  h1 = h1
  h2 = h2
  w1 = w1
  w2 = w2
  nil = nil
  Orbs = {stable, volatile}
  Volatile = {volatile}
  Hosts = {h1, h2}
  InitHost = h1
  Workers = {w1, w2}
  NoOrb = nil
  MaxPublish = 1
  MaxSwitches = 1
SPECIFICATION Spec
SYMMETRY WorkerSymmetry
INVARIANTS MemoryIsOfHost FileBacksMemory
PROPERTY CrashesOnlyAcrossSwitch
CHECK_DEADLOCK FALSE
