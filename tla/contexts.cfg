\* Two refreshing goroutines, one change of host.
CONSTANTS
  a = a
  b = b
  x = x
  y = y
  h1 = h1
  h2 = h2
  bare = bare
  nil = nil
  w1 = w1
  w2 = w2
  Bare = bare
  NoContext = nil
  Namespaces = {a, b}
  Shorts = {x, y}
  Hosts = {h1, h2}
  InitHost = h1
  Workers = {w1, w2}
  Remote <- RemoteShared
  MaxRefreshes = 3
  MaxSwitches = 1
SPECIFICATION Spec
SYMMETRY WorkerSymmetry
INVARIANTS ShortNameUnambiguous LoadedContextsResolve
CHECK_DEADLOCK FALSE
