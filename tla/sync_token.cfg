\* One orb file, closed and reopened; the token may change once.
CONSTANTS
  o = o
  w1 = w1
  w2 = w2
  none = none
  tok = tok
  Files = {o}
  OrbFiles = {o}
  Workers = {w1, w2}
  Tokens = {none, tok}
  NoToken = none
  InitToken = tok
  MaxEdits = 1
  MaxOpens = 2
  MaxTokenChanges = 1
SPECIFICATION Spec
SYMMETRY WorkerSymmetry
INVARIANTS InSync PublishedForItsVersion CrashesExplained
PROPERTY ChecksLatestUnlessLost
CHECK_DEADLOCK FALSE
