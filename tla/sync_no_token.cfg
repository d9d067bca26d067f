\* Two configuration files, nobody logged in.
CONSTANTS
  a = a
  b = b
  w1 = w1
  w2 = w2
  none = none
  Files = {a, b}
  OrbFiles = {}
  Workers = {w1, w2}
  Tokens = {none}
  NoToken = none
  InitToken = none
  MaxEdits = 2
  MaxOpens = 1
  MaxTokenChanges = 0
SPECIFICATION FairSpec
INVARIANTS InSync PublishedForItsVersion
PROPERTY LastChangeDiagnosed
CHECK_DEADLOCK FALSE
