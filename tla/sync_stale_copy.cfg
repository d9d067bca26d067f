\* One configuration file, logged in.
CONSTANTS
  a = a
  w1 = w1
  w2 = w2
  none = none
  tok = tok
  Files = {a}
  OrbFiles = {}
  Workers = {w1, w2}
  Tokens = {none, tok}
  NoToken = none
  InitToken = tok
  MaxEdits = 2
  MaxOpens = 1
  MaxTokenChanges = 0
SPECIFICATION Spec
PROPERTY ChecksLatestVersion
CHECK_DEADLOCK FALSE
