\* Three invocations under their jobs' names, every pair of requirements.
CONSTANTS
  a = a
  b = b
  c = c
  i1 = i1
  i2 = i2
  i3 = i3
  Names = {a, b, c}
  Ids = {i1, i2, i3}
  MaxRequires = 2
  Invocations <- NotRenamed
SPECIFICATION Spec
SYMMETRY IdSymmetry
INVARIANTS CyclesNeverVisited RestIsCyclic CyclesReported
CHECK_DEADLOCK FALSE
