\* Two invocations that may have a name of their own.
CONSTANTS
  a = a
  b = b
  i1 = i1
  i2 = i2
  Names = {a, b}
  Ids = {i1, i2}
  MaxRequires = 1
  Invocations <- MayBeRenamed
SPECIFICATION Spec
INVARIANT SilenceMeansAcyclic
CHECK_DEADLOCK FALSE
