SPECIFICATION Spec
CONSTANTS
  NoOrb = NoOrb
  None = None
  Unknown = Unknown
  Words <- MCWords
  OrbNames <- MCOrbNames
  BuiltIn = {"run"}
  OrbInfo <- MCOrbInfo
  LocalOrbs = {"l"}
  Parameterised = {"p"}
  Opened <- MCOpened
  EditWords = {"a", "b"}
  JobBodies <- MCJobBodies
  CommandBodies <- MCCommandBodies
  InvocationBodies <- MCInvocationBodies
  MaxItems = 4
INVARIANTS
  DefinitionAgrees
  NowhereIsReported
  VerdictOrderFree
  CompletionAccepted
PROPERTIES
  UnusedRemovalsAreSafe
  RemovalShowsInReferences
  AdditionsErrLocally
