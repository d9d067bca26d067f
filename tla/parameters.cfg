SPECIFICATION Spec
CONSTANTS
  None = None
  ParamNames = {"x"}
  EntityNames = {"a", "b"}
  Words <- MCWords
  Opened <- MCOpened
  Declarations <- MCDeclarations
  Values <- MCValues
  Steps <- MCSteps
  Executors <- MCExecutors
  Invocations <- MCInvocations
  MaxItems = 3
INVARIANTS
  SubstitutionIsSound
  JumpAgrees
PROPERTIES
  RemovalShowsInReferences
  DeclarationsErrLocally
  DefaultsOnlyHelp
  CompletedNamesExist
