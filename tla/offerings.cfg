\* Two goroutines, one change of host, every kind of executor.
CONSTANTS
  h1 = h1
  h2 = h2
  w1 = w1
  w2 = w2
  nil = nil
  notYet = notYet
  nobody = nobody
  none = none
  Workers = {w1, w2}
  Hosts = {h1, h2}
  InitHost = h1
  Nil = nil
  NotYet = notYet
  Nobody = nobody
  None = none
  MaxSwitches = 1
  Catalog <- MCCatalog
  Executors <- MCExecutors
  Unset = ""
  Params = {"<<p>>", "<<p>>.a"}
  OnlyParams = {"<<p>>"}
  SelfHosted = {"ns/x"}
  DockerOnly = {"small", "medium+"}
  MachineOnly = {"gpu.a"}
SPECIFICATION FairSpecChecks
INVARIANTS FetchedOnce VerdictIsTheCatalogs CompletedIsKnown
PROPERTY ImplementsAnswerOnce
CHECK_DEADLOCK FALSE
