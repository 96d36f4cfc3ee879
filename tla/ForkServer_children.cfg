SPECIFICATION Spec
CONSTANTS
  p1 = p1
  p2 = p2
  p3 = p3
  NoPid = NoPid
  Pids = {p1, p2, p3}
  NumServers = 2
  NumForks <- OneEach
  MaxChild = 2
  MaxHups = 1
  MaxDeaths = 2
  MaxFailures = 1
CHECK_DEADLOCK FALSE
INVARIANTS
  TypeOK
  IdsHaveRoom
  NoSurplus
  RegisterEnds
PROPERTIES
  LossesExplained
  RecordedReplaced
  TermEndsAll
