\* One probe and one operation, Borg with one descendant.
SPECIFICATION FairSpec
CONSTANTS
  Borg = Borg
  kid = kid
  state = state
  keys = keys
  Kid = {kid}
  Sup = Sup
  None = None
  Escapers = {kid}
  Probes = 1
  Limit = 1
  Cap = 1
  Grace = 1
  MaxWritten = 2
  Backends = {"production", "mock"}
  Snapshot = Snapshot
  Parts = {state, keys}
  Fragile = {Snapshot, keys}
INVARIANTS
  TypeOK
  NothingOutlives
  AnswerIsTrue
  OkOnlyOnTrusted
PROPERTIES
  EveryRunEnds
CHECK_DEADLOCK FALSE
