\* One session runs every command while indexes, locks and sources change and it is killed.
SPECIFICATION Spec
CONSTANTS
  a = a
  b = b
  p1 = p1
  p2 = p2
  u1 = u1
  u2 = u2
  u3 = u3
  u4 = u4
  tarSrc = tarSrc
  dirSrc = dirSrc
  v1 = v1
  v2 = v2
  v3 = v3
  None = None
  StatOf <- StatByVersion
  Session = {a}
  Path = {p1, p2}
  Source = {tarSrc, dirSrc}
  Uuid = {u1, u2, u3, u4}
  Version = {v1, v2, v3}
  MaxId = 2
  SourceOf <- TarAndDir
  DirSource = {dirSrc}
  V2 = {u4}
  Partial = {u2}
  Commands <- CatalogCommands
  Events = {"build", "delete", "lock", "source", "days", "crash", "copy", "move"}
  Budget = 3
INVARIANTS
  SyncTells
  VerifyTells
