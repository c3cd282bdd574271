\* One session adds, an index is moved over another.
SPECIFICATION Spec
CONSTANTS
  a = a
  b = b
  p1 = p1
  p2 = p2
  u1 = u1
  u2 = u2
  u3 = u3
  u4 = u4
  tarSrc = tarSrc
  dirSrc = dirSrc
  v1 = v1
  v2 = v2
  v3 = v3
  None = None
  StatOf <- StatByVersion
  Session = {a}
  Path = {p1, p2}
  Source = {tarSrc}
  Uuid = {u1, u2}
  Version = {v1}
  MaxId = 2
  SourceOf <- OneSource
  DirSource = {}
  V2 = {}
  Partial = {u2}
  Commands <- SyncCommands
  Events = {"build", "move"}
  Budget = 3
INVARIANT OneRowPerPath
