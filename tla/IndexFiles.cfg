\* Two builds and a read of the same paths, with an SQLite writer, kills and
\* users at work.
SPECIFICATION FairSpec
CONSTANTS
  b1 = b1
  b2 = b2
  r1 = r1
  near = near
  cwd = cwd
  srcA = srcA
  None = None
  Foreign = Foreign
  Path = {near, cwd}
  Builder = {b1, b2}
  Reader = {r1}
  Source = {srcA}
  SourceOf <- SameSource
  Dests <- DefaultAndExplicit
  DirBuilder = {b2}
  Entries = 3
  BatchSize = 2
  MaxVer = 2
  Budgets <- Scenes
INVARIANTS
  TypeOK
  ReadCoherent
PROPERTIES
  ImplementsSlot
  EveryBuildEnds
  EveryReadEnds
CHECK_DEADLOCK FALSE
