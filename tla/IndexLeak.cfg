\* What a failed build leaves beside the destination.
SPECIFICATION Spec
CONSTANTS
  b1 = b1
  b2 = b2
  r1 = r1
  near = near
  cwd = cwd
  srcA = srcA
  None = None
  Foreign = Foreign
  Path = {near, cwd}
  Builder = {b1}
  Reader = {r1}
  Source = {srcA}
  SourceOf <- SameSource
  Dests <- DefaultAndExplicit
  DirBuilder = {}
  Entries = 3
  BatchSize = 2
  MaxVer = 2
  Budgets <- Scenes
INVARIANTS
  StagingIsDropped
CHECK_DEADLOCK FALSE
