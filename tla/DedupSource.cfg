\* A report written by dedup into the directory that it is about.
SPECIFICATION OutputSpec
CONSTANTS
  NoValue = NoValue
  Parts <- SomeParts
  MaxHops = 2
  MaxNames = 10
  Outputs <- SomeOutputs
INVARIANT SourceTreesSpared
CHECK_DEADLOCK FALSE
