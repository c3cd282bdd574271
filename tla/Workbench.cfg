\* One component at a time: duplicates, plans, indexing, outputs, the opening of the
\* master, and the reports with other programs at work.
SPECIFICATION WorkbenchSpec
CONSTANTS
  NoValue = NoValue
  c1 = c1
  c2 = c2
  Contents = {c1, c2}
  Bit <- EightBits
  Bands <- FourBands
  MaxThreshold = 3
  Finds <- SomeFinds
  d1 = d1
  d2 = d2
  torn = torn
  Digests = {d1, d2}
  Plain <- Stems
  NotUtf8 <- Foreign
  Edits <- SomeEdits
  PlanJobs <- SomePlans
  x = x
  y = y
  z = z
  void = void
  Torn = Torn
  Bytes = {x, y, z, void}
  BytesSize <- Sizes
  Decodes = {x}
  Binary = {z}
  Media <- Extensions
  TextCap = 1
  MediaCap = 1
  Path = {1, 2}
  Walks <- SomeWalks
  w1 = w1
  w2 = w2
  Rendered <- Texts
  Words <- SomeWords
  WordFlush = 2
  Archives <- SomeArchives
  Parts <- SomeParts
  MaxHops = 2
  MaxNames = 10
  Outputs <- SomeOutputs
  Opener = {s1, s2}
  Catalogs <- SomeCatalogs
  photo = photo
  note = note
  bad = bad
  worse = worse
  garbled = garbled
  small = small
  large = large
  empty = empty
  None = None
  Content = {small, large, empty}
  Name = {photo, note, bad, worse, garbled}
  Garbled = {garbled}
  Length <- Lengths
  TextOf <- Renderings
  NSources = 2
  Jobs <- AllJobs
  Indexes <- SomeIndexes
  LiveStates <- Lives
  Recordable <- SomeStatuses
  Params <- SomeParams
INVARIANTS
  NothingLost
  NearGroupsRight
  ExactTold
  BuildSettles
  AcceptedFresh
  OrderFree
  FloorKept
  PointInTime
  TarTrue
  OutputSafe
  OpensOwn
  TypeOK
  DiffAbsence
  DiffContent
  DiffComplete
  DiffRows
  FloorTrue
  CompleteTrue
  CoverageRows
  RegistryCoherent
PROPERTIES
  EveryReportEnds
CHECK_DEADLOCK FALSE
