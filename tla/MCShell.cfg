SPECIFICATION Spec

CONSTANTS
  Archives <- TwoArchives
  Procs = {1, 2, 3}
  NumSlots = 6
  NumDescs = 20
  NumPipes = 5
  W64 = 32
  BlockSize = 4
  Lines <- Session
  Paths <- SomePaths
  ToolPaths <- Opened
  ToolFiles = 1
  Counts = {2}
  Offsets = {1}
  CatSize = 2

INVARIANTS
  TypeOK
  LookupsAgree
  SharersCounted
  ListingExact
  PipelineConnected

PROPERTIES
  ChdirResolves

CHECK_DEADLOCK FALSE
