\* An instance with two disks, in one pool or in two, is made, moved and removed.
SPECIFICATION ClusterSpec
CONSTANTS
  p1 = p1  p2 = p2  nodeA = nodeA  nodeB = nodeB  i1 = i1  i2 = i2
  volX = volX  volY = volY  snap = snap  pool1 = pool1  pool2 = pool2  text = text
  NewNote = NewNote  NoPool = NoPool  NoInstance = NoInstance  Unsure = Unsure
  Procs <- OneProc
  Nodes <- TwoNodes
  Names <- PairNames
  Uuids <- PairNames
  Pools <- TwoPools
  Sizes <- PairSizes
  Notes <- OneNote
  Requests <- GoneRequests
  MaxRetries = 2
  MaxCalls = 6
  Master = nodeA
  CleanupCmd = TRUE
  QuietFailures = FALSE
  Instances <- OneInstance
  DisksOf <- GoneDisks
  SnapsOf <- GoneSnaps
  IgnoreFailures = FALSE
PROPERTIES NotFoundMeansNone RemovedIsRecorded NoStaleDevice
SYMMETRY SymmetricPools
CHECK_DEADLOCK FALSE
