\* Instances are removed although removing their disks failed.
SPECIFICATION ClusterSpec
CONSTANTS
  p1 = p1  p2 = p2  nodeA = nodeA  nodeB = nodeB  i1 = i1  i2 = i2
  volX = volX  volY = volY  snap = snap  pool1 = pool1  pool2 = pool2  text = text
  NewNote = NewNote  NoPool = NoPool  NoInstance = NoInstance  Unsure = Unsure
  Procs <- OneProc
  Nodes <- TwoNodes
  Names <- PairNames
  Uuids <- PairNames
  Pools <- OnePool
  Sizes <- PairSizes
  Notes <- OneNote
  Requests <- PairRequests
  MaxRetries = 2
  MaxCalls = 4
  Master = nodeA
  CleanupCmd = TRUE
  QuietFailures = TRUE
  Instances <- TwoInstances
  DisksOf <- PairDisks
  SnapsOf <- PairSnaps
  IgnoreFailures = TRUE
PROPERTY FlushesOnlyDestroyed
CHECK_DEADLOCK FALSE
