\* The life of one volume and its snapshot on two nodes, six calls.
SPECIFICATION ClusterSpec
CONSTANTS
  p1 = p1  p2 = p2  nodeA = nodeA  nodeB = nodeB  i1 = i1  i2 = i2
  volX = volX  volY = volY  snap = snap  pool1 = pool1  pool2 = pool2  text = text
  NewNote = NewNote  NoPool = NoPool  NoInstance = NoInstance  Unsure = Unsure
  Procs <- OneProc
  Nodes <- TwoNodes
  Names <- LifeNames
  Uuids <- LifeNames
  Pools <- OnePool
  Sizes <- LifeSizes
  Notes <- OneNote
  Requests <- LifeRequests
  MaxRetries = 2
  MaxCalls = 6
  Master = nodeA
  CleanupCmd = TRUE
  QuietFailures = TRUE
  Instances <- OneInstance
  DisksOf <- LifeDisks
  SnapsOf <- LifeSnaps
  IgnoreFailures = FALSE
INVARIANTS ClusterTypeOK AckedIsServed PrimaryCurrent
PROPERTY MovedIsVisible
CHECK_DEADLOCK FALSE
