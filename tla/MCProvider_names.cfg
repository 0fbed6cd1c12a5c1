\* Snapshots into names that are in use.
SPECIFICATION Spec
CONSTANTS
  p1 = p1  p2 = p2  nodeA = nodeA
  volX = volX  volY = volY  pool1 = pool1  pool2 = pool2  pool3 = pool3  text = text
  NewNote = NewNote  NoPool = NoPool
  Procs <- OneProc
  Nodes <- OneNode
  Names <- TwoNames
  Pools <- TwoPools
  Sizes <- TwoSizes
  Notes <- OneNote
  Uuids <- OneUuid
  Requests <- SnapshotRequests
  MaxRetries = 2
  MaxCalls = 3
INVARIANT SingleMatch
CHECK_DEADLOCK FALSE
