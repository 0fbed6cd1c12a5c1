\* Two scripts at a time, three calls, two volume names, two pools.
SPECIFICATION Spec
CONSTANTS
  p1 = p1  p2 = p2  nodeA = nodeA
  volX = volX  volY = volY  pool1 = pool1  pool2 = pool2  pool3 = pool3  text = text
  NewNote = NewNote  NoPool = NoPool
  Procs <- TwoProcs
  Nodes <- OneNode
  Names <- TwoNames
  Pools <- TwoPools
  Sizes <- TwoSizes
  Notes <- OneNote
  Uuids <- OneUuid
  Requests <- FilerRequests
  MaxRetries = 2
  MaxCalls = 3
SYMMETRY Symmetric
INVARIANT TypeOK
PROPERTY ImplementsService
CHECK_DEADLOCK FALSE
