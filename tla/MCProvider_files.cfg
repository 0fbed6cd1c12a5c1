\* A name is used again in another pool: two device files.
SPECIFICATION Spec
CONSTANTS
  p1 = p1  p2 = p2  nodeA = nodeA
  volX = volX  volY = volY  pool1 = pool1  pool2 = pool2  pool3 = pool3  text = text
  NewNote = NewNote  NoPool = NoPool
  Procs <- OneProc
  Nodes <- OneNode
  Names <- OneName
  Pools <- TwoPools
  Sizes <- TwoSizes
  Notes <- OneNote
  Uuids <- OneUuid
  Requests <- ReuseRequests
  MaxRetries = 2
  MaxCalls = 5
PROPERTY NotFoundMeansNone
CHECK_DEADLOCK FALSE
