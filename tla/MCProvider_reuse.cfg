\* One name used again and again in three pools, nine calls, one at a time.
SPECIFICATION FairSpec
CONSTANTS
  p1 = p1  p2 = p2  nodeA = nodeA
  volX = volX  volY = volY  pool1 = pool1  pool2 = pool2  pool3 = pool3  text = text
  NewNote = NewNote  NoPool = NoPool
  Procs <- OneProc
  Nodes <- OneNode
  Names <- OneName
  Pools <- ThreePools
  Sizes <- TwoSizes
  Notes <- OneNote
  Uuids <- OneUuid
  Requests <- ReuseRequests
  MaxRetries = 2
  MaxCalls = 9
PROPERTIES EveryCallReturns EachStepCounts
CHECK_DEADLOCK FALSE
