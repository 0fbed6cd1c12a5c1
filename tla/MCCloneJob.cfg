\* Two snapshots and a clone_file; the filer may forget the last two operations.
SPECIFICATION FairSpec
CONSTANTS
  s1 = s1  s2 = s2  s3 = s3
  Scripts <- AllThree
  Kind <- LunFileLun
  Parts <- TwoThenOne
  Retry = 3
  Forgets <- FileAndLun
  MaxFaults = 4
INVARIANT FailedIsCleared
PROPERTIES ImplementsCloneService FileEnds LunEnds EachStepCounts
CHECK_DEADLOCK FALSE
