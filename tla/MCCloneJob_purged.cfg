\* Does a snapshot end when the filer forgets?
SPECIFICATION FairSpec
CONSTANTS
  s1 = s1  s2 = s2  s3 = s3
  Scripts <- FileAndLun
  Kind <- FileThenLun
  Parts <- OneEach
  Retry = 3
  Forgets <- FileAndLun
  MaxFaults = 4
PROPERTY JobCheckEnds
CHECK_DEADLOCK FALSE
