\* Does a script start without a log file?
SPECIFICATION MCSpec
CONSTANTS
  Topics = {"start"}
  BcLimit = 3
  BrLimit = 2
  Wanted <- UpToThreeRequests
  vol1 = vol1  vol2 = vol2  hostA = hostA  hostB = hostB
  Last = 5
  Getters <- Functions
  MaxRecords = 2
  RecordStep = 2
  Limit = 0
  Volumes <- TwoVolumes
  VolumeOf <- Halves
  Initiators <- TwoHosts
  InitiatorsOf <- Igroups
  WantedSet <- TwoHosts
  First = hostA
  MaxChanges = 3
  c1 = c1  c2 = c2  gold = gold  tin = tin  lunA = lunA
  NoSpec = NoSpec
  Clients <- TwoClients
  PolicyNames <- TwoNames
  Luns <- OneLun
  MaxDelete = 1
  MaxGroups = 3
  None = None  vsA = vsA  vsB = vsB  root = root  admin = admin
  Configs <- FourConfigs
  Ports <- AnotherPort
  Logins <- TwoLogins
  Tunnels <- TwoTunnels
  Versions <- FourVersions
  Timeouts <- NoneOrMinute
  EmsLimit = 1
  MaxTime = 2
  api1 = api1  api2 = api2  api3 = api3
  Apis <- ThreeApis
  MaxPages = 3
  Actions <- ThreeActions
  Files <- SomeFiles
  Environments <- SomeEnvironments
INVARIANT LogfileOptional
CHECK_DEADLOCK FALSE
