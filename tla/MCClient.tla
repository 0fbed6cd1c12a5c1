------------------------------- MODULE MCClient -------------------------------
(***************************************************************************)
(* Small instances for TLC of the client and of how a script gets to it:   *)
(* a clone cut into requests, a list read page by page, QoS groups that    *)
(* are marked and deleted, the connection and its copies, the check of the *)
(* APIs, and the start of a script.  They share no state; topic says which *)
(* of them a behaviour is about, and the others keep one initial state.    *)
(***************************************************************************)
EXTENDS CloneRanges, Paging, QosGroups, Connection, ApiCheck, Startup, TLC

CONSTANTS Topics, vol1, vol2, hostA, hostB, c1, c2, gold, tin, lunA, vsA, vsB, root, admin,
          api1, api2, api3

VARIABLE topic

\* Ranges of 3 blocks, two in a request: all counts up to three full requests
\* and one block, and two offsets.
UpToThreeRequests == [src : {0, 2}, dest : {0, 5}, count : 0..19]

\* Five records on two volumes.  Of the igroups, two match the first initiator
\* only or the second only, one none, and the others match both.
TwoVolumes == {vol1, vol2}
Halves     == [r \in Records |-> IF r % 2 = 0 THEN vol1 ELSE vol2]
TwoHosts   == {hostA, hostB}
Igroups    == [r \in Records |-> CASE r = 1 -> {hostA} [] r = 2 -> {hostB} [] r = 3 -> {}
                                   [] OTHER -> TwoHosts]

TwoClients == {c1, c2}
TwoNames   == {gold, tin}
OneLun     == {lunA}
\* Clients are interchangeable.
Symmetric  == Permutations(TwoClients)

\* Clients of both kinds, with and without a port, 0 among them, and a tunnel; and a
\* filer with a version that has no tunnels, one with few features, one with all, and
\* one whose minor number is small.
TwoTunnels   == {vsA, vsB}
TwoLogins    == {root, admin}
AnotherPort  == {9000}
FourVersions == {<<1, 6>>, <<1, 15>>, <<1, 31>>, <<2, 0>>}
NoneOrMinute == {0, 60}
Config(f, tr, p, t) == [family |-> f, transport |-> tr, port |-> p, tunnel |-> t, login |-> root]
FourConfigs  == {Config("cluster", "https", None, vsA), Config("cluster", "http", 8080, None),
                 Config("7mode", "https", 0, vsA), Config("7mode", "http", None, None)}

ThreeApis == {api1, api2, api3}

\* The file sets the login, and perhaps one more option, valid or not, or the protocol
\* and its commands; the environment one option, as a string or None.
ThreeActions == {"create", "attach", "post_remove"}
LoginSet  == [o \in {"LOGIN", "PASSWORD"} |-> Text("valid")]
Set(os, vs) == {o :> v : o \in os, v \in vs}
Words     == {Text("true"), Text("false"), Text("invalid")}
InFile ==
  Set(Booleans, Words \cup {Truth("false"), Nothing})
  \cup Set({"STORAGE_FAMILY"}, {Text("ontap_7mode"), Text("other")})
  \cup Set({"PORT"}, {Value("int", "valid"), Value("int", "invalid")})
  \cup Set({"TRANSPORT_TYPE"}, {Text("http"), Text("other")})
  \cup Set({"LUN_OSTYPE"}, {Text("windows"), Text("other")})
  \cup Set({"POOL_NAME_SEARCH_PATTERN", "LUN_DEVICE_PATH_FORMAT", "POOL"}, {Text("invalid"), Nothing})
  \cup Set({"LOGIN", "PASSWORD"}, {Text("invalid"), Nothing})
  \cup Set({"LOGFILE"}, {Nothing})
  \cup {"STORAGE_PROTOCOL" :> Text("fc") @@ c :
          c \in Set({"FC_ATTACH_COMMANDS", "ISCSI_DETACH_COMMANDS"}, {Commands, Text("other")})}
SomeFiles == {<<>>, LoginSet} \cup {f @@ LoginSet : f \in InFile}
SomeEnvironments ==
  {<<>>} \cup Set(Booleans, Words \cup {Nothing})
  \cup Set({"POOL", "PORT", "PASSWORD"}, {Text("valid"), Text("invalid"), Nothing})
  \cup Set({"TRANSPORT_TYPE", "LUN_OSTYPE"}, {Text("other")})
  \cup Set({"STORAGE_FAMILY"}, {Text("ontap_7mode"), Text("other")})

MCInit ==
  /\ topic \in Topics
  /\ RangesInit /\ (topic # "ranges" => want = [src |-> 0, dest |-> 0, count |-> 0])
  /\ PagingInit /\ (topic # "paging" => getter = "get_lun_list" /\ stored = {})
  /\ QosInit
  /\ ConnInit /\ (topic # "connection" => options = Config("7mode", "http", None, None))
  /\ ApisInit /\ (topic # "apis" => branch = "each" /\ api_list = {api1} /\ permitted = {})
  /\ StartInit /\ (topic # "start" => action = "create" /\ file = <<>> /\ env = <<>>)

MCNext ==
  \/ /\ topic = "ranges" /\ RangesNext
     /\ UNCHANGED <<topic, pagingVars, qosVars, connVars, apisVars, startVars>>
  \/ /\ topic = "paging" /\ PagingNext
     /\ UNCHANGED <<topic, rangesVars, qosVars, connVars, apisVars, startVars>>
  \/ /\ topic = "qos" /\ QosNext
     /\ UNCHANGED <<topic, rangesVars, pagingVars, connVars, apisVars, startVars>>
  \/ /\ topic = "connection" /\ ConnNext
     /\ UNCHANGED <<topic, rangesVars, pagingVars, qosVars, apisVars, startVars>>
  \/ /\ topic = "apis" /\ ApisNext
     /\ UNCHANGED <<topic, rangesVars, pagingVars, qosVars, connVars, startVars>>
  \/ /\ topic = "start" /\ StartNext
     /\ UNCHANGED <<topic, rangesVars, pagingVars, qosVars, connVars, apisVars>>

MCSpec ==
  MCInit /\ [][MCNext]_<<topic, rangesVars, pagingVars, qosVars, connVars, apisVars, startVars>>
===============================================================================
