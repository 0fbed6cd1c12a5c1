----------------------------- MODULE StartProofs -----------------------------
(***************************************************************************)
(* Theorems about what is checked before anything is done: the options of  *)
(* a script (Startup), for all files and environments, and the APIs a user *)
(* may call (ApiCheck), for all sets of them and any number of pages.      *)
(***************************************************************************)
EXTENDS Startup, ApiCheck, TLAPS

(***************************************************************************)
(* The start of a script                                                   *)
(***************************************************************************)

\* Where in its course a script is: nothing is chosen before the checks are passed,
\* nothing is printed before there is a log, and on an attach nothing at all.
Course ==
  /\ place \in {"file", "env", "check"} => provider = "none"
  /\ place \in {"log", "run"} => provider # "none"
  /\ place \in {"file", "env"} => checked = 0
  /\ place # "done" => ran = "never" /\ "device" \notin output
  /\ place \in {"file", "env", "check", "log"} => output = {}
  /\ place = "run" => "file" \in handlers
  /\ place = "run" /\ action = "attach" => output = {} /\ "stderr" \notin handlers

\* The script has all its options.
Loaded == place = "check" \/ provider # "none"

\* Is b among the options that were checked so far?
Set(b) == \E k \in 1..checked : Checks[k] = b

\* An option is as it was set last, but for a boolean that was checked: that one is
\* the boolean meant by what was set.
MergedInOrder ==
  /\ place = "file" => option = Default
  /\ place = "env" =>
       \A o \in Options : option[o] = IF o \in DOMAIN file THEN file[o] ELSE Default[o]
  /\ Loaded =>
       \A o \in Options :
         option[o] = IF o \in Booleans /\ Set(o) THEN Truth(LastSet(o).is) ELSE LastSet(o)

\* What was checked passed its check, and the checks were those of the protocol.
Passed ==
  Loaded =>
    \A k \in 1..checked : LastSet(OfProtocol(Checks[k])) \in Accepts(Checks[k])

\* The options of the other family are gone, and the provider is that of the family.
OfFamily ==
  /\ Loaded =>
       /\ option.STORAGE_FAMILY = Text("ontap_cluster") => "CLUSTER_MODE_VSERVER" \notin gone
       /\ option.STORAGE_FAMILY = Text("ontap_7mode") => "SEVEN_MODE_VFILER" \notin gone
  /\ provider = "cmode" => option.STORAGE_FAMILY = Text("ontap_cluster")
  /\ provider = "7mode" => option.STORAGE_FAMILY # Text("ontap_cluster")

StartInv ==
  /\ StartTypeOK
  /\ Course
  /\ MergedInOrder
  /\ Passed
  /\ OfFamily
  /\ AnswerIsTrue

LEMMA KeysOfChecks ==
  /\ Len(Checks) = 14
  /\ Checks[1] = "STORAGE_FAMILY" /\ Checks[2] = "STORAGE_PROTOCOL" /\ Checks[3] = "PORT"
  /\ Checks[4] = "TRANSPORT_TYPE" /\ Checks[5] = "VERIFY_CERT" /\ Checks[6] = "LOGIN"
  /\ Checks[7] = "PASSWORD" /\ Checks[8] = "LUN_SPACE_RESERVATION"
  /\ Checks[9] = "POOL_NAME_SEARCH_PATTERN" /\ Checks[10] = "LUN_OSTYPE"
  /\ Checks[11] = "POOL" /\ Checks[12] = "LUN_DEVICE_PATH_FORMAT"
  /\ Checks[13] = "ATTACH_COMMANDS" /\ Checks[14] = "DETACH_COMMANDS"
BY DEF Checks

\* A boolean is checked once.
LEMMA BooleansOnce ==
  \A j, k \in 1..14 : Checks[j] \in Booleans /\ Checks[j] = Checks[k] => j = k
<1>1. \A k \in 1..14 : Checks[k] = "VERIFY_CERT" => k = 5
  BY DEF Checks
<1>2. \A k \in 1..14 : Checks[k] = "LUN_SPACE_RESERVATION" => k = 8
  BY DEF Checks
<1> QED
  BY <1>1, <1>2 DEF Booleans

\* Every option but those that may have any value, and those of one protocol, is checked.
LEMMA AllChecked ==
  ASSUME NEW o \in Options, o \notin Unchecked \cup OfOneProtocol
  PROVE  \E k \in 1..12 : o = Checks[k]
<1>1. o \in {"STORAGE_FAMILY", "STORAGE_PROTOCOL", "PORT", "TRANSPORT_TYPE", "VERIFY_CERT",
            "LOGIN", "PASSWORD", "LUN_SPACE_RESERVATION", "POOL_NAME_SEARCH_PATTERN",
            "LUN_OSTYPE", "POOL", "LUN_DEVICE_PATH_FORMAT"}
  BY DEF Options, Default, Unchecked, OfOneProtocol
<1>2. {1, 2, 3, 4, 5, 6, 7, 8, 9, 10, 11, 12} \subseteq 1..12
  OBVIOUS
<1> QED
  BY <1>1, <1>2, KeysOfChecks

LEMMA KeysOfOptions ==
  /\ DOMAIN Default = Options
  /\ {"STORAGE_FAMILY", "STORAGE_PROTOCOL", "PORT", "LOGIN", "POOL", "CLUSTER_MODE_VSERVER",
      "SEVEN_MODE_VFILER", "SEVEN_MODE_PARTNER_BACKEND_NAME", "ISCSI_ATTACH_COMMANDS",
      "ISCSI_DETACH_COMMANDS", "FC_ATTACH_COMMANDS", "FC_DETACH_COMMANDS"} \cup Booleans
       \subseteq Options
BY DEF Options, Default, Booleans

\* The key that is looked up is an option, and a boolean only when the check is for it.
LEMMA KeyOfCheck ==
  ASSUME NEW k \in 1..Len(Checks)
  PROVE  /\ OfProtocol(Checks[k]) \in Options
         /\ OfProtocol(Checks[k]) \in Booleans <=> Checks[k] \in Booleans
         /\ OfProtocol(Checks[k]) \in Booleans => OfProtocol(Checks[k]) = Checks[k]
BY DEF Checks, Options, Default, Booleans, OfProtocol

\* The first state.
LEMMA StartBegins == StartInit => StartInv
<1> SUFFICES ASSUME StartInit PROVE StartInv
  OBVIOUS
<1>1. StartTypeOK
  BY KeysOfOptions, KeysOfChecks DEF StartInit, StartTypeOK
<1> QED
  BY <1>1 DEF StartInit, StartInv, Course, MergedInOrder, Passed, OfFamily, AnswerIsTrue,
     Loaded

\* No other step of a script changes what it was given.
LEMMA GivenStays ==
  ASSUME [StartNext]_startVars
  PROVE  /\ action' = action /\ file' = file /\ env' = env
         /\ \A o \in Options : LastSet(o)' = LastSet(o)
<1>1. action' = action /\ file' = file /\ env' = env
  BY DEF StartNext, startVars, ReadFile, FileFails, ReadEnvironment, CheckVal, CheckFails,
     ImportProvider, SetUpLog, LogFails, Runs, Refuses, Raises
<1> QED
  BY <1>1 DEF LastSet

\* The types, at each step.
LEMMA StartTypeKept == StartInv /\ [StartNext]_startVars => StartTypeOK'
<1> SUFFICES ASSUME StartInv, [StartNext]_startVars PROVE StartTypeOK'
  OBVIOUS
<1> USE KeysOfOptions, KeysOfChecks DEF StartTypeOK, StartInv, Course
<1>1. CASE ReadFile
  BY <1>1 DEF ReadFile, Merged
<1>2. CASE FileFails
  BY <1>2 DEF FileFails, Dies
<1>3. CASE ReadEnvironment
  <2>1. gone' \subseteq Options
    BY <1>3 DEF ReadEnvironment
  <2> QED
    BY <1>3, <2>1 DEF ReadEnvironment, Merged
<1>4. CASE CheckVal
  BY <1>4 DEF CheckVal
<1>5. CASE CheckFails
  BY <1>5 DEF CheckFails, Dies
<1>6. CASE ImportProvider
  BY <1>6 DEF ImportProvider
<1>7. CASE SetUpLog
  BY <1>7 DEF SetUpLog
<1>8. CASE LogFails
  BY <1>8 DEF LogFails, Dies
<1>9. CASE Runs
  BY <1>9 DEF Runs
<1>10. CASE Refuses
  BY <1>10 DEF Refuses
<1>11. CASE Raises
  BY <1>11 DEF Raises
<1>12. CASE UNCHANGED startVars
  BY <1>12 DEF startVars
<1> QED
  BY <1>1, <1>2, <1>3, <1>4, <1>5, <1>6, <1>7, <1>8, <1>9, <1>10, <1>11, <1>12 DEF StartNext

\* The course of a script, and what Ganeti gets at its end.
LEMMA CourseKept == StartInv /\ [StartNext]_startVars => Course' /\ AnswerIsTrue'
<1> SUFFICES ASSUME StartInv, [StartNext]_startVars PROVE Course' /\ AnswerIsTrue'
  OBVIOUS
<1>1. CASE ReadFile \/ ReadEnvironment \/ CheckVal \/ ImportProvider \/ UNCHANGED startVars
  BY <1>1 DEF ReadFile, ReadEnvironment, CheckVal, ImportProvider, startVars, StartInv,
     StartTypeOK, Course, AnswerIsTrue
<1>2. CASE FileFails \/ CheckFails \/ LogFails
  BY <1>2 DEF FileFails, CheckFails, LogFails, Dies, StartInv, StartTypeOK, Course, AnswerIsTrue
<1>3. CASE SetUpLog
  BY <1>3 DEF SetUpLog, StartInv, StartTypeOK, Course, AnswerIsTrue
<1>4. CASE Runs
  BY <1>4 DEF Runs, StartInv, StartTypeOK, Course, AnswerIsTrue
<1>5. CASE Refuses
  BY <1>5 DEF Refuses, StartInv, StartTypeOK, Course, AnswerIsTrue
<1>6. CASE Raises
  BY <1>6 DEF Raises, StartInv, StartTypeOK, Course, AnswerIsTrue
<1> QED
  BY <1>1, <1>2, <1>3, <1>4, <1>5, <1>6 DEF StartNext

\* When all is loaded, only a check changes an option, and that one a boolean.
LEMMA OnlyChecks ==
  ASSUME StartInv, [StartNext]_startVars, ~ReadEnvironment, ~CheckVal, Loaded'
  PROVE  /\ Loaded /\ option' = option /\ gone' = gone /\ checked' = checked
BY DEF StartNext, startVars, ReadFile, FileFails, CheckFails, ImportProvider, SetUpLog,
   LogFails, Runs, Refuses, Raises, Dies, StartInv, StartTypeOK, Course, Loaded

\* An option that is not a boolean is as it was set last.
LEMMA AsSet ==
  ASSUME StartInv, Loaded, NEW o \in Options, o \notin Booleans
  PROVE  option[o] = LastSet(o)
BY DEF StartInv, MergedInOrder

\* A check lets an option pass, and makes a boolean of a boolean.
LEMMA CheckPasses ==
  ASSUME StartInv, CheckVal
  PROVE  /\ MergedInOrder' /\ Passed' /\ OfFamily'
<1> DEFINE k   == checked + 1
           key == OfProtocol(Checks[k])
<1>1. /\ k \in 1..Len(Checks) /\ checked \in 0..14 /\ checked' = k /\ Len(Checks) = 14
      /\ place = "check" /\ place' = "check" /\ provider' = "none" /\ provider = "none"
      /\ gone' = gone /\ Loaded /\ file' = file /\ env' = env
  BY KeysOfChecks DEF CheckVal, StartInv, StartTypeOK, Loaded, Course
<1>2. /\ key \in Options /\ (key \in Booleans <=> Checks[k] \in Booleans)
      /\ key \in Booleans => key = Checks[k]
  BY <1>1, KeyOfCheck
<1>3. /\ option[key] \in Accepts(Checks[k])
      /\ option' = IF key \in Booleans THEN [option EXCEPT ![key] = Truth(option[key].is)] ELSE option
      /\ DOMAIN option = Options
  BY DEF CheckVal, StartInv, StartTypeOK
<1>4. \A o \in Options : LastSet(o)' = LastSet(o)
  BY <1>1 DEF LastSet
<1>5. ASSUME NEW o \in Options
      PROVE  option'[o] = IF o \in Booleans /\ Set(o)' THEN Truth(LastSet(o)'.is) ELSE LastSet(o)'
  <2>1. Set(o)' <=> Set(o) \/ Checks[k] = o
    <3>1. 1..checked' = 1..checked \cup {k} /\ Checks' = Checks
      BY <1>1 DEF Checks
    <3> HIDE DEF k
    <3> QED
      BY <3>1 DEF Set
  <2>2. option[o] = IF o \in Booleans /\ Set(o) THEN Truth(LastSet(o).is) ELSE LastSet(o)
    BY <1>1 DEF StartInv, MergedInOrder
  <2>3. \A x : Truth(Truth(x).is) = Truth(x)
    BY DEF Truth, Value
  <2>4. LastSet(o)' = LastSet(o)
    BY <1>4
  <2> HIDE DEF key, k
  <2>5. CASE o # key
    BY <1>2, <1>3, <2>1, <2>2, <2>4, <2>5
  <2>6. CASE o = key /\ o \in Booleans
    BY <1>2, <1>3, <2>1, <2>2, <2>3, <2>4, <2>6
  <2>7. CASE o = key /\ o \notin Booleans
    BY <1>2, <1>3, <2>1, <2>2, <2>4, <2>7
  <2> QED
    BY <2>5, <2>6, <2>7
<1>6. \A o \in Options \ Booleans : option'[o] = option[o]
  BY <1>2, <1>3
<1>7. option'.STORAGE_PROTOCOL = option.STORAGE_PROTOCOL
      /\ option'.STORAGE_FAMILY = option.STORAGE_FAMILY
  BY <1>6, KeysOfOptions DEF Booleans
<1>8. \A x : OfProtocol(x)' = OfProtocol(x)
  BY <1>7 DEF OfProtocol
<1>9. ASSUME NEW n \in 1..checked'
      PROVE  LastSet(OfProtocol(Checks[n]))' \in Accepts(Checks[n])
  <2>1. n \in 1..Len(Checks) /\ (n \in 1..checked \/ n = k)
    BY <1>1, <1>9
  <2>2. OfProtocol(Checks[n]) \in Options
    BY <2>1, KeyOfCheck
  <2>3. LastSet(OfProtocol(Checks[n])) \in Accepts(Checks[n])
    <3>1. CASE n \in 1..checked
      BY <3>1, <1>1, <1>9 DEF StartInv, Passed
    <3>2. CASE n = k /\ key \notin Booleans
      BY <3>2, <1>1, <1>3, <2>2, AsSet
    <3>3. CASE n = k /\ key \in Booleans
      <4>1. \A j \in 1..checked : j \in 1..14 /\ k \in 1..14 /\ j # k
        BY <1>1
      <4>2. key = Checks[k]
        BY <1>2, <3>3
      <4> HIDE DEF key, k
      <4>3. ~Set(key)
        BY <4>1, <4>2, <3>3, BooleansOnce DEF Set
      <4>4. option[key] = LastSet(key)
        BY <4>3, <1>1, <1>2 DEF StartInv, MergedInOrder
      <4> QED
        BY <4>4, <1>3, <3>3 DEF key
    <3> QED
      BY <2>1, <3>1, <3>2, <3>3
  <2>4. OfProtocol(Checks[n])' = OfProtocol(Checks[n])
    BY <1>8 DEF Checks
  <2>5. LastSet(OfProtocol(Checks[n]))' = LastSet(OfProtocol(Checks[n]))
    BY <2>4, <1>1 DEF LastSet
  <2> QED
    BY <2>3, <2>5
<1>10. MergedInOrder'
  BY <1>1, <1>5 DEF MergedInOrder
<1>11. Passed'
  BY <1>9 DEF Passed, Checks, Accepts
<1>12. OfFamily'
  BY <1>1, <1>7 DEF OfFamily, StartInv, Text, Value
<1> QED
  BY <1>10, <1>11, <1>12

\* When the environment is read, no option was checked yet.
LEMMA EnvironmentLoads ==
  ASSUME StartInv, ReadEnvironment
  PROVE  /\ MergedInOrder' /\ Passed' /\ OfFamily'
<1>1. /\ place = "env" /\ place' = "check" /\ checked' = 0 /\ provider' = "none"
      /\ option' = Merged(env) /\ file' = file /\ env' = env
  BY DEF ReadEnvironment, StartInv, Course
<1>2. ASSUME NEW o \in Options PROVE option'[o] = LastSet(o)'
  BY <1>1 DEF Merged, LastSet, StartInv, MergedInOrder
<1>3. 1..checked' = {}
  BY <1>1
<1>4. MergedInOrder'
  BY <1>1, <1>2, <1>3 DEF MergedInOrder, Set
<1>5. Passed'
  BY <1>3 DEF Passed
<1>6. OfFamily'
  BY <1>1 DEF ReadEnvironment, OfFamily, Text, Value
<1> QED
  BY <1>4, <1>5, <1>6

\* The other steps load nothing and check nothing.
LEMMA OthersKeep ==
  ASSUME StartInv, [StartNext]_startVars, ~ReadEnvironment, ~CheckVal
  PROVE  /\ MergedInOrder' /\ Passed' /\ OfFamily'
<1>1. \A o \in Options : LastSet(o)' = LastSet(o)
  BY GivenStays
<1>2. MergedInOrder'
  <2>1. place' = "file" => option' = Default'
    BY DEF StartNext, startVars, ReadFile, FileFails, CheckFails, ImportProvider, SetUpLog,
       LogFails, Runs, Refuses, Raises, Dies, StartInv, MergedInOrder, Default
  <2>2. place' = "env" =>
          \A o \in Options : option'[o] = IF o \in DOMAIN file' THEN file'[o] ELSE Default[o]
    BY DEF StartNext, startVars, ReadFile, FileFails, CheckFails, ImportProvider, SetUpLog,
       LogFails, Runs, Refuses, Raises, Dies, Merged, StartInv, MergedInOrder
  <2>3. ASSUME Loaded', NEW o \in Options
        PROVE  option'[o] = IF o \in Booleans /\ Set(o)' THEN Truth(LastSet(o)'.is) ELSE LastSet(o)'
    BY <1>1, <2>3, OnlyChecks DEF StartInv, MergedInOrder, Set, Checks
  <2> QED
    BY <2>1, <2>2, <2>3 DEF MergedInOrder, Options, Default
<1>3. Passed'
  <2> SUFFICES ASSUME Loaded', NEW k \in 1..checked'
               PROVE  LastSet(OfProtocol(Checks[k]))' \in Accepts(Checks[k])
    BY DEF Passed, Checks, Accepts
  <2>1. Loaded /\ option' = option /\ checked' = checked
    BY OnlyChecks
  <2>2. LastSet(OfProtocol(Checks[k])) \in Accepts(Checks[k])
    BY <2>1 DEF StartInv, Passed
  <2>3. OfProtocol(Checks[k])' = OfProtocol(Checks[k])
    BY <2>1 DEF OfProtocol, Checks
  <2>4. LastSet(OfProtocol(Checks[k]))' = LastSet(OfProtocol(Checks[k]))
    BY <2>3, GivenStays DEF LastSet
  <2> QED
    BY <2>2, <2>4
<1>4. OfFamily'
  <2>1. CASE ImportProvider
    BY <2>1 DEF ImportProvider, StartInv, OfFamily, Loaded, Text, Value
  <2>2. CASE ~ImportProvider
    <3>1. provider' = provider
      BY <2>2 DEF StartNext, startVars, ReadFile, FileFails, CheckFails, SetUpLog,
         LogFails, Runs, Refuses, Raises, Dies
    <3>2. provider # "none" => Loaded'
      BY <3>1 DEF Loaded
    <3> QED
      BY <3>1, <3>2, OnlyChecks DEF StartInv, StartTypeOK, OfFamily
  <2> QED
    BY <2>1, <2>2
<1> QED
  BY <1>2, <1>3, <1>4

LEMMA StartInvariant == StartSpec => []StartInv
<1>1. StartInv /\ [StartNext]_startVars => StartInv'
  BY StartTypeKept, CourseKept, CheckPasses, EnvironmentLoads, OthersKeep DEF StartInv
<1> QED
  BY <1>1, StartBegins, PTL DEF StartSpec

\* Every variable of the start has its type, a provider is chosen only when every check
\* was passed, and an action runs only with a provider and a log.
THEOREM StartTypeCorrect == StartSpec => []StartTypeOK
<1>1. StartInv => StartTypeOK
  BY DEF StartInv
<1> QED
  BY <1>1, StartInvariant, PTL

\* Whatever the file and the environment set: a boolean that is used is a boolean, and
\* means what was set last.
THEOREM BooleanMeansHolds == StartSpec => []BooleanMeans
<1>1. ASSUME StartInv, provider # "none", NEW b \in Booleans
      PROVE  option[b] = Truth(LastSet(b).is)
  <2>1. checked = 14 /\ b \in Options
    BY <1>1, KeysOfOptions, KeysOfChecks DEF StartInv, StartTypeOK
  <2>2. 5 \in 1..checked /\ 8 \in 1..checked
    BY <2>1
  <2>3. Set(b)
    BY <2>2, KeysOfChecks DEF Set, Booleans
  <2> QED
    BY <1>1, <2>1, <2>3 DEF StartInv, MergedInOrder, Loaded
<1>2. StartInv => BooleanMeans
  BY <1>1 DEF BooleanMeans
<1> QED
  BY <1>2, StartInvariant, PTL

\* Whatever the file and the environment set: an action runs with options as they were
\* set last, all of which passed their checks, the commands among them those of its
\* protocol.
THEOREM StartedIsValidHolds == StartSpec => []StartedIsValid
<1>1. ASSUME StartInv, ran # "never" PROVE StartedIsValid
  <2>1. checked = 14 /\ Loaded /\ provider # "none"
    BY <1>1, KeysOfChecks DEF StartInv, StartTypeOK, Loaded
  <2>2. \A k \in 1..14 : LastSet(OfProtocol(Checks[k])) \in Accepts(Checks[k])
    BY <1>1, <2>1 DEF StartInv, Passed
  <2>3. \A o \in Options \ Booleans : option[o] = LastSet(o)
    BY <1>1, <2>1, AsSet
  <2>4. ASSUME NEW o \in Options \ (Unchecked \cup OfOneProtocol)
        PROVE  LastSet(o) \in Accepts(o)
    <3>1. PICK k \in 1..12 : o = Checks[k]
      BY AllChecked
    <3>2. OfProtocol(o) = o
      BY <2>4, KeysOfChecks DEF OfProtocol, Options, Default
    <3> QED
      BY <2>2, <3>1, <3>2
  <2>5. /\ option.STORAGE_PROTOCOL = LastSet("STORAGE_PROTOCOL")
        /\ option.STORAGE_FAMILY = LastSet("STORAGE_FAMILY")
    BY <2>3, KeysOfOptions DEF Booleans
  <2>6. /\ LastSet(OfProtocol("ATTACH_COMMANDS")) = Commands
        /\ LastSet(OfProtocol("DETACH_COMMANDS")) = Commands
    <3>1. 13 \in 1..14 /\ 14 \in 1..14
      OBVIOUS
    <3>2. /\ LastSet(OfProtocol("ATTACH_COMMANDS")) \in Accepts("ATTACH_COMMANDS")
          /\ LastSet(OfProtocol("DETACH_COMMANDS")) \in Accepts("DETACH_COMMANDS")
      BY <2>2, <3>1, KeysOfChecks
    <3> QED
      BY <3>2 DEF Booleans, Accepts
  <2>7. /\ LastSet("STORAGE_PROTOCOL") = Text("fc") =>
             {LastSet("FC_ATTACH_COMMANDS"), LastSet("FC_DETACH_COMMANDS")} = {Commands}
        /\ LastSet("STORAGE_PROTOCOL") = Text("iscsi") =>
             {LastSet("ISCSI_ATTACH_COMMANDS"), LastSet("ISCSI_DETACH_COMMANDS")} = {Commands}
    BY <2>5, <2>6 DEF OfProtocol, Text, Value
  <2>8. option.STORAGE_FAMILY \in {Text("ontap_cluster"), Text("ontap_7mode")}
    <3>1. Accepts("STORAGE_FAMILY") = {Text("ontap_cluster"), Text("ontap_7mode")}
      BY DEF Accepts, Booleans
    <3>2. "STORAGE_FAMILY" \in Options \ (Unchecked \cup OfOneProtocol)
      BY KeysOfOptions DEF Unchecked, OfOneProtocol
    <3> QED
      BY <2>4, <2>5, <3>1, <3>2
  <2>9. /\ provider = "cmode" => "CLUSTER_MODE_VSERVER" \notin gone
        /\ provider = "7mode" => "SEVEN_MODE_VFILER" \notin gone
    BY <1>1, <2>1, <2>8 DEF StartInv, OfFamily
  <2> QED
    BY <2>3, <2>4, <2>7, <2>9 DEF StartedIsValid
<1>2. StartInv => StartedIsValid
  BY <1>1 DEF StartedIsValid
<1> QED
  BY <1>2, StartInvariant, PTL

\* Wherever a script ends, also where it raises or returns a status of its own, Ganeti is
\* told of success exactly when the action was done, and gets the device, and nothing
\* else, from an attach that succeeds.
THEOREM AnswerIsTrueHolds == StartSpec => []AnswerIsTrue
<1>1. StartInv => AnswerIsTrue
  BY DEF StartInv
<1> QED
  BY <1>1, StartInvariant, PTL

-----------------------------------------------------------------------------
(***************************************************************************)
(* The check of the APIs                                                   *)
(***************************************************************************)

\* Where each API is called, those called so far are sorted into what may be called,
\* what may not, and what was not answered; where the capabilities are listed, what was
\* not shown yet is reported.
Sorted ==
  /\ branch \in {"each", "list", "neither"} /\ outcome \in {"none", "returned", "raised"}
  /\ branch = "each" =>
       /\ untried \subseteq api_list
       /\ failed_apis \subseteq (api_list \ untried) \ permitted
       /\ ((api_list \ untried) \ permitted) \ failed_apis \subseteq unanswered
       /\ outcome = "returned" => untried = {}
  /\ branch = "list" =>
       /\ shown \subseteq permitted
       /\ failed_apis = api_list \ shown
       /\ outcome = "returned" => shown = permitted
  /\ branch = "neither" => outcome # "returned"

LEMMA SortedKept == Sorted /\ [ApisNext]_apisVars => Sorted'
<1> SUFFICES ASSUME Sorted, [ApisNext]_apisVars PROVE Sorted'
  OBVIOUS
<1> USE DEF Sorted
<1>1. ASSUME NEW api \in Apis, CheckOne(api) PROVE Sorted'
  BY <1>1 DEF CheckOne
<1>2. ASSUME NEW api \in Apis, CheckOneFails(api) PROVE Sorted'
  BY <1>2 DEF CheckOneFails
<1>3. ASSUME NEW part \in SUBSET Apis, NEW last \in BOOLEAN, Capabilities(part, last) PROVE Sorted'
  BY <1>3 DEF Capabilities, IsCapabilityPage
<1>4. CASE CapabilitiesFail
  BY <1>4 DEF CapabilitiesFail
<1>5. CASE VersionRaises
  BY <1>5 DEF VersionRaises
<1>6. CASE UNCHANGED apisVars
  BY <1>6 DEF apisVars
<1> QED
  BY <1>1, <1>2, <1>3, <1>4, <1>5, <1>6 DEF ApisNext

\* For all APIs, permissions and pages: what is returned are wanted APIs that the user
\* may not call, and of those only one whose trial failed otherwise is missing.
THEOREM ReportIsRightHolds == ApisSpec => []ReportIsRight
<1>1. ApisInit => Sorted
  BY DEF ApisInit, Sorted
<1>2. Sorted => ReportIsRight
  BY DEF Sorted, ReportIsRight
<1> QED
  BY <1>1, <1>2, SortedKept, PTL DEF ApisSpec
=============================================================================
