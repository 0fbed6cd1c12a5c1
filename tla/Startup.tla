------------------------------- MODULE Startup -------------------------------
(***************************************************************************)
(* How a script starts: the options are loaded (configuration) and checked *)
(* one by one, the provider of the storage family is chosen, the log is    *)
(* set up, and the action runs (common).  An option comes from the         *)
(* defaults, the file of the administrator, or the environment, where      *)
(* Ganeti puts the parameters of a disk: a string, or None when it is      *)
(* empty.  What is raised before the action runs ends the script with      *)
(* status 1, whatever it is.                                               *)
(***************************************************************************)
EXTENDS Integers, Sequences

CONSTANTS
  Actions,      \* the actions a script is installed for
  Files,        \* what /etc/ganeti/extstorage-dataontap.conf may set, option by option
  Environments  \* what EXTP_ variables may set

\* A value of a type; "is" tells its meaning, or whether the option may have it.
Value(type, is) == [type |-> type, is |-> is]
Nothing  == Value("none", "none")
Text(t)  == Value("str", t)
Truth(b) == Value("bool", b)
Commands == Value("list", "valid")

Default == [
  LOGFILE |-> Text("path"),
  STORAGE_FAMILY |-> Text("ontap_cluster"), STORAGE_PROTOCOL |-> Text("iscsi"),
  PORT |-> Nothing, TRANSPORT_TYPE |-> Text("https"), VERIFY_CERT |-> Truth("true"),
  LOGIN |-> Nothing, PASSWORD |-> Nothing, LUN_SPACE_RESERVATION |-> Truth("true"),
  CLUSTER_MODE_VSERVER |-> Nothing, SEVEN_MODE_VFILER |-> Nothing,
  SEVEN_MODE_PARTNER_BACKEND_NAME |-> Nothing,
  LUN_OSTYPE |-> Text("linux"), POOL_NAME_SEARCH_PATTERN |-> Text("valid"),
  POOL |-> Text("valid"), LUN_DEVICE_PATH_FORMAT |-> Text("valid"),
  ISCSI_ATTACH_COMMANDS |-> Commands, ISCSI_DETACH_COMMANDS |-> Commands,
  FC_ATTACH_COMMANDS |-> Commands, FC_DETACH_COMMANDS |-> Commands]

Options  == DOMAIN Default
Booleans == {"VERIFY_CERT", "LUN_SPACE_RESERVATION"}

VARIABLES
  action, file, env,
  option,       \* the options as they are now
  gone,         \* those that were deleted
  place,        \* "file", "env", "check", "log", "run", "done"
  checked,      \* how many of the checks were passed
  provider,     \* "none", "cmode", "7mode"
  handlers,     \* where the log goes
  output,       \* what Ganeti gets: "traceback", "log", "device"
  ran,          \* the action: "never", "ok", "refused" (it returned a status), "raised"
  status        \* the exit status, -1 before the end

startVars == <<action, file, env, option, gone, place, checked, provider, handlers, output, ran,
               status>>

StartInit ==
  /\ action \in Actions /\ file \in Files /\ env \in Environments
  /\ option = Default /\ gone = {} /\ place = "file" /\ checked = 0
  /\ provider = "none" /\ handlers = {} /\ output = {} /\ ran = "never" /\ status = -1

Merged(f) == [o \in Options |-> IF o \in DOMAIN f THEN f[o] ELSE option[o]]

\* An exception that nothing catches.
Dies == place' = "done" /\ status' = 1 /\ output' = output \cup {"traceback"}

ReadFile ==
  /\ place = "file"
  /\ option' = Merged(file) /\ place' = "env"
  /\ UNCHANGED <<action, file, env, gone, checked, provider, handlers, output, ran, status>>

\* The file raises; what it has set until then does not matter.
FileFails ==
  /\ place = "file" /\ Dies
  /\ UNCHANGED <<action, file, env, option, gone, checked, provider, handlers, ran>>

\* The options of the other family are deleted at once.
ReadEnvironment ==
  /\ place = "env"
  /\ option' = Merged(env) /\ place' = "check"
  /\ gone' = CASE option'.STORAGE_FAMILY = Text("ontap_cluster") ->
                    {"SEVEN_MODE_VFILER", "SEVEN_MODE_PARTNER_BACKEND_NAME"}
               [] option'.STORAGE_FAMILY = Text("ontap_7mode") -> {"CLUSTER_MODE_VSERVER"}
               [] OTHER -> {}
  /\ UNCHANGED <<action, file, env, checked, provider, handlers, output, ran, status>>

\* Mutant: the check of the password is missing.
ChecksButPassword ==
  <<"STORAGE_FAMILY", "STORAGE_PROTOCOL", "PORT", "TRANSPORT_TYPE", "VERIFY_CERT", "LOGIN",
    "LUN_SPACE_RESERVATION", "POOL_NAME_SEARCH_PATTERN", "LUN_OSTYPE", "POOL",
    "LUN_DEVICE_PATH_FORMAT", "ATTACH_COMMANDS", "DETACH_COMMANDS">>

Checks == <<"STORAGE_FAMILY", "STORAGE_PROTOCOL", "PORT", "TRANSPORT_TYPE", "VERIFY_CERT",
            "LOGIN", "PASSWORD", "LUN_SPACE_RESERVATION", "POOL_NAME_SEARCH_PATTERN",
            "LUN_OSTYPE", "POOL", "LUN_DEVICE_PATH_FORMAT", "ATTACH_COMMANDS",
            "DETACH_COMMANDS">>

\* Mutant: the commands of iSCSI are checked.
OfIscsi(key) ==
  CASE key = "ATTACH_COMMANDS" -> "ISCSI_ATTACH_COMMANDS"
    [] key = "DETACH_COMMANDS" -> "ISCSI_DETACH_COMMANDS"
    [] OTHER -> key

\* The commands are those of the protocol.
OfProtocol(key) ==
  LET iscsi == option.STORAGE_PROTOCOL = Text("iscsi")
  IN  CASE key = "ATTACH_COMMANDS" -> IF iscsi THEN "ISCSI_ATTACH_COMMANDS" ELSE "FC_ATTACH_COMMANDS"
        [] key = "DETACH_COMMANDS" -> IF iscsi THEN "ISCSI_DETACH_COMMANDS" ELSE "FC_DETACH_COMMANDS"
        [] OTHER -> key

\* The values a check lets pass; the others raise a ValueError, or, as a pool that
\* is None does, a TypeError that _check_val does not catch.
Accepts(key) ==
  CASE key = "STORAGE_FAMILY"   -> {Text("ontap_cluster"), Text("ontap_7mode")}
    [] key = "STORAGE_PROTOCOL" -> {Text("iscsi"), Text("fc")}
    [] key = "TRANSPORT_TYPE"   -> {Text("http"), Text("https")}
    [] key = "LUN_OSTYPE"       -> {Text("linux"), Text("windows")}
    [] key = "PORT"             -> {Nothing, Value("int", "valid")}
    [] key \in Booleans         -> {Truth(b) : b \in {"true", "false"}}
                                     \cup {Text(b) : b \in {"true", "false"}}
    [] key \in {"LOGIN", "PASSWORD"} -> {Text("valid"), Text("invalid")}
    [] key \in {"ATTACH_COMMANDS", "DETACH_COMMANDS"} -> {Commands}
    [] OTHER                    -> {Text("valid")}

\* Mutant: a boolean is checked, and left as it is.
CheckValOnly ==
  /\ place = "check" /\ checked < Len(Checks)
  /\ option[OfProtocol(Checks[checked + 1])] \in Accepts(Checks[checked + 1])
  /\ checked' = checked + 1
  /\ UNCHANGED <<action, file, env, option, gone, place, provider, handlers, output, ran, status>>

\* _check_val, with set_bool.
CheckVal ==
  /\ place = "check" /\ checked < Len(Checks)
  /\ LET key == OfProtocol(Checks[checked + 1])
         val == option[key]
     IN  /\ val \in Accepts(Checks[checked + 1])
         /\ option' = IF key \in Booleans THEN [option EXCEPT ![key] = Truth(val.is)] ELSE option
  /\ checked' = checked + 1
  /\ UNCHANGED <<action, file, env, gone, place, provider, handlers, output, ran, status>>

CheckFails ==
  /\ place = "check" /\ checked < Len(Checks)
  /\ option[OfProtocol(Checks[checked + 1])] \notin Accepts(Checks[checked + 1])
  /\ Dies
  /\ UNCHANGED <<action, file, env, option, gone, checked, provider, handlers, ran>>

\* Mutant: the provider is chosen as soon as the family is known.
ImportProviderEarly ==
  /\ place = "check" /\ checked > 0
  /\ provider' = IF option.STORAGE_FAMILY = Text("ontap_cluster") THEN "cmode" ELSE "7mode"
  /\ place' = "log"
  /\ UNCHANGED <<action, file, env, option, gone, checked, handlers, output, ran, status>>

\* The import of a provider by common.
ImportProvider ==
  /\ place = "check" /\ checked = Len(Checks)
  /\ provider' = IF option.STORAGE_FAMILY = Text("ontap_cluster") THEN "cmode" ELSE "7mode"
  /\ place' = "log"
  /\ UNCHANGED <<action, file, env, option, gone, checked, handlers, output, ran, status>>

\* configuration.LOG is the logger of that module: there is always a log file.
SetUpLog ==
  /\ place = "log" /\ option.LOGFILE # Nothing
  /\ handlers' = {"file"} \cup (IF action = "attach" THEN {} ELSE {"stderr"})
  /\ output' = IF "stderr" \in handlers' THEN output \cup {"log"} ELSE output
  /\ place' = "run"
  /\ UNCHANGED <<action, file, env, option, gone, checked, provider, ran, status>>

\* There is no such file, it cannot be opened, or it is None.
LogFails ==
  /\ place = "log" /\ Dies
  /\ UNCHANGED <<action, file, env, option, gone, checked, provider, handlers, ran>>

Runs ==
  /\ place = "run"
  /\ ran' = "ok" /\ status' = 0 /\ place' = "done"
  /\ output' = IF action = "attach" THEN output \cup {"device"} ELSE output
  /\ UNCHANGED <<action, file, env, option, gone, checked, provider, handlers>>

\* The hook returns a status of its own, and so does attach when it has no device.
Refuses ==
  /\ place = "run"
  /\ \/ action = "post_remove" /\ status' \in {1, 2, 3}
     \/ action = "attach" /\ status' = 1
  /\ ran' = "refused" /\ place' = "done"
  /\ UNCHANGED <<action, file, env, option, gone, checked, provider, handlers, output>>

\* Mutant: the exception is logged, and main returns None.
RaisesQuietly ==
  /\ place = "run"
  /\ ran' = "raised" /\ status' = 0 /\ place' = "done"
  /\ output' = IF "stderr" \in handlers THEN output \cup {"log"} ELSE output
  /\ UNCHANGED <<action, file, env, option, gone, checked, provider, handlers>>

\* The constructor of the provider or the action raises.
Raises ==
  /\ place = "run"
  /\ ran' = "raised" /\ status' = 2 /\ place' = "done"
  /\ output' = IF "stderr" \in handlers THEN output \cup {"log"} ELSE output
  /\ UNCHANGED <<action, file, env, option, gone, checked, provider, handlers>>

StartNext ==
  \/ ReadFile \/ FileFails \/ ReadEnvironment
  \/ CheckVal \/ CheckFails \/ ImportProvider
  \/ SetUpLog \/ LogFails
  \/ Runs \/ Refuses \/ Raises

StartSpec == StartInit /\ [][StartNext]_startVars
-----------------------------------------------------------------------------
(* Properties *)

\* The types of the variables; a provider is there only when every check was passed,
\* and an action runs only with a provider and a log.
StartTypeOK ==
  /\ action \in Actions /\ file \in Files /\ env \in Environments
  /\ DOMAIN option = Options /\ gone \subseteq Options
  /\ place \in {"file", "env", "check", "log", "run", "done"} /\ checked \in 0..Len(Checks)
  /\ provider \in {"none", "cmode", "7mode"} /\ (provider # "none" => checked = Len(Checks))
  /\ handlers \subseteq {"file", "stderr"} /\ output \subseteq {"traceback", "log", "device"}
  /\ ran \in {"never", "ok", "refused", "raised"}
  /\ (ran # "never" => provider # "none" /\ "file" \in handlers)
  /\ status \in -1..3 /\ (status = -1 <=> place # "done")

\* Where an option was set last.
LastSet(o) ==
  IF o \in DOMAIN env THEN env[o] ELSE IF o \in DOMAIN file THEN file[o] ELSE Default[o]

\* "some boolean values may be provided by environment variables": whatever way it was
\* written, a boolean that is used means what was written, and is a boolean: the
\* string "no" is true.
BooleanMeans ==
  provider # "none" => \A b \in Booleans : option[b] = Truth(LastSet(b).is)

\* Options that may have any value, and those that one protocol has.
Unchecked    == {"LOGFILE", "CLUSTER_MODE_VSERVER", "SEVEN_MODE_VFILER",
                 "SEVEN_MODE_PARTNER_BACKEND_NAME"}
OfOneProtocol == {"ISCSI_ATTACH_COMMANDS", "ISCSI_DETACH_COMMANDS",
                  "FC_ATTACH_COMMANDS", "FC_DETACH_COMMANDS"}

\* An action never runs with an option that is not valid ("Validate the configuration"):
\* every option is as it was set last and of the values it may have, the commands of the
\* protocol are lists of commands, and the options of the storage family are there.
StartedIsValid ==
  ran # "never" =>
    /\ \A o \in Options \ Booleans : option[o] = LastSet(o)
    /\ \A o \in Options \ (Unchecked \cup OfOneProtocol) : LastSet(o) \in Accepts(o)
    /\ LastSet("STORAGE_PROTOCOL") = Text("fc") =>
         {LastSet("FC_ATTACH_COMMANDS"), LastSet("FC_DETACH_COMMANDS")} = {Commands}
    /\ LastSet("STORAGE_PROTOCOL") = Text("iscsi") =>
         {LastSet("ISCSI_ATTACH_COMMANDS"), LastSet("ISCSI_DETACH_COMMANDS")} = {Commands}
    /\ provider = "cmode" => "CLUSTER_MODE_VSERVER" \notin gone
    /\ provider = "7mode" => "SEVEN_MODE_VFILER" \notin gone

\* Ganeti is told of success only when the action was done, wherever a script stops,
\* and takes nothing but the device from the output of a successful attach.
AnswerIsTrue ==
  place = "done" =>
    /\ status = 0 <=> ran = "ok"
    /\ action = "attach" => ("device" \in output <=> status = 0)
    /\ action = "attach" /\ status = 0 => output = {"device"}

\* "If you don't need this, then set it to None": without a log file a script with
\* valid options gets to its action.
LogfileOptional ==
  place = "done" /\ provider # "none" /\ option.LOGFILE = Nothing => ran # "never"
==============================================================================
