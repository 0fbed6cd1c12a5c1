------------------------------ MODULE Provider ------------------------------
(***************************************************************************)
(* The ExtStorage scripts of DataOnTapProviderBase (cluster mode).  Every  *)
(* call of a script is a process of its own: it is given its parameters    *)
(* through the environment, it keeps no state between calls, and it holds  *)
(* no lock.  What calls share is the filer's LUN table, the block devices  *)
(* and the files under DEVICE_CLEANUP_DIR.  A step of a process is one     *)
(* request to the filer, one command, or one access to the file system.    *)
(*                                                                         *)
(* Any process may fail at any step (main turns every exception into exit  *)
(* code 2; a killed script has a nonzero code too), and a request or a     *)
(* command may take effect and its answer be lost.                         *)
(***************************************************************************)
EXTENDS Ontap

CONSTANTS
  Procs,        \* the script processes that may run at the same time
  Nodes,        \* the nodes of the cluster
  Names,        \* VOL_NAME
  Pools,        \* EXTP_POOL: a parameter of each volume
  Sizes,        \* VOL_SIZE and VOL_NEW_SIZE
  Notes,        \* VOL_METADATA, what setinfo writes
  Uuids,        \* VOL_UUID: names the file that remove leaves for post_remove
  Requests,     \* the calls that may be made
  NewNote,      \* the comment of a LUN that setinfo was never run for
  NoPool,       \* no LUN has been looked up yet
  MaxRetries,   \* MAX_RETRIES
  MaxCalls      \* bound of the model: how many calls are ever made

AllRequests ==
  [op : {"create"}, node : Nodes, name : Names, pool : Pools, size : Sizes]
  \cup [op : {"remove"}, node : Nodes, name : Names, uuid : Uuids]
  \cup [op : {"grow"}, node : Nodes, name : Names, size : Sizes]
  \cup [op : {"setinfo"}, node : Nodes, name : Names, note : Notes]
  \cup [op : {"snapshot"}, node : Nodes, name : Names, into : Names]
  \cup [op : {"attach", "detach"}, node : Nodes, name : Names]
  \cup [op : {"pre_move"}, node : Nodes, target : Nodes, ext : BOOLEAN]

ASSUME RequestsAssumption == Requests \subseteq AllRequests
ASSUME SizesAssumption    == Sizes \subseteq Nat
ASSUME RetriesAssumption  == MaxRetries \in Nat \ {0}
ASSUME CallsAssumption    == MaxCalls \in Nat
ASSUME NoteAssumption     == NewNote \notin Notes
ASSUME PoolAssumption     == NoPool \notin Pools

VARIABLES
  luns,         \* the filer's LUNs (Ontap)
  dev,          \* the block devices of all nodes (Ontap)
  saved,        \* the cleanup files, [node, uuid, scsi]: scsi is 0 in an empty one
  job,          \* job[p]: the call process p runs, Idle when it runs none
  calls         \* the number of calls made so far

vars == <<luns, dev, saved, job, calls>>

(***************************************************************************)
(* A job:  pc     the step to take next                                    *)
(*         req    the request                                              *)
(*         id     the number of the call, the serial of a LUN it makes     *)
(*         at     the pool of the LUN _get_lun_by_name returned            *)
(*         tries  how often the loop of _get_lun_device has searched       *)
(*         out    the serial behind the device found, 0 for None           *)
(*         rc     the exit code, when pc is "done"                         *)
(***************************************************************************)
NoRequest == [op |-> "none"]

Idle == [pc |-> "idle", req |-> NoRequest, id |-> 0, at |-> NoPool,
         tries |-> 0, out |-> 0, rc |-> 0]

FirstStep(op) ==
  CASE op \in {"create", "grow", "setinfo", "snapshot"} -> "lookup"
    [] op \in {"attach", "remove"}                       -> "search"
    [] op = "detach"                                     -> "detach"
    [] op = "pre_move"                                   -> "check"

Started(r, id) == [Idle EXCEPT !.pc = FirstStep(r.op), !.req = r, !.id = id]

At(p, op, pc) == job[p].pc = pc /\ job[p].req.op = op
Active(p)     == job[p].pc \notin {"idle", "done"}

Goto(p, pc)   == job' = [job EXCEPT ![p].pc = pc]
Return(p, rc) == job' = [job EXCEPT ![p].pc = "done", ![p].rc = rc]

\* attach prints the file of the device it found, and returns.
Answer(p, id) == job' = [job EXCEPT ![p] = [@ EXCEPT !.pc = "done", !.rc = 0, !.out = id]]

\* An answer arrives, or it is lost and the call raises an exception.
Then(p, pc)   == Goto(p, pc) \/ Return(p, 2)
Finally(p)    == Return(p, 0) \/ Return(p, 2)

Init ==
  /\ luns = {}
  /\ dev = {}
  /\ saved = {}
  /\ job = [p \in Procs |-> Idle]
  /\ calls = 0

\* Ganeti runs a script on a node.
Call(p, r) ==
  /\ job[p] = Idle
  /\ calls < MaxCalls
  /\ r \in Requests
  /\ calls' = calls + 1
  /\ job' = [job EXCEPT ![p] = Started(r, calls + 1)]
  /\ UNCHANGED <<luns, dev, saved>>

\* Ganeti collects the exit code.
Finish(p) ==
  /\ job[p].pc = "done"
  /\ job' = [job EXCEPT ![p] = Idle]
  /\ UNCHANGED <<luns, dev, saved, calls>>

-----------------------------------------------------------------------------
(* _get_lun_by_name, and what each entry point does with its result *)

AfterLookup(op) ==
  CASE op = "remove"   -> "destroy"
    [] op = "grow"     -> "resize"
    [] op = "setinfo"  -> "comment"
    [] op = "snapshot" -> "clone"

Lookup(p) ==
  /\ job[p].pc = "lookup"
  /\ LET found == LunsNamed(luns, job[p].req.name)
         op    == job[p].req.op IN
       \/ /\ Cardinality(found) >= 2       \* assert len(lun_list) < 2
          /\ Return(p, 2)
       \/ /\ Cardinality(found) < 2
          /\ (op = "create") # (found = {})  \* VolumeExists, VolumeNotFound
          /\ Return(p, 2)
       \/ /\ op = "create" /\ found = {}
          /\ Goto(p, "alloc")
       \/ /\ op # "create" /\ Cardinality(found) < 2
          /\ \E l \in found :
               job' = [job EXCEPT ![p].pc = AfterLookup(op), ![p].at = l.pool]
  /\ UNCHANGED <<luns, dev, saved, calls>>

\* The LUN at the path the lookup returned: it may be another one by now.
Target(p) == LunsAt(luns, job[p].at, job[p].req.name)

\* create_lun makes a LUN that no host can see.
NewLun(r, pool, id) == [pool |-> pool, name |-> r.name, id |-> id, size |-> r.size,
                        note |-> NewNote, mapped |-> FALSE]

\* Mutant: the LUN is made in the pool of a lookup, which found none.
CreateLunWhereLookedUp(p) ==
  /\ At(p, "create", "alloc")
  /\ luns' = luns \cup {NewLun(job[p].req, job[p].at, job[p].id)}
  /\ Then(p, "map")
  /\ UNCHANGED <<dev, saved, calls>>

CreateLun(p) ==
  /\ At(p, "create", "alloc")
  /\ LET r == job[p].req IN
       /\ LunsAt(luns, r.pool, r.name) = {}
       /\ luns' = luns \cup {NewLun(r, r.pool, job[p].id)}
  /\ Then(p, "map")
  /\ UNCHANGED <<dev, saved, calls>>

\* Mutant: the handler of an API error logs it and does not raise it again.
MapLunQuietly(p) ==
  /\ At(p, "create", "map")
  /\ luns' \in {luns, Mapped(luns, LunsAt(luns, job[p].req.pool, job[p].req.name))}
  /\ Finally(p)
  /\ UNCHANGED <<dev, saved, calls>>

MapLun(p) ==
  /\ At(p, "create", "map")
  /\ LET target == LunsAt(luns, job[p].req.pool, job[p].req.name) IN
       /\ \E l \in target : ~l.mapped
       /\ luns' = Mapped(luns, target)
  /\ Finally(p)
  /\ UNCHANGED <<dev, saved, calls>>

\* Mutant: the request names /vol/*/<name>, as the lookup does.
DestroyLunByName(p) ==
  /\ At(p, "remove", "destroy")
  /\ luns' = luns \ LunsNamed(luns, job[p].req.name)
  /\ Finally(p)
  /\ UNCHANGED <<dev, saved, calls>>

\* Mutant: an error of the filer is not raised.
DestroyLunQuietly(p) ==
  /\ At(p, "remove", "destroy")
  /\ luns' \in {luns, luns \ Target(p)}
  /\ Finally(p)
  /\ UNCHANGED <<dev, saved, calls>>

DestroyLun(p) ==
  /\ At(p, "remove", "destroy")
  /\ Target(p) # {}
  /\ luns' = luns \ Target(p)
  /\ Finally(p)
  /\ UNCHANGED <<dev, saved, calls>>

\* Mutant: grow does not run the attach commands again.
DoDirectResizeOnly(p) ==
  /\ At(p, "grow", "resize")
  /\ Target(p) # {}
  /\ luns' = Resized(luns, Target(p), job[p].req.size)
  /\ Finally(p)
  /\ UNCHANGED <<dev, saved, calls>>

DoDirectResize(p) ==
  /\ At(p, "grow", "resize")
  /\ Target(p) # {}
  /\ luns' = Resized(luns, Target(p), job[p].req.size)
  /\ Then(p, "rescan")
  /\ UNCHANGED <<dev, saved, calls>>

SetLunComment(p) ==
  /\ At(p, "setinfo", "comment")
  /\ Target(p) # {}
  /\ luns' = Noted(luns, Target(p), job[p].req.note)
  /\ Finally(p)
  /\ UNCHANGED <<dev, saved, calls>>

\* The clone is made in the pool of its source.  new_name was not looked up.
CloneLun(p) ==
  /\ At(p, "snapshot", "clone")
  /\ LunsAt(luns, job[p].at, job[p].req.into) = {}
  /\ \E l \in Target(p) :
       luns' = luns \cup {CloneOf(l, job[p].req.into, job[p].id)}
  /\ Finally(p)
  /\ UNCHANGED <<dev, saved, calls>>

-----------------------------------------------------------------------------
(* Devices *)

\* Mutant: the name becomes a '*' with the other fields.
FilesOfAnyName(node, name) == {d \in dev : d.node = node /\ d.linked}

\* glob.glob of LUN_DEVICE_PATH_FORMAT with every field but the name a '*'
FilesOf(node, name) == {d \in dev : d.node = node /\ d.name = name /\ d.linked}

\* _search_lun_device raises an error for more than two files, returns the file
\* if there is one, and None otherwise.
SearchRaises(node, name)   == Cardinality(FilesOf(node, name)) > 2
SearchFinds(node, name, d) == FilesOf(node, name) = {d}
SearchIsNone(node, name)   == Cardinality(FilesOf(node, name)) \in {0, 2}

\* attach: the first search
SearchToAttach(p) ==
  /\ At(p, "attach", "search")
  /\ LET node == job[p].req.node
         name == job[p].req.name IN
       \/ SearchRaises(node, name) /\ Return(p, 2)
       \/ \E d \in dev :
            /\ SearchFinds(node, name, d)
            /\ Answer(p, d.id)
       \/ SearchIsNone(node, name) /\ Goto(p, "rescan")
  /\ UNCHANGED <<luns, dev, saved, calls>>

\* Mutant: the attach commands are run again instead of counting the search.
PollAndRescan(p) ==
  /\ At(p, "attach", "poll")
  /\ \/ \E d \in dev :
          /\ SearchFinds(job[p].req.node, job[p].req.name, d)
          /\ Answer(p, d.id)
     \/ SearchIsNone(job[p].req.node, job[p].req.name) /\ Goto(p, "rescan")
  /\ UNCHANGED <<luns, dev, saved, calls>>

\* Mutant: one search too many.
PollOnceMore(p) ==
  /\ At(p, "attach", "poll")
  /\ SearchIsNone(job[p].req.node, job[p].req.name)
  /\ \/ job[p].tries <= MaxRetries /\ job' = [job EXCEPT ![p].tries = @ + 1]
     \/ job[p].tries > MaxRetries /\ Return(p, 1)
  /\ UNCHANGED <<luns, dev, saved, calls>>

\* attach: the searches after the attach commands, MAX_RETRIES in all
Poll(p) ==
  /\ At(p, "attach", "poll")
  /\ LET node == job[p].req.node
         name == job[p].req.name IN
       \/ SearchRaises(node, name) /\ Return(p, 2)
       \/ \E d \in dev :
            /\ SearchFinds(node, name, d)
            /\ Answer(p, d.id)
       \/ /\ SearchIsNone(node, name)
          /\ job[p].tries + 1 < MaxRetries
          /\ job' = [job EXCEPT ![p].tries = @ + 1]
       \/ /\ SearchIsNone(node, name)
          /\ job[p].tries + 1 = MaxRetries
          /\ job' = [job EXCEPT ![p].pc = "done", ![p].rc = 1, ![p].tries = @ + 1]
  /\ UNCHANGED <<luns, dev, saved, calls>>

\* run_cmds(LUN_ATTACH_COMMANDS): a command that fails may be the last one
Rescan(p) ==
  /\ job[p].pc = "rescan"
  /\ dev' = Rescanned(dev, luns, job[p].req.node)
  /\ IF job[p].req.op = "attach" THEN Then(p, "poll") ELSE Finally(p)
  /\ UNCHANGED <<luns, saved, calls>>

\* run_cmds(LUN_DETACH_COMMANDS): none are configured
Detach(p) ==
  /\ At(p, "detach", "detach")
  /\ Return(p, 0)
  /\ UNCHANGED <<luns, dev, saved, calls>>

\* run_hook_on_node: the name of this node is compared with the one given.
RunsHere(current, target) == current = target

\* Mutant: socket.getfqdn() is never the name that Ganeti passes.
PreMoveNowhere(p) ==
  /\ At(p, "pre_move", "check")
  /\ Return(p, 0)
  /\ UNCHANGED <<luns, dev, saved, calls>>

\* The hook is started on several nodes and runs on the target of the move,
\* for an instance whose disk template is ext.
PreMove(p) ==
  /\ At(p, "pre_move", "check")
  /\ LET r == job[p].req IN
       IF RunsHere(r.node, r.target) /\ r.ext THEN Goto(p, "rescan") ELSE Return(p, 0)
  /\ UNCHANGED <<luns, dev, saved, calls>>

\* udev handles the event of a device, whenever it comes to it
Settle(d) ==
  /\ d \in dev
  /\ ~d.linked
  /\ dev' = Linked(dev, d)
  /\ UNCHANGED <<luns, saved, job, calls>>

-----------------------------------------------------------------------------
(* remove saves the SCSI ID of the device before it looks the LUN up *)

FileOf(p) == {f \in saved : f.node = job[p].req.node /\ f.uuid = job[p].req.uuid}
Rewritten(p, scsi) ==
  (saved \ FileOf(p)) \cup {[node |-> job[p].req.node, uuid |-> job[p].req.uuid, scsi |-> scsi]}

\* get_scsi_id: a device has the SCSI ID of the LUN it was made for.
ScsiId(d) == d.id

\* _search_lun_device and get_scsi_id, which asks for the device behind the file found.
\* They are one step: a file has one path, so what udev does to it in between might as
\* well be done before the search, and where it is gone get_scsi_id fails (Fail).
SearchToSave(p) ==
  /\ At(p, "remove", "search")
  /\ LET node == job[p].req.node
         name == job[p].req.name IN
       \/ SearchRaises(node, name) /\ Return(p, 2)
       \/ \E d \in dev :
            /\ SearchFinds(node, name, d)
            /\ job' = [job EXCEPT ![p].pc = "open", ![p].out = ScsiId(d)]
       \/ SearchIsNone(node, name) /\ Goto(p, "lookup")
  /\ UNCHANGED <<luns, dev, saved, calls>>

\* open(..., "w") leaves an empty file until it is written and closed
OpenFile(p) ==
  /\ At(p, "remove", "open")
  /\ saved' = Rewritten(p, 0)
  /\ Goto(p, "write")
  /\ UNCHANGED <<luns, dev, calls>>

\* Mutant: what is written stays in a buffer.
WriteFileUnflushed(p) ==
  /\ At(p, "remove", "write")
  /\ Goto(p, "lookup")
  /\ UNCHANGED <<luns, dev, saved, calls>>

WriteFile(p) ==
  /\ At(p, "remove", "write")
  /\ saved' = Rewritten(p, job[p].out)
  /\ Goto(p, "lookup")
  /\ UNCHANGED <<luns, dev, calls>>

\* An exception with no effect before it: an error of the filer, a command
\* that does not start, a missing variable, a killed script.
Fail(p) ==
  /\ Active(p)
  /\ Return(p, 2)
  /\ UNCHANGED <<luns, dev, saved, calls>>

-----------------------------------------------------------------------------
\* What a running script does next, but for failing.
Step(p) ==
  \/ Lookup(p) \/ CreateLun(p) \/ MapLun(p) \/ DestroyLun(p)
  \/ DoDirectResize(p) \/ SetLunComment(p) \/ CloneLun(p)
  \/ SearchToAttach(p) \/ Poll(p) \/ Rescan(p) \/ Detach(p) \/ PreMove(p)
  \/ SearchToSave(p) \/ OpenFile(p) \/ WriteFile(p)

Next ==
  \/ \E p \in Procs :
       \/ \E r \in Requests : Call(p, r)
       \/ Step(p)
       \/ Fail(p)
       \/ Finish(p)
  \/ \E d \in dev : Settle(d)

Spec == Init /\ [][Next]_vars

(***************************************************************************)
(* A script that can go on does: no step of a script waits for another     *)
(* script, and the filer, the commands and the file system answer or fail. *)
(* Nothing is assumed of udev, of who calls, or of when a call fails.      *)
(***************************************************************************)
FairSpec == Spec /\ \A p \in Procs : WF_vars(Step(p) \/ Fail(p)) /\ WF_vars(Finish(p))
-----------------------------------------------------------------------------
(* Properties *)

Pcs == {"idle", "check", "search", "lookup", "alloc", "map", "destroy", "resize",
        "comment", "clone", "rescan", "poll", "open", "write", "detach", "done"}

LunType == [pool : Pools, name : Names, id : Nat, size : Sizes,
            note : Notes \cup {NewNote}, mapped : BOOLEAN]
DevType == [node : Nodes, pool : Pools, name : Names, id : Nat, size : Sizes,
            linked : BOOLEAN]
JobType == [pc : Pcs, req : Requests \cup {NoRequest}, id : Nat,
            at : Pools \cup {NoPool}, tries : 0..MaxRetries, out : Nat, rc : 0..2]

\* The steps the scripts of an operation go through.
StepsOf(op) ==
  CASE op = "create"   -> {"lookup", "alloc", "map"}
    [] op = "remove"   -> {"search", "open", "write", "lookup", "destroy"}
    [] op = "grow"     -> {"lookup", "resize", "rescan"}
    [] op = "setinfo"  -> {"lookup", "comment"}
    [] op = "snapshot" -> {"lookup", "clone"}
    [] op = "attach"   -> {"search", "rescan", "poll"}
    [] op = "detach"   -> {"detach"}
    [] op = "pre_move" -> {"check", "rescan"}

\* A process is idle, or at a step of the operation it was called for.
InStep ==
  \A p \in Procs :
    \/ job[p].pc = "idle"
    \/ /\ job[p].req \in Requests
       /\ job[p].pc \in StepsOf(job[p].req.op) \cup {"done"}

\* The types of the variables, and of the job a process is at.
TypeOK ==
  /\ luns \subseteq LunType
  /\ dev \subseteq DevType
  /\ saved \subseteq [node : Nodes, uuid : Uuids, scsi : Nat]
  /\ job \in [Procs -> JobType]
  /\ calls \in 0..MaxCalls
  /\ InStep

(***************************************************************************)
(* The scripts are a volume service: a volume changes only on behalf of a  *)
(* call that names it, once, and before that call reports success.         *)
(***************************************************************************)
VolumeOps == {"create", "remove", "grow", "setinfo", "snapshot"}

StatusOf(j) ==
  CASE j.pc = "done"                            -> IF j.rc = 0 THEN "ok" ELSE "failed"
    [] j.pc = "map"                             -> "half"
    [] j.pc = "rescan"                          -> "effect"
    [] j.pc \notin {"done", "map", "rescan"}    -> "pending"

CallOf(j) == IF j.req.op \in VolumeOps THEN [st |-> StatusOf(j), req |-> j.req]
                                       ELSE [st |-> "idle"]

VolumeOf(l) == [pool |-> l.pool, name |-> l.name, size |-> l.size, note |-> l.note,
                usable |-> l.mapped]

Service == INSTANCE VolumeService WITH
  Clients  <- Procs,
  Requests <- {r \in Requests : r.op \in VolumeOps},
  store    <- {VolumeOf(l) : l \in luns},
  call     <- [p \in Procs |-> CallOf(job[p])]

\* Every behaviour of the scripts is one of the volume service.
ImplementsService == Service!Spec

\* The assertion of _get_lun_by_name: no two LUNs of the filer have one name.
SingleMatch == \A n \in Names : Cardinality(LunsNamed(luns, n)) < 2

\* attach gives up, with exit code 1, only where no file of the volume exists
\* ("# Not found" in _search_lun_device; more files are an error of their own).
NotFoundMeansNone ==
  [][\A p \in Procs :
       Poll(p) /\ job'[p].rc = 1 => FilesOf(job[p].req.node, job[p].req.name) = {}]_vars

\* How many more requests, commands and accesses a script may make: those of its
\* operation that are left, and in the loop of attach the searches that are left.
StepsLeft(j) ==
  CASE j.pc = "search" -> MaxRetries + 6
    [] j.pc = "open"   -> MaxRetries + 5
    [] j.pc = "write"  -> MaxRetries + 4
    [] j.pc = "lookup" -> MaxRetries + 3
    [] j.pc \in {"alloc", "resize", "check"} -> MaxRetries + 2
    [] j.pc \in {"map", "destroy", "comment", "clone", "rescan", "detach"} -> MaxRetries + 1
    [] j.pc = "poll"   -> MaxRetries - j.tries
    [] OTHER           -> 0

\* No step of a script is repeated for ever, whatever others do to the filer and the
\* devices in between: each one, failed or not, leaves it fewer.
EachStepCounts ==
  [][\A p \in Procs :
       Step(p) \/ Fail(p) => StepsLeft(job'[p]) \in 0 .. StepsLeft(job[p]) - 1]_vars

\* Every call of a script comes to an end.
EveryCallReturns == \A p \in Procs : Active(p) ~> ~Active(p)
=============================================================================
