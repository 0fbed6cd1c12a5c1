------------------------------- MODULE Cluster -------------------------------
(***************************************************************************)
(* The scripts and the hook under the program that runs them.  Ganeti is   *)
(* not in the repository: what is said of it here is what the scripts take *)
(* for granted.  An instance has disks, each a volume with a name of its   *)
(* own that is never used again, and a primary node where its disks are    *)
(* attached.  Ganeti holds the lock of an instance while it runs a script  *)
(* for one of its disks, so calls for one instance follow one another and  *)
(* calls for different instances run side by side.  A call that failed     *)
(* counts as not done, and Ganeti may try again.                           *)
(***************************************************************************)
EXTENDS PostRemove

CONSTANTS
  Instances,
  DisksOf,          \* DisksOf[i]: the names of the disks of i, a sequence
  SnapsOf,          \* SnapsOf[i]: the names its snapshots may be given
  NoInstance,
  Unsure,           \* the comment of a volume whose setinfo was not acknowledged
  IgnoreFailures    \* gnt-instance remove --ignore-failures is used

VARIABLES
  disk,             \* disk[n]: what Ganeti believes of volume n
  primary,          \* primary[i]: the primary node of instance i
  inst,             \* inst[i]: "up", "hook" while post_remove runs, "removed"
  holder            \* holder[p]: the instance whose lock the call of p is under

world  == <<disk, primary, inst, holder>>
cvars  == <<vars, hook, world>>

DiskSet(i) == {DisksOf[i][k] : k \in DOMAIN DisksOf[i]}
NamesOf(i) == DiskSet(i) \cup SnapsOf[i]

\* The uuid of a disk is as good a name of it as its volume name.
ASSUME ClusterAssumption ==
  /\ IgnoreFailures \in BOOLEAN
  /\ NoInstance \notin Instances
  /\ Unsure \notin Notes \cup {NewNote}
  /\ Uuids = Names
  /\ DisksOf \in [Instances -> Seq(Names)]
  /\ SnapsOf \in [Instances -> SUBSET Names]
  /\ \A i \in Instances : DiskSet(i) \cap SnapsOf[i] = {}
  /\ \A i, j \in Instances : i # j => NamesOf(i) \cap NamesOf(j) = {}

(***************************************************************************)
(* disk[n].st: "none"      never used                                      *)
(*             "doubt"     being made, or making it failed                 *)
(*             "live"      made, and acknowledged                          *)
(*             "removing"  being removed, or removing it failed            *)
(*             "removed"   removed, and acknowledged                       *)
(* pool, size and note are those last acknowledged.                        *)
(***************************************************************************)
NoDisk == [st |-> "none", pool |-> NoPool, size |-> 0, note |-> NewNote]

ClusterInit ==
  /\ Init
  /\ HookInit
  /\ disk = [n \in Names |-> NoDisk]
  /\ primary \in [Instances -> Nodes]
  /\ inst = [i \in Instances |-> "up"]
  /\ holder = [p \in Procs |-> NoInstance]

\* Ganeti runs a script for instance i, and expects disk to be as given.
Ask(p, i, r, expected) ==
  /\ \A q \in Procs : holder[q] # i
  /\ inst[i] = "up"
  /\ Call(p, r)
  /\ holder' = [holder EXCEPT ![p] = i]
  /\ disk' = expected
  /\ UNCHANGED <<hook, primary, inst>>

Live(n) == disk[n].st = "live"

\* Mutant: a name may be used again when the volume that had it is removed.
AskCreateAgain(p, i) ==
  \E r \in Requests :
    /\ r.op = "create" /\ r.node = primary[i]
    /\ r.name \in DiskSet(i) /\ disk[r.name].st \in {"none", "removed"}
    /\ Ask(p, i, r, [disk EXCEPT ![r.name].st = "doubt"])

AskCreate(p, i) ==
  \E r \in Requests :
    /\ r.op = "create" /\ r.node = primary[i]
    /\ r.name \in DiskSet(i) /\ disk[r.name].st = "none"
    /\ Ask(p, i, r, [disk EXCEPT ![r.name].st = "doubt"])

AskRemove(p, i) ==
  \E r \in Requests :
    /\ r.op = "remove" /\ r.node = primary[i] /\ r.uuid = r.name
    /\ r.name \in NamesOf(i) /\ disk[r.name].st \in {"doubt", "live", "removing"}
    /\ Ask(p, i, r, [disk EXCEPT ![r.name].st = "removing"])

\* Disks grow: the size asked for is larger than the one acknowledged.
AskGrow(p, i) ==
  \E r \in Requests :
    /\ r.op = "grow" /\ r.node = primary[i]
    /\ r.name \in DiskSet(i) /\ Live(r.name) /\ r.size > disk[r.name].size
    /\ Ask(p, i, r, disk)

AskSetInfo(p, i) ==
  \E r \in Requests :
    /\ r.op = "setinfo" /\ r.node = primary[i]
    /\ r.name \in DiskSet(i) /\ Live(r.name)
    /\ Ask(p, i, r, [disk EXCEPT ![r.name].note = Unsure])

AskSnapshot(p, i) ==
  \E r \in Requests :
    /\ r.op = "snapshot" /\ r.node = primary[i]
    /\ r.name \in DiskSet(i) /\ Live(r.name)
    /\ r.into \in SnapsOf[i] /\ disk[r.into].st = "none"
    /\ Ask(p, i, r, [disk EXCEPT ![r.into].st = "doubt"])

AskAttach(p, i) ==
  \E r \in Requests :
    /\ r.op \in {"attach", "detach"} /\ r.node = primary[i]
    /\ r.name \in DiskSet(i) /\ Live(r.name)
    /\ Ask(p, i, r, disk)

\* The hook before a migration or failover: on the new primary node.
AskMove(p, i) ==
  \E r \in Requests :
    /\ r.op = "pre_move" /\ r.ext
    /\ r.node = r.target /\ r.target # primary[i]
    /\ Ask(p, i, r, disk)

\* What Ganeti believes when a call for request r has returned 0.
Acknowledged(r) ==
  CASE r.op = "create"   -> [disk EXCEPT ![r.name] =
                              [st |-> "live", pool |-> r.pool, size |-> r.size, note |-> NewNote]]
    [] r.op = "remove"   -> [disk EXCEPT ![r.name].st = "removed"]
    [] r.op = "grow"     -> [disk EXCEPT ![r.name].size = r.size]
    [] r.op = "setinfo"  -> [disk EXCEPT ![r.name].note = r.note]
    [] r.op = "snapshot" -> [disk EXCEPT ![r.into] = disk[r.name]]
    [] r.op \in {"attach", "detach", "pre_move"} -> disk

Answered(p) ==
  LET r  == job[p].req
      ok == job[p].rc = 0 IN
    /\ Finish(p)
    /\ holder' = [holder EXCEPT ![p] = NoInstance]
    /\ disk' = IF ok THEN Acknowledged(r) ELSE disk
    /\ primary' = IF ok /\ r.op = "pre_move"
                    THEN [primary EXCEPT ![holder[p]] = r.target] ELSE primary
    /\ UNCHANGED <<hook, inst>>

\* The instance is removed when its disks are, or (--ignore-failures) when
\* removing them was tried.  Then Ganeti starts the hook on its nodes.
RemoveInstance(i) ==
  /\ inst[i] = "up"
  /\ \A q \in Procs : holder[q] # i
  /\ \A n \in DiskSet(i) :
       disk[n].st \in (IF IgnoreFailures THEN {"none", "removing", "removed"} ELSE {"none", "removed"})
  /\ \E host \in Nodes : HookCall(host, primary[i], TRUE, DisksOf[i])
  /\ inst' = [inst EXCEPT ![i] = "hook"]
  /\ UNCHANGED <<disk, primary, holder>>

\* Ganeti reports a hook that failed, and is done with the instance all the same.
HookAnswered ==
  /\ HookFinish
  /\ inst' = [i \in Instances |-> IF inst[i] = "hook" THEN "removed" ELSE inst[i]]
  /\ UNCHANGED <<disk, primary, holder>>

ClusterNext ==
  \/ \E p \in Procs :
       \/ \E i \in Instances :
            \/ AskCreate(p, i) \/ AskRemove(p, i) \/ AskGrow(p, i) \/ AskSetInfo(p, i)
            \/ AskSnapshot(p, i) \/ AskAttach(p, i) \/ AskMove(p, i)
       \/ (Step(p) \/ Fail(p)) /\ UNCHANGED <<hook, world>>
       \/ Answered(p)
  \/ \E d \in dev : Settle(d) /\ UNCHANGED <<hook, world>>
  \/ \E i \in Instances : RemoveInstance(i)
  \/ (HookStep \/ HookFail) /\ UNCHANGED world
  \/ HookAnswered

ClusterSpec == ClusterInit /\ [][ClusterNext]_cvars
-----------------------------------------------------------------------------
(* Properties *)

\* The types of the variables.
ClusterTypeOK ==
  /\ TypeOK
  /\ HookTypeOK
  /\ disk \in [Names -> [st : {"none", "doubt", "live", "removing", "removed"},
                         pool : Pools \cup {NoPool}, size : Sizes \cup {0},
                         note : Notes \cup {NewNote, Unsure}]]
  /\ primary \in [Instances -> Nodes]
  /\ inst \in [Instances -> {"up", "hook", "removed"}]
  /\ holder \in [Procs -> Instances \cup {NoInstance}]

IsSnap(n) == \E i \in Instances : n \in SnapsOf[i]

\* An acknowledged volume is served as acknowledged, whatever failed since: one
\* LUN has its name, in its pool, no smaller, with its comment, and the hosts
\* can reach it unless it is a snapshot.
AckedIsServed ==
  \A n \in Names : Live(n) =>
    \E l \in luns :
      /\ LunsNamed(luns, n) = {l}
      /\ l.pool = disk[n].pool /\ l.size >= disk[n].size
      /\ disk[n].note \in {l.note, Unsure}
      /\ l.mapped = ~IsSnap(n)

\* No LUN outlives Ganeti's knowledge of it: of a name never used and of one
\* whose removal was acknowledged there is none.
NoLeak == \A l \in luns : disk[l.name].st \notin {"none", "removed"}

\* On the primary node, what is found under the name of a live disk is the
\* volume itself, and the node knows all of the size acknowledged for it.
PrimaryCurrent ==
  \A i \in Instances : \A n \in DiskSet(i) : Live(n) =>
    \A d \in FilesOf(primary[i], n) :
      /\ d.size >= disk[n].size
      /\ \E l \in LunsNamed(luns, n) : l.id = d.id

\* attach answers with the device of the volume that was asked for.
AttachReturnsOwn ==
  \A p \in Procs :
    LET j == job[p] IN
      j.pc = "done" /\ j.rc = 0 /\ j.req.op = "attach" =>
        \E l \in LunsNamed(luns, j.req.name) : l.id = j.out

\* After the disks were moved, the new primary has a device for each of them
\* (whose file udev may still have to make).
MovedIsVisible ==
  [][\A i \in Instances : primary'[i] # primary[i] =>
       \A n \in DiskSet(i) : Live(n) =>
         \E d \in dev' : d.node = primary'[i] /\ d.name = n /\ d.size >= disk[n].size]_cvars

\* The cleanup on all nodes drops no device of a LUN that still exists
\* (DEVICE_CLEANUP_COMMAND is for after a LUN has been destroyed).
FlushesOnlyDestroyed ==
  [][\A d \in dev : CleanDevices /\ d \notin dev' => \A l \in luns : l.id # d.id]_cvars

\* When the hook succeeds on the master, no node has a device of a removed disk.
NoStaleDevice ==
  [][\A i \in Instances :
       inst[i] = "hook" /\ inst'[i] = "removed" /\ hook.rc = 0 /\ hook.host = Master =>
         \A d \in dev : d.name \notin DiskSet(i)]_cvars

\* What remove leaves is what the hook is handed.  When the removal of a disk is
\* acknowledged, its node has a file for it if the device was found, and then with
\* the SCSI ID of a LUN that is gone: no empty file, none of an attempt that failed
\* before.  From then on only the hook of its instance takes the file, and only when
\* it has read the number in it.
RemovedIsRecorded ==
  [][/\ \A p \in Procs :
          Answered(p) /\ job[p].rc = 0 /\ job[p].req.op = "remove" =>
            /\ FileOf(p) = {} <=> job[p].out = 0
            /\ \A f \in FileOf(p) : f.scsi = job[p].out /\ \A l \in luns : l.id # f.scsi
     /\ \A f \in saved \ saved' : disk[f.uuid].st = "removed" =>
          /\ hook.node = f.node /\ hook.scsi = f.scsi
          /\ \E i \in Instances : inst[i] = "hook" /\ f.uuid \in DiskSet(i)]_cvars
==============================================================================
