----------------------------- MODULE PostRemove -----------------------------
(***************************************************************************)
(* The post_remove hook.  Ganeti starts it on the nodes of the cluster     *)
(* when an instance has been removed.  On the master it fetches, disk by   *)
(* disk, the SCSI ID that remove left in a file on the primary node, and   *)
(* has every node drop its device.  It works through `gnt-cluster          *)
(* command`, which exits with 0 also when the command failed on a node:    *)
(* the hook looks at the return code of cat only.                          *)
(***************************************************************************)
EXTENDS Provider, Sequences

CONSTANTS
  Master,         \* GANETI_MASTER
  CleanupCmd,     \* TRUE when DEVICE_CLEANUP_COMMAND is not ()
  QuietFailures   \* TRUE when rm and the cleanup may fail on a node unseen

ASSUME HookAssumption ==
  Master \in Nodes /\ CleanupCmd \in BOOLEAN /\ QuietFailures \in BOOLEAN

(***************************************************************************)
(* hook: pc    the step to take next                                       *)
(*       host  the node it runs on                                         *)
(*       node  GANETI_INSTANCE_PRIMARY                                     *)
(*       ext   is the disk template of the instance ext?                   *)
(*       disks the uuids of the disks still to do, in order                *)
(*       scsi  the SCSI ID read from the file of the first of them         *)
(*       rc    the exit code, when pc is "done"                            *)
(***************************************************************************)
VARIABLE hook

NoHook == [pc |-> "idle", host |-> Master, node |-> Master, ext |-> FALSE,
           disks |-> <<>>, scsi |-> 0, rc |-> 0]

HookInit == hook = NoHook

HookReturn(rc) == hook' = [hook EXCEPT !.pc = "done", !.rc = rc]

\* The loop goes on with the disks that are left.
ForDisks(disks) ==
  IF disks = <<>> THEN HookReturn(0)
                  ELSE hook' = [hook EXCEPT !.pc = "cat", !.disks = disks, !.scsi = 0]

HookCall(host, node, ext, disks) ==
  /\ hook.pc = "idle"
  /\ hook' = [NoHook EXCEPT !.pc = "check", !.host = host, !.node = node,
                            !.ext = ext, !.disks = disks]
  /\ UNCHANGED vars

\* run_hook_on_node, and the test of the disk template
HookCheck ==
  /\ hook.pc = "check"
  /\ IF RunsHere(hook.host, Master) /\ hook.ext THEN ForDisks(hook.disks) ELSE HookReturn(0)
  /\ UNCHANGED vars

\* Mutant: any file of the node is taken.
HookFileOfAnyDisk == {f \in saved : f.node = hook.node}

HookFile == {f \in saved : f.node = hook.node /\ f.uuid = Head(hook.disks)}

CatFile ==
  /\ hook.pc = "cat"
  /\ \/ HookFile = {} /\ HookReturn(2)       \* cat: return code = 1
     \/ \E f \in HookFile :
          \/ f.scsi = 0 /\ HookReturn(3)     \* "Can't find SCSI ID"
          \/ f.scsi # 0 /\ hook' = [hook EXCEPT !.pc = "rm", !.scsi = f.scsi]
  /\ UNCHANGED vars

RemoveFile ==
  /\ hook.pc = "rm"
  /\ saved' \in {saved \ HookFile} \cup (IF QuietFailures THEN {saved} ELSE {})
  /\ IF CleanupCmd THEN hook' = [hook EXCEPT !.pc = "clean"] ELSE ForDisks(Tail(hook.disks))
  /\ UNCHANGED <<luns, dev, job, calls>>

\* Mutant: the command is run with --node, as cat and rm are.
CleanDevicesOfPrimary ==
  /\ hook.pc = "clean"
  /\ dev' = Flushed(dev, {hook.node}, hook.scsi)
  /\ ForDisks(Tail(hook.disks))
  /\ UNCHANGED <<luns, saved, job, calls>>

\* One command, run on every node of the cluster.
CleanDevices ==
  /\ hook.pc = "clean"
  /\ \E on \in (IF QuietFailures THEN SUBSET Nodes ELSE {Nodes}) :
       dev' = Flushed(dev, on, hook.scsi)
  /\ ForDisks(Tail(hook.disks))
  /\ UNCHANGED <<luns, saved, job, calls>>

\* check_output raises an error (exit code 2 of main), or the output of
\* gnt-cluster has no return code in it (exit code 1).
HookFail ==
  /\ hook.pc \in {"check", "cat", "rm", "clean"}
  /\ \E rc \in {1, 2} : HookReturn(rc)
  /\ UNCHANGED vars

HookFinish ==
  /\ hook.pc = "done"
  /\ hook' = NoHook
  /\ UNCHANGED vars

HookStep == HookCheck \/ CatFile \/ RemoveFile \/ CleanDevices

HookTypeOK ==
  hook \in [pc : {"idle", "check", "cat", "rm", "clean", "done"}, host : Nodes, node : Nodes,
            ext : BOOLEAN, disks : Seq(Uuids), scsi : Nat, rc : 0..3]
==============================================================================
