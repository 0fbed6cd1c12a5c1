-------------------------------- MODULE Ontap --------------------------------
(***************************************************************************)
(* What the scripts rely on outside the repository: the LUN table of the   *)
(* Data ONTAP filer and the block devices a rescan creates on a node.      *)
(* Nothing here is code of the repository.  The operators say what each    *)
(* ZAPI request and each rescan does to the table it is given, as far as   *)
(* the client and the provider depend on it.                               *)
(*                                                                         *)
(* A LUN is a record                                                       *)
(*   [pool, name : its path /vol/<pool>/<name>, at most one LUN per path   *)
(*    id         : the serial number that scsi_id reads from its devices   *)
(*    size, note : size and comment                                        *)
(*    mapped     : TRUE when it is mapped to the configured igroup]        *)
(* A device is a record                                                    *)
(*   [node, pool, name, id : the LUN it was created for, on which node     *)
(*    size       : the size the kernel believes the LUN has                *)
(*    linked     : the file LUN_DEVICE_PATH_FORMAT names is its, by udev]  *)
(***************************************************************************)
EXTENDS Naturals, FiniteSets

\* lun-get-iter with the query path='/vol/*/<name>': every pool is searched.
LunsNamed(luns, name) == {l \in luns : l.name = name}

\* The LUN at one path: the target of lun-map, lun-resize, lun-destroy, ...
LunsAt(luns, pool, name) == {l \in luns : l.pool = pool /\ l.name = name}

\* The requests that change LUNs in place.
Mapped(luns, some)        == {IF l \in some THEN [l EXCEPT !.mapped = TRUE] ELSE l : l \in luns}
Resized(luns, some, size) == {IF l \in some THEN [l EXCEPT !.size = size] ELSE l : l \in luns}
Noted(luns, some, note)   == {IF l \in some THEN [l EXCEPT !.note = note] ELSE l : l \in luns}

\* clone-create: the copy has the size and the comment of its source, a serial
\* number of its own, and no mapping to any igroup.
CloneOf(l, name, id) == [l EXCEPT !.name = name, !.id = id, !.mapped = FALSE]

DeviceOf(l, node) ==
  [node |-> node, pool |-> l.pool, name |-> l.name, id |-> l.id,
   size |-> l.size, linked |-> FALSE]

(***************************************************************************)
(* The attach commands (iscsiadm -R or rescan-scsi-bus.sh, multipath -r)   *)
(* see every LUN mapped to the igroup, whichever volume the script is run  *)
(* for.  A device that exists gets the present size of its LUN, a missing  *)
(* one is created and udev links its file later.  A device whose LUN is    *)
(* gone or not mapped stays as it is.                                      *)
(***************************************************************************)
Rescanned(dev, luns, node) ==
  LET seen(d) == {l \in luns : l.mapped /\ l.id = d.id}
      new     == {l \in luns : l.mapped /\ \A d \in dev : ~(d.node = node /\ d.id = l.id)}
  IN  {IF d.node = node /\ seen(d) # {}
         THEN [d EXCEPT !.size = (CHOOSE l \in seen(d) : TRUE).size] ELSE d : d \in dev}
      \cup {DeviceOf(l, node) : l \in new}

\* The udev rule makes /dev/disk/<hostname>/<pool>/<name> a link to the device.
\* A path has one link: a device that had it before loses it.
SamePath(d, e) == d.node = e.node /\ d.pool = e.pool /\ d.name = e.name
Linked(dev, d) ==
  (dev \ {e \in dev : SamePath(d, e)})
    \cup {[e EXCEPT !.linked = (e = d)] : e \in {e \in dev : SamePath(d, e)}}

\* DEVICE_CLEANUP_COMMAND drops the devices with one SCSI ID on some nodes.
Flushed(dev, nodes, id) == {d \in dev : ~(d.node \in nodes /\ d.id = id)}
==============================================================================
