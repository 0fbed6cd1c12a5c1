----------------------------- MODULE MCProvider -----------------------------
(* Small instances of Provider for TLC: any caller, any order of calls.     *)
EXTENDS Provider, TLC

CONSTANTS p1, p2, nodeA, volX, volY, pool1, pool2, pool3, text

OneProc    == {p1}
TwoProcs   == {p1, p2}
ThreePools == {pool1, pool2, pool3}
OneNode  == {nodeA}
TwoNames == {volX, volY}
OneName  == {volX}
TwoPools == {pool1, pool2}
OnePool  == {pool1}
OneNote  == {text}
TwoSizes == {1, 2}
OneUuid  == {volX}

\* The calls of the scripts that work on the filer, made on one node.
FilerRequests ==
  [op : {"create"}, node : OneNode, name : TwoNames, pool : TwoPools, size : {1}]
  \cup [op : {"remove"}, node : OneNode, name : TwoNames, uuid : OneUuid]
  \cup [op : {"grow"}, node : OneNode, name : TwoNames, size : {2}]
  \cup [op : {"setinfo"}, node : OneNode, name : TwoNames, note : OneNote]
  \cup [op : {"snapshot"}, node : OneNode, name : {volX}, into : {volY}]

\* A volume is made, attached and removed, and its name is used again.
ReuseRequests ==
  [op : {"create"}, node : {nodeA}, name : {volX}, pool : Pools, size : {1}]
  \cup [op : {"remove"}, node : {nodeA}, name : {volX}, uuid : OneUuid]
  \cup [op : {"attach", "detach"}, node : {nodeA}, name : {volX}]
  \cup [op : {"pre_move"}, node : {nodeA}, target : {nodeA}, ext : BOOLEAN]

\* Two volumes, and a snapshot of one.
SnapshotRequests ==
  [op : {"create"}, node : {nodeA}, name : TwoNames, pool : TwoPools, size : {1}]
  \cup [op : {"snapshot"}, node : {nodeA}, name : TwoNames, into : TwoNames]

\* Processes are interchangeable (never used with a liveness property).
Symmetric == Permutations(TwoProcs)
==============================================================================
