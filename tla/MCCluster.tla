------------------------------ MODULE MCCluster ------------------------------
(* Small instances of Cluster for TLC. *)
EXTENDS Cluster, TLC

CONSTANTS p1, p2, nodeA, nodeB, i1, i2, volX, volY, snap, pool1, pool2, text

OneProc  == {p1}
TwoProcs == {p1, p2}
TwoNodes == {nodeA, nodeB}
OnePool  == {pool1}
TwoPools == {pool1, pool2}
OneNote  == {text}

OneInstance  == {i1}
TwoInstances == {i1, i2}

\* One instance with one disk that has a snapshot taken.
LifeNames  == {volX, snap}
LifeDisks  == (i1 :> <<volX>>)
LifeSnaps  == (i1 :> {snap})
LifeSizes  == {1, 2, 3}
LifeRequests ==
  [op : {"create"}, node : TwoNodes, name : {volX}, pool : OnePool, size : {1}]
  \cup [op : {"remove"}, node : TwoNodes, name : LifeNames, uuid : LifeNames]
  \cup [op : {"grow"}, node : TwoNodes, name : {volX}, size : {2, 3}]
  \cup [op : {"setinfo"}, node : TwoNodes, name : {volX}, note : OneNote]
  \cup [op : {"snapshot"}, node : TwoNodes, name : {volX}, into : {snap}]
  \cup [op : {"attach", "detach"}, node : TwoNodes, name : {volX}]
  \cup [op : {"pre_move"}, node : TwoNodes, target : TwoNodes, ext : {TRUE}]

\* Two instances with one disk each.
PairNames == {volX, volY}
PairDisks == (i1 :> <<volX>>) @@ (i2 :> <<volY>>)
PairSnaps == (i1 :> {}) @@ (i2 :> {})
PairSizes == {1, 2}
PairRequests ==
  [op : {"create"}, node : TwoNodes, name : PairNames, pool : OnePool, size : {1}]
  \cup [op : {"remove"}, node : TwoNodes, name : PairNames, uuid : PairNames]
  \cup [op : {"grow"}, node : TwoNodes, name : {volX}, size : {2}]
  \cup [op : {"attach"}, node : TwoNodes, name : PairNames]
  \cup [op : {"pre_move"}, node : TwoNodes, target : TwoNodes, ext : {TRUE}]

\* One instance with two disks, made in either of two pools, moved and removed.
GoneDisks == (i1 :> <<volX, volY>>)
GoneSnaps == (i1 :> {})
GoneRequests ==
  [op : {"create"}, node : TwoNodes, name : PairNames, pool : TwoPools, size : {1}]
  \cup [op : {"remove"}, node : TwoNodes, name : PairNames, uuid : PairNames]
  \cup [op : {"attach"}, node : TwoNodes, name : PairNames]
  \cup [op : {"pre_move"}, node : TwoNodes, target : TwoNodes, ext : {TRUE}]

Symmetric == Permutations(TwoProcs)
\* A pool is only ever compared with another.
SymmetricPools == Permutations(TwoPools)
==============================================================================
