------------------------------ MODULE MCCloneJob ------------------------------
(* Small instances of CloneJob for TLC: two snapshots and a clone_file.     *)
EXTENDS CloneJob, TLC

CONSTANTS s1, s2, s3

AllThree    == {s1, s2, s3}
FileAndLun  == {s2, s3}
LunFileLun  == (s1 :> "lun") @@ (s2 :> "file") @@ (s3 :> "lun")
TwoThenOne  == (s1 :> 2) @@ (s2 :> 1) @@ (s3 :> 1)
FileThenLun == [p \in FileAndLun |-> LunFileLun[p]]
OneEach     == [p \in FileAndLun |-> 1]
==============================================================================
