---------------------------- MODULE ClusterProofs ----------------------------
(* What the scripts and the hook keep true of volumes, devices and files    *)
(* under a caller that holds the lock of an instance for each call.         *)
EXTENDS Cluster, ProviderProofs, SequenceTheorems, FiniteSetTheorems

\* Who holds the lock of which instance.
Locked ==
  /\ \A p \in Procs : holder[p] = NoInstance <=> job[p].pc = "idle"
  /\ \A p, q \in Procs : holder[p] = holder[q] /\ holder[p] # NoInstance => p = q
  /\ \A p \in Procs : holder[p] # NoInstance => inst[holder[p]] = "up"

\* The call of p is under the lock of an instance.
Held(p) == holder[p] # NoInstance

\* What Ganeti believes of the disks that a call is about, while it runs.
Asked(p) ==
  LET r == job[p].req
      i == holder[p] IN
    /\ r \in Requests
    /\ r.op # "pre_move" => r.name \in NamesOf(i) /\ r.node = primary[i]
    /\ r.op \notin {"pre_move", "remove"} => r.name \in DiskSet(i)
    /\ r.op = "create" => disk[r.name].st = "doubt"
    /\ r.op = "remove" => r.uuid = r.name /\ disk[r.name].st = "removing"
    /\ r.op \in {"grow", "setinfo", "snapshot", "attach", "detach"} => Live(r.name)
    /\ r.op = "grow" => r.size > disk[r.name].size
    /\ r.op = "setinfo" => disk[r.name].note = Unsure
    /\ r.op = "snapshot" => r.into \in SnapsOf[i] /\ disk[r.into].st = "doubt"
    /\ r.op = "pre_move" => r.node = r.target /\ r.ext

\* The number k stands for the name n: a LUN, a device, a cleanup file, the answer of a
\* search, or what the hook has read says so.
Labelled(n, k) ==
  \/ \E l \in luns : l.name = n /\ l.id = k
  \/ \E d \in dev : d.name = n /\ d.id = k
  \/ k # 0 /\ \E f \in saved : f.uuid = n /\ f.scsi = k
  \/ k # 0 /\ \E p \in Procs : /\ job[p].req.op \in {"remove", "attach"}
                               /\ job[p].req.name = n /\ job[p].out = k
  \/ hook.pc \in {"rm", "clean"} /\ Head(hook.disks) = n /\ hook.scsi = k

\* The call of p has its LUN still to make.
Making(p) ==
  \/ job[p].req.op = "create" /\ job[p].pc \in {"lookup", "alloc"}
  \/ job[p].req.op = "snapshot" /\ job[p].pc \in {"lookup", "clone"}

\* The name of the LUN that a call makes or changes.
Subject(p) == IF job[p].req.op = "snapshot" THEN job[p].req.into ELSE job[p].req.name

\* A name has one number and a number one name, for ever.
Identity ==
  /\ \A n, m \in Names, k, j \in Nat : Labelled(n, k) /\ Labelled(m, j) => (n = m <=> k = j)
  /\ \A n \in Names, k \in Nat : Labelled(n, k) => k \in 1..calls /\ disk[n].st # "none"
  /\ \A p \in Procs : Held(p) => job[p].id \in 1..calls
  /\ \A p, q \in Procs : Held(p) /\ Held(q) /\ job[p].id = job[q].id => p = q
  /\ \A p \in Procs : Making(p) =>
       \A n \in Names, k \in Nat : Labelled(n, k) => n # Subject(p) /\ k # job[p].id

\* Names of LUNs are unique, across the pools.
OneEach == \A l, m \in luns : l.name = m.name => l = m

\* The call of p has returned 0.
Succeeded(p) == job[p].pc = "done" /\ job[p].rc = 0

\* The LUN l is as the volume n is believed to be.
CopyOf(l, n) ==
  /\ l.pool = disk[n].pool /\ l.size >= disk[n].size /\ disk[n].note \in {l.note, Unsure}

\* What was done to the filer by a call that has had its effect.
Effect(p) ==
  LET r == job[p].req IN
    /\ r.op = "create" /\ (job[p].pc = "map" \/ Succeeded(p)) =>
         /\ \E l \in luns : /\ l.name = r.name /\ l.pool = r.pool /\ l.size = r.size
                            /\ l.note = NewNote /\ l.mapped = Succeeded(p)
         /\ \A d \in dev : d.name = r.name => d.size = r.size
    /\ r.op = "remove" /\ Succeeded(p) => \A l \in luns : l.name # r.name
    /\ r.op = "grow" /\ (job[p].pc = "rescan" \/ Succeeded(p)) =>
         \A l \in luns : l.name = r.name => l.size = r.size
    /\ r.op = "grow" /\ Succeeded(p) =>
         \A d \in dev : d.node = r.node /\ d.name = r.name => d.size = r.size
    /\ r.op = "setinfo" /\ Succeeded(p) => \A l \in luns : l.name = r.name => l.note = r.note
    /\ r.op = "snapshot" /\ Succeeded(p) =>
         \E l \in luns : l.name = r.into /\ CopyOf(l, r.name) /\ ~l.mapped
    /\ r.op = "attach" /\ Succeeded(p) => \E l \in luns : l.name = r.name /\ l.id = job[p].out
    /\ r.op = "pre_move" /\ Succeeded(p) =>
         \A n \in DiskSet(holder[p]) : Live(n) =>
           /\ \A d \in dev : d.node = r.target /\ d.name = n => d.size >= disk[n].size
           /\ \E d \in dev : d.node = r.target /\ d.name = n

\* The primary node knows the size of each live disk.
Current ==
  \A i \in Instances : \A n \in DiskSet(i) : Live(n) =>
    \A d \in dev : d.node = primary[i] /\ d.name = n => d.size >= disk[n].size

\* What remove found it has saved before it goes on to the LUN.
Recorded(p) ==
  LET j == job[p] IN
    j.req.op = "remove" =>
      /\ j.pc = "search" => j.out = 0
      /\ j.out # 0 /\ j.pc \in {"lookup", "destroy", "done"} /\ ~(j.pc = "done" /\ j.rc # 0)
           => [node |-> j.req.node, uuid |-> j.req.uuid, scsi |-> j.out] \in saved

\* The hook works on the disks of the instance that is being removed.
HookOf(i) ==
  /\ hook.pc # "idle" /\ hook.ext
  /\ \A k \in DOMAIN hook.disks : hook.disks[k] \in DiskSet(i)
  /\ hook.pc = "check" => hook.disks = DisksOf[i]
  /\ hook.pc \in {"cat", "rm", "clean"} => hook.disks # <<>>
  /\ hook.pc \in {"rm", "clean"} => hook.scsi # 0

\* The hook runs for one instance, the one that is being removed.
Hooked ==
  /\ \A i \in Instances : inst[i] = "hook" => HookOf(i)
  /\ \A i, j \in Instances : inst[i] = "hook" /\ inst[j] = "hook" => i = j
  /\ hook.pc # "idle" => \E i \in Instances : inst[i] = "hook"

\* An instance is removed after its disks.
Gone ==
  ~IgnoreFailures => \A i \in Instances : inst[i] \in {"hook", "removed"} =>
    \A n \in DiskSet(i) : disk[n].st \in {"none", "removed"}

\* No node has a device of n.
NoDevice(n) == \A d \in dev : d.name # n

\* The hook has no device left to drop for n, when n is not among the disks still to do.
Dealt(n) ==
  /\ hook.pc \in {"cat", "rm", "clean"} /\ (\A k \in DOMAIN hook.disks : hook.disks[k] # n)
       => NoDevice(n)
  /\ hook.pc = "done" /\ hook.rc = 0 => NoDevice(n)

\* What the hook has gone past on the master is clean.
Cleaned ==
  ~IgnoreFailures /\ ~QuietFailures /\ CleanupCmd /\ hook.host = Master =>
    \A i \in Instances : inst[i] = "hook" => \A n \in DiskSet(i) : Dealt(n)

\* The inductive invariant.
ClusterInv ==
  /\ ClusterTypeOK /\ Locked
  /\ \A p \in Procs : Held(p) => Asked(p) /\ Effect(p) /\ Recorded(p)
  /\ Identity /\ OneEach /\ NoLeak /\ AckedIsServed
  /\ Current /\ Hooked /\ Gone /\ Cleaned
-----------------------------------------------------------------------------
\* A name belongs to one instance.
LEMMA NamesApart ==
  ASSUME NEW i \in Instances, NEW j \in Instances, NEW n, n \in NamesOf(i), n \in NamesOf(j)
  PROVE  i = j
BY ClusterAssumption

\* The names of an instance are volume names, and those of its disks are no snapshots'.
LEMMA DiskNames ==
  ASSUME NEW i \in Instances
  PROVE  /\ DiskSet(i) \subseteq NamesOf(i) /\ SnapsOf[i] \subseteq NamesOf(i)
         /\ NamesOf(i) \subseteq Names
         /\ \A n \in DiskSet(i) : ~IsSnap(n)
         /\ \A n \in SnapsOf[i] : IsSnap(n)
<1>1. DiskSet(i) \subseteq NamesOf(i) /\ SnapsOf[i] \subseteq NamesOf(i)
  BY DEF NamesOf
<1>2. DiskSet(i) \subseteq Names
  <2>1. DisksOf[i] \in Seq(Names)
    BY ClusterAssumption
  <2> QED
    BY <2>1 DEF DiskSet
<1>3. NamesOf(i) \subseteq Names
  BY <1>2, ClusterAssumption DEF NamesOf
<1>4. ASSUME NEW n \in DiskSet(i), IsSnap(n) PROVE FALSE
  <2>1. PICK j \in Instances : n \in SnapsOf[j]
    BY <1>4 DEF IsSnap
  <2>2. i = j
    BY <1>1, <2>1, NamesApart DEF NamesOf
  <2> QED
    BY <2>1, <2>2, <1>4, ClusterAssumption
<1> QED
  BY <1>1, <1>3, <1>4 DEF IsSnap

\* The fields of a job after each of the moves of its script.
LEMMA Fields ==
  ASSUME TypeOK, NEW p \in Procs
  PROVE  /\ \A pc : Goto(p, pc) =>
              /\ job' = [job EXCEPT ![p] = job'[p]] /\ job'[p].pc = pc
              /\ job'[p].req = job[p].req /\ job'[p].id = job[p].id /\ job'[p].at = job[p].at
              /\ job'[p].out = job[p].out /\ job'[p].rc = job[p].rc
         /\ \A rc \in Nat : Return(p, rc) =>
              /\ job' = [job EXCEPT ![p] = job'[p]] /\ job'[p].pc = "done" /\ job'[p].rc = rc
              /\ job'[p].req = job[p].req /\ job'[p].id = job[p].id /\ job'[p].at = job[p].at
              /\ job'[p].out = job[p].out
<1>1. job \in [Procs -> JobType] /\ job[p] \in JobType
  BY DEF TypeOK
<1>2. ASSUME NEW pc, Goto(p, pc)
      PROVE  /\ job' = [job EXCEPT ![p] = job'[p]] /\ job'[p].pc = pc
             /\ job'[p].req = job[p].req /\ job'[p].id = job[p].id /\ job'[p].at = job[p].at
             /\ job'[p].out = job[p].out /\ job'[p].rc = job[p].rc
  BY <1>1, <1>2 DEF Goto, JobType
<1>3. ASSUME NEW rc \in Nat, Return(p, rc)
      PROVE  /\ job' = [job EXCEPT ![p] = job'[p]] /\ job'[p].pc = "done" /\ job'[p].rc = rc
             /\ job'[p].req = job[p].req /\ job'[p].id = job[p].id /\ job'[p].at = job[p].at
             /\ job'[p].out = job[p].out
  BY <1>1, <1>3 DEF Return, JobType
<1> QED
  BY <1>2, <1>3

\* What no step of a script changes.
LEMMA StepFrame ==
  ASSUME TypeOK, NEW p \in Procs, Step(p) \/ Fail(p)
  PROVE  /\ job[p].pc \notin {"idle", "done"} /\ job'[p].pc # "idle"
         /\ job' = [job EXCEPT ![p] = job'[p]]
         /\ job'[p].req = job[p].req /\ job'[p].id = job[p].id
         /\ \A q \in Procs : q # p => job'[q] = job[q]
         /\ calls' = calls
<1>1. job \in [Procs -> JobType] /\ job[p] \in JobType
  BY DEF TypeOK
<1>2. job[p].pc \notin {"idle", "done"} /\ calls' = calls
  BY <1>1 DEF Step, Fail, Active, At, Lookup, CreateLun, MapLun, DestroyLun, DoDirectResize,
       SetLunComment, CloneLun, SearchToAttach, Poll, Rescan, Detach, PreMove, SearchToSave,
       OpenFile, WriteFile
<1> DEFINE Moved ==
      \/ \E pc \in Pcs \ {"idle"} : Goto(p, pc)
      \/ \E rc \in 0..2 : Return(p, rc)
      \/ \E d \in dev : Answer(p, d.id)
      \/ \E l \in luns : job' = [job EXCEPT ![p].pc = AfterLookup(job[p].req.op), ![p].at = l.pool]
                           /\ job[p].pc = "lookup" /\ job[p].req.op # "create"
      \/ job' = [job EXCEPT ![p].tries = @ + 1]
      \/ job' = [job EXCEPT ![p].pc = "done", ![p].rc = 1, ![p].tries = @ + 1]
      \/ \E d \in dev : job' = [job EXCEPT ![p].pc = "open", ![p].out = ScsiId(d)]
<1>3. Moved
  <2>1. CASE Lookup(p)
    BY <2>1 DEF Lookup, Pcs, LunsNamed
  <2>2. CASE CreateLun(p) \/ MapLun(p) \/ DestroyLun(p) \/ DoDirectResize(p) \/ SetLunComment(p)
              \/ CloneLun(p)
    BY <2>2 DEF CreateLun, MapLun, DestroyLun, DoDirectResize, SetLunComment, CloneLun, Then,
                Finally, Pcs
  <2>3. CASE SearchToAttach(p)
    BY <2>3 DEF SearchToAttach, Pcs
  <2>4. CASE Poll(p)
    BY <2>4 DEF Poll, Pcs
  <2>5. CASE Rescan(p) \/ Detach(p) \/ PreMove(p) \/ OpenFile(p) \/ WriteFile(p) \/ Fail(p)
    BY <2>5 DEF Rescan, Detach, PreMove, OpenFile, WriteFile, Fail, Then, Finally, Pcs
  <2>6. CASE SearchToSave(p)
    BY <2>6 DEF SearchToSave, Pcs
  <2> HIDE DEF Moved
  <2> QED
    BY <2>1, <2>2, <2>3, <2>4, <2>5, <2>6 DEF Step
<1> DEFINE Same == /\ job' = [job EXCEPT ![p] = job'[p]] /\ job'[p].pc # "idle"
                   /\ job'[p].req = job[p].req /\ job'[p].id = job[p].id
<1>4. ASSUME NEW pc \in Pcs \ {"idle"}, Goto(p, pc) PROVE Same
  BY <1>1, <1>4, Fields DEF Pcs
<1>5. ASSUME NEW rc \in 0..2, Return(p, rc) PROVE Same
  BY <1>1, <1>5, Fields
<1>6. ASSUME NEW d \in dev, Answer(p, d.id) PROVE Same
  BY <1>1, <1>6 DEF Answer, JobType
<1>7. ASSUME NEW l \in luns, job[p].pc = "lookup", job[p].req.op # "create",
             job' = [job EXCEPT ![p].pc = AfterLookup(job[p].req.op), ![p].at = l.pool]
      PROVE Same
  <2>1. job[p].req.op \in {"remove", "grow", "setinfo", "snapshot"}
    BY <1>1, <1>7, RequestFields DEF TypeOK, InStep, StepsOf
  <2>2. AfterLookup(job[p].req.op) # "idle"
    BY <2>1 DEF AfterLookup
  <2> QED
    BY <1>1, <1>7, <2>2 DEF JobType
<1>8. ASSUME job' = [job EXCEPT ![p].tries = @ + 1] PROVE Same
  BY <1>1, <1>2, <1>8 DEF JobType
<1>9. ASSUME job' = [job EXCEPT ![p].pc = "done", ![p].rc = 1, ![p].tries = @ + 1] PROVE Same
  BY <1>1, <1>9 DEF JobType
<1>10. ASSUME NEW d \in dev, job' = [job EXCEPT ![p].pc = "open", ![p].out = ScsiId(d)] PROVE Same
  BY <1>1, <1>10 DEF JobType
<1>11. Same
  BY <1>3, <1>4, <1>5, <1>6, <1>7, <1>8, <1>9, <1>10
<1>12. \A q \in Procs : q # p => job'[q] = job[q]
  BY <1>1, <1>11
<1> QED
  BY <1>2, <1>11, <1>12
-----------------------------------------------------------------------------
DiskType == [st : {"none", "doubt", "live", "removing", "removed"},
             pool : Pools \cup {NoPool}, size : Sizes \cup {0},
             note : Notes \cup {NewNote, Unsure}]

\* The calls of Ganeti for instance i.
Asks(p, i) ==
  \/ AskCreate(p, i) \/ AskRemove(p, i) \/ AskGrow(p, i) \/ AskSetInfo(p, i)
  \/ AskSnapshot(p, i) \/ AskAttach(p, i) \/ AskMove(p, i)

\* The types, one by one.
LEMMA Types ==
  ASSUME ClusterTypeOK
  PROVE  /\ disk \in [Names -> DiskType] /\ primary \in [Instances -> Nodes]
         /\ inst \in [Instances -> {"up", "hook", "removed"}]
         /\ holder \in [Procs -> Instances \cup {NoInstance}]
         /\ job \in [Procs -> JobType] /\ luns \subseteq LunType /\ dev \subseteq DevType
         /\ calls \in Nat
BY CallsAssumption DEF ClusterTypeOK, TypeOK, DiskType

\* A script that was just started.
LEMMA CallFrame ==
  ASSUME ClusterTypeOK, NEW p \in Procs, NEW r \in Requests, Call(p, r)
  PROVE  /\ job[p].pc = "idle" /\ job' = [job EXCEPT ![p] = job'[p]]
         /\ job'[p].req = r /\ job'[p].id = calls + 1 /\ job'[p].pc = FirstStep(r.op)
         /\ job'[p].out = 0 /\ job'[p].rc = 0
         /\ calls' = calls + 1 /\ UNCHANGED <<luns, dev, saved>>
         /\ \A q \in Procs : q # p => job'[q] = job[q]
<1>1. job \in [Procs -> JobType]
  BY Types
<1>2. job[p].pc = "idle"
  BY DEF Call, Idle
<1>3. job'[p] = Started(r, calls + 1) /\ job' = [job EXCEPT ![p] = job'[p]]
  BY <1>1 DEF Call
<1>4. /\ Started(r, calls + 1).req = r /\ Started(r, calls + 1).id = calls + 1
      /\ Started(r, calls + 1).pc = FirstStep(r.op)
      /\ Started(r, calls + 1).out = 0 /\ Started(r, calls + 1).rc = 0
  BY DEF Started, Idle
<1> QED
  BY <1>1, <1>2, <1>3, <1>4 DEF Call

\* What the step of a caller that starts a script for instance i does.
LEMMA AskFrame ==
  ASSUME ClusterTypeOK, NEW p \in Procs, NEW i \in Instances, Asks(p, i)
  PROVE  /\ Call(p, job'[p].req) /\ job'[p].req \in Requests
         /\ inst[i] = "up" /\ \A q \in Procs : holder[q] # i
         /\ holder' = [holder EXCEPT ![p] = i]
         /\ UNCHANGED <<hook, primary, inst>>
         /\ disk' \in [Names -> DiskType]
         /\ \A n \in Names : n \notin NamesOf(i) => disk'[n] = disk[n]
         /\ \A n \in Names :
              /\ disk'[n].pool = disk[n].pool /\ disk'[n].size = disk[n].size
              /\ disk'[n].note \in {disk[n].note, Unsure}
              /\ Live(n)' => Live(n)
              /\ disk'[n].st \in {"none", "removed"} => disk'[n].st = disk[n].st
         /\ Asked(p)'
         /\ job'[p].req.op = "create" => disk[job'[p].req.name].st = "none"
         /\ job'[p].req.op = "snapshot" => disk[job'[p].req.into].st = "none"
<1> DEFINE Kept(new) ==
      /\ new \in [Names -> DiskType]
      /\ \A n \in Names : n \notin NamesOf(i) => new[n] = disk[n]
      /\ \A n \in Names :
           /\ new[n].pool = disk[n].pool /\ new[n].size = disk[n].size
           /\ new[n].note \in {disk[n].note, Unsure}
           /\ new[n].st = "live" => Live(n)
           /\ new[n].st \in {"none", "removed"} => new[n].st = disk[n].st
<1>1. disk \in [Names -> DiskType]
  BY Types
<1>2. Kept(disk)
  BY <1>1 DEF Live
<1>3. ASSUME NEW n \in NamesOf(i), NEW st \in {"doubt", "removing"}
      PROVE  Kept([disk EXCEPT ![n].st = st])
  BY <1>1, <1>3, DiskNames DEF DiskType, Live
<1>4. ASSUME NEW n \in NamesOf(i) PROVE Kept([disk EXCEPT ![n].note = Unsure])
  BY <1>1, <1>4, DiskNames DEF DiskType, Live
<1> DEFINE Wanted(r) ==
      /\ r.op # "pre_move" => r.name \in NamesOf(i) /\ r.node = primary[i]
      /\ r.op \notin {"pre_move", "remove"} => r.name \in DiskSet(i)
      /\ r.op = "create" => disk[r.name].st = "none" /\ disk'[r.name].st = "doubt"
      /\ r.op = "remove" => r.uuid = r.name /\ disk'[r.name].st = "removing"
      /\ r.op \in {"grow", "setinfo", "snapshot", "attach", "detach"} => Live(r.name)'
      /\ r.op = "grow" => r.size > disk'[r.name].size
      /\ r.op = "setinfo" => disk'[r.name].note = Unsure
      /\ r.op = "snapshot" => /\ r.into \in SnapsOf[i] /\ disk[r.into].st = "none"
                              /\ disk'[r.into].st = "doubt"
      /\ r.op = "pre_move" => r.node = r.target /\ r.ext
<1>5. \E r \in Requests : \E new : Ask(p, i, r, new) /\ Kept(new) /\ Wanted(r)
  <2>1. CASE AskCreate(p, i)
    <3>1. PICK r \in Requests :
            /\ r.op = "create" /\ r.node = primary[i]
            /\ r.name \in DiskSet(i) /\ disk[r.name].st = "none"
            /\ Ask(p, i, r, [disk EXCEPT ![r.name].st = "doubt"])
      BY <2>1 DEF AskCreate
    <3>2. Kept([disk EXCEPT ![r.name].st = "doubt"])
      BY <3>1, <1>3, DiskNames
    <3>3. Wanted(r)
      BY <1>1, <3>1, DiskNames DEF Ask, DiskType
    <3> HIDE DEF Kept, Wanted
    <3> QED
      BY <3>1, <3>2, <3>3
  <2>2. CASE AskRemove(p, i)
    <3>1. PICK r \in Requests :
            /\ r.op = "remove" /\ r.node = primary[i] /\ r.uuid = r.name
            /\ r.name \in NamesOf(i)
            /\ Ask(p, i, r, [disk EXCEPT ![r.name].st = "removing"])
      BY <2>2 DEF AskRemove
    <3>2. Kept([disk EXCEPT ![r.name].st = "removing"])
      BY <3>1, <1>3
    <3>3. Wanted(r)
      BY <1>1, <3>1, DiskNames DEF Ask, DiskType
    <3> HIDE DEF Kept, Wanted
    <3> QED
      BY <3>1, <3>2, <3>3
  <2>3. CASE AskGrow(p, i)
    <3>1. PICK r \in Requests :
            /\ r.op = "grow" /\ r.node = primary[i]
            /\ r.name \in DiskSet(i) /\ Live(r.name) /\ r.size > disk[r.name].size
            /\ Ask(p, i, r, disk)
      BY <2>3 DEF AskGrow
    <3>2. Wanted(r)
      BY <3>1, DiskNames DEF Ask, Live
    <3> HIDE DEF Kept, Wanted
    <3> QED
      BY <1>2, <3>1, <3>2
  <2>4. CASE AskSetInfo(p, i)
    <3>1. PICK r \in Requests :
            /\ r.op = "setinfo" /\ r.node = primary[i]
            /\ r.name \in DiskSet(i) /\ Live(r.name)
            /\ Ask(p, i, r, [disk EXCEPT ![r.name].note = Unsure])
      BY <2>4 DEF AskSetInfo
    <3>2. Kept([disk EXCEPT ![r.name].note = Unsure])
      BY <3>1, <1>4, DiskNames
    <3>3. Wanted(r)
      BY <1>1, <3>1, DiskNames DEF Ask, DiskType, Live
    <3> HIDE DEF Kept, Wanted
    <3> QED
      BY <3>1, <3>2, <3>3
  <2>5. CASE AskSnapshot(p, i)
    <3>1. PICK r \in Requests :
            /\ r.op = "snapshot" /\ r.node = primary[i]
            /\ r.name \in DiskSet(i) /\ Live(r.name)
            /\ r.into \in SnapsOf[i] /\ disk[r.into].st = "none"
            /\ Ask(p, i, r, [disk EXCEPT ![r.into].st = "doubt"])
      BY <2>5 DEF AskSnapshot
    <3>2. Kept([disk EXCEPT ![r.into].st = "doubt"])
      BY <3>1, <1>3, DiskNames
    <3>3. Wanted(r)
      <4>1. r.name # r.into /\ r.name \in Names /\ r.into \in Names
        BY <3>1, DiskNames
      <4> QED
        BY <1>1, <3>1, <4>1, DiskNames DEF Ask, DiskType, Live
    <3> HIDE DEF Kept, Wanted
    <3> QED
      BY <3>1, <3>2, <3>3
  <2>6. CASE AskAttach(p, i)
    <3>1. PICK r \in Requests :
            /\ r.op \in {"attach", "detach"} /\ r.node = primary[i]
            /\ r.name \in DiskSet(i) /\ Live(r.name)
            /\ Ask(p, i, r, disk)
      BY <2>6 DEF AskAttach
    <3>2. Wanted(r)
      BY <3>1, DiskNames DEF Ask, Live
    <3> HIDE DEF Kept, Wanted
    <3> QED
      BY <1>2, <3>1, <3>2
  <2>7. CASE AskMove(p, i)
    <3>1. PICK r \in Requests :
            /\ r.op = "pre_move" /\ r.ext
            /\ r.node = r.target /\ r.target # primary[i]
            /\ Ask(p, i, r, disk)
      BY <2>7 DEF AskMove
    <3>2. Wanted(r)
      BY <3>1
    <3> HIDE DEF Kept, Wanted
    <3> QED
      BY <1>2, <3>1, <3>2
  <2> HIDE DEF Kept, Wanted
  <2> QED
    BY <2>1, <2>2, <2>3, <2>4, <2>5, <2>6, <2>7 DEF Asks
<1>6. PICK r \in Requests : Ask(p, i, r, disk') /\ Kept(disk') /\ Wanted(r)
  BY <1>5 DEF Ask
<1>7. /\ Call(p, r) /\ inst[i] = "up" /\ (\A q \in Procs : holder[q] # i)
      /\ holder' = [holder EXCEPT ![p] = i] /\ UNCHANGED <<hook, primary, inst>>
  BY <1>6 DEF Ask
<1>8. job'[p].req = r
  BY <1>7, CallFrame
<1>9. holder'[p] = i /\ primary' = primary
  BY <1>7, Types
<1>10. Asked(p)'
  BY <1>6, <1>8, <1>9 DEF Asked, Live
<1>11. Kept(disk')
  BY <1>6
<1> QED
  BY <1>6, <1>7, <1>8, <1>10, <1>11 DEF Live

\* What the end of a call does.
LEMMA AnswerFrame ==
  ASSUME ClusterTypeOK, Locked, NEW p \in Procs, Held(p) => Asked(p), Answered(p)
  PROVE  /\ job[p].pc = "done" /\ job' = [job EXCEPT ![p] = Idle] /\ holder[p] \in Instances
         /\ holder' = [holder EXCEPT ![p] = NoInstance] /\ inst[holder[p]] = "up"
         /\ UNCHANGED <<hook, inst, luns, dev, saved, calls>>
         /\ disk' = IF Succeeded(p) THEN Acknowledged(job[p].req) ELSE disk
         /\ primary' = IF Succeeded(p) /\ job[p].req.op = "pre_move"
                         THEN [primary EXCEPT ![holder[p]] = job[p].req.target] ELSE primary
         /\ Asked(p)
<1>1. job[p].pc = "done"
  BY DEF Answered, Finish
<1>2. holder[p] \in Instances /\ Held(p) /\ inst[holder[p]] = "up"
  BY <1>1, Types DEF Locked, Held
<1> QED
  BY <1>1, <1>2 DEF Answered, Finish, Succeeded
\* What is believed of the disks after a call has ended.
LEMMA AckFrame ==
  ASSUME ClusterTypeOK, Locked, NEW p \in Procs, Held(p) => Asked(p), Answered(p)
  PROVE  LET r == job[p].req IN
         /\ disk' \in [Names -> DiskType]
         /\ \A n \in Names : n \notin NamesOf(holder[p]) => disk'[n] = disk[n]
         /\ \A n \in Names :
              \/ disk'[n] = disk[n]
              \/ /\ Succeeded(p) /\ r.op = "create" /\ r.name = n
                 /\ disk'[n] = [st |-> "live", pool |-> r.pool, size |-> r.size, note |-> NewNote]
              \/ /\ Succeeded(p) /\ r.op = "remove" /\ r.name = n
                 /\ disk'[n].st = "removed"
              \/ /\ Succeeded(p) /\ r.op = "grow" /\ r.name = n
                 /\ Live(n) /\ disk'[n] = [disk[n] EXCEPT !.size = r.size]
              \/ /\ Succeeded(p) /\ r.op = "setinfo" /\ r.name = n
                 /\ Live(n) /\ disk'[n] = [disk[n] EXCEPT !.note = r.note]
              \/ /\ Succeeded(p) /\ r.op = "snapshot" /\ r.into = n
                 /\ disk'[n] = disk[r.name]
<1> DEFINE r == job[p].req
           i == holder[p]
           Changed(n) ==
              \/ disk'[n] = disk[n]
              \/ /\ Succeeded(p) /\ r.op = "create" /\ r.name = n
                 /\ disk'[n] = [st |-> "live", pool |-> r.pool, size |-> r.size, note |-> NewNote]
              \/ /\ Succeeded(p) /\ r.op = "remove" /\ r.name = n
                 /\ disk'[n].st = "removed"
              \/ /\ Succeeded(p) /\ r.op = "grow" /\ r.name = n
                 /\ Live(n) /\ disk'[n] = [disk[n] EXCEPT !.size = r.size]
              \/ /\ Succeeded(p) /\ r.op = "setinfo" /\ r.name = n
                 /\ Live(n) /\ disk'[n] = [disk[n] EXCEPT !.note = r.note]
              \/ /\ Succeeded(p) /\ r.op = "snapshot" /\ r.into = n
                 /\ disk'[n] = disk[r.name]
           Right == /\ disk' \in [Names -> DiskType]
                    /\ \A n \in Names : n \notin NamesOf(i) => disk'[n] = disk[n]
                    /\ \A n \in Names : Changed(n)
<1>1. Asked(p) /\ i \in Instances /\ disk \in [Names -> DiskType] /\ r \in Requests
  BY AnswerFrame, Types DEF Asked
<1>2. r.op \in {"create", "remove", "grow", "setinfo", "snapshot", "attach", "detach", "pre_move"}
  BY <1>1, RequestFields
<1>3. CASE ~Succeeded(p) \/ r.op \in {"attach", "detach", "pre_move"}
  <2>1. disk' = disk
    BY <1>3, AnswerFrame DEF Acknowledged
  <2> QED
    BY <1>1, <2>1
<1>4. CASE Succeeded(p) /\ r.op = "create"
  <2>1. r.name \in NamesOf(i) /\ r.pool \in Pools /\ r.size \in Sizes
    BY <1>1, <1>4, RequestFields DEF Asked
  <2>2. disk' = [disk EXCEPT ![r.name] =
                   [st |-> "live", pool |-> r.pool, size |-> r.size, note |-> NewNote]]
    BY <1>4, AnswerFrame DEF Acknowledged
  <2>3. [st |-> "live", pool |-> r.pool, size |-> r.size, note |-> NewNote] \in DiskType
    BY <2>1 DEF DiskType
  <2> QED
    BY <1>1, <1>4, <2>1, <2>2, <2>3, DiskNames
<1>5. CASE Succeeded(p) /\ r.op = "remove"
  <2>1. r.name \in NamesOf(i)
    BY <1>1, <1>5 DEF Asked
  <2>2. disk' = [disk EXCEPT ![r.name].st = "removed"]
    BY <1>5, AnswerFrame DEF Acknowledged
  <2>3. disk' \in [Names -> DiskType]
    BY <1>1, <2>2 DEF DiskType
  <2>4. \A n \in Names : n # r.name => disk'[n] = disk[n]
    BY <1>1, <2>2
  <2>5. r.name \in Names => disk'[r.name].st = "removed"
    BY <1>1, <2>2 DEF DiskType
  <2> QED
    BY <1>1, <1>5, <2>1, <2>3, <2>4, <2>5
<1>6. CASE Succeeded(p) /\ r.op = "grow"
  <2>1. r.name \in NamesOf(i) /\ Live(r.name) /\ r.size \in Sizes
    BY <1>1, <1>6, RequestFields DEF Asked
  <2>2. disk' = [disk EXCEPT ![r.name].size = r.size]
    BY <1>6, AnswerFrame DEF Acknowledged
  <2>3. disk' \in [Names -> DiskType]
    BY <1>1, <2>1, <2>2 DEF DiskType
  <2> QED
    BY <1>1, <1>6, <2>1, <2>2, <2>3
<1>7. CASE Succeeded(p) /\ r.op = "setinfo"
  <2>1. r.name \in NamesOf(i) /\ Live(r.name) /\ r.note \in Notes
    BY <1>1, <1>7, RequestFields DEF Asked
  <2>2. disk' = [disk EXCEPT ![r.name].note = r.note]
    BY <1>7, AnswerFrame DEF Acknowledged
  <2>3. disk' \in [Names -> DiskType]
    BY <1>1, <2>1, <2>2 DEF DiskType
  <2> QED
    BY <1>1, <1>7, <2>1, <2>2, <2>3
<1>8. CASE Succeeded(p) /\ r.op = "snapshot"
  <2>1. r.name \in Names /\ r.into \in NamesOf(i)
    BY <1>1, <1>8, RequestFields, DiskNames DEF Asked
  <2>2. disk' = [disk EXCEPT ![r.into] = disk[r.name]]
    BY <1>8, AnswerFrame DEF Acknowledged
  <2> QED
    BY <1>1, <1>8, <2>1, <2>2
<1>9. Right
  BY <1>2, <1>3, <1>4, <1>5, <1>6, <1>7, <1>8
<1> QED
  BY <1>9

\* A call that ends leaves the state of a disk, makes it live, or has removed it.
LEMMA AckStates ==
  ASSUME ClusterTypeOK, Locked, NEW p \in Procs, Held(p) => Asked(p), Answered(p)
  PROVE  \A n \in Names :
           \/ disk'[n].st = disk[n].st \/ disk'[n].st = "live"
           \/ /\ Succeeded(p) /\ job[p].req.op = "remove" /\ job[p].req.name = n
              /\ disk'[n].st = "removed"
<1> SUFFICES ASSUME NEW n \in Names
             PROVE  \/ disk'[n].st = disk[n].st \/ disk'[n].st = "live"
                    \/ /\ Succeeded(p) /\ job[p].req.op = "remove" /\ job[p].req.name = n
                       /\ disk'[n].st = "removed"
  OBVIOUS
<1> DEFINE r == job[p].req
<1>1. Succeeded(p) /\ r.op = "snapshot" => disk[r.name].st = "live"
  BY AnswerFrame DEF Asked, Live
<1>2. disk[n] \in DiskType
  BY Types
<1>3. \/ disk'[n] = disk[n]
      \/ disk'[n] = [st |-> "live", pool |-> r.pool, size |-> r.size, note |-> NewNote]
      \/ Succeeded(p) /\ r.op = "remove" /\ r.name = n /\ disk'[n].st = "removed"
      \/ disk'[n] = [disk[n] EXCEPT !.size = r.size]
      \/ disk'[n] = [disk[n] EXCEPT !.note = r.note]
      \/ Succeeded(p) /\ r.op = "snapshot" /\ disk'[n] = disk[r.name]
  BY AckFrame
<1>4. CASE disk'[n] = [st |-> "live", pool |-> r.pool, size |-> r.size, note |-> NewNote]
  BY <1>4
<1>5. CASE disk'[n] = [disk[n] EXCEPT !.size = r.size]
  BY <1>2, <1>5 DEF DiskType
<1>6. CASE disk'[n] = [disk[n] EXCEPT !.note = r.note]
  BY <1>2, <1>6 DEF DiskType
<1> QED
  BY <1>1, <1>3, <1>4, <1>5, <1>6

\* An instance is under one call at a time, and only while it is up.
LEMMA LockedKept ==
  ASSUME ClusterTypeOK, Locked, [ClusterNext]_cvars,
         \A p \in Procs : Held(p) => Asked(p)
  PROVE  Locked'
<1>1. ASSUME NEW p \in Procs, NEW i \in Instances, Asks(p, i) PROVE Locked'
  <2>1. /\ holder' = [holder EXCEPT ![p] = i] /\ inst[i] = "up" /\ inst' = inst
        /\ \A q \in Procs : holder[q] # i
        /\ Call(p, job'[p].req) /\ job'[p].req \in Requests
    BY <1>1, AskFrame
  <2>2. job'[p].pc = FirstStep(job'[p].req.op) /\ \A q \in Procs : q # p => job'[q] = job[q]
    BY <2>1, CallFrame
  <2>3. job'[p].pc # "idle"
    BY <2>1, <2>2, RequestFields DEF FirstStep
  <2> QED
    BY <2>1, <2>2, <2>3, Types, ClusterAssumption DEF Locked
<1>2. ASSUME NEW p \in Procs, Step(p) \/ Fail(p), UNCHANGED <<hook, world>> PROVE Locked'
  BY <1>2, StepFrame DEF Locked, world, ClusterTypeOK
<1>3. ASSUME NEW p \in Procs, Answered(p) PROVE Locked'
  <2>1. /\ job' = [job EXCEPT ![p] = Idle] /\ holder' = [holder EXCEPT ![p] = NoInstance]
        /\ inst' = inst
    BY <1>3, AnswerFrame
  <2> QED
    BY <2>1, Types, IdleJob DEF Locked
<1>4. ASSUME NEW i \in Instances, RemoveInstance(i) PROVE Locked'
  BY <1>4, Types DEF RemoveInstance, HookCall, Locked, vars
<1>5. ASSUME HookAnswered PROVE Locked'
  BY <1>5, Types DEF HookAnswered, HookFinish, Locked, vars
<1>6. ASSUME job' = job, holder' = holder, inst' = inst PROVE Locked'
  BY <1>6 DEF Locked
<1>7. ASSUME NEW d \in dev, Settle(d), UNCHANGED <<hook, world>> PROVE Locked'
  BY <1>6, <1>7 DEF Settle, world
<1>8. ASSUME HookStep \/ HookFail, UNCHANGED world PROVE Locked'
  BY <1>6, <1>8 DEF HookStep, HookFail, HookCheck, CatFile, RemoveFile, CleanDevices, world, vars
<1>9. CASE UNCHANGED cvars
  BY <1>6, <1>9 DEF cvars, world, vars
<1> QED
  BY <1>1, <1>2, <1>3, <1>4, <1>5, <1>7, <1>8, <1>9 DEF ClusterNext, Asks

\* While a call runs, what is believed of the disks it is about stays.
LEMMA AskedKept ==
  ASSUME ClusterTypeOK, Locked, [ClusterNext]_cvars,
         \A p \in Procs : Held(p) => Asked(p)
  PROVE  \A p \in Procs : (Held(p) => Asked(p))'
<1> SUFFICES ASSUME NEW q \in Procs, Held(q)' PROVE Asked(q)'
  OBVIOUS
<1>1. ASSUME Held(q), Asked(q), job'[q].req = job[q].req, holder'[q] = holder[q],
             primary'[holder[q]] = primary[holder[q]],
             \A n \in NamesOf(holder[q]) : disk'[n] = disk[n]
      PROVE  Asked(q)'
  <2>1. holder[q] \in Instances
    BY <1>1, Types DEF Held
  <2>2. /\ DiskSet(holder[q]) \subseteq NamesOf(holder[q])
        /\ SnapsOf[holder[q]] \subseteq NamesOf(holder[q])
    BY <2>1, DiskNames
  <2> DEFINE r == job[q].req
             i == holder[q]
  <2>3. r \in Requests /\ (r.op # "pre_move" => r.name \in NamesOf(i) /\ r.node = primary[i])
        /\ (r.op \notin {"pre_move", "remove"} => r.name \in DiskSet(i))
        /\ (r.op = "create" => disk[r.name].st = "doubt")
        /\ (r.op = "remove" => r.uuid = r.name /\ disk[r.name].st = "removing")
        /\ (r.op \in {"grow", "setinfo", "snapshot", "attach", "detach"} => disk[r.name].st = "live")
        /\ (r.op = "grow" => r.size > disk[r.name].size)
        /\ (r.op = "setinfo" => disk[r.name].note = Unsure)
        /\ (r.op = "snapshot" => r.into \in SnapsOf[i] /\ disk[r.into].st = "doubt")
        /\ (r.op = "pre_move" => r.node = r.target /\ r.ext)
    BY <1>1 DEF Asked, Live
  <2>4. r.op # "pre_move" => disk'[r.name] = disk[r.name]
    BY <1>1, <2>3
  <2>5. r.op = "snapshot" => disk'[r.into] = disk[r.into]
    BY <1>1, <2>2, <2>3
  <2>6. job'[q].req = r /\ holder'[q] = i /\ primary'[i] = primary[i]
    BY <1>1
  <2> HIDE DEF r, i
  <2>7. r.op # "pre_move" => r.name \in NamesOf(i) /\ r.node = primary'[i]
    BY <2>3, <2>6
  <2>8. r.op = "create" => disk'[r.name].st = "doubt"
    BY <2>3, <2>4
  <2>9. r.op = "remove" => r.uuid = r.name /\ disk'[r.name].st = "removing"
    BY <2>3, <2>4
  <2>10. r.op \in {"grow", "setinfo", "snapshot", "attach", "detach"} => disk'[r.name].st = "live"
    BY <2>3, <2>4
  <2>11. /\ r.op = "grow" => r.size > disk'[r.name].size
         /\ r.op = "setinfo" => disk'[r.name].note = Unsure
         /\ r.op = "snapshot" => r.into \in SnapsOf[i] /\ disk'[r.into].st = "doubt"
    BY <2>3, <2>4, <2>5
  <2> QED
    BY <2>3, <2>6, <2>7, <2>8, <2>9, <2>10, <2>11 DEF Asked, Live
<1>2. ASSUME NEW p \in Procs, NEW i \in Instances, Asks(p, i) PROVE Asked(q)'
  <2>1. CASE q = p
    BY <1>2, <2>1, AskFrame
  <2>2. CASE q # p
    <3>1. /\ holder' = [holder EXCEPT ![p] = i] /\ primary' = primary
          /\ Call(p, job'[p].req) /\ job'[p].req \in Requests
          /\ \A n \in Names : n \notin NamesOf(i) => disk'[n] = disk[n]
          /\ holder[q] # i
      BY <1>2, AskFrame
    <3>2. job'[q] = job[q]
      BY <2>2, <3>1, CallFrame
    <3>3. holder'[q] = holder[q] /\ Held(q)
      BY <2>2, <3>1, Types DEF Held
    <3>4. holder[q] \in Instances
      BY <3>3, Types DEF Held
    <3>5. \A n \in NamesOf(holder[q]) : disk'[n] = disk[n]
      BY <3>1, <3>4, NamesApart, DiskNames
    <3> QED
      BY <1>1, <3>1, <3>2, <3>3, <3>5
  <2> QED
    BY <2>1, <2>2
<1>3. ASSUME NEW p \in Procs, Answered(p) PROVE Asked(q)'
  <2>1. /\ holder' = [holder EXCEPT ![p] = NoInstance] /\ holder[p] \in Instances
        /\ job' = [job EXCEPT ![p] = Idle]
        /\ primary' \in {primary, [primary EXCEPT ![holder[p]] = job[p].req.target]}
    BY <1>3, AnswerFrame
  <2>2. \A n \in Names : n \notin NamesOf(holder[p]) => disk'[n] = disk[n]
    BY <1>3, AckFrame
  <2>3. q # p /\ holder'[q] = holder[q] /\ Held(q)
    BY <2>1, Types DEF Held
  <2>4. holder[q] \in Instances /\ holder[q] # holder[p]
    BY <2>3, Types DEF Held, Locked
  <2>5. \A n \in NamesOf(holder[q]) : disk'[n] = disk[n]
    BY <2>1, <2>2, <2>4, NamesApart, DiskNames
  <2>6. job'[q] = job[q] /\ primary'[holder[q]] = primary[holder[q]]
    BY <2>1, <2>3, <2>4, Types
  <2> QED
    BY <1>1, <2>3, <2>5, <2>6
<1>4. ASSUME job'[q].req = job[q].req, UNCHANGED <<disk, primary, holder>> PROVE Asked(q)'
  BY <1>1, <1>4 DEF Held
<1>5. ASSUME NEW p \in Procs, Step(p) \/ Fail(p), UNCHANGED <<hook, world>> PROVE Asked(q)'
  BY <1>4, <1>5, StepFrame DEF world, ClusterTypeOK
<1>6. ASSUME NEW i \in Instances, RemoveInstance(i) PROVE Asked(q)'
  BY <1>4, <1>6 DEF RemoveInstance, HookCall, vars
<1>7. ASSUME HookAnswered PROVE Asked(q)'
  BY <1>4, <1>7 DEF HookAnswered, HookFinish, vars
<1>8. ASSUME NEW d \in dev, Settle(d), UNCHANGED <<hook, world>> PROVE Asked(q)'
  BY <1>4, <1>8 DEF Settle, world
<1>9. ASSUME HookStep \/ HookFail, UNCHANGED world PROVE Asked(q)'
  BY <1>4, <1>9 DEF HookStep, HookFail, HookCheck, CatFile, RemoveFile, CleanDevices, world, vars
<1>10. CASE UNCHANGED cvars
  BY <1>4, <1>10 DEF cvars, world, vars
<1> QED
  BY <1>2, <1>3, <1>5, <1>6, <1>7, <1>8, <1>9, <1>10 DEF ClusterNext, Asks
-----------------------------------------------------------------------------
HookType == [pc : {"idle", "check", "cat", "rm", "clean", "done"}, host : Nodes, node : Nodes,
             ext : BOOLEAN, disks : Seq(Uuids), scsi : Nat, rc : 0..3]

\* The hook after the end of its run, and after the turn of its loop.
LEMMA HookFields ==
  ASSUME HookTypeOK
  PROVE  /\ hook \in HookType
         /\ \A rc \in {0, 1, 2, 3} : HookReturn(rc) =>
              /\ hook' \in HookType /\ hook'.pc = "done" /\ hook'.rc = rc
              /\ hook'.host = hook.host /\ hook'.ext = hook.ext /\ hook'.disks = hook.disks
         /\ \A disks \in Seq(Uuids) : ForDisks(disks) =>
              /\ hook' \in HookType
              /\ hook'.host = hook.host /\ hook'.ext = hook.ext
              /\ IF disks = <<>> THEN hook'.pc = "done" /\ hook'.rc = 0
                                 ELSE hook'.pc = "cat" /\ hook'.disks = disks
         /\ \A scsi \in Nat : hook' = [hook EXCEPT !.pc = "rm", !.scsi = scsi] =>
              /\ hook' \in HookType /\ hook'.pc = "rm" /\ hook'.scsi = scsi
              /\ hook'.host = hook.host /\ hook'.ext = hook.ext /\ hook'.disks = hook.disks
         /\ hook' = [hook EXCEPT !.pc = "clean"] =>
              /\ hook' \in HookType /\ hook'.pc = "clean" /\ hook'.scsi = hook.scsi
              /\ hook'.host = hook.host /\ hook'.ext = hook.ext /\ hook'.disks = hook.disks
<1>1. hook \in HookType
  BY DEF HookTypeOK, HookType
<1>2. ASSUME NEW rc \in {0, 1, 2, 3}, HookReturn(rc)
      PROVE  /\ hook' \in HookType /\ hook'.pc = "done" /\ hook'.rc = rc
             /\ hook'.host = hook.host /\ hook'.ext = hook.ext /\ hook'.disks = hook.disks
  <2>1. rc \in 0..3
    BY <1>2
  <2>2. hook' = [hook EXCEPT !.pc = "done", !.rc = rc]
    BY <1>2 DEF HookReturn
  <2> QED
    BY <1>1, <2>1, <2>2 DEF HookType
<1>3. ASSUME NEW disks \in Seq(Uuids), ForDisks(disks)
      PROVE  /\ hook' \in HookType
             /\ hook'.host = hook.host /\ hook'.ext = hook.ext
             /\ IF disks = <<>> THEN hook'.pc = "done" /\ hook'.rc = 0
                                ELSE hook'.pc = "cat" /\ hook'.disks = disks
  <2>1. CASE disks = <<>>
    BY <1>2, <1>3, <2>1 DEF ForDisks
  <2>2. CASE disks # <<>>
    <3>1. hook' = [hook EXCEPT !.pc = "cat", !.disks = disks, !.scsi = 0]
      BY <1>3, <2>2 DEF ForDisks
    <3> QED
      BY <1>1, <2>2, <3>1 DEF HookType
  <2> QED
    BY <2>1, <2>2
<1>4. ASSUME NEW scsi \in Nat, hook' = [hook EXCEPT !.pc = "rm", !.scsi = scsi]
      PROVE  /\ hook' \in HookType /\ hook'.pc = "rm" /\ hook'.scsi = scsi
             /\ hook'.host = hook.host /\ hook'.ext = hook.ext /\ hook'.disks = hook.disks
  BY <1>1, <1>4 DEF HookType
<1>5. ASSUME hook' = [hook EXCEPT !.pc = "clean"]
      PROVE  /\ hook' \in HookType /\ hook'.pc = "clean" /\ hook'.scsi = hook.scsi
             /\ hook'.host = hook.host /\ hook'.ext = hook.ext /\ hook'.disks = hook.disks
  BY <1>1, <1>5 DEF HookType
<1> QED
  BY <1>1, <1>2, <1>3, <1>4, <1>5

\* The hook started for an instance.
LEMMA HookStart ==
  ASSUME ClusterTypeOK, NEW i \in Instances, RemoveInstance(i)
  PROVE  /\ hook.pc = "idle" /\ hook' \in HookType
         /\ hook'.pc = "check" /\ hook'.ext /\ hook'.disks = DisksOf[i]
<1>1. PICK host \in Nodes : HookCall(host, primary[i], TRUE, DisksOf[i])
  BY DEF RemoveInstance
<1>2. primary[i] \in Nodes /\ DisksOf[i] \in Seq(Uuids)
  BY Types, ClusterAssumption
<1>3. NoHook \in HookType
  BY HookAssumption DEF NoHook, HookType
<1> QED
  BY <1>1, <1>2, <1>3 DEF HookCall, HookType

\* Every variable keeps its type.
LEMMA TypesKept ==
  ASSUME ClusterTypeOK, Locked, Hooked, [ClusterNext]_cvars,
         \A p \in Procs : Held(p) => Asked(p)
  PROVE  ClusterTypeOK'
<1>a. TypeOK /\ HookTypeOK
  BY DEF ClusterTypeOK
<1>b. ASSUME [Next]_vars PROVE TypeOK'
  BY <1>a, <1>b, TypeKept
<1>1. ASSUME NEW p \in Procs, NEW i \in Instances, Asks(p, i) PROVE ClusterTypeOK'
  <2>1. /\ Call(p, job'[p].req) /\ job'[p].req \in Requests
        /\ holder' = [holder EXCEPT ![p] = i] /\ UNCHANGED <<hook, primary, inst>>
        /\ disk' \in [Names -> DiskType]
    BY <1>1, AskFrame
  <2>2. TypeOK'
    <3>1. Next
      BY <2>1 DEF Next
    <3> QED
      BY <1>b, <3>1
  <2>3. holder' \in [Procs -> Instances \cup {NoInstance}]
    BY <2>1, Types
  <2> QED
    BY <2>1, <2>2, <2>3 DEF ClusterTypeOK, HookTypeOK, DiskType
<1>2. ASSUME NEW p \in Procs, Step(p) \/ Fail(p), UNCHANGED <<hook, world>> PROVE ClusterTypeOK'
  <2>1. Next
    BY <1>2 DEF Next
  <2> QED
    BY <1>2, <1>b, <2>1 DEF world, ClusterTypeOK, HookTypeOK
<1>3. ASSUME NEW p \in Procs, Answered(p) PROVE ClusterTypeOK'
  <2>1. Next
    BY <1>3 DEF Next, Answered
  <2>2. /\ holder' = [holder EXCEPT ![p] = NoInstance] /\ holder[p] \in Instances /\ Asked(p)
        /\ UNCHANGED <<hook, inst>>
        /\ primary' = IF Succeeded(p) /\ job[p].req.op = "pre_move"
                         THEN [primary EXCEPT ![holder[p]] = job[p].req.target] ELSE primary
    BY <1>3, AnswerFrame
  <2>3. disk' \in [Names -> DiskType]
    BY <1>3, AckFrame
  <2>4. holder' \in [Procs -> Instances \cup {NoInstance}]
    BY <2>2, Types
  <2>5. primary' \in [Instances -> Nodes]
    <3>1. job[p].req.op = "pre_move" => job[p].req.target \in Nodes
      BY <2>2, RequestFields DEF Asked
    <3> QED
      BY <2>2, <3>1, Types
  <2> QED
    BY <1>b, <2>1, <2>2, <2>3, <2>4, <2>5 DEF ClusterTypeOK, HookTypeOK, DiskType
<1>4. ASSUME NEW d \in dev, Settle(d), UNCHANGED <<hook, world>> PROVE ClusterTypeOK'
  <2>1. Next
    BY <1>4 DEF Next
  <2> QED
    BY <1>4, <1>b, <2>1 DEF world, ClusterTypeOK, HookTypeOK
<1>5. ASSUME hook' \in HookType, dev' \subseteq dev, saved' \subseteq saved,
             UNCHANGED <<luns, job, calls, world>>
      PROVE  ClusterTypeOK'
  <2>1. TypeOK'
    BY <1>a, <1>5 DEF TypeOK, InStep
  <2> QED
    BY <1>5, <2>1 DEF ClusterTypeOK, HookTypeOK, HookType, world
<1>6. hook.pc \in {"rm", "clean"} => Tail(hook.disks) \in Seq(Uuids)
  <2>1. hook.disks \in Seq(Uuids)
    BY <1>a, HookFields DEF HookType
  <2>2. hook.pc \in {"rm", "clean"} => hook.disks # <<>>
    BY DEF Hooked, HookOf
  <2> QED
    BY <2>1, <2>2, HeadTailProperties
<1>7. hook.disks \in Seq(Uuids)
  BY <1>a, HookFields DEF HookType
<1>9. ASSUME HookStep, UNCHANGED world PROVE ClusterTypeOK'
  <2>1. CASE HookCheck
    <3>1. hook' \in HookType
      BY <1>a, <2>1, <1>7, HookFields DEF HookCheck
    <3> QED
      BY <1>5, <1>9, <2>1, <3>1 DEF HookCheck, vars
  <2>2. CASE CatFile
    <3>1. \A f \in HookFile : f.scsi \in Nat
      BY <1>a DEF HookFile, TypeOK
    <3>2. hook' \in HookType
      BY <1>a, <2>2, <3>1, HookFields DEF CatFile
    <3> QED
      BY <1>5, <1>9, <2>2, <3>2 DEF CatFile, vars
  <2>3. CASE RemoveFile
    <3>1. hook' \in HookType
      BY <1>a, <2>3, <1>6, HookFields DEF RemoveFile
    <3> QED
      BY <1>5, <1>9, <2>3, <3>1 DEF RemoveFile
  <2>4. CASE CleanDevices
    <3>1. hook' \in HookType
      BY <1>a, <2>4, <1>6, HookFields DEF CleanDevices
    <3>2. dev' \subseteq dev
      BY <2>4 DEF CleanDevices, Flushed
    <3> QED
      BY <1>5, <1>9, <2>4, <3>1, <3>2 DEF CleanDevices
  <2> QED
    BY <1>9, <2>1, <2>2, <2>3, <2>4 DEF HookStep
<1>10. ASSUME HookFail, UNCHANGED world PROVE ClusterTypeOK'
  <2>1. hook' \in HookType
    BY <1>a, <1>10, HookFields DEF HookFail
  <2> QED
    BY <1>5, <1>10, <2>1 DEF HookFail, vars
<1>11. ASSUME NEW i \in Instances, RemoveInstance(i) PROVE ClusterTypeOK'
  <2>1. hook' \in HookType
    BY <1>11, HookStart
  <2>2. TypeOK'
    BY <1>11, <1>b DEF RemoveInstance, HookCall
  <2>3. inst' \in [Instances -> {"up", "hook", "removed"}]
    BY <1>11, Types DEF RemoveInstance
  <2> QED
    BY <1>11, <2>1, <2>2, <2>3 DEF ClusterTypeOK, HookTypeOK, HookType, RemoveInstance
<1>12. ASSUME HookAnswered PROVE ClusterTypeOK'
  <2>1. hook' \in HookType
    BY <1>12, HookAssumption DEF HookAnswered, HookFinish, NoHook, HookType
  <2>2. TypeOK'
    BY <1>12, <1>b DEF HookAnswered, HookFinish
  <2>3. inst' \in [Instances -> {"up", "hook", "removed"}]
    BY <1>12, Types DEF HookAnswered
  <2> QED
    BY <1>12, <2>1, <2>2, <2>3 DEF ClusterTypeOK, HookTypeOK, HookType, HookAnswered
<1>13. CASE UNCHANGED cvars
  <2>1. TypeOK'
    BY <1>13, <1>b DEF cvars
  <2> QED
    BY <1>13, <2>1 DEF cvars, world, ClusterTypeOK, HookTypeOK
<1> QED
  BY <1>1, <1>2, <1>3, <1>4, <1>9, <1>10, <1>11, <1>12, <1>13 DEF ClusterNext, Asks
-----------------------------------------------------------------------------
\* What a step of a script does to the LUNs, and at which of its steps.
Creates(p) ==
  /\ At(p, "create", "alloc")
  /\ luns' = luns \cup {NewLun(job[p].req, job[p].req.pool, job[p].id)}

Maps(p) ==
  /\ At(p, "create", "map")
  /\ luns' = Mapped(luns, LunsAt(luns, job[p].req.pool, job[p].req.name))

Destroys(p) ==
  /\ At(p, "remove", "destroy") /\ Target(p) # {}
  /\ luns' = luns \ Target(p)

Resizes(p) ==
  /\ At(p, "grow", "resize") /\ Target(p) # {}
  /\ luns' = Resized(luns, Target(p), job[p].req.size)

Comments(p) ==
  /\ At(p, "setinfo", "comment") /\ Target(p) # {}
  /\ luns' = Noted(luns, Target(p), job[p].req.note)

Clones(p) ==
  /\ At(p, "snapshot", "clone")
  /\ \E l \in Target(p) : luns' = luns \cup {CloneOf(l, job[p].req.into, job[p].id)}

LunMove(p) ==
  Creates(p) \/ Maps(p) \/ Destroys(p) \/ Resizes(p) \/ Comments(p) \/ Clones(p)

\* The six requests by which a script changes LUNs, and no other step does.
LEMMA LunMoves ==
  ASSUME NEW p \in Procs, Step(p) \/ Fail(p)
  PROVE  luns' = luns \/ LunMove(p)
<1>1. CASE CreateLun(p) \/ MapLun(p) \/ DestroyLun(p)
  BY <1>1 DEF CreateLun, MapLun, DestroyLun, LunMove, Creates, Maps, Destroys
<1>2. CASE DoDirectResize(p) \/ SetLunComment(p) \/ CloneLun(p)
  BY <1>2 DEF DoDirectResize, SetLunComment, CloneLun, LunMove, Resizes, Comments, Clones
<1>3. CASE Lookup(p) \/ SearchToAttach(p) \/ Poll(p) \/ Rescan(p) \/ Detach(p) \/ PreMove(p)
            \/ SearchToSave(p) \/ OpenFile(p) \/ WriteFile(p) \/ Fail(p)
  BY <1>3 DEF Lookup, SearchToAttach, Poll, Rescan, Detach, PreMove, SearchToSave, OpenFile,
              WriteFile, Fail
<1> QED
  BY <1>1, <1>2, <1>3 DEF Step

\* The names of a call are names of the instance whose lock it is under.
LEMMA AskedNames ==
  ASSUME ClusterTypeOK, NEW p \in Procs, Held(p), Asked(p)
  PROVE  /\ holder[p] \in Instances /\ job[p].req \in Requests
         /\ job[p].req.op # "pre_move" =>
              job[p].req.name \in NamesOf(holder[p]) /\ job[p].req.name \in Names
         /\ job[p].req.op = "snapshot" =>
              /\ job[p].req.into \in NamesOf(holder[p]) /\ job[p].req.into \in Names
              /\ job[p].req.into # job[p].req.name
<1>1. holder[p] \in Instances
  BY Types DEF Held
<1>2. job[p].req.op = "snapshot" =>
        job[p].req.into \in SnapsOf[holder[p]] /\ job[p].req.name \in DiskSet(holder[p])
  BY DEF Asked
<1>3. DiskSet(holder[p]) \cap SnapsOf[holder[p]] = {}
  BY <1>1, ClusterAssumption
<1> QED
  BY <1>1, <1>2, <1>3, DiskNames DEF Asked

\* A step of a script makes or changes only a LUN of its instance.
LEMMA LunFrame ==
  ASSUME ClusterTypeOK, NEW p \in Procs, Held(p), Asked(p), LunMove(p)
  PROVE  /\ Subject(p) \in NamesOf(holder[p]) /\ Subject(p) \in Names
         /\ \A n \in Names : n # Subject(p) => LunsNamed(luns', n) = LunsNamed(luns, n)
<1>b. luns \subseteq LunType
  BY Types
<1>c. job[p].req.op # "pre_move"
  BY DEF LunMove, Creates, Maps, Destroys, Resizes, Comments, Clones, At
<1>d. Subject(p) \in NamesOf(holder[p]) /\ Subject(p) \in Names
  BY <1>c, AskedNames DEF Subject
<1> SUFFICES ASSUME NEW n \in Names, n # Subject(p)
             PROVE  LunsNamed(luns', n) = LunsNamed(luns, n)
  BY <1>d
<1>a. job[p].req.op # "snapshot" => job[p].req.name # n
  BY DEF Subject
<1>1. CASE Creates(p)
  BY <1>1, <1>a DEF Creates, At, NewLun, LunsNamed
<1>2. CASE Maps(p)
  BY <1>2, <1>a, <1>b DEF Maps, At, Mapped, LunsAt, LunsNamed, LunType
<1>3. CASE Destroys(p)
  BY <1>3, <1>a DEF Destroys, At, Target, LunsAt, LunsNamed
<1>4. CASE Resizes(p)
  BY <1>4, <1>a, <1>b DEF Resizes, At, Resized, Target, LunsAt, LunsNamed, LunType
<1>5. CASE Comments(p)
  BY <1>5, <1>a, <1>b DEF Comments, At, Noted, Target, LunsAt, LunsNamed, LunType
<1>6. CASE Clones(p)
  <2>1. job[p].req.into # n
    BY <1>6 DEF Clones, At, Subject
  <2>2. PICK l \in Target(p) : luns' = luns \cup {CloneOf(l, job[p].req.into, job[p].id)}
    BY <1>6 DEF Clones
  <2>3. CloneOf(l, job[p].req.into, job[p].id).name = job[p].req.into
    BY <1>b, <2>2 DEF CloneOf, Target, LunsAt, LunType
  <2> QED
    BY <2>1, <2>2, <2>3 DEF LunsNamed
<1> QED
  BY <1>1, <1>2, <1>3, <1>4, <1>5, <1>6 DEF LunMove

\* A step that makes no LUN leaves the LUNs there are, with their names, pools and numbers.
LEMMA NoNewLun ==
  ASSUME ClusterTypeOK, NEW p \in Procs, LunMove(p), ~Creates(p), ~Clones(p)
  PROVE  \A k \in luns' : \E l \in luns : k.name = l.name /\ k.pool = l.pool /\ k.id = l.id
<1>b. luns \subseteq LunType
  BY Types
<1>1. CASE Maps(p)
  BY <1>1, <1>b DEF Maps, Mapped, LunType
<1>2. CASE Destroys(p)
  BY <1>2 DEF Destroys
<1>3. CASE Resizes(p)
  BY <1>3, <1>b DEF Resizes, Resized, LunType
<1>4. CASE Comments(p)
  BY <1>4, <1>b DEF Comments, Noted, LunType
<1> QED
  BY <1>1, <1>2, <1>3, <1>4 DEF LunMove

\* LUNs change in the steps of scripts, each under the lock of an instance.
LEMMA OtherLuns ==
  ASSUME ClusterTypeOK, Locked, [ClusterNext]_cvars, \A p \in Procs : Held(p) => Asked(p)
  PROVE  luns' = luns \/ \E p \in Procs : /\ (Step(p) \/ Fail(p)) /\ LunMove(p)
                                          /\ UNCHANGED <<hook, world>> /\ Held(p)
<1>1. ASSUME NEW p \in Procs, NEW i \in Instances, Asks(p, i) PROVE luns' = luns
  BY <1>1, AskFrame, CallFrame
<1>2. ASSUME NEW p \in Procs, Answered(p) PROVE luns' = luns
  BY <1>2, AnswerFrame
<1>3. ASSUME NEW p \in Procs, Step(p) \/ Fail(p), UNCHANGED <<hook, world>>
      PROVE  luns' = luns \/ (LunMove(p) /\ Held(p))
  BY <1>3, LunMoves, StepFrame DEF Locked, Held, ClusterTypeOK
<1>4. ASSUME NEW d \in dev, Settle(d) PROVE luns' = luns
  BY <1>4 DEF Settle
<1>5. ASSUME HookStep \/ HookFail \/ HookAnswered PROVE luns' = luns
  BY <1>5 DEF HookStep, HookFail, HookCheck, CatFile, RemoveFile, CleanDevices, HookAnswered,
              HookFinish, vars
<1>6. ASSUME NEW i \in Instances, RemoveInstance(i) PROVE luns' = luns
  BY <1>6 DEF RemoveInstance, HookCall, vars
<1>7. CASE UNCHANGED cvars
  BY <1>7 DEF cvars, vars
<1> QED
  BY <1>1, <1>2, <1>3, <1>4, <1>5, <1>6, <1>7 DEF ClusterNext, Asks
-----------------------------------------------------------------------------
\* The two are states of one device.
SameDevice(d, e) == d.node = e.node /\ d.name = e.name /\ d.id = e.id

\* What the attach commands do to the devices.
LEMMA RescannedDevices ==
  ASSUME NEW node \in Nodes, luns \subseteq LunType, dev \subseteq DevType
  PROVE  LET new == Rescanned(dev, luns, node) IN
         /\ \A d \in new :
              \/ d \in dev /\ ~(d.node = node /\ \E l \in luns : l.mapped /\ l.id = d.id)
              \/ \E e \in dev, l \in luns :
                   /\ l.mapped /\ l.id = e.id /\ e.node = node
                   /\ SameDevice(d, e) /\ d.size = l.size
              \/ \E l \in luns :
                   l.mapped /\ d.node = node /\ d.name = l.name /\ d.id = l.id /\ d.size = l.size
         /\ \A e \in dev : \E d \in new : SameDevice(d, e)
         /\ \A l \in luns : l.mapped => \E d \in new : d.node = node /\ d.id = l.id
<1> DEFINE seen(d) == {l \in luns : l.mapped /\ l.id = d.id}
           missing == {l \in luns : l.mapped /\ \A d \in dev : ~(d.node = node /\ d.id = l.id)}
           fresh(d) == IF d.node = node /\ seen(d) # {}
                         THEN [d EXCEPT !.size = (CHOOSE l \in seen(d) : TRUE).size] ELSE d
           new == Rescanned(dev, luns, node)
<1>1. new = {fresh(d) : d \in dev} \cup {DeviceOf(l, node) : l \in missing}
  BY DEF Rescanned
<1>2. ASSUME NEW e \in dev
      PROVE  /\ SameDevice(fresh(e), e)
             /\ \/ fresh(e) = e /\ ~(e.node = node /\ seen(e) # {})
                \/ \E l \in luns : l.mapped /\ l.id = e.id /\ e.node = node /\ fresh(e).size = l.size
  <2>1. CASE e.node = node /\ seen(e) # {}
    <3>1. PICK l \in seen(e) : l = (CHOOSE x \in seen(e) : TRUE)
      BY <2>1
    <3>2. fresh(e) = [e EXCEPT !.size = l.size]
      BY <2>1, <3>1
    <3>3. e \in DevType
      OBVIOUS
    <3>4. fresh(e).size = l.size /\ SameDevice(fresh(e), e)
      BY <3>2, <3>3 DEF DevType, SameDevice
    <3> QED
      BY <2>1, <3>1, <3>4
  <2>2. CASE ~(e.node = node /\ seen(e) # {})
    BY <2>2 DEF SameDevice
  <2> QED
    BY <2>1, <2>2
<1>3. ASSUME NEW l \in missing
      PROVE  /\ l \in luns /\ l.mapped
             /\ DeviceOf(l, node).node = node /\ DeviceOf(l, node).name = l.name
             /\ DeviceOf(l, node).id = l.id /\ DeviceOf(l, node).size = l.size
  BY DEF DeviceOf
<1>4. ASSUME NEW d \in new
      PROVE  \/ d \in dev /\ ~(d.node = node /\ \E l \in luns : l.mapped /\ l.id = d.id)
             \/ \E e \in dev, l \in luns :
                  /\ l.mapped /\ l.id = e.id /\ e.node = node
                  /\ SameDevice(d, e) /\ d.size = l.size
             \/ \E l \in luns :
                  l.mapped /\ d.node = node /\ d.name = l.name /\ d.id = l.id /\ d.size = l.size
  <2>1. CASE \E e \in dev : d = fresh(e)
    <3>1. PICK e \in dev : d = fresh(e)
      BY <2>1
    <3> HIDE DEF fresh
    <3> QED
      BY <1>2, <3>1
  <2>2. CASE \E l \in missing : d = DeviceOf(l, node)
    <3>1. PICK l \in missing : d = DeviceOf(l, node)
      BY <2>2
    <3> QED
      BY <1>3, <3>1
  <2> QED
    BY <1>1, <2>1, <2>2
<1>5. ASSUME NEW e \in dev PROVE \E d \in new : SameDevice(d, e)
  <2>1. fresh(e) \in new
    BY <1>1
  <2>2. SameDevice(fresh(e), e)
    BY <1>2
  <2> HIDE DEF fresh, new
  <2> QED
    BY <2>1, <2>2
<1>6. ASSUME NEW l \in luns, l.mapped PROVE \E d \in new : d.node = node /\ d.id = l.id
  <2>1. CASE l \in missing
    BY <1>1, <1>3, <2>1
  <2>2. CASE l \notin missing
    <3>1. PICK e \in dev : e.node = node /\ e.id = l.id
      BY <1>6, <2>2
    <3> QED
      BY <1>5, <3>1 DEF SameDevice
  <2> QED
    BY <2>1, <2>2
<1> QED
  BY <1>4, <1>5, <1>6

\* What the udev rule does to them.
LEMMA LinkedDevices ==
  ASSUME dev \subseteq DevType, NEW d \in dev
  PROVE  /\ \A f \in Linked(dev, d) : \E e \in dev : SameDevice(f, e) /\ f.size = e.size
         /\ \A e \in dev : \E f \in Linked(dev, d) : SameDevice(f, e) /\ f.size = e.size
<1>1. \A e \in dev : LET f == [e EXCEPT !.linked = (e = d)] IN SameDevice(f, e) /\ f.size = e.size
  BY DEF DevType, SameDevice
<1>2. \A e \in dev : SameDevice(e, e)
  BY DEF SameDevice
<1>3. Linked(dev, d) = (dev \ {e \in dev : SamePath(d, e)})
                         \cup {[e EXCEPT !.linked = (e = d)] : e \in {e \in dev : SamePath(d, e)}}
  BY DEF Linked
<1>4. ASSUME NEW f \in Linked(dev, d) PROVE \E e \in dev : SameDevice(f, e) /\ f.size = e.size
  <2>1. CASE f \in dev
    BY <1>2, <2>1
  <2>2. CASE f \notin dev
    <3>1. PICK e \in dev : f = [e EXCEPT !.linked = (e = d)]
      BY <1>3, <2>2
    <3> QED
      BY <1>1, <3>1
  <2> QED
    BY <2>1, <2>2
<1>5. ASSUME NEW e \in dev PROVE \E f \in Linked(dev, d) : SameDevice(f, e) /\ f.size = e.size
  BY <1>1, <1>2, <1>3
<1> QED
  BY <1>4, <1>5

\* The steps that change devices.
LEMMA DevMoves ==
  ASSUME ClusterTypeOK, Locked, [ClusterNext]_cvars, \A p \in Procs : Held(p) => Asked(p)
  PROVE  \/ dev' = dev
         \/ \E p \in Procs : Rescan(p) /\ Held(p) /\ UNCHANGED <<luns, calls, hook, world>>
         \/ \E d \in dev : Settle(d) /\ UNCHANGED <<luns, job, calls, hook, world>>
         \/ CleanDevices /\ UNCHANGED <<luns, job, calls, world>>
<1>1. ASSUME NEW p \in Procs, NEW i \in Instances, Asks(p, i) PROVE dev' = dev
  BY <1>1, AskFrame, CallFrame
<1>2. ASSUME NEW p \in Procs, Answered(p) PROVE dev' = dev
  BY <1>2, AnswerFrame
<1>3. ASSUME NEW p \in Procs, Step(p) \/ Fail(p), UNCHANGED <<hook, world>>
      PROVE  dev' = dev \/ (Rescan(p) /\ Held(p) /\ UNCHANGED <<luns, calls, hook, world>>)
  <2>1. Held(p)
    BY <1>3, StepFrame DEF Locked, Held, ClusterTypeOK
  <2>2. CASE Rescan(p)
    BY <1>3, <2>1, <2>2 DEF Rescan
  <2>3. CASE ~Rescan(p)
    BY <1>3, <2>3 DEF Step, Fail, Lookup, CreateLun, MapLun, DestroyLun, DoDirectResize,
         SetLunComment, CloneLun, SearchToAttach, Poll, Detach, PreMove, SearchToSave, OpenFile,
         WriteFile
  <2> QED
    BY <2>2, <2>3
<1>4. ASSUME NEW d \in dev, Settle(d), UNCHANGED <<hook, world>>
      PROVE  Settle(d) /\ UNCHANGED <<luns, job, calls, hook, world>>
  BY <1>4 DEF Settle
<1>5. ASSUME HookStep \/ HookFail, UNCHANGED world
      PROVE  dev' = dev \/ (CleanDevices /\ UNCHANGED <<luns, job, calls, world>>)
  BY <1>5 DEF HookStep, HookFail, HookCheck, CatFile, RemoveFile, CleanDevices, vars
<1>6. ASSUME HookAnswered PROVE dev' = dev
  BY <1>6 DEF HookAnswered, HookFinish, vars
<1>7. ASSUME NEW i \in Instances, RemoveInstance(i) PROVE dev' = dev
  BY <1>7 DEF RemoveInstance, HookCall, vars
<1>8. CASE UNCHANGED cvars
  BY <1>8 DEF cvars, vars
<1> QED
  BY <1>1, <1>2, <1>3, <1>4, <1>5, <1>6, <1>7, <1>8 DEF ClusterNext, Asks

\* A device is one there was, or it shows a LUN, of the same name and number.
LEMMA DevicesFrom ==
  ASSUME ClusterTypeOK, Locked, Identity, [ClusterNext]_cvars, \A p \in Procs : Held(p) => Asked(p)
  PROVE  \A d \in dev' :
           \/ \E e \in dev : SameDevice(d, e) /\ d.size = e.size
           \/ \E l \in luns : d.name = l.name /\ d.id = l.id /\ d.size = l.size /\ l.mapped
<1> SUFFICES ASSUME NEW d \in dev'
             PROVE  \/ \E e \in dev : SameDevice(d, e) /\ d.size = e.size
                    \/ \E l \in luns : d.name = l.name /\ d.id = l.id /\ d.size = l.size /\ l.mapped
  OBVIOUS
<1>a. luns \subseteq LunType /\ dev \subseteq DevType
  BY Types
<1>1. CASE dev' = dev
  BY <1>1 DEF SameDevice
<1>2. ASSUME NEW p \in Procs, Rescan(p), Held(p)
      PROVE  \/ \E e \in dev : SameDevice(d, e) /\ d.size = e.size
             \/ \E l \in luns : d.name = l.name /\ d.id = l.id /\ d.size = l.size /\ l.mapped
  <2>1. job[p].req.node \in Nodes
    BY <1>2, AskedNames, RequestFields
  <2>2. d \in Rescanned(dev, luns, job[p].req.node)
    BY <1>2 DEF Rescan
  <2>3. CASE \E e \in dev, l \in luns :
               /\ l.mapped /\ l.id = e.id /\ SameDevice(d, e) /\ d.size = l.size
    <3>1. PICK e \in dev, l \in luns :
            l.mapped /\ l.id = e.id /\ SameDevice(d, e) /\ d.size = l.size
      BY <2>3
    <3>2. Labelled(e.name, e.id) /\ Labelled(l.name, l.id)
      BY DEF Labelled
    <3>3. e.name \in Names /\ l.name \in Names /\ e.id \in Nat /\ l.id \in Nat
      BY <1>a DEF LunType, DevType
    <3>4. e.name = l.name
      BY <3>1, <3>2, <3>3 DEF Identity
    <3> QED
      BY <3>1, <3>4 DEF SameDevice
  <2> QED
    BY <1>a, <2>1, <2>2, <2>3, RescannedDevices DEF SameDevice
<1>3. ASSUME NEW e \in dev, Settle(e) PROVE \E f \in dev : SameDevice(d, f) /\ d.size = f.size
  BY <1>a, <1>3, LinkedDevices DEF Settle
<1>4. CASE CleanDevices
  BY <1>4 DEF CleanDevices, Flushed, SameDevice
<1> QED
  BY <1>1, <1>2, <1>3, <1>4, DevMoves

\* A device stays, unless the cleanup drops it.
LEMMA DevicesKept ==
  ASSUME ClusterTypeOK, Locked, [ClusterNext]_cvars, \A p \in Procs : Held(p) => Asked(p)
  PROVE  \A e \in dev : (\E d \in dev' : SameDevice(d, e)) \/ (CleanDevices /\ e.id = hook.scsi)
<1> SUFFICES ASSUME NEW e \in dev
             PROVE  (\E d \in dev' : SameDevice(d, e)) \/ (CleanDevices /\ e.id = hook.scsi)
  OBVIOUS
<1>a. luns \subseteq LunType /\ dev \subseteq DevType
  BY Types
<1>1. CASE dev' = dev
  BY <1>1 DEF SameDevice
<1>2. ASSUME NEW p \in Procs, Rescan(p), Held(p) PROVE \E d \in dev' : SameDevice(d, e)
  <2>1. job[p].req.node \in Nodes
    BY <1>2, AskedNames, RequestFields
  <2> QED
    BY <1>a, <1>2, <2>1, RescannedDevices DEF Rescan
<1>3. ASSUME NEW f \in dev, Settle(f) PROVE \E d \in dev' : SameDevice(d, e)
  BY <1>a, <1>3, LinkedDevices DEF Settle
<1>4. CASE CleanDevices
  BY <1>4 DEF CleanDevices, Flushed, SameDevice
<1> QED
  BY <1>1, <1>2, <1>3, <1>4, DevMoves
-----------------------------------------------------------------------------
\* The steps that change cleanup files.
LEMMA SavedMoves ==
  ASSUME ClusterTypeOK, Locked, [ClusterNext]_cvars, \A p \in Procs : Held(p) => Asked(p)
  PROVE  \/ saved' = saved
         \/ \E p \in Procs : (OpenFile(p) \/ WriteFile(p)) /\ Held(p) /\ UNCHANGED <<hook, world>>
         \/ RemoveFile /\ UNCHANGED <<luns, dev, job, calls, world>>
<1>1. ASSUME NEW p \in Procs, NEW i \in Instances, Asks(p, i) PROVE saved' = saved
  BY <1>1, AskFrame, CallFrame
<1>2. ASSUME NEW p \in Procs, Answered(p) PROVE saved' = saved
  BY <1>2, AnswerFrame
<1>3. ASSUME NEW p \in Procs, Step(p) \/ Fail(p), UNCHANGED <<hook, world>>
      PROVE  saved' = saved \/ ((OpenFile(p) \/ WriteFile(p)) /\ Held(p) /\ UNCHANGED <<hook, world>>)
  <2>1. Held(p)
    BY <1>3, StepFrame DEF Locked, Held, ClusterTypeOK
  <2>2. CASE ~(OpenFile(p) \/ WriteFile(p))
    BY <1>3, <2>2 DEF Step, Fail, Lookup, CreateLun, MapLun, DestroyLun, DoDirectResize,
         SetLunComment, CloneLun, SearchToAttach, Poll, Detach, PreMove, SearchToSave, Rescan
  <2> QED
    BY <1>3, <2>1, <2>2
<1>4. ASSUME NEW d \in dev, Settle(d), UNCHANGED <<hook, world>> PROVE saved' = saved
  BY <1>4 DEF Settle
<1>5. ASSUME HookStep \/ HookFail, UNCHANGED world
      PROVE  saved' = saved \/ (RemoveFile /\ UNCHANGED <<luns, dev, job, calls, world>>)
  BY <1>5 DEF HookStep, HookFail, HookCheck, CatFile, RemoveFile, CleanDevices, vars
<1>6. ASSUME HookAnswered PROVE saved' = saved
  BY <1>6 DEF HookAnswered, HookFinish, vars
<1>7. ASSUME NEW i \in Instances, RemoveInstance(i) PROVE saved' = saved
  BY <1>7 DEF RemoveInstance, HookCall, vars
<1>8. CASE UNCHANGED cvars
  BY <1>8 DEF cvars, vars
<1> QED
  BY <1>1, <1>2, <1>3, <1>4, <1>5, <1>6, <1>7, <1>8 DEF ClusterNext, Asks

\* What a script has found changes in a search only.
Found(p) ==
  \E d \in dev : d.node = job[p].req.node /\ d.name = job[p].req.name /\ job'[p].out = d.id

\* The answer of a call is set by the three searches that find a device.
LEMMA OutMoves ==
  ASSUME TypeOK, NEW p \in Procs, Step(p) \/ Fail(p)
  PROVE  \/ job'[p].out = job[p].out
         \/ At(p, "attach", "search") /\ Found(p) /\ job'[p].pc = "done"
         \/ At(p, "attach", "poll") /\ Found(p) /\ job'[p].pc = "done"
         \/ At(p, "remove", "search") /\ Found(p) /\ job'[p].pc = "open"
<1>1. job \in [Procs -> JobType] /\ job[p] \in JobType
  BY DEF TypeOK
<1> DEFINE Kept == job'[p].out = job[p].out
<1>2. ASSUME \/ \E pc : Goto(p, pc)
             \/ \E rc \in Nat : Return(p, rc)
             \/ \E pc, at : job' = [job EXCEPT ![p].pc = pc, ![p].at = at]
             \/ job' = [job EXCEPT ![p].tries = @ + 1]
             \/ job' = [job EXCEPT ![p].pc = "done", ![p].rc = 1, ![p].tries = @ + 1]
      PROVE Kept
  <2>1. CASE \/ \E pc : Goto(p, pc)
             \/ \E rc \in Nat : Return(p, rc)
    BY <2>1, Fields
  <2>2. ASSUME NEW pc, NEW at, job' = [job EXCEPT ![p].pc = pc, ![p].at = at] PROVE Kept
    BY <1>1, <2>2 DEF JobType
  <2>3. CASE job' = [job EXCEPT ![p].tries = @ + 1]
    BY <1>1, <2>3 DEF JobType
  <2>4. CASE job' = [job EXCEPT ![p].pc = "done", ![p].rc = 1, ![p].tries = @ + 1]
    BY <1>1, <2>4 DEF JobType
  <2> QED
    BY <1>2, <2>1, <2>2, <2>3, <2>4
<1>3. ASSUME NEW d \in dev, SearchFinds(job[p].req.node, job[p].req.name, d)
      PROVE  d.node = job[p].req.node /\ d.name = job[p].req.name
  BY <1>3 DEF SearchFinds, FilesOf
<1>4. ASSUME NEW d \in dev, Answer(p, d.id) PROVE job'[p].out = d.id /\ job'[p].pc = "done"
  BY <1>1, <1>4 DEF Answer, JobType
<1>5. CASE Lookup(p)
  <2>1. \/ \E pc : Goto(p, pc)
        \/ \E rc \in Nat : Return(p, rc)
        \/ \E pc, at : job' = [job EXCEPT ![p].pc = pc, ![p].at = at]
    BY <1>5 DEF Lookup
  <2> QED
    BY <1>2, <2>1
<1>6. CASE CreateLun(p) \/ MapLun(p) \/ DestroyLun(p) \/ DoDirectResize(p) \/ SetLunComment(p)
            \/ CloneLun(p) \/ Rescan(p) \/ Detach(p) \/ PreMove(p) \/ OpenFile(p) \/ WriteFile(p)
            \/ Fail(p)
  <2>1. \/ \E pc : Goto(p, pc)
        \/ \E rc \in Nat : Return(p, rc)
    BY <1>6 DEF CreateLun, MapLun, DestroyLun, DoDirectResize, SetLunComment, CloneLun, Rescan,
                Detach, PreMove, OpenFile, WriteFile, Fail, Then, Finally
  <2> QED
    BY <1>2, <2>1
<1>7. CASE SearchToAttach(p)
  <2>1. \/ \E pc : Goto(p, pc)
        \/ \E rc \in Nat : Return(p, rc)
        \/ \E d \in dev : SearchFinds(job[p].req.node, job[p].req.name, d) /\ Answer(p, d.id)
    BY <1>7 DEF SearchToAttach
  <2> QED
    BY <1>2, <1>3, <1>4, <1>7, <2>1 DEF SearchToAttach, Found
<1>8. CASE Poll(p)
  <2>1. \/ \E rc \in Nat : Return(p, rc)
        \/ job' = [job EXCEPT ![p].tries = @ + 1]
        \/ job' = [job EXCEPT ![p].pc = "done", ![p].rc = 1, ![p].tries = @ + 1]
        \/ \E d \in dev : SearchFinds(job[p].req.node, job[p].req.name, d) /\ Answer(p, d.id)
    BY <1>8 DEF Poll
  <2> QED
    BY <1>2, <1>3, <1>4, <1>8, <2>1 DEF Poll, Found
<1>9. CASE SearchToSave(p)
  <2>1. \/ \E pc : Goto(p, pc)
        \/ \E rc \in Nat : Return(p, rc)
        \/ \E d \in dev : /\ SearchFinds(job[p].req.node, job[p].req.name, d)
                          /\ job' = [job EXCEPT ![p].pc = "open", ![p].out = ScsiId(d)]
    BY <1>9 DEF SearchToSave
  <2>2. ASSUME NEW d \in dev, job' = [job EXCEPT ![p].pc = "open", ![p].out = ScsiId(d)]
        PROVE  job'[p].out = d.id /\ job'[p].pc = "open"
    BY <1>1, <2>2 DEF JobType, ScsiId
  <2> QED
    BY <1>2, <1>3, <1>9, <2>1, <2>2 DEF SearchToSave, Found
<1> QED
  BY <1>5, <1>6, <1>7, <1>8, <1>9 DEF Step
-----------------------------------------------------------------------------
\* Whose step it may be.
LEMMA JobsMove ==
  ASSUME ClusterTypeOK, Locked, [ClusterNext]_cvars, \A p \in Procs : Held(p) => Asked(p),
         NEW q \in Procs
  PROVE  \/ job'[q] = job[q] /\ holder'[q] = holder[q]
         \/ \E i \in Instances : Asks(q, i)
         \/ (Step(q) \/ Fail(q)) /\ UNCHANGED <<hook, world>> /\ Held(q)
         \/ Answered(q)
<1>1. ASSUME NEW p \in Procs, NEW i \in Instances, Asks(p, i), p # q
      PROVE  job'[q] = job[q] /\ holder'[q] = holder[q]
  BY <1>1, AskFrame, CallFrame, Types
<1>2. ASSUME NEW p \in Procs, Answered(p), p # q PROVE job'[q] = job[q] /\ holder'[q] = holder[q]
  BY <1>2, AnswerFrame, Types
<1>3. ASSUME NEW p \in Procs, Step(p) \/ Fail(p), UNCHANGED <<hook, world>>
      PROVE  \/ job'[q] = job[q] /\ holder'[q] = holder[q]
             \/ (Step(q) \/ Fail(q)) /\ UNCHANGED <<hook, world>> /\ Held(q)
  BY <1>3, StepFrame DEF world, ClusterTypeOK, Locked, Held
<1>4. ASSUME NEW d \in dev, Settle(d), UNCHANGED <<hook, world>>
      PROVE  job'[q] = job[q] /\ holder'[q] = holder[q]
  BY <1>4 DEF Settle, world
<1>5. ASSUME HookStep \/ HookFail, UNCHANGED world PROVE job'[q] = job[q] /\ holder'[q] = holder[q]
  BY <1>5 DEF HookStep, HookFail, HookCheck, CatFile, RemoveFile, CleanDevices, vars, world
<1>6. ASSUME HookAnswered PROVE job'[q] = job[q] /\ holder'[q] = holder[q]
  BY <1>6 DEF HookAnswered, HookFinish, vars
<1>7. ASSUME NEW i \in Instances, RemoveInstance(i) PROVE job'[q] = job[q] /\ holder'[q] = holder[q]
  BY <1>7 DEF RemoveInstance, HookCall, vars
<1>8. CASE UNCHANGED cvars
  BY <1>8 DEF cvars, vars, world
<1> QED
  BY <1>1, <1>2, <1>3, <1>4, <1>5, <1>6, <1>7, <1>8 DEF ClusterNext, Asks

\* The steps that move the hook, and those that leave it alone.
LEMMA HookMoves ==
  ASSUME ClusterTypeOK, [ClusterNext]_cvars
  PROVE  \/ hook' = hook /\ inst' = inst
         \/ \E i \in Instances : RemoveInstance(i)
         \/ (HookStep \/ HookFail) /\ UNCHANGED world
         \/ HookAnswered
<1>1. ASSUME NEW p \in Procs, NEW i \in Instances, Asks(p, i) PROVE hook' = hook /\ inst' = inst
  BY <1>1, AskFrame
<1>2. ASSUME NEW p \in Procs, Answered(p) PROVE hook' = hook /\ inst' = inst
  BY <1>2 DEF Answered
<1>3. CASE UNCHANGED cvars
  BY <1>3 DEF cvars, world
<1> QED
  BY <1>1, <1>2, <1>3 DEF ClusterNext, Asks, world

\* Labels only come with the LUN a call makes.
Makes(p) ==
  /\ Held(p)
  /\ Creates(p) \/ Clones(p)
  /\ Step(p) \/ Fail(p)
  /\ UNCHANGED <<hook, world>>

\* A LUN after a request was there, or has the subject and the number of the call.
LEMMA MadeLabel ==
  ASSUME ClusterTypeOK, NEW p \in Procs, LunMove(p)
  PROVE  \A l \in luns' :
           \/ \E m \in luns : l.name = m.name /\ l.pool = m.pool /\ l.id = m.id
           \/ (Creates(p) \/ Clones(p)) /\ l.name = Subject(p) /\ l.id = job[p].id
<1>a. luns \subseteq LunType
  BY Types
<1>1. CASE Creates(p)
  BY <1>1 DEF Creates, At, NewLun, Subject
<1>2. CASE Clones(p)
  <2>1. PICK l \in Target(p) : luns' = luns \cup {CloneOf(l, job[p].req.into, job[p].id)}
    BY <1>2 DEF Clones
  <2>2. l \in LunType
    BY <1>a DEF Target, LunsAt
  <2>3. /\ CloneOf(l, job[p].req.into, job[p].id).name = job[p].req.into
        /\ CloneOf(l, job[p].req.into, job[p].id).id = job[p].id
    BY <2>2 DEF CloneOf, LunType
  <2>4. Subject(p) = job[p].req.into
    BY <1>2 DEF Clones, At, Subject
  <2> QED
    BY <1>2, <2>1, <2>3, <2>4
<1> QED
  BY <1>1, <1>2, NoNewLun

\* In a step a number comes to stand for a name only by a LUN that is made.
LEMMA OldLabels ==
  ASSUME ClusterTypeOK, Locked, Hooked, Identity, [ClusterNext]_cvars,
         \A p \in Procs : Held(p) => Asked(p),
         NEW n \in Names, NEW k \in Nat, Labelled(n, k)'
  PROVE  \/ Labelled(n, k)
         \/ \E p \in Procs : Makes(p) /\ n = Subject(p) /\ k = job[p].id
<1>1. CASE \E l \in luns' : l.name = n /\ l.id = k
  <2>1. PICK l \in luns' : l.name = n /\ l.id = k
    BY <1>1
  <2>2. CASE luns' = luns
    BY <2>1, <2>2 DEF Labelled
  <2>3. ASSUME NEW p \in Procs, Held(p), Step(p) \/ Fail(p), LunMove(p), UNCHANGED <<hook, world>>
        PROVE  Labelled(n, k) \/ (Makes(p) /\ n = Subject(p) /\ k = job[p].id)
    BY <2>1, <2>3, MadeLabel DEF Makes, Labelled
  <2> QED
    BY <2>2, <2>3, OtherLuns
<1>2. CASE \E d \in dev' : d.name = n /\ d.id = k
  BY <1>2, DevicesFrom DEF SameDevice, Labelled
<1>3. CASE k # 0 /\ \E f \in saved' : f.uuid = n /\ f.scsi = k
  <2>1. PICK f \in saved' : f.uuid = n /\ f.scsi = k
    BY <1>3
  <2>2. CASE f \in saved
    BY <1>3, <2>1, <2>2 DEF Labelled
  <2>3. ASSUME NEW p \in Procs, OpenFile(p) \/ WriteFile(p), Held(p), f \notin saved
        PROVE  Labelled(n, k)
    <3>1. At(p, "remove", "write") /\ saved' = Rewritten(p, job[p].out)
      BY <1>3, <2>1, <2>3 DEF OpenFile, WriteFile, Rewritten
    <3>2. f.uuid = job[p].req.uuid /\ f.scsi = job[p].out
      BY <2>3, <3>1 DEF Rewritten
    <3>3. job[p].req.uuid = job[p].req.name
      BY <2>3, <3>1 DEF Asked, At
    <3> QED
      BY <1>3, <2>1, <3>1, <3>2, <3>3 DEF Labelled, At
  <2>4. CASE RemoveFile
    BY <2>1, <2>2, <2>4 DEF RemoveFile
  <2> QED
    BY <2>2, <2>3, <2>4, SavedMoves
<1>4. CASE k # 0 /\ \E p \in Procs : /\ job'[p].req.op \in {"remove", "attach"}
                                     /\ job'[p].req.name = n /\ job'[p].out = k
  <2>1. PICK p \in Procs : /\ job'[p].req.op \in {"remove", "attach"}
                           /\ job'[p].req.name = n /\ job'[p].out = k
    BY <1>4
  <2>2. CASE job'[p] = job[p]
    BY <1>4, <2>1, <2>2 DEF Labelled
  <2>3. ASSUME NEW i \in Instances, Asks(p, i) PROVE FALSE
    BY <1>4, <2>1, <2>3, AskFrame, CallFrame
  <2>4. CASE Answered(p)
    <3>1. job'[p] = Idle
      BY <2>4, AnswerFrame, Types
    <3> QED
      BY <2>1, <3>1 DEF Idle, NoRequest
  <2>5. CASE Step(p) \/ Fail(p)
    <3>1. job'[p].req = job[p].req
      BY <2>5, StepFrame DEF ClusterTypeOK
    <3>2. CASE job'[p].out = job[p].out
      BY <1>4, <2>1, <3>1, <3>2 DEF Labelled
    <3>3. CASE Found(p)
      BY <2>1, <3>1, <3>3 DEF Labelled, Found
    <3> QED
      BY <2>5, <3>2, <3>3, OutMoves DEF ClusterTypeOK
  <2> QED
    BY <2>2, <2>3, <2>4, <2>5, JobsMove
<1>5. CASE hook'.pc \in {"rm", "clean"} /\ Head(hook'.disks) = n /\ hook'.scsi = k
  <2>1. CASE hook' = hook
    BY <1>5, <2>1 DEF Labelled
  <2>2. ASSUME NEW i \in Instances, RemoveInstance(i) PROVE FALSE
    BY <1>5, <2>2, HookStart
  <2>3. CASE HookAnswered
    BY <1>5, <2>3 DEF HookAnswered, HookFinish, NoHook
  <2>4. CASE HookStep \/ HookFail
    <3>a. HookTypeOK /\ hook.disks \in Seq(Uuids)
      BY HookFields DEF ClusterTypeOK, HookType
    <3>b. hook.pc \in {"rm", "clean"} => Tail(hook.disks) \in Seq(Uuids)
      <4>1. hook.pc \in {"rm", "clean"} => hook.disks # <<>>
        BY DEF Hooked, HookOf
      <4> QED
        BY <3>a, <4>1, HeadTailProperties
    <3>c. ASSUME NEW disks \in Seq(Uuids), ForDisks(disks) PROVE FALSE
      BY <1>5, <3>a, <3>c, HookFields
    <3>d. ASSUME NEW rc \in {0, 1, 2, 3}, HookReturn(rc) PROVE FALSE
      BY <1>5, <3>a, <3>d, HookFields
    <3>1. CASE HookCheck \/ HookFail \/ CleanDevices
      BY <3>a, <3>b, <3>c, <3>d, <3>1 DEF HookCheck, HookFail, CleanDevices
    <3>2. CASE CatFile
      <4>1. PICK f \in HookFile : f.scsi # 0 /\ hook' = [hook EXCEPT !.pc = "rm", !.scsi = f.scsi]
        BY <3>d, <3>2 DEF CatFile
      <4>2. f \in saved /\ f.uuid = Head(hook.disks) /\ f.scsi \in Nat
        BY DEF HookFile, ClusterTypeOK, TypeOK
      <4>3. hook'.scsi = f.scsi /\ hook'.disks = hook.disks
        BY <3>a, <4>1, <4>2, HookFields
      <4> QED
        BY <1>5, <4>1, <4>2, <4>3 DEF Labelled
    <3>3. CASE RemoveFile
      <4>1. hook.pc = "rm" /\ hook' = [hook EXCEPT !.pc = "clean"]
        BY <3>b, <3>c, <3>3 DEF RemoveFile
      <4>2. hook'.scsi = hook.scsi /\ hook'.disks = hook.disks
        BY <3>a, <4>1, HookFields
      <4> QED
        BY <1>5, <4>1, <4>2 DEF Labelled
    <3> QED
      BY <2>4, <3>1, <3>2, <3>3 DEF HookStep
  <2> QED
    BY <2>1, <2>2, <2>3, <2>4, HookMoves
<1> QED
  BY <1>1, <1>2, <1>3, <1>4, <1>5 DEF Labelled
-----------------------------------------------------------------------------
\* Ganeti's beliefs and the number of calls change with calls.
LEMMA WorldMoves ==
  ASSUME ClusterTypeOK, Locked, [ClusterNext]_cvars, \A p \in Procs : Held(p) => Asked(p)
  PROVE  \/ \E p \in Procs, i \in Instances : Asks(p, i)
         \/ \E p \in Procs : Answered(p)
         \/ disk' = disk /\ primary' = primary /\ holder' = holder /\ calls' = calls
<1>1. ASSUME NEW p \in Procs, Step(p) \/ Fail(p), UNCHANGED <<hook, world>>
      PROVE  disk' = disk /\ primary' = primary /\ holder' = holder /\ calls' = calls
  BY <1>1, StepFrame DEF world, ClusterTypeOK
<1>2. ASSUME NEW d \in dev, Settle(d), UNCHANGED <<hook, world>>
      PROVE  disk' = disk /\ primary' = primary /\ holder' = holder /\ calls' = calls
  BY <1>2 DEF Settle, world
<1>3. ASSUME HookStep \/ HookFail, UNCHANGED world
      PROVE  disk' = disk /\ primary' = primary /\ holder' = holder /\ calls' = calls
  BY <1>3 DEF HookStep, HookFail, HookCheck, CatFile, RemoveFile, CleanDevices, vars, world
<1>4. ASSUME HookAnswered
      PROVE  disk' = disk /\ primary' = primary /\ holder' = holder /\ calls' = calls
  BY <1>4 DEF HookAnswered, HookFinish, vars
<1>5. ASSUME NEW i \in Instances, RemoveInstance(i)
      PROVE  disk' = disk /\ primary' = primary /\ holder' = holder /\ calls' = calls
  BY <1>5 DEF RemoveInstance, HookCall, vars
<1>6. CASE UNCHANGED cvars
  BY <1>6 DEF cvars, vars, world
<1> QED
  BY <1>1, <1>2, <1>3, <1>4, <1>5, <1>6 DEF ClusterNext, Asks

\* A script makes its LUN once.
LEMMA MakingMoves ==
  ASSUME TypeOK, NEW p \in Procs, Step(p) \/ Fail(p)
  PROVE  /\ Making(p)' => Making(p)
         /\ Creates(p) \/ Clones(p) => Making(p)
         /\ Creates(p) \/ Clones(p) => ~Making(p)'
<1>1. job'[p].req = job[p].req
  BY StepFrame
<1>2. Creates(p) \/ Clones(p) => Making(p)
  BY DEF Creates, Clones, At, Making
<1>3. ASSUME NEW pc, Goto(p, pc) PROVE job'[p].pc = pc
  BY <1>3, Fields
<1>4. ASSUME NEW rc \in Nat, Return(p, rc) PROVE job'[p].pc = "done"
  BY <1>4, Fields
<1>5. CASE Lookup(p)
  BY <1>1, <1>2, <1>5 DEF Lookup, Making, Creates, Clones, At
<1>6. CASE CreateLun(p) \/ MapLun(p) \/ CloneLun(p) \/ Rescan(p) \/ Fail(p)
  BY <1>1, <1>2, <1>3, <1>4, <1>6
     DEF CreateLun, MapLun, CloneLun, Rescan, Fail, Then, Finally, Making, Creates, Clones, At
<1>7. CASE DestroyLun(p) \/ DoDirectResize(p) \/ SetLunComment(p) \/ SearchToAttach(p) \/ Poll(p)
            \/ Detach(p) \/ PreMove(p) \/ SearchToSave(p) \/ OpenFile(p) \/ WriteFile(p)
  <2>1. job[p].req.op \notin {"create", "snapshot"}
    BY <1>7 DEF DestroyLun, DoDirectResize, SetLunComment, SearchToAttach, Poll, Detach, PreMove,
                SearchToSave, OpenFile, WriteFile, At
  <2> QED
    BY <1>1, <1>2, <2>1 DEF Making, Creates, Clones, At
<1> QED
  BY <1>2, <1>5, <1>6, <1>7 DEF Step

\* The name of a LUN in the making is in doubt, and of the call's own instance.
LEMMA Subjects ==
  ASSUME ClusterTypeOK, NEW p \in Procs, Held(p), Asked(p), Making(p)
  PROVE  /\ Subject(p) \in NamesOf(holder[p]) /\ Subject(p) \in Names
         /\ disk[Subject(p)].st = "doubt"
<1>1. job[p].req.op \in {"create", "snapshot"}
  BY DEF Making
<1>2. /\ job[p].req.op = "create" => disk[job[p].req.name].st = "doubt"
      /\ job[p].req.op = "snapshot" => disk[job[p].req.into].st = "doubt"
  BY DEF Asked
<1> QED
  BY <1>1, <1>2, AskedNames DEF Subject

\* A name keeps its one number, in every step.
LEMMA IdentityKept ==
  ASSUME ClusterTypeOK, Locked, Locked', Hooked, Identity, [ClusterNext]_cvars,
         \A p \in Procs : Held(p) => Asked(p)
  PROVE  Identity'
<1>a. TypeOK /\ calls \in Nat /\ disk \in [Names -> DiskType]
  BY Types DEF ClusterTypeOK
<1> DEFINE Numbered(n, k) == k \in 1..calls /\ disk[n].st # "none"
           Distinct(n, k, m, j) == (n = m <=> k = j)
<1>1. \A n \in Names, k \in Nat : Labelled(n, k) => Numbered(n, k)
  BY DEF Identity
<1>2. \A n, m \in Names, k, j \in Nat : Labelled(n, k) /\ Labelled(m, j) => Distinct(n, k, m, j)
  BY DEF Identity
<1>3. \A p \in Procs : Making(p) =>
        \A n \in Names, k \in Nat : Labelled(n, k) => n # Subject(p) /\ k # job[p].id
  BY DEF Identity
<1>4. \A p \in Procs : Held(p) => job[p].id \in 1..calls
  BY DEF Identity
<1>5. \A p, q \in Procs : Held(p) /\ Held(q) /\ job[p].id = job[q].id => p = q
  BY DEF Identity
<1>6. ASSUME NEW p \in Procs, Makes(p)
      PROVE  /\ Making(p) /\ ~Making(p)' /\ Subject(p) \in Names /\ job[p].id \in Nat
             /\ Subject(p) \in NamesOf(holder[p]) /\ holder[p] \in Instances
             /\ Numbered(Subject(p), job[p].id)
             /\ UNCHANGED <<world, calls>> /\ \A q \in Procs : q # p => ~Makes(q)
  <2>1. /\ Held(p) /\ Asked(p) /\ (Creates(p) \/ Clones(p)) /\ (Step(p) \/ Fail(p))
        /\ UNCHANGED <<hook, world>>
    BY <1>6 DEF Makes
  <2>2. Making(p) /\ ~Making(p)'
    BY <1>a, <2>1, <1>6, MakingMoves DEF Makes
  <2>3. Subject(p) \in Names /\ Subject(p) \in NamesOf(holder[p]) /\ disk[Subject(p)].st = "doubt"
    BY <2>1, <2>2, Subjects
  <2>4. calls' = calls /\ \A q \in Procs : q # p => job'[q] = job[q]
    BY <1>a, <1>6, StepFrame DEF Makes
  <2>5. ASSUME NEW q \in Procs, q # p, Makes(q) PROVE FALSE
    <3>1. Making(q) /\ ~Making(q)'
      BY <1>a, <2>5, MakingMoves DEF Makes
    <3> QED
      BY <2>4, <2>5, <3>1 DEF Making
  <2>6. job[p].id \in 1..calls /\ holder[p] \in Instances
    BY <1>4, <2>1, AskedNames
  <2> QED
    BY <1>a, <2>1, <2>2, <2>3, <2>4, <2>5, <2>6
<1>7. ASSUME NEW n \in Names, NEW k \in Nat, Labelled(n, k)'
      PROVE  \/ Labelled(n, k)
             \/ \E p \in Procs : Makes(p) /\ n = Subject(p) /\ k = job[p].id
  BY <1>7, OldLabels
<1>8. calls' \in Nat /\ calls' >= calls
  BY <1>a, WorldMoves, AskFrame, CallFrame, AnswerFrame
<1>9. \A n \in Names : disk[n].st # "none" => disk'[n].st # "none"
  <2>1. ASSUME NEW p \in Procs, NEW i \in Instances, Asks(p, i), NEW n \in Names,
               disk[n].st # "none"
        PROVE  disk'[n].st # "none"
    BY <2>1, AskFrame
  <2>2. ASSUME NEW p \in Procs, Answered(p), NEW n \in Names, disk[n].st # "none"
        PROVE  disk'[n].st # "none"
    BY <2>2, AckStates
  <2> QED
    BY <2>1, <2>2, WorldMoves
<1>10. \A n, m \in Names, k, j \in Nat :
         Labelled(n, k)' /\ Labelled(m, j)' => Distinct(n, k, m, j)
  <2> SUFFICES ASSUME NEW n \in Names, NEW m \in Names, NEW k \in Nat, NEW j \in Nat,
                      Labelled(n, k)', Labelled(m, j)'
               PROVE  Distinct(n, k, m, j)
    OBVIOUS
  <2>1. CASE Labelled(n, k) /\ Labelled(m, j)
    BY <1>2, <2>1
  <2>2. ASSUME NEW p \in Procs, Makes(p), n = Subject(p), k = job[p].id, Labelled(m, j)
        PROVE  Distinct(n, k, m, j)
    BY <1>3, <1>6, <2>2
  <2>3. ASSUME NEW p \in Procs, Makes(p), m = Subject(p), j = job[p].id, Labelled(n, k)
        PROVE  Distinct(n, k, m, j)
    BY <1>3, <1>6, <2>3
  <2>4. ASSUME NEW p \in Procs, Makes(p), n = Subject(p), k = job[p].id,
               NEW q \in Procs, Makes(q), m = Subject(q), j = job[q].id
        PROVE  Distinct(n, k, m, j)
    BY <1>6, <2>4
  <2> HIDE DEF Distinct
  <2> QED
    BY <1>7, <2>1, <2>2, <2>3, <2>4
<1>11. \A n \in Names, k \in Nat : Labelled(n, k)' => k \in 1..calls' /\ disk'[n].st # "none"
  <2> SUFFICES ASSUME NEW n \in Names, NEW k \in Nat, Labelled(n, k)'
               PROVE  k \in 1..calls' /\ disk'[n].st # "none"
    OBVIOUS
  <2>1. Numbered(n, k)
    BY <1>1, <1>6, <1>7
  <2> QED
    BY <1>a, <1>8, <1>9, <2>1
<1>12. ASSUME NEW q \in Procs, Held(q)'
       PROVE  \/ Held(q) /\ job'[q].id = job[q].id /\ job'[q].req = job[q].req
                 /\ (Making(q)' => Making(q))
              \/ \E i \in Instances : Asks(q, i)
  <2>1. CASE job'[q] = job[q] /\ holder'[q] = holder[q]
    BY <1>12, <2>1 DEF Held, Making
  <2>2. CASE (Step(q) \/ Fail(q)) /\ Held(q)
    BY <1>a, <2>2, StepFrame, MakingMoves
  <2>3. CASE Answered(q)
    BY <1>12, <2>3, AnswerFrame, Types DEF Held
  <2> QED
    BY <2>1, <2>2, <2>3, JobsMove
<1>13. ASSUME NEW q \in Procs, NEW i \in Instances, Asks(q, i)
       PROVE  /\ job'[q].id = calls + 1 /\ calls' = calls + 1
              /\ \A p \in Procs : ~Makes(p)
              /\ \A p \in Procs, j \in Instances : Asks(p, j) => p = q
              /\ Making(q)' => /\ disk[Subject(q)'].st = "none"
  <2>1. /\ Call(q, job'[q].req) /\ job'[q].req \in Requests
        /\ holder' = [holder EXCEPT ![q] = i] /\ holder[q] # i
        /\ job'[q].req.op = "create" => disk[job'[q].req.name].st = "none"
        /\ job'[q].req.op = "snapshot" => disk[job'[q].req.into].st = "none"
    BY <1>13, AskFrame
  <2>2. job'[q].id = calls + 1 /\ calls' = calls + 1
    BY <2>1, CallFrame
  <2>3. holder' # holder
    BY <2>1, Types
  <2>4. \A p \in Procs : ~Makes(p)
    BY <2>3 DEF Makes, world
  <2>5. ASSUME NEW p \in Procs, NEW j \in Instances, Asks(p, j), p # q PROVE FALSE
    <3>1. holder' = [holder EXCEPT ![p] = j] /\ holder[p] # j
      BY <2>5, AskFrame
    <3> QED
      BY <2>1, <2>5, <3>1, Types
  <2> QED
    BY <2>1, <2>2, <2>4, <2>5 DEF Making, Subject
<1>14. \A p \in Procs : Held(p)' => job'[p].id \in 1..calls'
  BY <1>a, <1>4, <1>8, <1>12, <1>13
<1>15. \A p, q \in Procs : Held(p)' /\ Held(q)' /\ job'[p].id = job'[q].id => p = q
  BY <1>a, <1>4, <1>5, <1>12, <1>13
<1>16. ASSUME NEW q \in Procs, Making(q)', NEW n \in Names, NEW k \in Nat, Labelled(n, k)'
       PROVE  n # Subject(q)' /\ k # job'[q].id
  <2>1. Held(q)'
    BY <1>16 DEF Making, Locked, Held
  <2>2. CASE \E i \in Instances : Asks(q, i)
    <3>1. Labelled(n, k)
      BY <1>7, <1>13, <1>16, <2>2
    <3> QED
      BY <1>a, <1>1, <1>13, <1>16, <2>2, <3>1
  <2>3. CASE Held(q) /\ job'[q].id = job[q].id /\ job'[q].req = job[q].req /\ Making(q)
    <3>1. Subject(q)' = Subject(q)
      BY <2>3 DEF Subject
    <3>2. CASE Labelled(n, k)
      BY <1>3, <2>3, <3>1, <3>2
    <3>3. ASSUME NEW p \in Procs, Makes(p), n = Subject(p), k = job[p].id
          PROVE  n # Subject(q)' /\ k # job'[q].id
      <4>1. p # q /\ Held(p)
        BY <1>6, <1>16, <3>3 DEF Makes
      <4>2. holder[p] # holder[q] /\ holder[p] \in Instances /\ holder[q] \in Instances
        BY <2>3, <4>1, Types DEF Locked, Held
      <4>3. Subject(q) \in NamesOf(holder[q]) /\ Subject(p) \in NamesOf(holder[p])
        BY <1>6, <2>3, <3>3, Subjects
      <4>4. Subject(p) # Subject(q)
        BY <4>2, <4>3, NamesApart
      <4> QED
        BY <1>5, <2>3, <3>1, <3>3, <4>1, <4>4
    <3> QED
      BY <1>7, <1>16, <3>2, <3>3
  <2> QED
    BY <1>12, <1>16, <2>1, <2>2, <2>3
<1> QED
  BY <1>10, <1>11, <1>14, <1>15, <1>16 DEF Identity
-----------------------------------------------------------------------------
\* A LUN made is the first of its name.
LEMMA OneEachKept ==
  ASSUME ClusterTypeOK, Locked, Identity, OneEach, [ClusterNext]_cvars,
         \A p \in Procs : Held(p) => Asked(p)
  PROVE  OneEach'
<1>a. luns \subseteq LunType
  BY Types
<1>b. \A l \in luns : l.name \in Names /\ l.id \in Nat /\ Labelled(l.name, l.id)
  BY <1>a DEF LunType, Labelled
<1>1. CASE luns' = luns
  BY <1>1 DEF OneEach
<1>2. ASSUME NEW p \in Procs, Step(p) \/ Fail(p), LunMove(p), Held(p) PROVE OneEach'
  <2>1. CASE Creates(p) \/ Clones(p)
    <3>1. Making(p)
      BY <1>2, <2>1, MakingMoves DEF ClusterTypeOK
    <3>2. \A l \in luns : l.name # Subject(p)
      BY <1>b, <3>1 DEF Identity
    <3>3. \E new : luns' = luns \cup {new} /\ new.name = Subject(p)
      <4>1. CASE Creates(p)
        <5>1. NewLun(job[p].req, job[p].req.pool, job[p].id).name = Subject(p)
          BY <4>1 DEF Creates, At, NewLun, Subject
        <5> QED
          BY <4>1, <5>1 DEF Creates
      <4>2. CASE Clones(p)
        <5>1. PICK l \in Target(p) : luns' = luns \cup {CloneOf(l, job[p].req.into, job[p].id)}
          BY <4>2 DEF Clones
        <5>2. CloneOf(l, job[p].req.into, job[p].id).name = job[p].req.into
          BY <1>a, <5>1 DEF CloneOf, Target, LunsAt, LunType
        <5> QED
          BY <4>2, <5>1, <5>2 DEF Clones, At, Subject
      <4> QED
        BY <2>1, <4>1, <4>2
    <3> QED
      BY <3>2, <3>3 DEF OneEach
  <2>2. CASE Maps(p)
    <3> DEFINE new(l) == IF l \in LunsAt(luns, job[p].req.pool, job[p].req.name)
                           THEN [l EXCEPT !.mapped = TRUE] ELSE l
    <3>1. luns' = {new(l) : l \in luns}
      BY <2>2 DEF Maps, Mapped
    <3>2. \A l \in luns : new(l).name = l.name
      BY <1>a DEF LunType
    <3> HIDE DEF new
    <3> QED
      BY <3>1, <3>2 DEF OneEach
  <2>3. CASE Destroys(p)
    BY <2>3 DEF Destroys, OneEach
  <2>4. CASE Resizes(p)
    <3> DEFINE new(l) == IF l \in Target(p) THEN [l EXCEPT !.size = job[p].req.size] ELSE l
    <3>1. luns' = {new(l) : l \in luns}
      BY <2>4 DEF Resizes, Resized
    <3>2. \A l \in luns : new(l).name = l.name
      BY <1>a DEF LunType
    <3> HIDE DEF new
    <3> QED
      BY <3>1, <3>2 DEF OneEach
  <2>5. CASE Comments(p)
    <3> DEFINE new(l) == IF l \in Target(p) THEN [l EXCEPT !.note = job[p].req.note] ELSE l
    <3>1. luns' = {new(l) : l \in luns}
      BY <2>5 DEF Comments, Noted
    <3>2. \A l \in luns : new(l).name = l.name
      BY <1>a DEF LunType
    <3> HIDE DEF new
    <3> QED
      BY <3>1, <3>2 DEF OneEach
  <2> QED
    BY <1>2, <2>1, <2>2, <2>3, <2>4, <2>5 DEF LunMove
<1> QED
  BY <1>1, <1>2, OtherLuns

\* A LUN is there only of a name that Ganeti knows.
LEMMA NoLeakKept ==
  ASSUME ClusterTypeOK, Locked, NoLeak, [ClusterNext]_cvars,
         \A p \in Procs : Held(p) => Asked(p) /\ Effect(p)
  PROVE  NoLeak'
<1>a. \A l \in luns : l.name \in Names
  BY Types DEF LunType
<1>1. ASSUME NEW p \in Procs, NEW i \in Instances, Asks(p, i) PROVE NoLeak'
  <2>1. luns' = luns
    BY <1>1, AskFrame, CallFrame
  <2>2. \A n \in Names : disk'[n].st \in {"none", "removed"} => disk'[n].st = disk[n].st
    BY <1>1, AskFrame
  <2> QED
    BY <1>a, <2>1, <2>2 DEF NoLeak
<1>2. ASSUME NEW p \in Procs, Answered(p) PROVE NoLeak'
  <2>1. luns' = luns /\ Held(p)
    BY <1>2, AnswerFrame, ClusterAssumption DEF Held
  <2>2. \A n \in Names :
           \/ disk'[n].st = disk[n].st \/ disk'[n].st = "live"
           \/ Succeeded(p) /\ job[p].req.op = "remove" /\ job[p].req.name = n
    BY <1>2, AckStates
  <2>3. Succeeded(p) /\ job[p].req.op = "remove" => \A l \in luns : l.name # job[p].req.name
    BY <2>1 DEF Effect
  <2> QED
    BY <1>a, <2>1, <2>2, <2>3 DEF NoLeak
<1>3. CASE disk' = disk /\ luns' = luns
  BY <1>3 DEF NoLeak
<1>4. ASSUME NEW p \in Procs, Step(p) \/ Fail(p), LunMove(p), Held(p), disk' = disk PROVE NoLeak'
  <2>1. Creates(p) \/ Clones(p) => disk[Subject(p)].st = "doubt"
    BY <1>4, MakingMoves, Subjects DEF ClusterTypeOK
  <2> QED
    BY <1>4, <2>1, MadeLabel DEF NoLeak
<1> QED
  BY <1>1, <1>2, <1>3, <1>4, OtherLuns, WorldMoves DEF world
-----------------------------------------------------------------------------
\* The LUN of a live volume, and its devices.
LEMMA LiveLun ==
  ASSUME ClusterTypeOK, Identity, AckedIsServed, NEW n \in Names, Live(n)
  PROVE  \E l \in luns :
           /\ l.name = n /\ \A m \in luns : m.name = n => m = l
           /\ l.pool = disk[n].pool /\ l.size >= disk[n].size
           /\ disk[n].note \in {l.note, Unsure} /\ l.mapped = ~IsSnap(n)
           /\ l.id \in Nat /\ \A d \in dev : d.name = n <=> d.id = l.id
<1>1. PICK l \in luns :
        /\ LunsNamed(luns, n) = {l}
        /\ l.pool = disk[n].pool /\ l.size >= disk[n].size
        /\ disk[n].note \in {l.note, Unsure} /\ l.mapped = ~IsSnap(n)
  BY DEF AckedIsServed
<1>2. l.name = n /\ \A m \in luns : m.name = n => m = l
  BY <1>1 DEF LunsNamed
<1>3. l.id \in Nat /\ Labelled(n, l.id)
  BY <1>2, Types DEF LunType, Labelled
<1>4. \A d \in dev : d.name = n <=> d.id = l.id
  <2>1. \A d \in dev : d.name \in Names /\ d.id \in Nat /\ Labelled(d.name, d.id)
    BY Types DEF DevType, Labelled
  <2> QED
    BY <1>3, <2>1 DEF Identity
<1> QED
  BY <1>1, <1>2, <1>3, <1>4

\* What is acknowledged is there, and no step takes it away.
LEMMA ServedKept ==
  ASSUME ClusterTypeOK, Locked, Identity, OneEach, AckedIsServed, [ClusterNext]_cvars,
         \A p \in Procs : Held(p) => Asked(p) /\ Effect(p)
  PROVE  AckedIsServed'
<1>a. luns \subseteq LunType /\ disk \in [Names -> DiskType]
  BY Types
<1> DEFINE Serves(l, b, n) ==
      /\ l.pool = b.pool /\ l.size >= b.size
      /\ b.note \in {l.note, Unsure} /\ l.mapped = ~IsSnap(n)
<1>b. \A n \in Names : Live(n) => \E l \in luns : LunsNamed(luns, n) = {l} /\ Serves(l, disk[n], n)
  BY DEF AckedIsServed
<1> SUFFICES ASSUME NEW n \in Names, Live(n)'
             PROVE  \E l \in luns' : LunsNamed(luns', n) = {l} /\ Serves(l, disk'[n], n)
  BY DEF AckedIsServed, IsSnap
<1>c. disk'[n].st = "live"
  BY DEF Live
<1>d. ASSUME NEW l \in luns, l.name = n PROVE LunsNamed(luns, n) = {l}
  BY <1>d DEF OneEach, LunsNamed
<1>1. ASSUME NEW p \in Procs, NEW i \in Instances, Asks(p, i)
      PROVE  \E l \in luns' : LunsNamed(luns', n) = {l} /\ Serves(l, disk'[n], n)
  <2>1. luns' = luns
    BY <1>1, AskFrame, CallFrame
  <2>2. /\ disk'[n].pool = disk[n].pool /\ disk'[n].size = disk[n].size
        /\ disk'[n].note \in {disk[n].note, Unsure} /\ Live(n)
    BY <1>1, AskFrame
  <2> QED
    BY <1>b, <2>1, <2>2
<1>2. ASSUME NEW p \in Procs, Answered(p)
      PROVE  \E l \in luns' : LunsNamed(luns', n) = {l} /\ Serves(l, disk'[n], n)
  <2> DEFINE r == job[p].req
  <2>1. luns' = luns /\ Held(p) /\ Asked(p) /\ Effect(p) /\ holder[p] \in Instances
    BY <1>2, AnswerFrame, ClusterAssumption DEF Held
  <2>2. CASE disk'[n] = disk[n]
    BY <1>b, <1>c, <2>1, <2>2 DEF Live
  <2>3. CASE /\ Succeeded(p) /\ r.op = "create" /\ r.name = n
             /\ disk'[n] = [st |-> "live", pool |-> r.pool, size |-> r.size, note |-> NewNote]
    <3>1. PICK l \in luns : /\ l.name = r.name /\ l.pool = r.pool /\ l.size = r.size
                            /\ l.note = NewNote /\ l.mapped = TRUE
      BY <2>1, <2>3 DEF Effect
    <3>2. ~IsSnap(n)
      BY <2>1, <2>3, DiskNames DEF Asked
    <3>3. l.size >= r.size
      <4>1. l.size \in Nat
        BY <1>a, SizesAssumption DEF LunType
      <4> QED
        BY <3>1, <4>1
    <3>4. /\ disk'[n].pool = r.pool /\ disk'[n].size = r.size /\ disk'[n].note = NewNote
      BY <2>3
    <3> QED
      BY <1>d, <2>1, <2>3, <3>1, <3>2, <3>3, <3>4
  <2>4. CASE Succeeded(p) /\ r.op = "grow" /\ Live(n) /\ disk'[n] = [disk[n] EXCEPT !.size = r.size]
             /\ r.name = n
    <3>1. PICK l \in luns : LunsNamed(luns, n) = {l} /\ Serves(l, disk[n], n)
      BY <1>b, <2>4
    <3>2. l.size = r.size
      BY <2>1, <2>4, <3>1 DEF Effect, LunsNamed
    <3>3. l.size >= r.size
      <4>1. l.size \in Nat
        BY <1>a, SizesAssumption DEF LunType
      <4> QED
        BY <3>2, <4>1
    <3>4. disk'[n].pool = disk[n].pool /\ disk'[n].size = r.size /\ disk'[n].note = disk[n].note
      BY <1>a, <2>4 DEF DiskType
    <3> QED
      BY <2>1, <3>1, <3>3, <3>4
  <2>5. CASE Succeeded(p) /\ r.op = "setinfo" /\ Live(n) /\ disk'[n] = [disk[n] EXCEPT !.note = r.note]
             /\ r.name = n
    <3>1. PICK l \in luns : LunsNamed(luns, n) = {l} /\ Serves(l, disk[n], n)
      BY <1>b, <2>5
    <3>2. l.note = r.note
      BY <2>1, <2>5, <3>1 DEF Effect, LunsNamed
    <3>4. disk'[n].pool = disk[n].pool /\ disk'[n].size = disk[n].size /\ disk'[n].note = r.note
      BY <1>a, <2>5 DEF DiskType
    <3> QED
      BY <2>1, <3>1, <3>2, <3>4
  <2>6. CASE Succeeded(p) /\ r.op = "snapshot" /\ r.into = n /\ disk'[n] = disk[r.name]
    <3>1. PICK l \in luns : l.name = r.into /\ CopyOf(l, r.name) /\ ~l.mapped
      BY <2>1, <2>6 DEF Effect
    <3>2. IsSnap(n)
      BY <2>1, <2>6, DiskNames DEF Asked
    <3>3. l.mapped = FALSE
      BY <1>a, <3>1 DEF LunType
    <3> QED
      BY <1>d, <2>1, <2>6, <3>1, <3>2, <3>3 DEF CopyOf
  <2> QED
    BY <1>2, <1>c, <2>2, <2>3, <2>4, <2>5, <2>6, AckFrame
<1>3. CASE disk' = disk /\ luns' = luns
  BY <1>3, <1>b, <1>c DEF Live
<1>4. ASSUME NEW p \in Procs, LunMove(p), Held(p), disk' = disk
      PROVE  \E l \in luns' : LunsNamed(luns', n) = {l} /\ Serves(l, disk'[n], n)
  <2> DEFINE r == job[p].req
  <2>1. PICK l \in luns : LunsNamed(luns, n) = {l} /\ Serves(l, disk[n], n)
    BY <1>4, <1>b, <1>c DEF Live
  <2>2. CASE LunsNamed(luns', n) = LunsNamed(luns, n)
    BY <1>4, <2>1, <2>2 DEF LunsNamed
  <2>3. CASE n = Subject(p) /\ Resizes(p)
    <3>1. r.name = n /\ Target(p) \subseteq LunsNamed(luns, n) /\ Target(p) # {}
          /\ luns' = Resized(luns, Target(p), r.size)
      BY <2>3 DEF Resizes, At, Subject, Target, LunsAt, LunsNamed
    <3>2. Target(p) = {l}
      BY <2>1, <3>1
    <3>5. r.size >= disk[n].size
      <4>1. r \in Requests /\ r.op = "grow" /\ r.size > disk[n].size
        BY <1>4, <2>3, <3>1 DEF Asked, Resizes, At
      <4>2. r.size \in Sizes
        BY <4>1, RequestFields
      <4>3. disk[n].size \in Sizes \cup {0}
        BY <1>a DEF DiskType
      <4>4. \A s \in Sizes \cup {0} : s \in Nat
        BY SizesAssumption
      <4> QED
        BY <4>1, <4>2, <4>3, <4>4
    <3> DEFINE k == [l EXCEPT !.size = r.size]
    <3>3. /\ k.name = l.name /\ k.pool = l.pool /\ k.size = r.size /\ k.note = l.note
          /\ k.mapped = l.mapped
      BY <1>a DEF LunType
    <3>4. k \in luns' /\ LunsNamed(luns', n) = {k}
      BY <2>1, <3>1, <3>2, <3>3 DEF Resized, LunsNamed
    <3> HIDE DEF k
    <3> QED
      BY <1>4, <2>1, <3>3, <3>4, <3>5
  <2>4. CASE n = Subject(p) /\ Comments(p)
    <3>1. r.name = n /\ Target(p) \subseteq LunsNamed(luns, n) /\ Target(p) # {}
          /\ luns' = Noted(luns, Target(p), r.note)
      BY <2>4 DEF Comments, At, Subject, Target, LunsAt, LunsNamed
    <3>2. Target(p) = {l}
      BY <2>1, <3>1
    <3> DEFINE k == [l EXCEPT !.note = r.note]
    <3>3. /\ k.name = l.name /\ k.pool = l.pool /\ k.size = l.size /\ k.mapped = l.mapped
      BY <1>a DEF LunType
    <3>4. k \in luns' /\ LunsNamed(luns', n) = {k}
      BY <2>1, <3>1, <3>2, <3>3 DEF Noted, LunsNamed
    <3>5. disk[n].note = Unsure
      BY <1>4, <2>4, <3>1 DEF Asked, Comments, At
    <3> HIDE DEF k
    <3> QED
      BY <1>4, <2>1, <3>3, <3>4, <3>5
  <2>5. CASE n = Subject(p) /\ (Creates(p) \/ Maps(p) \/ Destroys(p) \/ Clones(p))
    <3>1. disk[n].st \in {"doubt", "removing"}
      BY <1>4, <2>5 DEF Asked, Creates, Maps, Destroys, Clones, At, Subject
    <3> QED
      BY <1>4, <1>c, <3>1
  <2> QED
    BY <1>4, <2>2, <2>3, <2>4, <2>5, LunFrame DEF LunMove
<1> HIDE DEF Serves
<1> QED
  BY <1>1, <1>2, <1>3, <1>4, OtherLuns, WorldMoves DEF world
-----------------------------------------------------------------------------
\* The step that changes a LUN is over.
LEMMA LunMoveEnds ==
  ASSUME TypeOK, NEW p \in Procs, Step(p) \/ Fail(p), LunMove(p)
  PROVE  job'[p] # job[p]
<1>1. ASSUME NEW pc, Goto(p, pc) PROVE job'[p].pc = pc
  BY <1>1, Fields
<1>2. ASSUME NEW rc \in Nat, Return(p, rc) PROVE job'[p].pc = "done"
  BY <1>2, Fields
<1>3. job[p].pc \in {"alloc", "map", "destroy", "resize", "comment", "clone"}
  BY DEF LunMove, Creates, Maps, Destroys, Resizes, Comments, Clones, At
<1>4. \/ CreateLun(p) \/ MapLun(p) \/ DestroyLun(p) \/ DoDirectResize(p) \/ SetLunComment(p)
      \/ CloneLun(p) \/ Fail(p)
  BY <1>3 DEF Step, Lookup, SearchToAttach, Poll, Rescan, Detach, PreMove, SearchToSave, OpenFile,
              WriteFile, At
<1>5. \/ job'[p].pc = "done"
      \/ job'[p].pc = "map" /\ job[p].pc = "alloc"
      \/ job'[p].pc = "rescan"
  BY <1>1, <1>2, <1>4 DEF CreateLun, MapLun, DestroyLun, DoDirectResize, SetLunComment, CloneLun,
                          Fail, Then, Finally, At
<1> QED
  BY <1>3, <1>5

\* What is an instance's stays as it is in the steps of others.
LEMMA Untouched ==
  ASSUME ClusterTypeOK, Locked, Hooked, Identity, [ClusterNext]_cvars,
         \A p \in Procs : Held(p) => Asked(p),
         NEW q \in Procs, Held(q), job'[q] = job[q], holder'[q] = holder[q]
  PROVE  \A n \in NamesOf(holder[q]) :
           /\ disk'[n] = disk[n] /\ LunsNamed(luns', n) = LunsNamed(luns, n)
           /\ \A e \in dev : e.name = n => \E d \in dev' : SameDevice(d, e)
<1> SUFFICES ASSUME NEW n \in NamesOf(holder[q])
             PROVE  /\ disk'[n] = disk[n] /\ LunsNamed(luns', n) = LunsNamed(luns, n)
                    /\ \A e \in dev : e.name = n => \E d \in dev' : SameDevice(d, e)
  OBVIOUS
<1>a. holder[q] \in Instances /\ n \in Names
  BY AskedNames, DiskNames
<1>1. ASSUME NEW p \in Procs, NEW i \in Instances, Asks(p, i) PROVE disk'[n] = disk[n]
  <2>1. (\A m \in Names : m \notin NamesOf(i) => disk'[m] = disk[m]) /\ holder[q] # i
    BY <1>1, AskFrame
  <2> QED
    BY <1>a, <2>1, NamesApart
<1>2. ASSUME NEW p \in Procs, Answered(p) PROVE disk'[n] = disk[n]
  <2>1. p # q
    BY <1>2, AnswerFrame, Types, ClusterAssumption DEF Held
  <2>2. holder[p] \in Instances /\ holder[p] # holder[q]
    BY <1>2, <2>1, AnswerFrame, ClusterAssumption DEF Locked, Held
  <2>3. n \notin NamesOf(holder[p])
    BY <1>a, <2>2, NamesApart
  <2> QED
    BY <1>2, <1>a, <2>3, AckFrame
<1>3. disk'[n] = disk[n]
  BY <1>1, <1>2, WorldMoves
<1>4. LunsNamed(luns', n) = LunsNamed(luns, n)
  <2>1. ASSUME NEW p \in Procs, Step(p) \/ Fail(p), LunMove(p), Held(p)
        PROVE  LunsNamed(luns', n) = LunsNamed(luns, n)
    <3>1. p # q
      BY <2>1, LunMoveEnds DEF ClusterTypeOK
    <3>2. holder[p] \in Instances /\ holder[p] # holder[q]
      BY <2>1, <3>1, AskedNames DEF Locked, Held
    <3>3. n # Subject(p)
      BY <1>a, <2>1, <3>2, NamesApart, LunFrame
    <3> QED
      BY <1>a, <2>1, <3>3, LunFrame
  <2> QED
    BY <2>1, OtherLuns
<1>5. ASSUME NEW e \in dev, e.name = n PROVE \E d \in dev' : SameDevice(d, e)
  <2>1. ASSUME CleanDevices, e.id = hook.scsi PROVE FALSE
    <3>1. hook.pc = "clean"
      BY <2>1 DEF CleanDevices
    <3>2. PICK i \in Instances : inst[i] = "hook" /\ HookOf(i)
      BY <3>1 DEF Hooked
    <3>3. hook.disks \in Seq(Uuids) /\ hook.disks # <<>> /\ hook.scsi \in Nat
      BY <3>1, <3>2, HookFields DEF HookOf, HookType, ClusterTypeOK
    <3>4. Head(hook.disks) = hook.disks[1] /\ 1 \in DOMAIN hook.disks
      BY <3>3
    <3>5. Head(hook.disks) \in NamesOf(i) /\ Head(hook.disks) \in Names
      BY <3>2, <3>4, DiskNames DEF HookOf
    <3>6. Labelled(Head(hook.disks), hook.scsi) /\ Labelled(n, e.id)
      BY <1>5, <3>1 DEF Labelled
    <3>7. Head(hook.disks) = n
      BY <1>a, <2>1, <3>3, <3>5, <3>6 DEF Identity
    <3>8. inst[holder[q]] = "up"
      BY DEF Locked, Held
    <3> QED
      BY <1>a, <3>2, <3>5, <3>7, <3>8, NamesApart
  <2> QED
    BY <2>1, DevicesKept
<1> QED
  BY <1>3, <1>4, <1>5

\* The effect of a call lasts until it is answered, whatever others do.
LEMMA EffectLasts ==
  ASSUME ClusterTypeOK, Locked, Hooked, Identity, OneEach, AckedIsServed, [ClusterNext]_cvars,
         \A p \in Procs : Held(p) => Asked(p),
         NEW q \in Procs, Held(q), Effect(q), job'[q] = job[q], holder'[q] = holder[q]
  PROVE  Effect(q)'
<1> DEFINE r == job[q].req
           i == holder[q]
<1>1. Asked(q) /\ i \in Instances /\ r \in Requests
  BY AskedNames
<1>2. \A n \in NamesOf(i) :
        /\ disk'[n] = disk[n]
        /\ \A l : l.name = n => (l \in luns' <=> l \in luns)
        /\ \A e \in dev : e.name = n => \E d \in dev' : SameDevice(d, e)
  BY Untouched DEF LunsNamed
<1>3. \A n \in NamesOf(i) : \A d \in dev' : d.name = n =>
        \/ \E e \in dev : e.node = d.node /\ e.name = n /\ d.size = e.size
        \/ \E l \in luns : l.name = n /\ d.size = l.size
  BY DevicesFrom DEF SameDevice
<1>4. job'[q] = job[q] /\ holder'[q] = i
  OBVIOUS
<1>5. r.op # "pre_move" => r.name \in NamesOf(i)
  BY <1>1 DEF Asked
<1>6. r.op = "snapshot" => r.into \in NamesOf(i)
  BY AskedNames
<1>7. Succeeded(q)' = Succeeded(q)
  BY DEF Succeeded
<1>8. CASE r.op = "create"
  <2>1. r.op = "create" /\ (job[q].pc = "map" \/ Succeeded(q)) =>
         /\ \E l \in luns : /\ l.name = r.name /\ l.pool = r.pool /\ l.size = r.size
                            /\ l.note = NewNote /\ l.mapped = Succeeded(q)
         /\ \A d \in dev : d.name = r.name => d.size = r.size
    BY DEF Effect
  <2>2. ASSUME job[q].pc = "map" \/ Succeeded(q)
        PROVE  /\ \E l \in luns' : /\ l.name = r.name /\ l.pool = r.pool /\ l.size = r.size
                                   /\ l.note = NewNote /\ l.mapped = Succeeded(q)
               /\ \A d \in dev' : d.name = r.name => d.size = r.size
    <3>1. PICK l \in luns : /\ l.name = r.name /\ l.pool = r.pool /\ l.size = r.size
                            /\ l.note = NewNote /\ l.mapped = Succeeded(q)
      BY <1>8, <2>1, <2>2
    <3>2. \A m \in luns : m.name = r.name => m.size = r.size
      BY <3>1 DEF OneEach
    <3> QED
      BY <1>2, <1>3, <1>5, <1>8, <2>1, <2>2, <3>1, <3>2
  <2> QED
    BY <1>4, <1>7, <1>8, <2>2 DEF Effect
<1>9. CASE r.op \in {"remove", "setinfo"}
  <2>1. /\ r.op = "remove" /\ Succeeded(q) => \A l \in luns' : l.name # r.name
        /\ r.op = "setinfo" /\ Succeeded(q) => \A l \in luns' : l.name = r.name => l.note = r.note
    BY <1>2, <1>5, <1>9 DEF Effect
  <2> QED
    BY <1>4, <1>7, <1>9, <2>1 DEF Effect
<1>10. CASE r.op = "grow"
  <2>1. /\ job[q].pc = "rescan" \/ Succeeded(q) =>
             \A l \in luns : l.name = r.name => l.size = r.size
        /\ Succeeded(q) => \A d \in dev : d.node = r.node /\ d.name = r.name => d.size = r.size
    BY <1>10 DEF Effect
  <2>2. job[q].pc = "rescan" \/ Succeeded(q) =>
             \A l \in luns' : l.name = r.name => l.size = r.size
    BY <1>2, <1>5, <1>10, <2>1
  <2>3. Succeeded(q) => \A d \in dev' : d.node = r.node /\ d.name = r.name => d.size = r.size
    BY <1>3, <1>5, <1>10, <2>1
  <2> QED
    BY <1>4, <1>7, <1>10, <2>2, <2>3 DEF Effect
<1>11. CASE r.op = "snapshot"
  <2>1. Succeeded(q) => \E l \in luns : l.name = r.into /\ CopyOf(l, r.name) /\ ~l.mapped
    BY <1>11 DEF Effect
  <2>2. disk'[r.name] = disk[r.name]
    BY <1>2, <1>5, <1>11
  <2>3. \A l : CopyOf(l, r.name)' <=> CopyOf(l, r.name)
    BY <2>2 DEF CopyOf
  <2>4. Succeeded(q) => \E l \in luns' : l.name = r.into /\ CopyOf(l, r.name)' /\ ~l.mapped
    BY <1>2, <1>6, <1>11, <2>1, <2>3
  <2> QED
    BY <1>4, <1>7, <1>11, <2>4 DEF Effect
<1>12. CASE r.op = "attach"
  <2>1. Succeeded(q) => \E l \in luns' : l.name = r.name /\ l.id = job[q].out
    BY <1>2, <1>5, <1>12 DEF Effect
  <2> QED
    BY <1>4, <1>7, <1>12, <2>1 DEF Effect
<1>13. CASE r.op = "pre_move"
  <2>1. ASSUME Succeeded(q), NEW n \in DiskSet(i), Live(n)'
        PROVE  /\ \A d \in dev' : d.node = r.target /\ d.name = n => d.size >= disk'[n].size
               /\ \E d \in dev' : d.node = r.target /\ d.name = n
    <3>1. n \in NamesOf(i) /\ n \in Names
      BY <1>1, DiskNames
    <3>2. disk'[n] = disk[n] /\ Live(n)
      BY <1>2, <2>1, <3>1 DEF Live
    <3>3. /\ \A d \in dev : d.node = r.target /\ d.name = n => d.size >= disk[n].size
          /\ \E d \in dev : d.node = r.target /\ d.name = n
      BY <1>13, <2>1, <3>2 DEF Effect
    <3>4. \A l \in luns : l.name = n => l.size >= disk[n].size
      BY <3>1, <3>2, LiveLun
    <3>5. \E d \in dev' : d.node = r.target /\ d.name = n
      BY <1>2, <3>1, <3>3 DEF SameDevice
    <3> QED
      BY <1>3, <3>1, <3>2, <3>3, <3>4, <3>5
  <2> QED
    BY <1>4, <1>7, <1>13, <2>1 DEF Effect
<1>14. CASE r.op = "detach"
  BY <1>4, <1>14 DEF Effect
<1> QED
  BY <1>1, <1>8, <1>9, <1>10, <1>11, <1>12, <1>13, <1>14, RequestFields
-----------------------------------------------------------------------------
\* The last step of each operation that succeeds.
Ends(p) ==
  LET op == job[p].req.op IN
    /\ job'[p].pc = "map" => CreateLun(p)
    /\ job'[p].pc = "rescan" /\ op = "grow" => DoDirectResize(p)
    /\ Succeeded(p)' =>
         /\ op = "create" => MapLun(p)
         /\ op = "remove" => DestroyLun(p)
         /\ op = "grow" => Rescan(p)
         /\ op = "setinfo" => SetLunComment(p)
         /\ op = "snapshot" => CloneLun(p)
         /\ op = "attach" => Found(p)
         /\ op = "pre_move" => Rescan(p)

\* Each of those marks is set by that step and no other.
LEMMA StepEnds ==
  ASSUME TypeOK, NEW p \in Procs, Step(p) \/ Fail(p), Asked(p)
  PROVE  Ends(p)
<1> DEFINE op == job[p].req.op
<1>a. job \in [Procs -> JobType] /\ job[p] \in JobType
  BY DEF TypeOK
<1>b. ASSUME NEW pc, Goto(p, pc) PROVE job'[p].pc = pc
  BY <1>b, Fields
<1>c. ASSUME NEW rc \in Nat, Return(p, rc) PROVE job'[p].pc = "done" /\ job'[p].rc = rc
  BY <1>c, Fields
<1>d. ASSUME Return(p, 2) PROVE Ends(p)
  BY <1>d, <1>c DEF Succeeded, Ends
<1>e. ASSUME NEW pc, pc \notin {"map", "rescan", "done"}, job'[p].pc = pc PROVE Ends(p)
  BY <1>e DEF Succeeded, Ends
<1>1. CASE Fail(p)
  BY <1>1, <1>d DEF Fail
<1>2. CASE Lookup(p)
  <2>1. ASSUME NEW l, job' = [job EXCEPT ![p].pc = AfterLookup(op), ![p].at = l], op # "create",
               job[p].pc = "lookup"
        PROVE  Ends(p)
    <3>1. job'[p].pc = AfterLookup(op)
      BY <1>a, <2>1 DEF JobType
    <3>2. op \in {"remove", "grow", "setinfo", "snapshot"}
      BY <1>a, <2>1, RequestFields DEF TypeOK, InStep, StepsOf
    <3>3. AfterLookup(op) \notin {"map", "rescan", "done"}
      BY <3>2 DEF AfterLookup
    <3> QED
      BY <1>e, <3>1, <3>3
  <2>2. ASSUME Goto(p, "alloc") PROVE Ends(p)
    BY <1>b, <1>e, <2>2
  <2> QED
    BY <1>2, <1>d, <2>1, <2>2 DEF Lookup
<1>3. CASE CreateLun(p) \/ MapLun(p) \/ DestroyLun(p) \/ DoDirectResize(p) \/ SetLunComment(p)
            \/ CloneLun(p)
  BY <1>3, <1>b, <1>c DEF CreateLun, MapLun, DestroyLun, DoDirectResize, SetLunComment, CloneLun,
                          Then, Finally, At, Succeeded, Ends
<1>4. CASE Rescan(p)
  <2>1. op \in {"grow", "attach", "pre_move"}
    BY <1>a, <1>4, RequestFields DEF Rescan, TypeOK, InStep, StepsOf
  <2> QED
    BY <1>4, <2>1, <1>b, <1>c DEF Rescan, Then, Finally, Succeeded, Ends
<1>5. ASSUME NEW d \in dev, SearchFinds(job[p].req.node, job[p].req.name, d), Answer(p, d.id),
             op = "attach"
      PROVE  Ends(p)
  <2>1. job'[p].pc = "done" /\ job'[p].out = d.id
    BY <1>a, <1>5 DEF Answer, JobType
  <2>2. Found(p)
    BY <1>5, <2>1 DEF Found, SearchFinds, FilesOf
  <2> QED
    BY <1>5, <2>1, <2>2 DEF Ends
<1>6. CASE SearchToAttach(p)
  <2>1. ASSUME Goto(p, "rescan"), op = "attach" PROVE Ends(p)
    BY <1>b, <2>1 DEF Succeeded, Ends
  <2> QED
    BY <1>6, <1>5, <1>d, <2>1 DEF SearchToAttach, At
<1>7. CASE Poll(p)
  <2>1. ASSUME job' = [job EXCEPT ![p].tries = @ + 1], job[p].pc = "poll" PROVE Ends(p)
    <3>1. job'[p].pc = "poll"
      BY <1>a, <2>1 DEF JobType
    <3> QED
      BY <1>e, <3>1
  <2>2. ASSUME job' = [job EXCEPT ![p].pc = "done", ![p].rc = 1, ![p].tries = @ + 1] PROVE Ends(p)
    <3>1. job'[p].pc = "done" /\ job'[p].rc = 1
      BY <1>a, <2>2 DEF JobType
    <3> QED
      BY <3>1 DEF Succeeded, Ends
  <2> QED
    BY <1>7, <1>5, <1>d, <2>1, <2>2 DEF Poll, At
<1>8. CASE Detach(p)
  BY <1>8, <1>c DEF Detach, At, Succeeded, Ends
<1>9. CASE PreMove(p)
  <2>1. job[p].req.node = job[p].req.target /\ job[p].req.ext /\ op = "pre_move"
    BY <1>9 DEF Asked, PreMove, At
  <2>2. Goto(p, "rescan")
    BY <1>9, <2>1 DEF PreMove, RunsHere
  <2> QED
    BY <1>b, <2>1, <2>2 DEF Succeeded, Ends
<1>10. CASE SearchToSave(p)
  <2>1. ASSUME NEW d \in dev, job' = [job EXCEPT ![p].pc = "open", ![p].out = ScsiId(d)] PROVE Ends(p)
    <3>1. job'[p].pc = "open"
      BY <1>a, <2>1 DEF JobType
    <3> QED
      BY <1>e, <3>1
  <2>2. ASSUME Goto(p, "lookup") PROVE Ends(p)
    BY <1>b, <1>e, <2>2
  <2> QED
    BY <1>10, <1>d, <2>1, <2>2 DEF SearchToSave
<1>11. CASE OpenFile(p) \/ WriteFile(p)
  <2>1. Goto(p, "write") \/ Goto(p, "lookup")
    BY <1>11 DEF OpenFile, WriteFile
  <2> QED
    BY <1>b, <1>e, <2>1
<1> QED
  BY <1>1, <1>2, <1>3, <1>4, <1>6, <1>7, <1>8, <1>9, <1>10, <1>11 DEF Step

\* What a call has answered for is so.
LEMMA EffectReached ==
  ASSUME ClusterTypeOK, Locked, Identity, OneEach, AckedIsServed,
         NEW q \in Procs, Held(q), Asked(q), Effect(q), Step(q) \/ Fail(q), UNCHANGED world
  PROVE  Effect(q)'
<1> DEFINE r == job[q].req
           i == holder[q]
<1>1. i \in Instances /\ r \in Requests /\ job[q].pc \notin {"idle", "done"}
  BY AskedNames, StepFrame DEF ClusterTypeOK
<1>2. job'[q].req = r /\ holder'[q] = i /\ disk' = disk
  BY StepFrame DEF ClusterTypeOK, world
<1>3. luns \subseteq LunType /\ dev \subseteq DevType
  BY Types
<1>4. /\ job'[q].pc = "map" => CreateLun(q)
      /\ job'[q].pc = "rescan" /\ r.op = "grow" => DoDirectResize(q)
      /\ Succeeded(q)' =>
           /\ r.op = "create" => MapLun(q)
           /\ r.op = "remove" => DestroyLun(q)
           /\ r.op = "grow" => Rescan(q)
           /\ r.op = "setinfo" => SetLunComment(q)
           /\ r.op = "snapshot" => CloneLun(q)
           /\ r.op = "attach" => Found(q)
           /\ r.op = "pre_move" => Rescan(q)
  BY StepEnds DEF ClusterTypeOK, Ends
<1>5. Succeeded(q)' => job'[q].pc = "done"
  BY DEF Succeeded
<1>6. r.op # "pre_move" => r.name \in Names
  BY <1>1, RequestFields
<1>7. CASE r.op = "create"
  <2>1. CASE CreateLun(q)
    <3>1. luns' = luns \cup {NewLun(r, r.pool, job[q].id)} /\ dev' = dev
      BY <2>1 DEF CreateLun
    <3> DEFINE l == NewLun(r, r.pool, job[q].id)
    <3>2. /\ l \in luns' /\ l.name = r.name /\ l.pool = r.pool /\ l.size = r.size
          /\ l.note = NewNote /\ l.mapped = FALSE
      BY <3>1 DEF NewLun
    <3> HIDE DEF l
    <3>3. Making(q) /\ Subject(q) = r.name
      BY <2>1 DEF CreateLun, At, Making, Subject
    <3>4. \A d \in dev : d.name # r.name
      <4>1. \A d \in dev : d.name \in Names /\ d.id \in Nat /\ Labelled(d.name, d.id)
        BY <1>3 DEF DevType, Labelled
      <4> QED
        BY <3>3, <4>1 DEF Identity
    <3>5. Succeeded(q)' = FALSE
      BY <1>4, <1>7, <2>1 DEF CreateLun, MapLun, At, Succeeded
    <3>6. /\ \E m \in luns' : /\ m.name = r.name /\ m.pool = r.pool /\ m.size = r.size
                              /\ m.note = NewNote /\ m.mapped = Succeeded(q)'
          /\ \A d \in dev' : d.name = r.name => d.size = r.size
      BY <3>1, <3>2, <3>4, <3>5
    <3> QED
      BY <1>2, <1>7, <3>6 DEF Effect
  <2>2. CASE MapLun(q)
    <3>1. PICK l \in luns : /\ l.name = r.name /\ l.pool = r.pool /\ l.size = r.size
                            /\ l.note = NewNote
      BY <1>7, <2>2 DEF Effect, MapLun, At
    <3>2. \A d \in dev : d.name = r.name => d.size = r.size
      BY <1>7, <2>2 DEF Effect, MapLun, At
    <3>3. luns' = Mapped(luns, LunsAt(luns, r.pool, r.name)) /\ dev' = dev
      BY <2>2 DEF MapLun
    <3> DEFINE k == [l EXCEPT !.mapped = TRUE]
    <3>4. k \in luns'
      BY <3>1, <3>3 DEF Mapped, LunsAt
    <3>5. /\ k.name = l.name /\ k.pool = l.pool /\ k.size = l.size /\ k.note = l.note
          /\ k.mapped = TRUE
      BY <1>3 DEF LunType
    <3> HIDE DEF k
    <3>6. job'[q].pc # "map"
      BY <1>4, <2>2 DEF MapLun, CreateLun, At
    <3>7. Succeeded(q)' \in BOOLEAN
      BY DEF Succeeded
    <3>8. Succeeded(q)' => 
           /\ \E m \in luns' : /\ m.name = r.name /\ m.pool = r.pool /\ m.size = r.size
                               /\ m.note = NewNote /\ m.mapped = TRUE
           /\ \A d \in dev' : d.name = r.name => d.size = r.size
      BY <3>1, <3>2, <3>3, <3>4, <3>5
    <3> QED
      BY <1>2, <1>7, <3>6, <3>7, <3>8 DEF Effect
  <2>3. CASE ~CreateLun(q) /\ ~MapLun(q)
    <3>1. job'[q].pc # "map" /\ ~Succeeded(q)'
      BY <1>4, <1>7, <2>3
    <3> QED
      BY <1>2, <1>7, <3>1 DEF Effect
  <2> QED
    BY <2>1, <2>2, <2>3
<1>8. CASE r.op = "remove"
  <2>1. ASSUME Succeeded(q)' PROVE \A l \in luns' : l.name # r.name
    <3>1. Target(q) # {} /\ luns' = luns \ Target(q)
      BY <1>4, <1>8, <2>1 DEF DestroyLun
    <3> QED
      BY <3>1 DEF Target, LunsAt, OneEach
  <2> QED
    BY <1>2, <1>8, <2>1 DEF Effect
<1>9. CASE r.op = "grow"
  <2>1. CASE DoDirectResize(q)
    <3>1. /\ job[q].pc = "resize" /\ Target(q) # {} /\ luns' = Resized(luns, Target(q), r.size)
      BY <2>1 DEF DoDirectResize, At
    <3>2. \A l \in luns : l.name = r.name => l \in Target(q)
      BY <3>1 DEF Target, LunsAt, OneEach
    <3>3. \A l \in luns : [l EXCEPT !.size = r.size].size = r.size
      BY <1>3 DEF LunType
    <3>4. \A l \in luns' : l.name = r.name => l.size = r.size
      BY <3>1, <3>2, <3>3 DEF Resized
    <3>5. ~Succeeded(q)'
      BY <1>4, <1>9, <3>1 DEF Rescan
    <3> QED
      BY <1>2, <1>9, <3>4, <3>5 DEF Effect
  <2>2. CASE Rescan(q)
    <3>1. \A l \in luns : l.name = r.name => l.size = r.size
      BY <1>9, <2>2 DEF Effect, Rescan
    <3>2. luns' = luns /\ dev' = Rescanned(dev, luns, r.node) /\ r.node \in Nodes
      BY <1>1, <2>2, RequestFields DEF Rescan
    <3>3. Live(r.name) /\ ~IsSnap(r.name) /\ r.name \in Names
      BY <1>1, <1>6, <1>9, DiskNames DEF Asked
    <3>4. PICK l \in luns : /\ l.name = r.name /\ l.mapped /\ l.id \in Nat
                            /\ \A d \in dev : d.name = r.name <=> d.id = l.id
      <4>1. ASSUME NEW n \in Names, Live(n), ~IsSnap(n)
            PROVE  \E l \in luns : /\ l.name = n /\ l.mapped /\ l.id \in Nat
                                  /\ \A d \in dev : d.name = n <=> d.id = l.id
        BY <4>1, LiveLun
      <4> QED
        BY <3>3, <4>1
    <3>5. \A m \in luns : m.id = l.id => m = l
      <4>1. \A m \in luns : m.name \in Names /\ m.id \in Nat /\ Labelled(m.name, m.id)
        BY <1>3 DEF LunType, Labelled
      <4> QED
        BY <3>4, <4>1 DEF Identity, OneEach
    <3>6. \A d \in dev' : d.node = r.node /\ d.name = r.name => d.size = r.size
      <4> SUFFICES ASSUME NEW d \in dev', d.node = r.node, d.name = r.name PROVE d.size = r.size
        OBVIOUS
      <4>1. \/ d \in dev /\ ~(d.node = r.node /\ \E m \in luns : m.mapped /\ m.id = d.id)
            \/ \E e \in dev, m \in luns :
                 m.mapped /\ m.id = e.id /\ SameDevice(d, e) /\ d.size = m.size
            \/ \E m \in luns : d.name = m.name /\ d.size = m.size
        BY <1>3, <3>2, RescannedDevices
      <4> QED
        BY <3>1, <3>4, <3>5, <4>1 DEF SameDevice
    <3>7. job'[q].pc = "rescan" => FALSE
      BY <1>4, <1>9, <2>2 DEF Rescan, DoDirectResize, At
    <3> QED
      BY <1>2, <1>9, <3>1, <3>2, <3>6 DEF Effect
  <2>3. CASE ~DoDirectResize(q) /\ ~Rescan(q)
    <3>1. job'[q].pc # "rescan" /\ ~Succeeded(q)'
      BY <1>4, <1>9, <2>3
    <3> QED
      BY <1>2, <1>9, <3>1 DEF Effect
  <2> QED
    BY <2>1, <2>2, <2>3
<1>10. CASE r.op = "setinfo"
  <2>1. ASSUME Succeeded(q)' PROVE \A l \in luns' : l.name = r.name => l.note = r.note
    <3>1. Target(q) # {} /\ luns' = Noted(luns, Target(q), r.note)
      BY <1>4, <1>10, <2>1 DEF SetLunComment
    <3>2. \A l \in luns : l.name = r.name => l \in Target(q)
      BY <3>1 DEF Target, LunsAt, OneEach
    <3>3. \A l \in luns : [l EXCEPT !.note = r.note].note = r.note
      BY <1>3 DEF LunType
    <3> QED
      BY <3>1, <3>2, <3>3 DEF Noted
  <2> QED
    BY <1>2, <1>10, <2>1 DEF Effect
<1>11. CASE r.op = "snapshot"
  <2>1. ASSUME Succeeded(q)'
        PROVE  \E l \in luns' : l.name = r.into /\ CopyOf(l, r.name)' /\ ~l.mapped
    <3>1. PICK l \in Target(q) : luns' = luns \cup {CloneOf(l, r.into, job[q].id)}
      BY <1>4, <1>11, <2>1 DEF CloneLun
    <3>2. l \in luns /\ l.name = r.name
      BY DEF Target, LunsAt
    <3>3. CopyOf(l, r.name)
      BY <1>6, <1>11, <3>2, LiveLun DEF Asked, CopyOf
    <3> DEFINE k == CloneOf(l, r.into, job[q].id)
    <3>4. /\ k.name = r.into /\ k.pool = l.pool /\ k.size = l.size /\ k.note = l.note
          /\ k.mapped = FALSE
      BY <1>3, <3>2 DEF CloneOf, LunType
    <3> HIDE DEF k
    <3>5. k \in luns'
      BY <3>1 DEF k
    <3> QED
      BY <1>2, <3>3, <3>4, <3>5 DEF CopyOf
  <2> QED
    BY <1>2, <1>11, <2>1 DEF Effect
<1>12. CASE r.op = "attach"
  <2>1. ASSUME Succeeded(q)' PROVE \E l \in luns' : l.name = r.name /\ l.id = job'[q].out
    <3>1. PICK d \in dev : d.name = r.name /\ job'[q].out = d.id
      BY <1>4, <1>12, <2>1 DEF Found
    <3>2. \E l \in luns : l.name = r.name /\ l.id = d.id
      BY <1>6, <1>12, <3>1, LiveLun DEF Asked
    <3>3. luns' = luns
      BY <1>12, LunMoves DEF LunMove, Creates, Maps, Destroys, Resizes, Comments, Clones, At
    <3> QED
      BY <3>1, <3>2, <3>3
  <2> QED
    BY <1>2, <1>12, <2>1 DEF Effect
<1>13. CASE r.op = "pre_move"
  <2>1. ASSUME Succeeded(q)', NEW n \in DiskSet(i), Live(n)
        PROVE  /\ \A d \in dev' : d.node = r.target /\ d.name = n => d.size >= disk'[n].size
               /\ \E d \in dev' : d.node = r.target /\ d.name = n
    <3>1. r.node = r.target /\ r.node \in Nodes /\ n \in Names /\ ~IsSnap(n)
      BY <1>1, <1>13, RequestFields, DiskNames DEF Asked
    <3>2. luns' = luns /\ dev' = Rescanned(dev, luns, r.target)
      BY <1>4, <1>13, <2>1, <3>1 DEF Rescan
    <3>3. PICK l \in luns : /\ l.name = n /\ l.mapped /\ l.id \in Nat /\ l.size >= disk[n].size
                            /\ \A d \in dev : d.name = n <=> d.id = l.id
      BY <2>1, <3>1, LiveLun
    <3>4. \A m \in luns : m.id = l.id \/ m.name = n => m = l
      <4>1. \A m \in luns : m.name \in Names /\ m.id \in Nat /\ Labelled(m.name, m.id)
        BY <1>3 DEF LunType, Labelled
      <4> QED
        BY <3>1, <3>3, <4>1 DEF Identity, OneEach
    <3>5. ASSUME NEW d \in dev', d.node = r.target
          PROVE  /\ d.name = n <=> d.id = l.id
                 /\ d.name = n => d.size = l.size
      <4>1. \/ d \in dev /\ ~(d.node = r.target /\ \E m \in luns : m.mapped /\ m.id = d.id)
            \/ \E e \in dev, m \in luns :
                 m.mapped /\ m.id = e.id /\ SameDevice(d, e) /\ d.size = m.size
            \/ \E m \in luns : d.name = m.name /\ d.id = m.id /\ d.size = m.size
        BY <1>3, <3>1, <3>2, RescannedDevices
      <4> QED
        BY <3>3, <3>4, <3>5, <4>1 DEF SameDevice
    <3>6. \E d \in dev' : d.node = r.target /\ d.id = l.id
      BY <1>3, <3>1, <3>2, <3>3, RescannedDevices
    <3> QED
      BY <1>2, <3>3, <3>5, <3>6
  <2>2. \A n : Live(n)' = Live(n)
    BY <1>2 DEF Live
  <2> QED
    BY <1>2, <1>13, <2>1, <2>2 DEF Effect
<1>14. CASE r.op = "detach"
  BY <1>2, <1>14 DEF Effect
<1> QED
  BY <1>1, <1>7, <1>8, <1>9, <1>10, <1>11, <1>12, <1>13, <1>14, RequestFields
-----------------------------------------------------------------------------
\* Every call that runs has had the effect its place says, after any step.
LEMMA EffectKept ==
  ASSUME ClusterTypeOK, Locked, Hooked, Identity, OneEach, AckedIsServed, [ClusterNext]_cvars,
         \A p \in Procs : Held(p) => Asked(p) /\ Effect(p)
  PROVE  \A q \in Procs : (Held(q) => Effect(q))'
<1> SUFFICES ASSUME NEW q \in Procs, Held(q)' PROVE Effect(q)'
  OBVIOUS
<1>1. CASE job'[q] = job[q] /\ holder'[q] = holder[q]
  <2>1. Held(q)
    BY <1>1 DEF Held
  <2> QED
    BY <1>1, <2>1, EffectLasts
<1>2. ASSUME NEW i \in Instances, Asks(q, i) PROVE Effect(q)'
  <2>1. job'[q].req \in Requests /\ job'[q].pc = FirstStep(job'[q].req.op)
    BY <1>2, AskFrame, CallFrame
  <2>2. job'[q].pc \notin {"map", "rescan", "done"}
    BY <2>1, RequestFields DEF FirstStep
  <2> QED
    BY <2>2 DEF Effect, Succeeded
<1>3. CASE (Step(q) \/ Fail(q)) /\ UNCHANGED <<hook, world>> /\ Held(q)
  BY <1>3, EffectReached
<1>4. CASE Answered(q)
  BY <1>4, AnswerFrame, Types DEF Held
<1> QED
  BY <1>1, <1>2, <1>3, <1>4, JobsMove

\* The primary node knows the sizes of its live disks.
LEMMA CurrentKept ==
  ASSUME ClusterTypeOK, Locked, Identity, AckedIsServed, Current, [ClusterNext]_cvars,
         \A p \in Procs : Held(p) => Asked(p) /\ Effect(p)
  PROVE  Current'
<1> SUFFICES ASSUME NEW i \in Instances, NEW n \in DiskSet(i), Live(n)',
                    NEW d \in dev', d.node = primary'[i], d.name = n
             PROVE  d.size >= disk'[n].size
  BY DEF Current
<1>a. n \in Names /\ n \in NamesOf(i) /\ disk \in [Names -> DiskType]
  BY Types, DiskNames
<1>b. dev' = dev \/ (disk' = disk /\ primary' = primary)
  BY DevMoves DEF world
<1>1. CASE disk' = disk /\ primary' = primary
  <2>1. Live(n)
    BY <1>1 DEF Live
  <2>2. ASSUME NEW e \in dev, SameDevice(d, e), d.size = e.size PROVE d.size >= disk[n].size
    BY <1>1, <2>1, <2>2 DEF Current, SameDevice
  <2>3. ASSUME NEW l \in luns, d.name = l.name, d.size = l.size PROVE d.size >= disk[n].size
    BY <1>a, <2>1, <2>3, LiveLun
  <2> QED
    BY <1>1, <2>2, <2>3, DevicesFrom
<1>2. ASSUME NEW p \in Procs, NEW j \in Instances, Asks(p, j) PROVE d.size >= disk'[n].size
  <2>1. dev' = dev /\ primary' = primary
    BY <1>2, AskFrame, CallFrame
  <2>2. disk'[n].size = disk[n].size /\ Live(n)
    BY <1>a, <1>2, AskFrame
  <2> QED
    BY <2>1, <2>2 DEF Current
<1>3. ASSUME NEW p \in Procs, Answered(p) PROVE d.size >= disk'[n].size
  <2> DEFINE r == job[p].req
  <2>1. /\ dev' = dev /\ holder[p] \in Instances /\ Held(p) /\ Asked(p) /\ Effect(p)
        /\ primary' = IF Succeeded(p) /\ r.op = "pre_move"
                         THEN [primary EXCEPT ![holder[p]] = r.target] ELSE primary
        /\ primary \in [Instances -> Nodes]
    BY <1>3, AnswerFrame, Types, ClusterAssumption DEF Held
  <2>2. CASE Succeeded(p) /\ r.op = "pre_move" /\ i = holder[p]
    <3>1. disk' = disk
      BY <1>3, <2>2, AnswerFrame DEF Acknowledged
    <3>2. Live(n) /\ primary'[i] = r.target
      BY <2>1, <2>2, <3>1 DEF Live
    <3> QED
      BY <2>1, <2>2, <3>1, <3>2 DEF Effect
  <2>3. CASE ~(Succeeded(p) /\ r.op = "pre_move" /\ i = holder[p])
    <3>1. primary'[i] = primary[i]
      BY <2>1, <2>3
    <3>2. Live(n) => d.size >= disk[n].size
      BY <2>1, <3>1 DEF Current
    <3>3. CASE disk'[n] = disk[n]
      BY <3>2, <3>3 DEF Live
    <3>4. CASE /\ Succeeded(p) /\ r.op = "create" /\ r.name = n
               /\ disk'[n] = [st |-> "live", pool |-> r.pool, size |-> r.size, note |-> NewNote]
      <4>1. d.size = r.size /\ r.size \in Sizes
        BY <2>1, <3>4, RequestFields DEF Effect, Asked
      <4>2. \A s \in Sizes : s \in Nat
        BY SizesAssumption
      <4>3. disk'[n].size = r.size
        BY <3>4
      <4> QED
        BY <4>1, <4>2, <4>3
    <3>5. CASE Succeeded(p) /\ r.op = "grow" /\ r.name = n /\ disk'[n] = [disk[n] EXCEPT !.size = r.size]
      <4>1. r.node = primary[i]
        <5>1. n \in NamesOf(holder[p]) /\ r.node = primary[holder[p]]
          BY <2>1, <3>5 DEF Asked
        <5> QED
          BY <1>a, <2>1, <5>1, NamesApart
      <4>2. d.size = r.size /\ r.size \in Sizes
        BY <2>1, <3>1, <3>5, <4>1, RequestFields DEF Effect, Asked
      <4>3. \A s \in Sizes : s \in Nat
        BY SizesAssumption
      <4>4. disk'[n].size = r.size
        BY <1>a, <3>5 DEF DiskType
      <4> QED
        BY <4>2, <4>3, <4>4
    <3>6. CASE Live(n) /\ disk'[n] = [disk[n] EXCEPT !.note = r.note]
      <4>1. disk'[n].size = disk[n].size
        BY <1>a, <3>6 DEF DiskType
      <4> QED
        BY <3>2, <3>6, <4>1
    <3>7. CASE Succeeded(p) /\ r.op = "snapshot" /\ r.into = n
      <4>1. n \in SnapsOf[holder[p]] /\ ~IsSnap(n)
        BY <2>1, <3>7, DiskNames DEF Asked
      <4> QED
        BY <2>1, <4>1 DEF IsSnap
    <3> QED
      BY <1>3, <1>a, <3>3, <3>4, <3>5, <3>6, <3>7, AckFrame DEF Live
  <2> QED
    BY <2>2, <2>3
<1> QED
  BY <1>1, <1>2, <1>3, WorldMoves
-----------------------------------------------------------------------------
\* A cleanup file is there until its disk is removed again, or the hook takes it.
LEMMA FileStays ==
  ASSUME ClusterTypeOK, Locked, Hooked, [ClusterNext]_cvars,
         \A p \in Procs : Held(p) => Asked(p),
         NEW q \in Procs, Held(q), job'[q] = job[q],
         NEW f \in saved, f.uuid \in NamesOf(holder[q])
  PROVE  f \in saved'
<1>1. holder[q] \in Instances /\ inst[holder[q]] = "up"
  BY AskedNames DEF Locked, Held
<1>2. ASSUME NEW p \in Procs, OpenFile(p) \/ WriteFile(p), Held(p) PROVE f \in saved'
  <2>1. At(p, "remove", "open") \/ At(p, "remove", "write")
    BY <1>2 DEF OpenFile, WriteFile
  <2>2. job[p].req.uuid \in NamesOf(holder[p]) /\ holder[p] \in Instances
    BY <1>2, <2>1, AskedNames DEF Asked, At
  <2>3. job'[p].pc # job[p].pc
    BY <1>2, Fields DEF OpenFile, WriteFile, At, ClusterTypeOK
  <2>4. holder[p] # holder[q]
    BY <1>2, <2>3 DEF Locked, Held
  <2>5. f.uuid # job[p].req.uuid
    BY <1>1, <2>2, <2>4, NamesApart
  <2> QED
    BY <1>2, <2>5 DEF OpenFile, WriteFile, Rewritten, FileOf
<1>3. CASE RemoveFile
  <2>1. hook.pc = "rm"
    BY <1>3 DEF RemoveFile
  <2>2. PICK i \in Instances : inst[i] = "hook" /\ HookOf(i)
    BY <2>1 DEF Hooked
  <2>3. hook.disks \in Seq(Uuids) /\ hook.disks # <<>>
    BY <2>1, <2>2, HookFields DEF HookOf, HookType, ClusterTypeOK
  <2>4. Head(hook.disks) = hook.disks[1] /\ 1 \in DOMAIN hook.disks
    BY <2>3
  <2>5. Head(hook.disks) \in NamesOf(i)
    BY <2>2, <2>4, DiskNames DEF HookOf
  <2>6. f.uuid # Head(hook.disks)
    BY <1>1, <2>2, <2>5, NamesApart
  <2> QED
    BY <1>3, <2>6 DEF RemoveFile, HookFile
<1> QED
  BY <1>2, <1>3, SavedMoves

\* remove has written the SCSI ID that it found when it goes on to the LUN.
LEMMA RecordedKept ==
  ASSUME ClusterTypeOK, Locked, Hooked, [ClusterNext]_cvars,
         \A p \in Procs : Held(p) => Asked(p) /\ Recorded(p)
  PROVE  \A q \in Procs : (Held(q) => Recorded(q))'
<1> SUFFICES ASSUME NEW q \in Procs, Held(q)', job'[q].req.op = "remove"
             PROVE  Recorded(q)'
  BY DEF Recorded
<1> DEFINE Record(j) == [node |-> j.req.node, uuid |-> j.req.uuid, scsi |-> j.out]
           Due(j) == j.out # 0 /\ j.pc \in {"lookup", "destroy", "done"} /\ ~(j.pc = "done" /\ j.rc # 0)
<1>a. ASSUME job'[q].pc = "search" => job'[q].out = 0, Due(job'[q]) => Record(job'[q]) \in saved'
      PROVE  Recorded(q)'
  BY <1>a DEF Recorded
<1>1. CASE job'[q] = job[q] /\ holder'[q] = holder[q]
  <2>1. Held(q) /\ Asked(q) /\ Recorded(q)
    BY <1>1 DEF Held
  <2>2. Record(job[q]).uuid = job[q].req.uuid
    OBVIOUS
  <2>3. job[q].req.uuid \in NamesOf(holder[q])
    BY <1>1, <2>1 DEF Asked
  <2>4. Record(job[q]) \in saved => Record(job[q]) \in saved'
    BY <1>1, <2>1, <2>2, <2>3, FileStays
  <2>5. /\ job[q].pc = "search" => job[q].out = 0
        /\ Due(job[q]) => Record(job[q]) \in saved
    BY <1>1, <2>1 DEF Recorded
  <2> HIDE DEF Due, Record
  <2> QED
    BY <1>a, <1>1, <2>4, <2>5
<1>2. ASSUME NEW i \in Instances, Asks(q, i) PROVE Recorded(q)'
  <2>1. job'[q].out = 0
    BY <1>2, AskFrame, CallFrame
  <2> QED
    BY <1>a, <2>1
<1>3. CASE (Step(q) \/ Fail(q)) /\ UNCHANGED <<hook, world>> /\ Held(q)
  <2>a. TypeOK /\ job[q].req.op = "remove" /\ job'[q].req = job[q].req /\ Recorded(q)
    BY <1>3, StepFrame DEF ClusterTypeOK
  <2>b. ASSUME NEW pc, Goto(q, pc) PROVE job'[q].pc = pc /\ job'[q].out = job[q].out
    BY <2>a, <2>b, Fields
  <2>c. ASSUME NEW rc \in Nat, Return(q, rc)
        PROVE  job'[q].pc = "done" /\ job'[q].rc = rc /\ job'[q].out = job[q].out
    BY <2>a, <2>c, Fields
  <2>d. ASSUME Return(q, 2) PROVE Recorded(q)'
    BY <1>a, <2>c, <2>d
  <2>e. /\ job[q].pc = "search" => job[q].out = 0
        /\ Due(job[q]) => Record(job[q]) \in saved
    BY <2>a DEF Recorded
  <2>1. CASE SearchToSave(q)
    <3>1. ASSUME NEW d \in dev, job' = [job EXCEPT ![q].pc = "open", ![q].out = ScsiId(d)]
          PROVE  job'[q].pc = "open"
      BY <3>1, Types DEF JobType
    <3>2. CASE job'[q].pc = "open"
      BY <1>a, <3>2
    <3>3. CASE Goto(q, "lookup")
      BY <1>a, <2>1, <2>b, <2>e, <3>3 DEF SearchToSave, At
    <3> QED
      BY <2>1, <2>d, <3>1, <3>2, <3>3 DEF SearchToSave
  <2>2. CASE OpenFile(q)
    BY <1>a, <2>2, <2>b DEF OpenFile
  <2>3. CASE WriteFile(q)
    <3>1. job'[q].pc = "lookup" /\ job'[q].out = job[q].out /\ saved' = Rewritten(q, job[q].out)
      BY <2>3, <2>b DEF WriteFile
    <3>2. Record(job[q]) \in saved'
      BY <3>1 DEF Rewritten
    <3> QED
      BY <1>a, <2>a, <3>1, <3>2
  <2>4. CASE Lookup(q)
    <3>1. ASSUME NEW l \in luns, job[q].pc = "lookup",
                 job' = [job EXCEPT ![q].pc = AfterLookup(job[q].req.op), ![q].at = l.pool]
          PROVE  job'[q].pc = "destroy" /\ job'[q].out = job[q].out
      BY <2>a, <3>1, Types DEF JobType, AfterLookup
    <3>2. CASE job'[q].pc = "destroy" /\ job'[q].out = job[q].out
      BY <1>a, <2>4, <2>a, <2>e, <3>2 DEF Lookup
    <3> QED
      BY <2>4, <2>a, <2>d, <3>1, <3>2 DEF Lookup, LunsNamed
  <2>5. CASE DestroyLun(q)
    <3>1. CASE Return(q, 0)
      BY <1>a, <2>5, <2>a, <2>c, <2>e, <3>1 DEF DestroyLun, At
    <3> QED
      BY <2>5, <2>d, <3>1 DEF DestroyLun, Finally
  <2>6. CASE Fail(q)
    BY <2>6, <2>d DEF Fail
  <2>7. ASSUME CreateLun(q) \/ MapLun(q) \/ DoDirectResize(q) \/ SetLunComment(q) \/ CloneLun(q)
               \/ SearchToAttach(q) \/ Poll(q) \/ Detach(q) \/ PreMove(q)
        PROVE  FALSE
    BY <2>7, <2>a DEF CreateLun, MapLun, DoDirectResize, SetLunComment, CloneLun, SearchToAttach,
                      Poll, Detach, PreMove, At
  <2>8. ASSUME Rescan(q) PROVE FALSE
    BY <2>8, <2>a, RequestFields DEF Rescan, TypeOK, InStep, StepsOf
  <2> QED
    BY <1>3, <2>1, <2>2, <2>3, <2>4, <2>5, <2>6, <2>7, <2>8 DEF Step
<1>4. CASE Answered(q)
  BY <1>4, AnswerFrame, Types DEF Held
<1> QED
  BY <1>1, <1>2, <1>3, <1>4, JobsMove

\* The hook goes on with the instance it was started for, and with fewer of its disks.
LEMMA HookedKept ==
  ASSUME ClusterTypeOK, Locked, Hooked, [ClusterNext]_cvars
  PROVE  Hooked'
<1>a. HookTypeOK /\ hook.disks \in Seq(Uuids) /\ inst \in [Instances -> {"up", "hook", "removed"}]
  BY HookFields, Types DEF ClusterTypeOK, HookType
<1>1. CASE hook' = hook /\ inst' = inst
  BY <1>1 DEF Hooked, HookOf
<1>2. ASSUME NEW i \in Instances, RemoveInstance(i) PROVE Hooked'
  <2>1. /\ hook.pc = "idle" /\ hook'.pc = "check" /\ hook'.ext /\ hook'.disks = DisksOf[i]
        /\ inst' = [inst EXCEPT ![i] = "hook"]
    BY <1>2, HookStart DEF RemoveInstance
  <2>2. \A j \in Instances : inst[j] # "hook"
    BY <2>1 DEF Hooked, HookOf
  <2>3. HookOf(i)'
    BY <2>1 DEF HookOf, DiskSet
  <2> QED
    BY <1>a, <2>1, <2>2, <2>3 DEF Hooked
<1>3. ASSUME HookStep \/ HookFail, UNCHANGED world PROVE Hooked'
  <2>1. hook.pc \in {"check", "cat", "rm", "clean"} /\ inst' = inst
    BY <1>3 DEF HookStep, HookFail, HookCheck, CatFile, RemoveFile, CleanDevices, world
  <2>2. PICK i \in Instances :
          inst[i] = "hook" /\ HookOf(i) /\ \A j \in Instances : inst[j] = "hook" => j = i
    BY <2>1 DEF Hooked
  <2>3. ASSUME HookOf(i)' PROVE Hooked'
    BY <2>1, <2>2, <2>3 DEF Hooked, HookOf
  <2>4. ASSUME NEW rc \in {0, 1, 2, 3}, HookReturn(rc) PROVE HookOf(i)'
    BY <1>a, <2>2, <2>4, HookFields DEF HookOf
  <2>5. ASSUME NEW disks \in Seq(Uuids), ForDisks(disks),
               \A k \in DOMAIN disks : disks[k] \in DiskSet(i)
        PROVE  HookOf(i)'
    <3>1. CASE disks = <<>>
      BY <2>4, <2>5, <3>1 DEF ForDisks
    <3>2. CASE disks # <<>>
      BY <1>a, <2>2, <2>5, <3>2, HookFields DEF HookOf
    <3> QED
      BY <3>1, <3>2
  <2>6. hook.pc \in {"rm", "clean"} =>
          /\ Tail(hook.disks) \in Seq(Uuids)
          /\ \A k \in DOMAIN Tail(hook.disks) : Tail(hook.disks)[k] \in DiskSet(i)
    <3>1. hook.pc \in {"rm", "clean"} => hook.disks # <<>>
      BY <2>2 DEF HookOf
    <3>2. CASE hook.disks # <<>>
      <4>1. /\ Tail(hook.disks) \in Seq(Uuids) /\ Len(Tail(hook.disks)) = Len(hook.disks) - 1
            /\ \A k \in 1..Len(Tail(hook.disks)) : Tail(hook.disks)[k] = hook.disks[k + 1]
        BY <1>a, <3>2, HeadTailProperties
      <4>2. \A k \in 1..Len(Tail(hook.disks)) : k + 1 \in DOMAIN hook.disks
        BY <1>a, <4>1
      <4>3. \A k \in DOMAIN hook.disks : hook.disks[k] \in DiskSet(i)
        BY <2>2 DEF HookOf
      <4> QED
        BY <4>1, <4>2, <4>3
    <3> QED
      BY <3>1, <3>2
  <2>7. CASE HookCheck
    BY <1>a, <2>2, <2>3, <2>4, <2>5, <2>7 DEF HookCheck, HookOf
  <2>8. CASE CatFile
    <3>1. ASSUME NEW f \in HookFile, f.scsi # 0, hook' = [hook EXCEPT !.pc = "rm", !.scsi = f.scsi]
          PROVE  HookOf(i)'
      <4>1. f.scsi \in Nat
        BY DEF HookFile, ClusterTypeOK, TypeOK
      <4>2. /\ hook'.pc = "rm" /\ hook'.scsi = f.scsi /\ hook'.ext = hook.ext
            /\ hook'.disks = hook.disks
        BY <1>a, <3>1, <4>1, HookFields
      <4>3. hook.disks # <<>>
        BY <2>2, <2>8 DEF CatFile, HookOf
      <4> QED
        BY <2>2, <3>1, <4>2, <4>3 DEF HookOf
    <3> QED
      BY <2>3, <2>4, <2>8, <3>1 DEF CatFile
  <2>9. CASE RemoveFile
    <3>1. ASSUME hook' = [hook EXCEPT !.pc = "clean"] PROVE HookOf(i)'
      BY <1>a, <2>2, <2>9, <3>1, HookFields DEF HookOf, RemoveFile
    <3> QED
      BY <2>3, <2>5, <2>6, <2>9, <3>1 DEF RemoveFile
  <2>10. CASE CleanDevices
    BY <2>3, <2>5, <2>6, <2>10 DEF CleanDevices
  <2>11. CASE HookFail
    BY <2>3, <2>4, <2>11 DEF HookFail
  <2> QED
    BY <1>3, <2>7, <2>8, <2>9, <2>10, <2>11 DEF HookStep
<1>4. CASE HookAnswered
  <2>1. hook'.pc = "idle" /\ \A i \in Instances : inst'[i] # "hook"
    BY <1>4 DEF HookAnswered, HookFinish, NoHook
  <2> QED
    BY <2>1 DEF Hooked
<1> QED
  BY <1>1, <1>2, <1>3, <1>4, HookMoves
-----------------------------------------------------------------------------
\* The disks of an instance that is gone stay gone: there are no calls for it any more.
LEMMA GoneKept ==
  ASSUME ClusterTypeOK, Locked, Gone, [ClusterNext]_cvars,
         \A p \in Procs : Held(p) => Asked(p)
  PROVE  Gone'
<1> SUFFICES ASSUME ~IgnoreFailures, NEW i \in Instances, inst'[i] \in {"hook", "removed"},
                    NEW n \in DiskSet(i)
             PROVE  disk'[n].st \in {"none", "removed"}
  BY DEF Gone
<1>a. n \in Names /\ n \in NamesOf(i) /\ inst \in [Instances -> {"up", "hook", "removed"}]
  BY DiskNames, Types
<1>1. CASE inst[i] \in {"hook", "removed"}
  <2>1. disk[n].st \in {"none", "removed"}
    BY <1>1 DEF Gone
  <2>2. ASSUME NEW p \in Procs, NEW j \in Instances, Asks(p, j) PROVE disk'[n] = disk[n]
    <3>1. inst[j] = "up" /\ \A m \in Names : m \notin NamesOf(j) => disk'[m] = disk[m]
      BY <2>2, AskFrame
    <3> QED
      BY <1>1, <1>a, <3>1, NamesApart
  <2>3. ASSUME NEW p \in Procs, Answered(p) PROVE disk'[n] = disk[n]
    <3>1. holder[p] \in Instances /\ inst[holder[p]] = "up"
      BY <2>3, AnswerFrame
    <3>2. \A m \in Names : m \notin NamesOf(holder[p]) => disk'[m] = disk[m]
      BY <2>3, AckFrame
    <3> QED
      BY <1>1, <1>a, <3>1, <3>2, NamesApart
  <2> QED
    BY <2>1, <2>2, <2>3, WorldMoves
<1>2. CASE inst[i] = "up"
  <2>1. ASSUME NEW j \in Instances, RemoveInstance(j) PROVE disk'[n].st \in {"none", "removed"}
    <3>1. j = i /\ disk' = disk
      BY <1>a, <1>2, <2>1 DEF RemoveInstance
    <3> QED
      BY <2>1, <3>1 DEF RemoveInstance
  <2>2. ASSUME inst' = inst \/ HookAnswered PROVE FALSE
    BY <1>2, <2>2 DEF HookAnswered
  <2> QED
    BY <2>1, <2>2, HookMoves DEF world
<1> QED
  BY <1>a, <1>1, <1>2

\* Of the disks of an instance that is gone no device appears any more.
LEMMA NoNewDevice ==
  ASSUME ClusterTypeOK, Locked, Identity, NoLeak, Gone, [ClusterNext]_cvars,
         \A p \in Procs : Held(p) => Asked(p), ~IgnoreFailures,
         NEW i \in Instances, inst[i] = "hook", NEW n \in DiskSet(i), NoDevice(n)
  PROVE  NoDevice(n)'
<1>1. \A l \in luns : l.name # n
  BY DEF Gone, NoLeak
<1> QED
  BY <1>1, DevicesFrom DEF NoDevice, SameDevice

\* The cleanup leaves no node a device of the disk the hook is at.
LEMMA HeadCleaned ==
  ASSUME ClusterTypeOK, Identity, ~QuietFailures, CleanDevices
  PROVE  \A d \in dev' : d.name # Head(hook.disks)
<1>1. dev \subseteq DevType /\ hook.scsi \in Nat
  BY Types, HookFields DEF ClusterTypeOK, HookType
<1>2. dev' = Flushed(dev, Nodes, hook.scsi) /\ hook.pc = "clean"
  BY DEF CleanDevices
<1>3. SUFFICES ASSUME NEW d \in dev', d.name = Head(hook.disks) PROVE FALSE
  OBVIOUS
<1>4. d \in dev /\ d.id # hook.scsi
  BY <1>1, <1>2 DEF Flushed, DevType
<1>5. d.name \in Names /\ d.id \in Nat
  BY <1>1, <1>4 DEF DevType
<1>6. Labelled(d.name, d.id) /\ Labelled(d.name, hook.scsi)
  BY <1>2, <1>3, <1>4 DEF Labelled
<1> QED
  BY <1>1, <1>4, <1>5, <1>6 DEF Identity

\* The disks that the hook has dealt with have no device on any node.
LEMMA CleanedKept ==
  ASSUME ClusterTypeOK, Locked, Hooked, Identity, NoLeak, Gone, Cleaned, [ClusterNext]_cvars,
         \A p \in Procs : Held(p) => Asked(p)
  PROVE  Cleaned'
<1> SUFFICES ASSUME ~IgnoreFailures, ~QuietFailures, CleanupCmd, hook'.host = Master,
                    NEW i \in Instances, inst'[i] = "hook", NEW n \in DiskSet(i)
             PROVE  Dealt(n)'
  BY DEF Cleaned
<1>a. HookTypeOK /\ hook.disks \in Seq(Uuids) /\ inst \in [Instances -> {"up", "hook", "removed"}]
  BY HookFields, Types DEF ClusterTypeOK, HookType
<1> DEFINE Rest(disks) == \A k \in DOMAIN disks : disks[k] # n
<1>1. ASSUME NEW j \in Instances, RemoveInstance(j) PROVE Dealt(n)'
  BY <1>1, HookStart DEF Dealt
<1>2. CASE HookAnswered
  BY <1>a, <1>2 DEF HookAnswered
<1>3. CASE hook' = hook /\ inst' = inst
  <2>1. NoDevice(n) => NoDevice(n)'
    BY <1>3, NoNewDevice
  <2>2. Dealt(n)
    BY <1>3 DEF Cleaned
  <2> QED
    BY <1>3, <2>1, <2>2 DEF Dealt
<1>4. ASSUME HookStep \/ HookFail, UNCHANGED world PROVE Dealt(n)'
  <2>1. inst[i] = "hook" /\ HookOf(i)
    BY <1>4 DEF world, Hooked
  <2>2. NoDevice(n) => NoDevice(n)'
    BY <2>1, NoNewDevice
  <2>3. ASSUME NEW rc \in {1, 2, 3}, HookReturn(rc) PROVE Dealt(n)'
    <3>1. hook'.pc = "done" /\ hook'.rc = rc
      BY <1>a, <2>3, HookFields
    <3> QED
      BY <3>1 DEF Dealt
  <2>4. ASSUME NEW disks \in Seq(Uuids), ForDisks(disks), Rest(disks) => NoDevice(n)'
        PROVE  Dealt(n)'
    <3>1. disks = <<>> => Rest(disks)
      OBVIOUS
    <3>2. IF disks = <<>> THEN hook'.pc = "done" /\ hook'.rc = 0
                          ELSE hook'.pc = "cat" /\ hook'.disks = disks
      BY <1>a, <2>4, HookFields
    <3> QED
      BY <2>4, <3>1, <3>2 DEF Dealt
  <2>5. CASE HookFail
    BY <2>3, <2>5 DEF HookFail
  <2>6. CASE HookCheck
    <3>1. hook.pc = "check" /\ hook.ext /\ hook.disks = DisksOf[i]
      BY <2>1, <2>6 DEF HookCheck, HookOf
    <3>2. ~Rest(hook.disks)
      BY <3>1 DEF DiskSet
    <3>3. ASSUME HookReturn(0) PROVE hook'.host = hook.host
      BY <1>a, <3>3, HookFields
    <3>4. RunsHere(hook.host, Master) <=> hook.host = Master
      BY DEF RunsHere
    <3> HIDE DEF Rest
    <3> QED
      BY <1>a, <2>4, <2>6, <3>1, <3>2, <3>3, <3>4 DEF HookCheck
  <2>7. CASE CatFile
    <3>1. ASSUME NEW f \in HookFile, hook' = [hook EXCEPT !.pc = "rm", !.scsi = f.scsi]
          PROVE  Dealt(n)'
      <4>1. f.scsi \in Nat
        BY DEF HookFile, ClusterTypeOK, TypeOK
      <4>2. hook'.pc = "rm" /\ hook'.host = hook.host /\ hook'.disks = hook.disks
        BY <1>a, <3>1, <4>1, HookFields
      <4>3. Rest(hook.disks) => NoDevice(n)
        BY <2>1, <2>7, <4>2 DEF CatFile, Cleaned, Dealt
      <4> QED
        BY <2>2, <4>2, <4>3 DEF Dealt
    <3> QED
      BY <2>3, <2>7, <3>1 DEF CatFile
  <2>8. CASE RemoveFile
    <3>1. hook' = [hook EXCEPT !.pc = "clean"] /\ hook.pc = "rm"
      BY <2>8 DEF RemoveFile
    <3>2. hook'.pc = "clean" /\ hook'.host = hook.host /\ hook'.disks = hook.disks
      BY <1>a, <3>1, HookFields
    <3>3. Rest(hook.disks) => NoDevice(n)
      BY <2>1, <3>1, <3>2 DEF Cleaned, Dealt
    <3> QED
      BY <2>2, <3>2, <3>3 DEF Dealt
  <2>9. CASE CleanDevices
    <3>1. hook.pc = "clean" /\ hook.disks # <<>> /\ ForDisks(Tail(hook.disks))
      BY <2>1, <2>9 DEF CleanDevices, HookOf
    <3>2. /\ Tail(hook.disks) \in Seq(Uuids) /\ Len(Tail(hook.disks)) = Len(hook.disks) - 1
          /\ \A k \in 1..Len(Tail(hook.disks)) : Tail(hook.disks)[k] = hook.disks[k + 1]
      BY <1>a, <3>1, HeadTailProperties
    <3>3. hook'.host = hook.host
      BY <1>a, <3>1, <3>2, HookFields
    <3>4. Rest(hook.disks) => NoDevice(n)
      BY <2>1, <3>1, <3>3 DEF Cleaned, Dealt
    <3>5. n = Head(hook.disks) => NoDevice(n)'
      BY <2>9, HeadCleaned DEF NoDevice
    <3>6. Rest(Tail(hook.disks)) /\ n # Head(hook.disks) => Rest(hook.disks)
      <4>1. SUFFICES ASSUME Rest(Tail(hook.disks)), n # Head(hook.disks), NEW k \in DOMAIN hook.disks
                     PROVE  hook.disks[k] # n
        OBVIOUS
      <4>2. DOMAIN hook.disks = 1..Len(hook.disks) /\ Len(hook.disks) \in Nat
            /\ DOMAIN Tail(hook.disks) = 1..Len(Tail(hook.disks))
            /\ Head(hook.disks) = hook.disks[1]
        BY <1>a, <3>1, <3>2
      <4>3. CASE k = 1
        BY <4>1, <4>2, <4>3
      <4>4. CASE k # 1
        <5>1. k - 1 \in 1..Len(Tail(hook.disks)) /\ (k - 1) + 1 = k
          BY <3>2, <4>2, <4>4
        <5>2. Tail(hook.disks)[k - 1] = hook.disks[k]
          BY <3>2, <5>1
        <5> QED
          BY <4>1, <4>2, <5>1, <5>2
      <4> QED
        BY <4>3, <4>4
    <3> HIDE DEF Rest
    <3> QED
      BY <2>2, <2>4, <3>1, <3>2, <3>4, <3>5, <3>6
  <2> QED
    BY <1>4, <2>5, <2>6, <2>7, <2>8, <2>9 DEF HookStep
<1> QED
  BY <1>1, <1>2, <1>3, <1>4, HookMoves
-----------------------------------------------------------------------------
\* At first nothing is made, known or asked for.
LEMMA ClusterStart == ASSUME ClusterInit PROVE ClusterInv
<1>1. /\ luns = {} /\ dev = {} /\ saved = {} /\ job = [p \in Procs |-> Idle] /\ calls = 0
      /\ hook = NoHook /\ disk = [n \in Names |-> NoDisk] /\ primary \in [Instances -> Nodes]
      /\ inst = [i \in Instances |-> "up"] /\ holder = [p \in Procs |-> NoInstance]
  BY DEF ClusterInit, Init, HookInit
<1>2. \A p \in Procs : job[p].pc = "idle" /\ job[p].out = 0 /\ ~Held(p) /\ ~Making(p)
  BY <1>1 DEF Idle, Held, Making
<1>3. hook.pc = "idle"
  BY <1>1 DEF NoHook
<1>4. \A n \in Names : disk[n].st = "none"
  BY <1>1 DEF NoDisk
<1>5. ClusterTypeOK
  <2>1. TypeOK
    BY CallsAssumption, RetriesAssumption
       DEF ClusterInit, Init, TypeOK, InStep, Idle, JobType, Pcs
  <2>2. HookTypeOK
    BY <1>1, HookAssumption DEF NoHook, HookTypeOK
  <2>3. NoDisk \in DiskType
    BY DEF NoDisk, DiskType
  <2>4. disk \in [Names -> DiskType]
    BY <1>1, <2>3
  <2> QED
    BY <1>1, <2>1, <2>2, <2>4 DEF ClusterTypeOK, DiskType
<1>6. Locked
  BY <1>1, <1>2, ClusterAssumption DEF Locked
<1>7. Identity
  <2>1. \A n, k : ~Labelled(n, k)
    BY <1>1, <1>2, <1>3 DEF Labelled
  <2> QED
    BY <1>2, <2>1 DEF Identity
<1>8. OneEach /\ NoLeak
  BY <1>1 DEF OneEach, NoLeak
<1>9. AckedIsServed
  BY <1>4 DEF AckedIsServed, Live
<1>10. Current
  BY <1>4, DiskNames DEF Current, Live
<1>11. Hooked /\ Gone /\ Cleaned
  BY <1>1, <1>3 DEF Hooked, Gone, Cleaned
<1> QED
  BY <1>2, <1>5, <1>6, <1>7, <1>8, <1>9, <1>10, <1>11 DEF ClusterInv

\* Every step keeps every part of the invariant.
LEMMA ClusterStep == ASSUME ClusterInv, [ClusterNext]_cvars PROVE ClusterInv'
<1> USE DEF ClusterInv
<1>1. ClusterTypeOK'
  BY TypesKept
<1>2. Locked'
  BY LockedKept
<1>3. \A p \in Procs : (Held(p) => Asked(p))'
  BY AskedKept
<1>4. \A p \in Procs : (Held(p) => Effect(p))'
  BY EffectKept
<1>5. \A p \in Procs : (Held(p) => Recorded(p))'
  BY RecordedKept
<1>6. Identity'
  BY <1>2, IdentityKept
<1>7. OneEach'
  BY OneEachKept
<1>8. NoLeak'
  BY NoLeakKept
<1>9. AckedIsServed'
  BY ServedKept
<1>10. Current'
  BY CurrentKept
<1>11. Hooked'
  BY HookedKept
<1>12. Gone'
  BY GoneKept
<1>13. Cleaned'
  BY CleanedKept
<1> QED
  BY <1>1, <1>2, <1>3, <1>4, <1>5, <1>6, <1>7, <1>8, <1>9, <1>10, <1>11, <1>12, <1>13

\* What Ganeti believes, what the filer serves, what the nodes see and what the hook has done
\* go together in every state, for any number of instances, disks, nodes and processes.
THEOREM ClusterInvariant == ClusterSpec => []ClusterInv
<1>1. ClusterInit => ClusterInv
  BY ClusterStart
<1>2. ClusterInv /\ [ClusterNext]_cvars => ClusterInv'
  BY ClusterStep
<1> QED
  BY <1>1, <1>2, PTL DEF ClusterSpec

\* Every variable of the cluster has its type.
THEOREM ClusterTypeCorrect == ClusterSpec => []ClusterTypeOK
<1>1. ClusterInv => ClusterTypeOK
  BY DEF ClusterInv
<1> QED
  BY <1>1, ClusterInvariant, PTL

\* No LUN of a name never used, or of one whose removal was acknowledged, is on the filer.
THEOREM NoLeakHolds == ClusterSpec => []NoLeak
<1>1. ClusterInv => NoLeak
  BY DEF ClusterInv
<1> QED
  BY <1>1, ClusterInvariant, PTL

\* An acknowledged volume is served as acknowledged, by one LUN, whatever failed since.
THEOREM AckedIsServedHolds == ClusterSpec => []AckedIsServed
<1>1. ClusterInv => AckedIsServed
  BY DEF ClusterInv
<1> QED
  BY <1>1, ClusterInvariant, PTL

\* On the primary node the file of a live disk is its own LUN's, at the size acknowledged.
THEOREM PrimaryCurrentHolds == ClusterSpec => []PrimaryCurrent
<1>1. ClusterInv => PrimaryCurrent
  <2> SUFFICES ASSUME ClusterInv, NEW i \in Instances, NEW n \in DiskSet(i), Live(n),
                      NEW d \in FilesOf(primary[i], n)
               PROVE  d.size >= disk[n].size /\ \E l \in LunsNamed(luns, n) : l.id = d.id
    BY DEF PrimaryCurrent
  <2>1. n \in Names
    BY DiskNames
  <2>2. d \in dev /\ d.node = primary[i] /\ d.name = n
    BY DEF FilesOf
  <2>3. d.size >= disk[n].size
    BY <2>2 DEF ClusterInv, Current
  <2>4. \E l \in luns : l.name = n /\ l.id = d.id
    BY <2>1, <2>2, LiveLun DEF ClusterInv
  <2> QED
    BY <2>3, <2>4 DEF LunsNamed
<1> QED
  BY <1>1, ClusterInvariant, PTL

\* The device attach answers with is that of the LUN that has the name asked for.
THEOREM AttachReturnsOwnHolds == ClusterSpec => []AttachReturnsOwn
<1>1. ClusterInv => AttachReturnsOwn
  <2> SUFFICES ASSUME ClusterInv, NEW p \in Procs, job[p].pc = "done", job[p].rc = 0,
                      job[p].req.op = "attach"
               PROVE  \E l \in LunsNamed(luns, job[p].req.name) : l.id = job[p].out
    BY DEF AttachReturnsOwn
  <2>1. Effect(p)
    BY DEF ClusterInv, Locked, Held
  <2> QED
    BY <2>1 DEF Effect, Succeeded, LunsNamed
<1> QED
  BY <1>1, ClusterInvariant, PTL

\* A node that becomes the primary has a device of every disk, of the size acknowledged.
THEOREM MovedIsVisibleHolds == ClusterSpec => MovedIsVisible
<1> DEFINE Visible == \A i \in Instances : primary'[i] # primary[i] =>
                        \A n \in DiskSet(i) : Live(n) =>
                          \E d \in dev' : d.node = primary'[i] /\ d.name = n /\ d.size >= disk[n].size
<1>1. ClusterInv /\ [ClusterNext]_cvars => [Visible]_cvars
  <2> SUFFICES ASSUME ClusterInv, [ClusterNext]_cvars, NEW i \in Instances,
                      primary'[i] # primary[i], NEW n \in DiskSet(i), Live(n)
               PROVE  \E d \in dev' : d.node = primary'[i] /\ d.name = n /\ d.size >= disk[n].size
    OBVIOUS
  <2>1. PICK p \in Procs : Answered(p)
    BY WorldMoves, AskFrame DEF ClusterInv
  <2>2. /\ holder[p] \in Instances /\ dev' = dev
        /\ primary' = IF Succeeded(p) /\ job[p].req.op = "pre_move"
                        THEN [primary EXCEPT ![holder[p]] = job[p].req.target] ELSE primary
    BY <2>1, AnswerFrame DEF ClusterInv
  <2>3. /\ Succeeded(p) /\ job[p].req.op = "pre_move" /\ holder[p] = i
        /\ primary'[i] = job[p].req.target
    BY <2>2, Types DEF ClusterInv
  <2>4. Effect(p)
    BY <2>2, ClusterAssumption DEF ClusterInv, Held
  <2> QED
    BY <2>2, <2>3, <2>4 DEF Effect
<1> QED
  BY <1>1, ClusterInvariant, PTL DEF ClusterSpec, MovedIsVisible

\* Where no instance is removed over failures, the cleanup takes no device from a LUN.
THEOREM FlushesOnlyDestroyedHolds == ~IgnoreFailures => (ClusterSpec => FlushesOnlyDestroyed)
<1> SUFFICES ASSUME ~IgnoreFailures PROVE ClusterSpec => FlushesOnlyDestroyed
  OBVIOUS
<1> DEFINE Destroyed == \A d \in dev : CleanDevices /\ d \notin dev' => \A l \in luns : l.id # d.id
<1>1. ClusterInv /\ [ClusterNext]_cvars => [Destroyed]_cvars
  <2> SUFFICES ASSUME ClusterInv, NEW d \in dev, CleanDevices, d \notin dev',
                      NEW l \in luns, l.id = d.id
               PROVE  FALSE
    OBVIOUS
  <2>1. hook.pc = "clean" /\ d.id = hook.scsi
    BY DEF CleanDevices, Flushed
  <2>2. PICK i \in Instances : inst[i] = "hook" /\ HookOf(i)
    BY <2>1 DEF ClusterInv, Hooked
  <2>3. Head(hook.disks) \in DiskSet(i)
    <3>1. hook.disks \in Seq(Uuids) /\ hook.disks # <<>>
      BY <2>1, <2>2, HookFields DEF ClusterInv, ClusterTypeOK, HookType, HookOf
    <3>2. Head(hook.disks) = hook.disks[1] /\ 1 \in DOMAIN hook.disks
      BY <3>1
    <3> QED
      BY <2>2, <3>2 DEF HookOf
  <2>4. l.name \in Names /\ l.id \in Nat /\ Head(hook.disks) \in Names
    BY <2>3, DiskNames, Types DEF ClusterInv, LunType
  <2>5. Labelled(l.name, l.id) /\ Labelled(Head(hook.disks), l.id)
    BY <2>1 DEF Labelled
  <2>6. l.name = Head(hook.disks)
    BY <2>4, <2>5 DEF ClusterInv, Identity
  <2> QED
    BY <2>2, <2>3, <2>6 DEF ClusterInv, Gone, NoLeak
<1> QED
  BY <1>1, ClusterInvariant, PTL DEF ClusterSpec, FlushesOnlyDestroyed

\* Where besides no command of the hook fails unseen on a node, and it has a cleanup command,
\* a hook that succeeds on the master leaves no device of a removed disk on any node.
THEOREM NoStaleDeviceHolds ==
  ~IgnoreFailures /\ ~QuietFailures /\ CleanupCmd => (ClusterSpec => NoStaleDevice)
<1> SUFFICES ASSUME ~IgnoreFailures, ~QuietFailures, CleanupCmd PROVE ClusterSpec => NoStaleDevice
  OBVIOUS
<1> DEFINE Clean == \A i \in Instances :
                      inst[i] = "hook" /\ inst'[i] = "removed" /\ hook.rc = 0 /\ hook.host = Master =>
                        \A d \in dev : d.name \notin DiskSet(i)
<1>1. ClusterInv /\ [ClusterNext]_cvars => [Clean]_cvars
  <2> SUFFICES ASSUME ClusterInv, [ClusterNext]_cvars, NEW i \in Instances, inst[i] = "hook",
                      inst'[i] = "removed", hook.rc = 0, hook.host = Master, NEW d \in dev,
                      d.name \in DiskSet(i)
               PROVE  FALSE
    OBVIOUS
  <2>1. inst' # inst /\ inst \in [Instances -> {"up", "hook", "removed"}]
    BY Types DEF ClusterInv
  <2>2. HookAnswered
    BY <2>1, HookMoves DEF ClusterInv, world, RemoveInstance
  <2>3. Dealt(d.name) /\ hook.pc = "done"
    BY <2>2 DEF ClusterInv, Cleaned, HookAnswered, HookFinish
  <2> QED
    BY <2>3 DEF Dealt, NoDevice
<1> QED
  BY <1>1, ClusterInvariant, PTL DEF ClusterSpec, NoStaleDevice
-----------------------------------------------------------------------------
(***************************************************************************)
(* What the scripts promise alone they promise under Ganeti, and what they *)
(* leave to the caller, Ganeti provides.                                   *)
(***************************************************************************)

\* A step of the cluster is one of the scripts and of udev, or it changes no LUN and no
\* call.
LEMMA ScriptSteps ==
  ASSUME ClusterTypeOK, [ClusterNext]_cvars
  PROVE  [Next]_vars \/ UNCHANGED <<luns, job>>
<1>1. ASSUME NEW p \in Procs, NEW i \in Instances, Asks(p, i) PROVE Next
  BY <1>1, AskFrame DEF Next
<1>2. ASSUME NEW p \in Procs, (Step(p) \/ Fail(p)) \/ Answered(p) PROVE Next
  BY <1>2 DEF Next, Answered
<1>3. ASSUME NEW d \in dev, Settle(d) PROVE Next
  BY <1>3 DEF Next
<1>4. CASE HookStep \/ HookFail \/ HookAnswered
  BY <1>4 DEF HookStep, HookCheck, CatFile, RemoveFile, CleanDevices, HookFail, HookAnswered,
              HookFinish, vars
<1>5. ASSUME NEW i \in Instances, RemoveInstance(i) PROVE UNCHANGED <<luns, job>>
  BY <1>5 DEF RemoveInstance, HookCall, vars
<1>6. CASE UNCHANGED cvars
  BY <1>6 DEF cvars, vars
<1> QED
  BY <1>1, <1>2, <1>3, <1>4, <1>5, <1>6 DEF ClusterNext, Asks

\* The scripts and the hook under Ganeti implement the volume service: the hook touches no
\* volume, and no removal, move or retry of Ganeti has an effect of its own.
THEOREM ClusterImplementsService == ClusterSpec => ImplementsService
<1>1. ClusterInit => Service!Init
  BY DEF ClusterInit, Init, Service!Init, CallOf, Idle, NoRequest, VolumeOps, Service!Idle
<1>2. ClusterTypeOK /\ [ClusterNext]_cvars => [Service!Next]_Service!vars
  <2> SUFFICES ASSUME ClusterTypeOK, [ClusterNext]_cvars PROVE [Service!Next]_Service!vars
    OBVIOUS
  <2>1. CASE [Next]_vars
    BY <2>1, EveryStep DEF ClusterTypeOK
  <2>2. CASE UNCHANGED <<luns, job>>
    BY <2>2 DEF Service!vars
  <2> QED
    BY <2>1, <2>2, ScriptSteps
<1> QED
  BY <1>1, <1>2, ClusterTypeCorrect, PTL DEF ClusterSpec, ImplementsService, Service!Spec

\* The assertion of _get_lun_by_name holds for a caller that uses a name once, across the
\* pools, although nothing in the scripts or on the filer sees to it.
THEOREM SingleMatchHolds == ClusterSpec => []SingleMatch
<1>1. ClusterInv => SingleMatch
  <2> SUFFICES ASSUME ClusterInv, NEW n \in Names PROVE Cardinality(LunsNamed(luns, n)) < 2
    BY DEF SingleMatch
  <2>1. CASE LunsNamed(luns, n) = {}
    BY <2>1, FS_EmptySet
  <2>2. ASSUME NEW l \in LunsNamed(luns, n) PROVE Cardinality(LunsNamed(luns, n)) < 2
    <3>1. LunsNamed(luns, n) = {l}
      BY <2>2 DEF ClusterInv, OneEach, LunsNamed
    <3>2. Cardinality({l}) = 1
      BY FS_Singleton
    <3> QED
      BY <3>1, <3>2
  <2> QED
    BY <2>1, <2>2
<1> QED
  BY <1>1, ClusterInvariant, PTL

\* A node has one device for a number.
OneDevice == \A d, e \in dev : d.node = e.node /\ d.id = e.id => d = e

\* The attach commands make no second device for a LUN.
LEMMA OneDeviceRescanned ==
  ASSUME ClusterInv, OneDevice, NEW node \in Nodes
  PROVE  \A d, e \in Rescanned(dev, luns, node) : d.node = e.node /\ d.id = e.id => d = e
<1> DEFINE seen(d) == {l \in luns : l.mapped /\ l.id = d.id}
           missing == {l \in luns : l.mapped /\ \A d \in dev : ~(d.node = node /\ d.id = l.id)}
           fresh(d) == IF d.node = node /\ seen(d) # {}
                         THEN [d EXCEPT !.size = (CHOOSE l \in seen(d) : TRUE).size] ELSE d
           shown(l) == DeviceOf(l, node)
<1>1. luns \subseteq LunType /\ dev \subseteq DevType
  BY Types DEF ClusterInv
<1>2. Rescanned(dev, luns, node) = {fresh(d) : d \in dev} \cup {shown(l) : l \in missing}
  BY DEF Rescanned
<1>3. \A d \in dev : fresh(d).node = d.node /\ fresh(d).id = d.id
  BY <1>1 DEF DevType
<1>4. \A l \in missing : shown(l).node = node /\ shown(l).id = l.id
  BY DEF DeviceOf
<1>5. \A l, m \in missing : l.id = m.id => l = m
  <2>1. \A l \in luns : l.name \in Names /\ l.id \in Nat /\ Labelled(l.name, l.id)
    BY <1>1 DEF LunType, Labelled
  <2> QED
    BY <2>1 DEF ClusterInv, Identity, OneEach
<1>6. \A l \in missing, d \in dev : ~(d.node = node /\ d.id = l.id)
  OBVIOUS
<1>7. \A d, e \in dev : d.node = e.node /\ d.id = e.id => d = e
  BY DEF OneDevice
<1> HIDE DEF fresh, missing, shown
<1> QED
  BY <1>2, <1>3, <1>4, <1>5, <1>6, <1>7

\* A link is made or lost, a device is not.
LEMMA OneDeviceLinked ==
  ASSUME dev \subseteq DevType, OneDevice, NEW d \in dev
  PROVE  \A f, g \in Linked(dev, d) : f.node = g.node /\ f.id = g.id => f = g
<1> DEFINE near    == {e \in dev : SamePath(d, e)}
           link(e) == [e EXCEPT !.linked = (e = d)]
<1>1. Linked(dev, d) = (dev \ near) \cup {link(e) : e \in near}
  BY DEF Linked
<1>2. \A e \in dev : link(e).node = e.node /\ link(e).id = e.id
  BY DEF DevType
<1>3. \A e, f \in dev : e.node = f.node /\ e.id = f.id => e = f
  BY DEF OneDevice
<1>4. near \subseteq dev
  OBVIOUS
<1> HIDE DEF near, link
<1> QED
  BY <1>1, <1>2, <1>3, <1>4

LEMMA OneDeviceKept == ASSUME ClusterInv, OneDevice, [ClusterNext]_cvars PROVE OneDevice'
<1>1. ClusterTypeOK /\ dev \subseteq DevType
  BY Types DEF ClusterInv
<1>2. CASE dev' = dev
  BY <1>2 DEF OneDevice
<1>3. ASSUME NEW p \in Procs, Rescan(p), Held(p) PROVE OneDevice'
  <2>1. job[p].req.node \in Nodes
    BY <1>3, AskedNames, RequestFields DEF ClusterInv
  <2> QED
    BY <1>3, <2>1, OneDeviceRescanned DEF Rescan, OneDevice
<1>4. ASSUME NEW d \in dev, Settle(d) PROVE OneDevice'
  BY <1>1, <1>4, OneDeviceLinked DEF Settle, OneDevice
<1>5. CASE CleanDevices
  BY <1>5 DEF CleanDevices, Flushed, OneDevice
<1> QED
  BY <1>2, <1>3, <1>4, <1>5, DevMoves DEF ClusterInv

\* A search that finds nothing finds no file: a node has no two files of one name.
LEMMA NoneIsNone ==
  ASSUME ClusterInv, OneDevice, NEW node, NEW name, SearchIsNone(node, name)
  PROVE  FilesOf(node, name) = {}
<1> SUFFICES ASSUME NEW d \in FilesOf(node, name) PROVE FALSE
  OBVIOUS
<1>1. FilesOf(node, name) = {d}
  <2> SUFFICES ASSUME NEW e \in FilesOf(node, name) PROVE e = d
    OBVIOUS
  <2>1. d \in dev /\ e \in dev /\ d.node = e.node /\ d.name = name /\ e.name = name
    BY DEF FilesOf
  <2>2. d.name \in Names /\ d.id \in Nat /\ e.id \in Nat
    BY <2>1, Types DEF ClusterInv, DevType
  <2>3. Labelled(d.name, d.id) /\ Labelled(d.name, e.id)
    BY <2>1 DEF Labelled
  <2>4. d.id = e.id
    BY <2>2, <2>3 DEF ClusterInv, Identity
  <2> QED
    BY <2>1, <2>4 DEF OneDevice
<1>2. Cardinality(FilesOf(node, name)) = 1
  BY <1>1, FS_Singleton
<1> QED
  BY <1>2 DEF SearchIsNone

-----------------------------------------------------------------------------
(***************************************************************************)
(* What remove hands over to the hook.                                     *)
(***************************************************************************)

\* Node has a file of the volume n in LUN_DEVICE_PATH_FORMAT.
Visible(node, n) == \E d \in dev : d.node = node /\ d.name = n /\ d.linked

\* A disk has one cleanup file on a node.
OneFile == \A f, g \in saved : f.node = g.node /\ f.uuid = g.uuid => f = g

\* As long as the instance is there, a disk has a cleanup file only where its device is.
FilesVisible ==
  \A i \in Instances : inst[i] = "up" =>
    \A f \in saved : f.uuid \in NamesOf(i) => Visible(f.node, f.uuid)

\* remove is past the search with a number and a device, or with neither number nor file.
Searched(p) ==
  LET j == job[p] IN
    j.req.op = "remove" =>
      /\ j.pc \in {"open", "write"} => j.out # 0 /\ Visible(j.req.node, j.req.name)
      /\ j.out = 0 /\ j.pc \in {"lookup", "destroy", "done"} /\ ~(j.pc = "done" /\ j.rc # 0)
           => FileOf(p) = {}

\* The hook is about to remove the file that it has read.
HookHasRead == hook.pc = "rm" => \E f \in HookFile : f.scsi = hook.scsi

HandOver ==
  /\ OneDevice /\ OneFile /\ FilesVisible /\ HookHasRead
  /\ \A p \in Procs : Held(p) => Searched(p)

\* An instance that is there was there before the step.
LEMMA UpBefore ==
  ASSUME ClusterInv, [ClusterNext]_cvars, NEW i \in Instances, inst'[i] = "up"
  PROVE  inst[i] = "up"
<1>1. ClusterTypeOK /\ inst \in [Instances -> {"up", "hook", "removed"}]
  BY Types DEF ClusterInv
<1>2. ASSUME NEW j \in Instances, RemoveInstance(j) PROVE inst[i] = "up"
  BY <1>1, <1>2 DEF RemoveInstance
<1>3. CASE HookAnswered
  BY <1>1, <1>3 DEF HookAnswered
<1> QED
  BY <1>1, <1>2, <1>3, HookMoves DEF world

\* The disk the hook is at is one of the instance that is being removed.
LEMMA HookDisk ==
  ASSUME ClusterInv, hook.pc \in {"cat", "rm", "clean"}
  PROVE  \E i \in Instances : /\ inst[i] = "hook" /\ Head(hook.disks) \in DiskSet(i)
                              /\ Head(hook.disks) \in NamesOf(i)
<1>1. PICK i \in Instances : inst[i] = "hook" /\ HookOf(i)
  BY DEF ClusterInv, Hooked
<1>2. hook.disks \in Seq(Uuids) /\ hook.disks # <<>>
  BY <1>1, HookFields DEF ClusterInv, ClusterTypeOK, HookType, HookOf
<1>3. Head(hook.disks) = hook.disks[1] /\ 1 \in DOMAIN hook.disks
  BY <1>2
<1>4. Head(hook.disks) \in DiskSet(i)
  BY <1>1, <1>3 DEF HookOf
<1> QED
  BY <1>1, <1>4, DiskNames

\* A volume of an instance that is there does not disappear from a node.
LEMMA VisibleKept ==
  ASSUME ClusterInv, [ClusterNext]_cvars, NEW i \in Instances, inst[i] = "up",
         NEW n \in NamesOf(i), NEW node, Visible(node, n)
  PROVE  Visible(node, n)'
<1>1. PICK d \in dev : d.node = node /\ d.name = n /\ d.linked
  BY DEF Visible
<1>2. luns \subseteq LunType /\ dev \subseteq DevType /\ n \in Names
  BY Types, DiskNames DEF ClusterInv
<1>3. CASE d \in dev'
  BY <1>1, <1>3 DEF Visible
<1>4. ASSUME NEW p \in Procs, Rescan(p) PROVE Visible(node, n)'
  <2> DEFINE at == job[p].req.node
             seen == {l \in luns : l.mapped /\ l.id = d.id}
             e == IF d.node = at /\ seen # {}
                    THEN [d EXCEPT !.size = (CHOOSE l \in seen : TRUE).size] ELSE d
  <2>1. e \in Rescanned(dev, luns, at)
    BY DEF Rescanned
  <2>2. e.node = d.node /\ e.name = d.name /\ e.linked = d.linked
    BY <1>2 DEF DevType
  <2>3. dev' = Rescanned(dev, luns, at)
    BY <1>4 DEF Rescan
  <2> HIDE DEF e
  <2> QED
    BY <1>1, <2>1, <2>2, <2>3 DEF Visible
<1>5. ASSUME NEW s \in dev, Settle(s) PROVE Visible(node, n)'
  <2>1. dev' = Linked(dev, s)
    BY <1>5 DEF Settle
  <2>2. CASE SamePath(s, d)
    <3> DEFINE e == [s EXCEPT !.linked = (s = s)]
    <3>1. e \in Linked(dev, s)
      BY DEF Linked, SamePath
    <3>2. e.node = d.node /\ e.name = d.name /\ e.linked
      BY <1>2, <2>2 DEF DevType, SamePath
    <3> HIDE DEF e
    <3> QED
      BY <1>1, <2>1, <3>1, <3>2 DEF Visible
  <2>3. CASE ~SamePath(s, d)
    BY <1>3, <2>1, <2>3 DEF Linked
  <2> QED
    BY <2>2, <2>3
<1>6. CASE CleanDevices
  <2>1. d.id # hook.scsi
    <3> SUFFICES ASSUME d.id = hook.scsi PROVE FALSE
      OBVIOUS
    <3>1. hook.pc = "clean"
      BY <1>6 DEF CleanDevices
    <3>2. PICK j \in Instances : inst[j] = "hook" /\ Head(hook.disks) \in NamesOf(j)
      BY <3>1, HookDisk
    <3>3. Head(hook.disks) \in Names /\ d.id \in Nat
      BY <1>2, <3>2, DiskNames DEF DevType
    <3>4. Labelled(n, d.id) /\ Labelled(Head(hook.disks), d.id)
      BY <1>1, <3>1 DEF Labelled
    <3>5. n = Head(hook.disks)
      BY <1>2, <3>3, <3>4 DEF ClusterInv, Identity
    <3> QED
      BY <3>2, <3>5, NamesApart
  <2> QED
    BY <1>3, <1>6, <2>1 DEF CleanDevices, Flushed
<1> QED
  BY <1>3, <1>4, <1>5, <1>6, DevMoves DEF ClusterInv

\* A cleanup file was there, or it is made by a remove that has found the device.
LEMMA FilesFrom ==
  ASSUME ClusterInv, [ClusterNext]_cvars, NEW f \in saved', f \notin saved
  PROVE  \E p \in Procs :
           /\ Held(p) /\ Asked(p) /\ (OpenFile(p) \/ WriteFile(p))
           /\ job[p].req.op = "remove" /\ job[p].pc \in {"open", "write"}
           /\ f.node = job[p].req.node /\ f.uuid = job[p].req.name
<1>1. CASE RemoveFile
  BY <1>1 DEF RemoveFile
<1>2. ASSUME NEW p \in Procs, OpenFile(p) \/ WriteFile(p), Held(p)
      PROVE  /\ Asked(p) /\ job[p].req.op = "remove" /\ job[p].pc \in {"open", "write"}
             /\ f.node = job[p].req.node /\ f.uuid = job[p].req.name
  <2>1. Asked(p) /\ job[p].req.op = "remove" /\ job[p].pc \in {"open", "write"}
    BY <1>2 DEF ClusterInv, OpenFile, WriteFile, At
  <2>2. f.node = job[p].req.node /\ f.uuid = job[p].req.uuid
    BY <1>2 DEF OpenFile, WriteFile, Rewritten
  <2> QED
    BY <2>1, <2>2 DEF Asked
<1> QED
  BY <1>1, <1>2, SavedMoves DEF ClusterInv

LEMMA OneFileKept == ASSUME ClusterInv, OneFile, [ClusterNext]_cvars PROVE OneFile'
<1>1. ASSUME NEW p \in Procs, OpenFile(p) \/ WriteFile(p) PROVE OneFile'
  <2>1. PICK scsi : saved' = Rewritten(p, scsi)
    BY <1>1 DEF OpenFile, WriteFile
  <2> QED
    BY <2>1 DEF Rewritten, FileOf, OneFile
<1>2. CASE RemoveFile
  BY <1>2 DEF RemoveFile, OneFile
<1>3. CASE saved' = saved
  BY <1>3 DEF OneFile
<1> QED
  BY <1>1, <1>2, <1>3, SavedMoves DEF ClusterInv

LEMMA FilesVisibleKept == ASSUME ClusterInv, HandOver, [ClusterNext]_cvars PROVE FilesVisible'
<1> SUFFICES ASSUME NEW i \in Instances, inst'[i] = "up", NEW f \in saved', f.uuid \in NamesOf(i)
             PROVE  Visible(f.node, f.uuid)'
  BY DEF FilesVisible, NamesOf, DiskSet
<1>1. inst[i] = "up"
  BY UpBefore
<1>2. Visible(f.node, f.uuid)
  <2>1. CASE f \in saved
    BY <1>1, <2>1 DEF HandOver, FilesVisible
  <2>2. CASE f \notin saved
    BY <2>2, FilesFrom DEF HandOver, Searched
  <2> QED
    BY <2>1, <2>2
<1> QED
  BY <1>1, <1>2, VisibleKept

LEMMA HookHasReadKept == ASSUME ClusterInv, HandOver, [ClusterNext]_cvars PROVE HookHasRead'
<1> SUFFICES ASSUME hook'.pc = "rm" PROVE \E f \in HookFile' : f.scsi = hook'.scsi
  BY DEF HookHasRead
<1>a. HookTypeOK /\ ClusterTypeOK /\ hook \in HookType
  BY HookFields DEF ClusterInv, ClusterTypeOK
<1>b. \A rc : ~HookReturn(rc)
  BY <1>a DEF HookReturn, HookType
<1>c. \A disks : ~ForDisks(disks)
  BY <1>a, <1>b DEF ForDisks, HookType
<1>1. CASE hook' = hook
  <2>1. PICK f \in saved : f.node = hook.node /\ f.uuid = Head(hook.disks) /\ f.scsi = hook.scsi
    BY <1>1 DEF HandOver, HookHasRead, HookFile
  <2>2. PICK i \in Instances : inst[i] = "hook" /\ Head(hook.disks) \in NamesOf(i)
    BY <1>1, HookDisk
  <2>3. ASSUME NEW p \in Procs, OpenFile(p) \/ WriteFile(p), Held(p) PROVE f \in saved'
    <3>1. job[p].req.op = "remove" /\ Asked(p) /\ holder[p] \in Instances /\ inst[holder[p]] = "up"
      BY <2>3, AskedNames DEF ClusterInv, Locked, Held, OpenFile, WriteFile, At
    <3>2. job[p].req.uuid \in NamesOf(holder[p])
      BY <3>1 DEF Asked
    <3>3. f.uuid # job[p].req.uuid
      BY <2>1, <2>2, <3>1, <3>2, NamesApart
    <3> QED
      BY <2>3, <3>3 DEF OpenFile, WriteFile, Rewritten, FileOf
  <2>4. ~RemoveFile
    BY <1>1, <1>a, <1>c DEF RemoveFile, HookType
  <2>5. f \in saved'
    BY <2>3, <2>4, SavedMoves DEF ClusterInv
  <2> QED
    BY <1>1, <2>1, <2>5 DEF HookFile
<1>2. CASE CatFile
  <2>1. PICK f \in HookFile : hook' = [hook EXCEPT !.pc = "rm", !.scsi = f.scsi]
    BY <1>2, <1>b DEF CatFile
  <2>2. hook'.scsi = f.scsi /\ hook'.node = hook.node /\ hook'.disks = hook.disks
    BY <1>a, <2>1 DEF HookType
  <2>3. saved' = saved
    BY <1>2 DEF CatFile, vars
  <2> QED
    BY <2>2, <2>3 DEF HookFile
<1>3. ASSUME HookCheck \/ RemoveFile \/ CleanDevices \/ HookFail \/ HookAnswered PROVE FALSE
  BY <1>3, <1>a, <1>b, <1>c
     DEF HookCheck, RemoveFile, CleanDevices, HookFail, HookAnswered, HookFinish, NoHook, HookType
<1>4. ASSUME NEW i \in Instances, RemoveInstance(i) PROVE FALSE
  BY <1>a, <1>4, HookStart
<1> QED
  BY <1>1, <1>2, <1>3, <1>4, <1>a, HookMoves DEF HookStep

\* What a remove knows of the cleanup file and the device of its volume stays true.
LEMMA SearchedKept ==
  ASSUME ClusterInv, HandOver, [ClusterNext]_cvars
  PROVE  \A q \in Procs : (Held(q) => Searched(q))'
<1> SUFFICES ASSUME NEW q \in Procs, Held(q)', job'[q].req.op = "remove" PROVE Searched(q)'
  BY DEF Searched
<1> DEFINE Due(j) == j.out = 0 /\ j.pc \in {"lookup", "destroy", "done"} /\ ~(j.pc = "done" /\ j.rc # 0)
           Wrote(j) == j.pc \in {"open", "write"}
           Shown == Visible(job[q].req.node, job[q].req.name)
           NoFile == FileOf(q) = {}
<1>a. ClusterTypeOK /\ TypeOK /\ job \in [Procs -> JobType] /\ job[q] \in JobType
  BY Types DEF ClusterInv, ClusterTypeOK
<1>b. ASSUME job'[q].req = job[q].req, Wrote(job'[q]) => job'[q].out # 0 /\ Shown',
             Due(job'[q]) => NoFile'
      PROVE  Searched(q)'
  BY <1>b DEF Searched, Visible
<1>c. ASSUME Held(q), job[q].req.op = "remove", job'[q].req = job[q].req
      PROVE  /\ Wrote(job[q]) => job[q].out # 0 /\ Shown
             /\ Due(job[q]) => NoFile
             /\ Shown => Shown'
             /\ NoFile /\ saved' = saved => NoFile'
  <2>1. /\ Wrote(job[q]) => job[q].out # 0 /\ Shown
        /\ Due(job[q]) => NoFile
    BY <1>c DEF HandOver, Searched
  <2>2. holder[q] \in Instances /\ inst[holder[q]] = "up" /\ job[q].req.name \in NamesOf(holder[q])
    BY <1>c, AskedNames DEF ClusterInv, Locked, Held
  <2>3. ASSUME Shown PROVE Shown'
    BY <1>c, <2>2, <2>3, VisibleKept DEF Visible
  <2>4. NoFile /\ saved' = saved => NoFile'
    BY <1>c DEF FileOf
  <2> QED
    BY <2>1, <2>3, <2>4
<1>d. ASSUME NEW pc, Goto(q, pc)
      PROVE  job'[q].pc = pc /\ job'[q].out = job[q].out /\ job'[q].req = job[q].req
  BY <1>a, <1>d, Fields
<1>e. ASSUME Return(q, 2) PROVE Searched(q)'
  <2>1. job'[q].pc = "done" /\ job'[q].rc = 2 /\ job'[q].req = job[q].req
    BY <1>a, <1>e, Fields
  <2> QED
    BY <1>b, <2>1
<1>1. CASE job'[q] = job[q] /\ holder'[q] = holder[q]
  <2>1. Held(q) /\ job[q].req.op = "remove" /\ job'[q].req = job[q].req
    BY <1>1 DEF Held
  <2>2. ASSUME Due(job[q]), NoFile PROVE NoFile'
    <3> SUFFICES ASSUME NEW f \in saved', f.node = job[q].req.node, f.uuid = job[q].req.uuid
                 PROVE  FALSE
      BY <1>1 DEF FileOf
    <3>1. f \notin saved
      BY <2>2 DEF FileOf
    <3>2. PICK p \in Procs : /\ Held(p) /\ Asked(p)
                             /\ job[p].req.op = "remove" /\ job[p].pc \in {"open", "write"}
                             /\ f.uuid = job[p].req.name
      BY <3>1, FilesFrom
    <3>3. p # q
      BY <2>2, <3>2
    <3>4. holder[p] # holder[q]
      BY <3>2, <3>3 DEF ClusterInv, Locked, Held
    <3>5. /\ holder[p] \in Instances /\ f.uuid \in NamesOf(holder[p])
          /\ holder[q] \in Instances /\ f.uuid \in NamesOf(holder[q])
      <4>1. Asked(q) /\ job[q].req.op = "remove" /\ f.uuid = job[q].req.name
        BY <2>1 DEF ClusterInv, Asked
      <4> QED
        BY <1>a, <2>1, <3>2, <4>1, AskedNames
    <3> QED
      BY <3>4, <3>5, NamesApart
  <2>3. job'[q] = job[q]
    BY <1>1
  <2> HIDE DEF Due, Wrote, Shown, NoFile
  <2> QED
    BY <1>b, <1>c, <2>1, <2>2, <2>3
<1>2. ASSUME NEW i \in Instances, Asks(q, i) PROVE Searched(q)'
  <2>1. job'[q].pc = "search"
    BY <1>2, <1>a, AskFrame, CallFrame DEF FirstStep
  <2> QED
    BY <2>1 DEF Searched
<1>3. CASE (Step(q) \/ Fail(q)) /\ UNCHANGED <<hook, world>> /\ Held(q)
  <2>a. job[q].req.op = "remove" /\ job'[q].req = job[q].req /\ Recorded(q) /\ Asked(q)
    BY <1>3, <1>a, StepFrame DEF ClusterInv
  <2>1. CASE SearchToSave(q)
    <3> DEFINE node == job[q].req.node
               name == job[q].req.name
    <3>1. dev' = dev /\ saved' = saved /\ job[q].pc = "search"
      BY <2>1 DEF SearchToSave, At
    <3>2. ASSUME NEW d \in dev, SearchFinds(node, name, d),
                 job' = [job EXCEPT ![q].pc = "open", ![q].out = ScsiId(d)]
          PROVE  Searched(q)'
      <4>1. job'[q].pc = "open" /\ job'[q].out = d.id
        BY <1>a, <3>2 DEF JobType, ScsiId
      <4>2. d.node = node /\ d.name = name /\ d.linked
        BY <3>2 DEF SearchFinds, FilesOf
      <4>3. d.name \in Names /\ d.id \in Nat /\ Labelled(d.name, d.id)
        BY <1>a, Types DEF DevType, Labelled
      <4>4. d.id # 0
        BY <4>3 DEF ClusterInv, Identity
      <4>5. Shown'
        BY <2>a, <3>1, <4>2 DEF Visible
      <4> QED
        BY <1>b, <2>a, <4>1, <4>4, <4>5
    <3>3. ASSUME SearchIsNone(node, name), Goto(q, "lookup") PROVE Searched(q)'
      <4>1. FilesOf(node, name) = {}
        BY <3>3, NoneIsNone DEF HandOver
      <4>2. ~Visible(node, name)
        BY <4>1 DEF Visible, FilesOf
      <4>3. /\ holder[q] \in Instances /\ inst[holder[q]] = "up" /\ name \in NamesOf(holder[q])
            /\ job[q].req.uuid = name
        BY <1>3, <1>a, <2>a, AskedNames DEF ClusterInv, Locked, Held, Asked
      <4>4. FileOf(q) = {}
        BY <4>2, <4>3 DEF FileOf, HandOver, FilesVisible
      <4>5. NoFile'
        BY <2>a, <3>1, <4>4 DEF FileOf
      <4> QED
        BY <1>b, <1>d, <2>a, <3>3, <4>5
    <3> QED
      BY <1>e, <2>1, <3>2, <3>3 DEF SearchToSave
  <2>2. CASE OpenFile(q)
    <3>1. job[q].pc = "open" /\ Goto(q, "write")
      BY <2>2 DEF OpenFile, At
    <3>2. job'[q].pc = "write" /\ job'[q].out = job[q].out
      BY <1>d, <3>1
    <3>3. job[q].out # 0 /\ Shown'
      BY <1>3, <1>c, <2>a, <3>1
    <3> QED
      BY <1>b, <2>a, <3>2, <3>3
  <2>3. CASE WriteFile(q)
    <3>1. job[q].pc = "write" /\ Goto(q, "lookup")
      BY <2>3 DEF WriteFile, At
    <3>2. job'[q].pc = "lookup" /\ job'[q].out = job[q].out
      BY <1>d, <3>1
    <3>3. job[q].out # 0
      BY <1>3, <1>c, <2>a, <3>1
    <3> QED
      BY <1>b, <2>a, <3>2, <3>3
  <2>4. CASE Lookup(q)
    <3>1. ASSUME NEW l \in luns, job[q].pc = "lookup",
                 job' = [job EXCEPT ![q].pc = AfterLookup(job[q].req.op), ![q].at = l.pool]
          PROVE  job'[q].pc = "destroy" /\ job'[q].out = job[q].out
      BY <2>a, <3>1, <1>a DEF JobType, AfterLookup
    <3>2. CASE job'[q].pc = "destroy" /\ job'[q].out = job[q].out
      <4>1. saved' = saved /\ job[q].pc = "lookup"
        BY <2>4 DEF Lookup
      <4>2. job[q].out = 0 => NoFile'
        BY <1>3, <1>c, <2>a, <4>1
      <4> QED
        BY <1>b, <2>a, <3>2, <4>2
    <3> QED
      BY <2>4, <2>a, <1>e, <3>1, <3>2 DEF Lookup, LunsNamed
  <2>5. CASE DestroyLun(q)
    <3>1. CASE Return(q, 0)
      <4>1. job'[q].pc = "done" /\ job'[q].out = job[q].out
        BY <1>a, <3>1, Fields
      <4>2. saved' = saved /\ job[q].pc = "destroy"
        BY <2>5 DEF DestroyLun, At
      <4>3. job[q].out = 0 => NoFile'
        BY <1>3, <1>c, <2>a, <4>2
      <4> QED
        BY <1>b, <2>a, <4>1, <4>3
    <3> QED
      BY <2>5, <1>e, <3>1 DEF DestroyLun, Finally
  <2>6. CASE Fail(q)
    BY <2>6, <1>e DEF Fail
  <2>7. ASSUME CreateLun(q) \/ MapLun(q) \/ DoDirectResize(q) \/ SetLunComment(q) \/ CloneLun(q)
               \/ SearchToAttach(q) \/ Poll(q) \/ Detach(q) \/ PreMove(q)
        PROVE  FALSE
    BY <2>7, <2>a DEF CreateLun, MapLun, DoDirectResize, SetLunComment, CloneLun, SearchToAttach,
                      Poll, Detach, PreMove, At
  <2>8. ASSUME Rescan(q) PROVE FALSE
    BY <2>8, <2>a, <1>a, RequestFields DEF Rescan, TypeOK, InStep, StepsOf
  <2> QED
    BY <1>3, <2>1, <2>2, <2>3, <2>4, <2>5, <2>6, <2>7, <2>8 DEF Step
<1>4. CASE Answered(q)
  BY <1>4, <1>a, AnswerFrame, Types DEF Held, ClusterInv
<1> QED
  BY <1>1, <1>2, <1>3, <1>4, <1>a, JobsMove DEF ClusterInv

\* What is handed over stays, in every behaviour of the cluster.
LEMMA HandOverHolds == ClusterSpec => []HandOver
<1>1. ClusterInit => HandOver
  <2> SUFFICES ASSUME ClusterInit PROVE HandOver
    OBVIOUS
  <2>1. dev = {} /\ saved = {} /\ hook = NoHook /\ \A p \in Procs : ~Held(p)
    BY DEF ClusterInit, Init, HookInit, Held
  <2> QED
    BY <2>1 DEF HandOver, OneDevice, OneFile, FilesVisible, HookHasRead, NoHook
<1>2. ClusterInv /\ HandOver /\ [ClusterNext]_cvars => HandOver'
  <2> SUFFICES ASSUME ClusterInv, HandOver, [ClusterNext]_cvars PROVE HandOver'
    OBVIOUS
  <2>1. OneDevice' /\ OneFile'
    BY OneDeviceKept, OneFileKept DEF HandOver
  <2>2. FilesVisible' /\ HookHasRead'
    BY FilesVisibleKept, HookHasReadKept
  <2>3. \A p \in Procs : (Held(p) => Searched(p))'
    BY SearchedKept
  <2> QED
    BY <2>1, <2>2, <2>3 DEF HandOver
<1> QED
  BY <1>1, <1>2, ClusterInvariant, PTL DEF ClusterSpec

\* An acknowledged removal leaves the number of a LUN that is gone in a file where the
\* device was found, and no file where it was not; from then on the file is there until
\* the hook of the instance, which has read it, removes it.
THEOREM RemovedIsRecordedHolds == ClusterSpec => RemovedIsRecorded
<1> DEFINE Left == \A p \in Procs :
                     Answered(p) /\ job[p].rc = 0 /\ job[p].req.op = "remove" =>
                       /\ FileOf(p) = {} <=> job[p].out = 0
                       /\ \A f \in FileOf(p) : f.scsi = job[p].out /\ \A l \in luns : l.id # f.scsi
           Taken == \A f \in saved \ saved' : disk[f.uuid].st = "removed" =>
                      /\ hook.node = f.node /\ hook.scsi = f.scsi
                      /\ \E i \in Instances : inst[i] = "hook" /\ f.uuid \in DiskSet(i)
<1>1. ClusterInv /\ HandOver => Left
  <2> SUFFICES ASSUME ClusterInv, HandOver, NEW p \in Procs, Answered(p), job[p].rc = 0,
                      job[p].req.op = "remove"
               PROVE  /\ FileOf(p) = {} <=> job[p].out = 0
                      /\ \A f \in FileOf(p) :
                           f.scsi = job[p].out /\ \A l \in luns : l.id # f.scsi
    OBVIOUS
  <2> DEFINE record == [node |-> job[p].req.node, uuid |-> job[p].req.uuid, scsi |-> job[p].out]
  <2>1. job[p].pc = "done" /\ Held(p) /\ Asked(p) /\ Effect(p) /\ Recorded(p) /\ Searched(p)
    BY DEF Answered, Finish, ClusterInv, HandOver, Locked, Held
  <2>2. job[p].out = 0 => FileOf(p) = {}
    BY <2>1 DEF Searched
  <2>3. job[p].out # 0 => record \in FileOf(p)
    BY <2>1 DEF Recorded, FileOf
  <2>4. ASSUME NEW f \in FileOf(p) PROVE f.scsi = job[p].out /\ \A l \in luns : l.id # f.scsi
    <3>1. job[p].out # 0 /\ record \in FileOf(p)
      BY <2>2, <2>3
    <3>2. f = record
      BY <3>1 DEF FileOf, HandOver, OneFile
    <3>3. f.scsi = job[p].out
      BY <3>2
    <3>4. ASSUME NEW l \in luns, l.id = job[p].out PROVE FALSE
      <4>1. l.name \in Names /\ l.id \in Nat /\ job[p].req.name \in Names
        BY <2>1, AskedNames, Types DEF ClusterInv, LunType
      <4>2. Labelled(l.name, l.id) /\ Labelled(job[p].req.name, l.id)
        BY <3>1, <3>4 DEF Labelled
      <4>3. l.name = job[p].req.name
        BY <4>1, <4>2 DEF ClusterInv, Identity
      <4> QED
        BY <2>1, <4>3 DEF Effect, Succeeded
    <3> QED
      BY <3>3, <3>4
  <2> QED
    BY <2>2, <2>3, <2>4
<1>2. ClusterInv /\ HandOver /\ [ClusterNext]_cvars => Taken
  <2> SUFFICES ASSUME ClusterInv, HandOver, [ClusterNext]_cvars, NEW f \in saved \ saved',
                      disk[f.uuid].st = "removed"
               PROVE  /\ hook.node = f.node /\ hook.scsi = f.scsi
                      /\ \E i \in Instances : inst[i] = "hook" /\ f.uuid \in DiskSet(i)
    OBVIOUS
  <2>1. ASSUME NEW p \in Procs, OpenFile(p) \/ WriteFile(p), Held(p) PROVE FALSE
    <3>1. f \in FileOf(p) /\ job[p].req.op = "remove"
      BY <2>1 DEF OpenFile, WriteFile, Rewritten, At
    <3>2. f.uuid = job[p].req.name /\ disk[job[p].req.name].st = "removing"
      BY <2>1, <3>1 DEF ClusterInv, Asked, FileOf
    <3> QED
      BY <3>2
  <2>2. RemoveFile
    BY <2>1, SavedMoves DEF ClusterInv
  <2>3. f \in HookFile /\ hook.pc = "rm"
    BY <2>2 DEF RemoveFile
  <2>4. PICK g \in HookFile : g.scsi = hook.scsi
    BY <2>3 DEF HandOver, HookHasRead
  <2>5. f = g /\ f.node = hook.node /\ f.uuid = Head(hook.disks)
    BY <2>3, <2>4 DEF HandOver, OneFile, HookFile
  <2> QED
    BY <2>3, <2>4, <2>5, HookDisk
<1>3. ClusterInv /\ HandOver /\ [ClusterNext]_cvars => [Left /\ Taken]_cvars
  BY <1>1, <1>2
<1> QED
  BY <1>3, HandOverHolds, ClusterInvariant, PTL DEF ClusterSpec, RemovedIsRecorded

\* Under a caller that uses a name once, attach says that there is no device only where
\* there is no file of the volume: the two files of one name, which are taken for none,
\* do not occur.
THEOREM NotFoundMeansNoneHolds == ClusterSpec => NotFoundMeansNone
<1> DEFINE Extra == Searching /\ OneDevice
           None == \A p \in Procs :
                     Poll(p) /\ job'[p].rc = 1 => FilesOf(job[p].req.node, job[p].req.name) = {}
<1>1. ClusterInit => Extra
  BY DEF ClusterInit, Init, Searching, OneDevice, Idle
<1>2. ClusterInv /\ Extra /\ [ClusterNext]_cvars => Extra'
  <2> SUFFICES ASSUME ClusterInv, Extra, [ClusterNext]_cvars PROVE Searching' /\ OneDevice'
    OBVIOUS
  <2>1. Searching'
    <3>1. CASE [Next]_vars
      BY <3>1, SearchingKept DEF ClusterInv, ClusterTypeOK
    <3>2. CASE UNCHANGED <<luns, job>>
      BY <3>2 DEF Searching
    <3> QED
      BY <3>1, <3>2, ScriptSteps DEF ClusterInv
  <2> QED
    BY <2>1, OneDeviceKept
<1>3. ClusterInv /\ Extra /\ [ClusterNext]_cvars => [None]_vars
  <2> SUFFICES ASSUME ClusterInv, Extra, NEW p \in Procs, Poll(p), job'[p].rc = 1,
                      NEW d \in FilesOf(job[p].req.node, job[p].req.name)
               PROVE  FALSE
    OBVIOUS
  <2> DEFINE files == FilesOf(job[p].req.node, job[p].req.name)
  <2>1. job \in [Procs -> JobType] /\ job[p] \in JobType /\ dev \subseteq DevType
    BY Types DEF ClusterInv
  <2>2. ASSUME NEW e \in dev PROVE ~Answer(p, e.id)
    <3> DEFINE j == [job[p] EXCEPT !.pc = "done", !.rc = 0, !.out = e.id]
    <3>1. j.rc = 0
      BY <2>1 DEF JobType
    <3>2. Answer(p, e.id) => job' = [job EXCEPT ![p] = j]
      BY DEF Answer
    <3> HIDE DEF j
    <3> QED
      BY <2>1, <3>1, <3>2
  <2>3. job[p].rc = 0
    BY DEF Poll, At, Searching
  <2>4. job' # [job EXCEPT ![p].tries = @ + 1]
    BY <2>1, <2>3 DEF JobType
  <2>5. ~Return(p, 2)
    BY <2>1 DEF Return, JobType
  <2>6. SearchIsNone(job[p].req.node, job[p].req.name)
    BY <2>2, <2>4, <2>5 DEF Poll
  <2>7. files = {}
    BY <2>6, NoneIsNone
  <2> QED
    BY <2>7
<1>4. ClusterSpec => []Extra
  BY <1>1, <1>2, ClusterInvariant, PTL DEF ClusterSpec
<1> QED
  BY <1>3, <1>4, ClusterInvariant, PTL DEF ClusterSpec, NotFoundMeansNone
==============================================================================
