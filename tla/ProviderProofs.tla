--------------------------- MODULE ProviderProofs ---------------------------
(* Theorems about Provider, for every value of its constants. *)
EXTENDS Provider, TLAPS

\* What a request holds, by its operation.
LEMMA RequestFields ==
  ASSUME NEW r \in Requests
  PROVE  /\ r.node \in Nodes
         /\ r.op \in {"create", "remove", "grow", "setinfo", "snapshot",
                      "attach", "detach", "pre_move"}
         /\ r.op # "pre_move" => r.name \in Names
         /\ r.op = "create"   => r.pool \in Pools /\ r.size \in Sizes
         /\ r.op = "remove"   => r.uuid \in Uuids
         /\ r.op = "grow"     => r.size \in Sizes
         /\ r.op = "setinfo"  => r.note \in Notes
         /\ r.op = "snapshot" => r.into \in Names
BY RequestsAssumption DEF AllRequests

\* A rescan leaves a table of devices.
LEMMA RescannedType ==
  ASSUME NEW node \in Nodes, luns \subseteq LunType, dev \subseteq DevType
  PROVE  Rescanned(dev, luns, node) \subseteq DevType
<1> DEFINE seen(d) == {l \in luns : l.mapped /\ l.id = d.id}
           new     == {l \in luns : l.mapped /\ \A d \in dev : ~(d.node = node /\ d.id = l.id)}
           fresh(d) == IF d.node = node /\ seen(d) # {}
                         THEN [d EXCEPT !.size = (CHOOSE l \in seen(d) : TRUE).size] ELSE d
<1>1. ASSUME NEW d \in dev PROVE fresh(d) \in DevType
  <2>1. CASE seen(d) # {}
    <3>1. (CHOOSE l \in seen(d) : TRUE) \in luns
      BY <2>1
    <3>2. (CHOOSE l \in seen(d) : TRUE).size \in Sizes
      BY <3>1 DEF LunType
    <3> HIDE DEF seen
    <3> QED
      BY <3>2 DEF DevType
  <2>2. CASE seen(d) = {}
    BY <2>2
  <2> QED
    BY <2>1, <2>2
<1>2. ASSUME NEW l \in new PROVE DeviceOf(l, node) \in DevType
  BY DEF DeviceOf, DevType, LunType
<1>3. Rescanned(dev, luns, node) = {fresh(d) : d \in dev} \cup {DeviceOf(l, node) : l \in new}
  BY DEF Rescanned
<1> HIDE DEF fresh, new
<1> QED
  BY <1>1, <1>2, <1>3

LEMMA IdleJob == Idle \in JobType /\ Idle.pc = "idle"
BY RetriesAssumption DEF Idle, JobType, Pcs

\* The shape of a job after each of the moves of a process.
LEMMA JobMoves ==
  ASSUME TypeOK, NEW p \in Procs
  PROVE  /\ \A pc \in Pcs : Goto(p, pc) => job' \in [Procs -> JobType]
         /\ \A rc \in 0..2 : Return(p, rc) => job' \in [Procs -> JobType]
         /\ \A rc \in 0..2 : Return(p, rc) /\ Active(p) => InStep'
         /\ \A pc \in Pcs : Goto(p, pc) /\ Active(p) /\ pc \in StepsOf(job[p].req.op) => InStep'
<1>1. job[p] \in JobType
  BY DEF TypeOK
<1>2. ASSUME NEW pc \in Pcs, Goto(p, pc) PROVE job' \in [Procs -> JobType]
  BY <1>1, <1>2 DEF TypeOK, Goto, JobType
<1>3. ASSUME NEW rc \in 0..2, Return(p, rc) PROVE job' \in [Procs -> JobType]
  BY <1>1, <1>3 DEF TypeOK, Return, JobType, Pcs
<1>4. ASSUME NEW rc \in 0..2, Return(p, rc), Active(p) PROVE InStep'
  BY <1>4 DEF TypeOK, InStep, Return, Active, JobType
<1>5. ASSUME NEW pc \in Pcs, Goto(p, pc), Active(p), pc \in StepsOf(job[p].req.op) PROVE InStep'
  BY <1>5 DEF TypeOK, InStep, Goto, Active, JobType
<1> QED
  BY <1>2, <1>3, <1>4, <1>5

LEMMA DevicesHaveIds ==
  ASSUME TypeOK, NEW d \in dev
  PROVE  d.id \in Nat
BY DEF TypeOK, DevType

\* A search that finds a device ends its call.
LEMMA Answering ==
  ASSUME TypeOK, NEW p \in Procs, Active(p), NEW id \in Nat,
         Answer(p, id)
  PROVE  job' \in [Procs -> JobType] /\ InStep'
<1>1. job' \in [Procs -> JobType]
  <2>1. job[p] \in JobType
    BY DEF TypeOK
  <2>2. [job[p] EXCEPT !.pc = "done", !.rc = 0, !.out = id] \in JobType
    <3>1. ASSUME NEW j \in JobType, NEW rc \in 0..2
          PROVE  [j EXCEPT !.pc = "done", !.rc = rc] \in JobType
      BY DEF JobType, Pcs
    <3>2. ASSUME NEW j \in JobType PROVE [j EXCEPT !.out = id] \in JobType
      BY DEF JobType
    <3>3. 0 \in 0..2
      OBVIOUS
    <3> QED
      BY <2>1, <3>1, <3>2, <3>3
  <2> QED
    BY <2>2 DEF TypeOK, Answer
<1>2. InStep'
  BY DEF TypeOK, InStep, JobType, Active, Answer
<1> QED
  BY <1>1, <1>2

\* Every step of the scripts, of Ganeti and of udev keeps the types (TypeOK is inductive).
LEMMA TypeKept == ASSUME TypeOK, [Next]_vars PROVE TypeOK'
<1>1. ASSUME NEW p \in Procs, NEW r \in Requests, Call(p, r) PROVE TypeOK'
  <2>1. r.op \in {"create", "remove", "grow", "setinfo", "snapshot",
                  "attach", "detach", "pre_move"}
    BY RequestFields
  <2>2. FirstStep(r.op) \in StepsOf(r.op) /\ FirstStep(r.op) \in Pcs
    BY <2>1 DEF FirstStep, StepsOf, Pcs
  <2>3. Started(r, calls + 1) \in JobType
    <3>1. calls + 1 \in Nat
      BY CallsAssumption DEF TypeOK
    <3>2. r \in Requests \cup {NoRequest}
      OBVIOUS
    <3> QED
      BY <2>2, <3>1, <3>2, IdleJob DEF Started, JobType
  <2>4. Started(r, calls + 1).req = r /\ Started(r, calls + 1).pc = FirstStep(r.op)
    BY DEF Started, Idle
  <2>5. job' \in [Procs -> JobType]
    BY <1>1, <2>3 DEF Call, TypeOK
  <2>6. InStep'
    BY <1>1, <2>2, <2>4 DEF Call, TypeOK, InStep
  <2> QED
    BY <1>1, <2>5, <2>6, CallsAssumption DEF Call, TypeOK
<1>2. ASSUME NEW p \in Procs, Finish(p) PROVE TypeOK'
  BY <1>2, IdleJob DEF Finish, TypeOK, InStep
<1>3. ASSUME NEW p \in Procs, Fail(p) PROVE TypeOK'
  BY <1>3, JobMoves DEF Fail, TypeOK
<1>4. ASSUME NEW p \in Procs, Step(p) PROVE TypeOK'
  <2>1. Active(p) /\ job[p] \in JobType /\ job[p].req \in Requests
    BY <1>4 DEF Step, Lookup, CreateLun, MapLun, DestroyLun, DoDirectResize, SetLunComment,
                CloneLun, SearchToAttach, Poll, Rescan, Detach, PreMove, SearchToSave,
                OpenFile, WriteFile, At, Active, TypeOK, InStep
  <2>2. CASE Lookup(p)
    <3>1. job' \in [Procs -> JobType] /\ InStep'
      <4> DEFINE op == job[p].req.op
                 found == LunsNamed(luns, job[p].req.name)
      <4>1. op \in {"create", "remove", "grow", "setinfo", "snapshot"}
        BY <2>1, <2>2, RequestFields DEF Lookup, TypeOK, InStep, StepsOf, Active
      <4>2. CASE Return(p, 2)
        BY <2>1, <4>2, JobMoves
      <4>3. CASE op = "create" /\ Goto(p, "alloc")
        BY <2>1, <4>3, JobMoves DEF Pcs, StepsOf
      <4>4. ASSUME op # "create", NEW l \in found,
                   job' = [job EXCEPT ![p].pc = AfterLookup(op), ![p].at = l.pool]
            PROVE  job' \in [Procs -> JobType] /\ InStep'
        <5>1. AfterLookup(op) \in StepsOf(op) /\ AfterLookup(op) \in Pcs
          BY <4>1, <4>4 DEF AfterLookup, StepsOf, Pcs
        <5>2. l.pool \in Pools
          BY <4>4 DEF LunsNamed, TypeOK, LunType
        <5>3. job' \in [Procs -> JobType]
          BY <2>1, <4>4, <5>1, <5>2 DEF TypeOK, JobType
        <5>4. InStep'
          BY <2>1, <4>4, <5>1 DEF TypeOK, InStep, JobType
        <5> QED
          BY <5>3, <5>4
      <4> QED
        BY <2>2, <4>2, <4>3, <4>4 DEF Lookup
    <3> QED
      BY <2>2, <3>1 DEF Lookup, TypeOK
  <2>3. CASE CreateLun(p)
    <3>1. job[p].req.op = "create" /\ job[p].req.name \in Names
            /\ job[p].req.pool \in Pools /\ job[p].req.size \in Sizes
      BY <2>1, <2>3, RequestFields DEF CreateLun, At
    <3>2. luns' \subseteq LunType
      <4>1. NewLun(job[p].req, job[p].req.pool, job[p].id) \in LunType
        BY <2>1, <3>1 DEF NewLun, LunType, JobType
      <4> QED
        BY <2>3, <4>1 DEF CreateLun, TypeOK
    <3>3. job' \in [Procs -> JobType] /\ InStep'
      BY <2>1, <2>3, <3>1, JobMoves DEF CreateLun, Then, Pcs, StepsOf
    <3> QED
      BY <2>3, <3>2, <3>3 DEF CreateLun, TypeOK
  <2>4. CASE MapLun(p)
    <3>1. luns' \subseteq LunType
      BY <2>4 DEF MapLun, Mapped, TypeOK, LunType
    <3>2. job' \in [Procs -> JobType] /\ InStep'
      BY <2>1, <2>4, JobMoves DEF MapLun, Finally
    <3> QED
      BY <2>4, <3>1, <3>2 DEF MapLun, TypeOK
  <2>5. CASE DestroyLun(p)
    <3>1. job' \in [Procs -> JobType] /\ InStep'
      BY <2>1, <2>5, JobMoves DEF DestroyLun, Finally
    <3> QED
      BY <2>5, <3>1 DEF DestroyLun, TypeOK
  <2>6. CASE DoDirectResize(p)
    <3>1. job[p].req.op = "grow" /\ job[p].req.size \in Sizes
      BY <2>1, <2>6, RequestFields DEF DoDirectResize, At
    <3>2. luns' \subseteq LunType
      BY <2>6, <3>1 DEF DoDirectResize, Resized, TypeOK, LunType
    <3>3. job' \in [Procs -> JobType] /\ InStep'
      BY <2>1, <2>6, <3>1, JobMoves DEF DoDirectResize, Then, Pcs, StepsOf
    <3> QED
      BY <2>6, <3>2, <3>3 DEF DoDirectResize, TypeOK
  <2>7. CASE SetLunComment(p)
    <3>1. job[p].req.note \in Notes
      BY <2>1, <2>7, RequestFields DEF SetLunComment, At
    <3>2. luns' \subseteq LunType
      BY <2>7, <3>1 DEF SetLunComment, Noted, TypeOK, LunType
    <3>3. job' \in [Procs -> JobType] /\ InStep'
      BY <2>1, <2>7, JobMoves DEF SetLunComment, Finally
    <3> QED
      BY <2>7, <3>2, <3>3 DEF SetLunComment, TypeOK
  <2>8. CASE CloneLun(p)
    <3>1. job[p].req.into \in Names
      BY <2>1, <2>8, RequestFields DEF CloneLun, At
    <3>2. luns' \subseteq LunType
      BY <2>1, <2>8, <3>1 DEF CloneLun, CloneOf, Target, LunsAt, TypeOK, LunType, JobType
    <3>3. job' \in [Procs -> JobType] /\ InStep'
      BY <2>1, <2>8, JobMoves DEF CloneLun, Finally
    <3> QED
      BY <2>8, <3>2, <3>3 DEF CloneLun, TypeOK
  <2>9. CASE SearchToAttach(p)
    <3>1. job' \in [Procs -> JobType] /\ InStep'
      <4>1. CASE Return(p, 2)
        BY <2>1, <4>1, JobMoves
      <4>2. CASE Goto(p, "rescan")
        BY <2>1, <2>9, <4>2, JobMoves DEF SearchToAttach, At, Pcs, StepsOf
      <4>3. ASSUME NEW d \in dev,
                   Answer(p, d.id)
            PROVE  job' \in [Procs -> JobType] /\ InStep'
        BY <2>1, <4>3, DevicesHaveIds, Answering
      <4> QED
        BY <2>9, <4>1, <4>2, <4>3 DEF SearchToAttach
    <3> QED
      BY <2>9, <3>1 DEF SearchToAttach, TypeOK
  <2>10. CASE Poll(p)
    <3>1. job' \in [Procs -> JobType] /\ InStep'
      <4>1. CASE Return(p, 2)
        BY <2>1, <4>1, JobMoves
      <4>2. ASSUME NEW d \in dev,
                   Answer(p, d.id)
            PROVE  job' \in [Procs -> JobType] /\ InStep'
        BY <2>1, <4>2, DevicesHaveIds, Answering
      <4>3. ASSUME job[p].tries + 1 < MaxRetries, job' = [job EXCEPT ![p].tries = @ + 1]
            PROVE  job' \in [Procs -> JobType] /\ InStep'
        <5>1. job[p].tries + 1 \in 0..MaxRetries
          BY <2>1, <4>3, RetriesAssumption DEF JobType
        <5>2. job' \in [Procs -> JobType]
          BY <2>1, <4>3, <5>1 DEF TypeOK, JobType
        <5>3. InStep'
          BY <2>1, <4>3 DEF TypeOK, InStep, JobType
        <5> QED
          BY <5>2, <5>3
      <4>4. ASSUME job[p].tries + 1 = MaxRetries,
                   job' = [job EXCEPT ![p].pc = "done", ![p].rc = 1, ![p].tries = @ + 1]
            PROVE  job' \in [Procs -> JobType] /\ InStep'
        <5>1. job[p].tries + 1 \in 0..MaxRetries
          BY <2>1, <4>4, RetriesAssumption DEF JobType
        <5>2. job' \in [Procs -> JobType]
          BY <2>1, <4>4, <5>1 DEF TypeOK, JobType, Pcs
        <5>3. InStep'
          BY <2>1, <4>4 DEF TypeOK, InStep, JobType
        <5> QED
          BY <5>2, <5>3
      <4> QED
        BY <2>10, <4>1, <4>2, <4>3, <4>4 DEF Poll
    <3> QED
      BY <2>10, <3>1 DEF Poll, TypeOK
  <2>11. CASE Rescan(p)
    <3>1. dev' \subseteq DevType
      BY <2>1, <2>11, RequestFields, RescannedType DEF Rescan, TypeOK
    <3>2. job' \in [Procs -> JobType] /\ InStep'
      BY <2>1, <2>11, JobMoves DEF Rescan, Then, Finally, Pcs, StepsOf
    <3> QED
      BY <2>11, <3>1, <3>2 DEF Rescan, TypeOK
  <2>12. CASE Detach(p)
    BY <2>1, <2>12, JobMoves DEF Detach, TypeOK
  <2>13. CASE PreMove(p)
    <3>1. job' \in [Procs -> JobType] /\ InStep'
      BY <2>1, <2>13, JobMoves DEF PreMove, At, Pcs, StepsOf
    <3> QED
      BY <2>13, <3>1 DEF PreMove, TypeOK
  <2>14. CASE SearchToSave(p)
    <3>1. job' \in [Procs -> JobType] /\ InStep'
      <4>1. CASE Return(p, 2)
        BY <2>1, <4>1, JobMoves
      <4>2. CASE Goto(p, "lookup")
        BY <2>1, <2>14, <4>2, JobMoves DEF SearchToSave, At, Pcs, StepsOf
      <4>3. ASSUME NEW d \in dev,
                   job' = [job EXCEPT ![p].pc = "open", ![p].out = ScsiId(d)]
            PROVE  job' \in [Procs -> JobType] /\ InStep'
        <5>1. ScsiId(d) \in Nat
          BY DevicesHaveIds DEF ScsiId
        <5>2. job' \in [Procs -> JobType]
          BY <2>1, <4>3, <5>1 DEF TypeOK, JobType, Pcs
        <5>3. InStep'
          BY <2>1, <2>14, <4>3 DEF SearchToSave, At, StepsOf, TypeOK, InStep, JobType
        <5> QED
          BY <5>2, <5>3
      <4> QED
        BY <2>14, <4>1, <4>2, <4>3 DEF SearchToSave
    <3> QED
      BY <2>14, <3>1 DEF SearchToSave, TypeOK
  <2>15. CASE OpenFile(p)
    <3>1. saved' \subseteq [node : Nodes, uuid : Uuids, scsi : Nat]
      BY <2>1, <2>15, RequestFields DEF OpenFile, At, Rewritten, TypeOK
    <3>2. job' \in [Procs -> JobType] /\ InStep'
      BY <2>1, <2>15, JobMoves DEF OpenFile, At, Pcs, StepsOf
    <3> QED
      BY <2>15, <3>1, <3>2 DEF OpenFile, TypeOK
  <2>16. CASE WriteFile(p)
    <3>1. saved' \subseteq [node : Nodes, uuid : Uuids, scsi : Nat]
      BY <2>1, <2>16, RequestFields DEF WriteFile, At, Rewritten, TypeOK, JobType
    <3>2. job' \in [Procs -> JobType] /\ InStep'
      BY <2>1, <2>16, JobMoves DEF WriteFile, At, Pcs, StepsOf
    <3> QED
      BY <2>16, <3>1, <3>2 DEF WriteFile, TypeOK
  <2> QED
    BY <1>4, <2>2, <2>3, <2>4, <2>5, <2>6, <2>7, <2>8, <2>9, <2>10, <2>11, <2>12, <2>13,
       <2>14, <2>15, <2>16 DEF Step
<1>5. ASSUME NEW d \in dev, Settle(d) PROVE TypeOK'
  <2>1. Linked(dev, d) \subseteq DevType
    BY DEF Linked, TypeOK, DevType
  <2> QED
    BY <1>5, <2>1 DEF Settle, TypeOK, InStep
<1>6. CASE UNCHANGED vars
  BY <1>6 DEF vars, TypeOK, InStep
<1> QED
  BY <1>1, <1>2, <1>3, <1>4, <1>5, <1>6 DEF Next

\* A process is at a step of its operation, and every variable has its type.
THEOREM TypeCorrect == Spec => []TypeOK
<1>1. Init => TypeOK
  BY CallsAssumption, RetriesAssumption
     DEF Init, TypeOK, InStep, Idle, JobType, Pcs
<1>2. TypeOK /\ [Next]_vars => TypeOK'
  BY TypeKept
<1> QED
  BY <1>1, <1>2, PTL DEF Spec
-----------------------------------------------------------------------------
(***************************************************************************)
(* The scripts implement the volume service.  A step that changes no LUN   *)
(* and does not end a call is a stutter of the service; each of the others *)
(* is one action of it.                                                    *)
(***************************************************************************)

Volumes(ls) == {VolumeOf(l) : l \in ls}
CallMap     == [p \in Procs |-> CallOf(job[p])]

\* What the service sees of a process that moves on, or whose call returns.
LEMMA ServiceMoves ==
  ASSUME TypeOK, NEW p \in Procs, Active(p), job[p].req.op \in VolumeOps
  PROVE  /\ \A pc \in Pcs : Goto(p, pc) =>
              /\ pc = "map"    => Service!Becomes(p, "half")
              /\ pc = "rescan" => Service!Becomes(p, "effect")
              /\ pc \notin {"map", "rescan", "done"} => Service!Becomes(p, "pending")
         /\ Return(p, 0) => Service!Becomes(p, "ok")
         /\ Return(p, 2) => Service!Becomes(p, "failed")
<1>1. job \in [Procs -> JobType] /\ job[p] \in JobType
  BY DEF TypeOK
<1>2. CallOf(job[p]) = [st |-> StatusOf(job[p]), req |-> job[p].req]
  BY DEF CallOf
<1>3. ASSUME NEW j \in JobType, job' = [job EXCEPT ![p] = j], j.req = job[p].req
      PROVE  Service!Becomes(p, StatusOf(j))
  <2>1. CallOf(j) = [CallOf(job[p]) EXCEPT !.st = StatusOf(j)]
    BY <1>2, <1>3 DEF CallOf
  <2>2. [q \in Procs |-> CallOf(job'[q])] = [CallMap EXCEPT ![p].st = StatusOf(j)]
    BY <1>1, <1>3, <2>1 DEF CallMap
  <2> QED
    BY <2>2 DEF CallMap, Service!Becomes
<1>4. ASSUME NEW pc \in Pcs, Goto(p, pc)
      PROVE  /\ [job[p] EXCEPT !.pc = pc] \in JobType
             /\ Service!Becomes(p, StatusOf([job[p] EXCEPT !.pc = pc]))
  <2>1. [job[p] EXCEPT !.pc = pc] \in JobType
    BY <1>1 DEF JobType
  <2> QED
    BY <1>1, <1>3, <1>4, <2>1 DEF Goto, JobType
<1>5. ASSUME NEW rc \in 0..2, Return(p, rc)
      PROVE  /\ [job[p] EXCEPT !.pc = "done", !.rc = rc] \in JobType
             /\ Service!Becomes(p, StatusOf([job[p] EXCEPT !.pc = "done", !.rc = rc]))
  <2>1. [job[p] EXCEPT !.pc = "done", !.rc = rc] \in JobType
    BY <1>1 DEF JobType, Pcs
  <2> QED
    BY <1>1, <1>3, <1>5, <2>1 DEF Return, JobType
<1>6. ASSUME NEW pc \in Pcs
      PROVE  /\ pc = "map"    => StatusOf([job[p] EXCEPT !.pc = pc]) = "half"
             /\ pc = "rescan" => StatusOf([job[p] EXCEPT !.pc = pc]) = "effect"
             /\ pc \notin {"map", "rescan", "done"} =>
                  StatusOf([job[p] EXCEPT !.pc = pc]) = "pending"
  BY <1>1 DEF StatusOf, JobType
<1>7. \A rc \in 0..2 : StatusOf([job[p] EXCEPT !.pc = "done", !.rc = rc]) =
                         IF rc = 0 THEN "ok" ELSE "failed"
  BY <1>1 DEF StatusOf, JobType
<1>8. ASSUME NEW pc \in Pcs, Goto(p, pc)
      PROVE  /\ pc = "map"    => Service!Becomes(p, "half")
             /\ pc = "rescan" => Service!Becomes(p, "effect")
             /\ pc \notin {"map", "rescan", "done"} => Service!Becomes(p, "pending")
  <2> DEFINE st == StatusOf([job[p] EXCEPT !.pc = pc])
  <2>1. Service!Becomes(p, st)
    BY <1>4, <1>8
  <2>2. /\ pc = "map"    => st = "half"
        /\ pc = "rescan" => st = "effect"
        /\ pc \notin {"map", "rescan", "done"} => st = "pending"
    BY <1>6
  <2> HIDE DEF st
  <2> QED
    BY <2>1, <2>2
<1>9. ASSUME Return(p, 0) PROVE Service!Becomes(p, "ok")
  <2>1. 0 \in 0..2
    OBVIOUS
  <2> QED
    BY <1>5, <1>7, <1>9, <2>1
<1>10. ASSUME Return(p, 2) PROVE Service!Becomes(p, "failed")
  <2>1. 2 \in 0..2
    OBVIOUS
  <2> QED
    BY <1>5, <1>7, <1>10, <2>1
<1> QED
  BY <1>8, <1>9, <1>10

\* The service does not see what a script does that is none of its requests.
LEMMA OtherMoves ==
  ASSUME TypeOK, NEW p \in Procs, job[p].req.op \notin VolumeOps,
         NEW j, j.req.op \notin VolumeOps, job' = [job EXCEPT ![p] = j]
  PROVE  UNCHANGED CallMap
BY DEF TypeOK, CallMap, CallOf

\* The volumes at a path are those of the LUNs there.
LEMMA VolumesAt ==
  ASSUME NEW pool, NEW name
  PROVE  Service!At(pool, name) = Volumes(LunsAt(luns, pool, name))
BY DEF Service!At, Volumes, VolumeOf, LunsAt

\* A request that replaces the LUNs at a path, one by one, replaces their volumes.
LEMMA InPlace ==
  ASSUME TypeOK, NEW pool, NEW name, NEW f, NEW g,
         \A l \in LunsAt(luns, pool, name) : VolumeOf(f[l]) = g[VolumeOf(l)]
  PROVE  LET here == LunsAt(luns, pool, name) IN
           Volumes({IF l \in here THEN f[l] ELSE l : l \in luns})
             = (Volumes(luns) \ Volumes(here)) \cup {g[v] : v \in Volumes(here)}
<1> DEFINE here == LunsAt(luns, pool, name)
<1>1. here \subseteq luns
  BY DEF LunsAt
<1>2. \A l \in luns : VolumeOf(l) \in Volumes(here) <=> l \in here
  BY DEF LunsAt, Volumes, VolumeOf
<1>3. \A l \in here : VolumeOf(f[l]) = g[VolumeOf(l)]
  OBVIOUS
<1> HIDE DEF here
<1>4. ASSUME NEW v PROVE v \in Volumes({IF l \in here THEN f[l] ELSE l : l \in luns})
                         <=> \/ \E l \in luns : l \notin here /\ v = VolumeOf(l)
                             \/ \E l \in here : v = g[VolumeOf(l)]
  BY <1>1, <1>3 DEF Volumes
<1>5. ASSUME NEW v PROVE v \in (Volumes(luns) \ Volumes(here)) \cup {g[w] : w \in Volumes(here)}
                         <=> \/ \E l \in luns : l \notin here /\ v = VolumeOf(l)
                             \/ \E l \in here : v = g[VolumeOf(l)]
  BY <1>1, <1>2 DEF Volumes
<1>6. Volumes({IF l \in here THEN f[l] ELSE l : l \in luns})
        = (Volumes(luns) \ Volumes(here)) \cup {g[w] : w \in Volumes(here)}
  BY <1>4, <1>5
<1> QED
  BY <1>6 DEF here

\* The three requests that do.
LEMMA RequestsInPlace ==
  ASSUME TypeOK, NEW pool, NEW name, NEW new
  PROVE  LET here == LunsAt(luns, pool, name)
             rest == Volumes(luns) \ Volumes(here) IN
         /\ Volumes(Mapped(luns, here)) = rest \cup {[v EXCEPT !.usable = TRUE] : v \in Volumes(here)}
         /\ Volumes(Resized(luns, here, new)) = rest \cup {[v EXCEPT !.size = new] : v \in Volumes(here)}
         /\ Volumes(Noted(luns, here, new)) = rest \cup {[v EXCEPT !.note = new] : v \in Volumes(here)}
<1> DEFINE here == LunsAt(luns, pool, name)
           rest == Volumes(luns) \ Volumes(here)
           Sees(f, g) == \A l \in here : VolumeOf(f[l]) = g[VolumeOf(l)]
           Becoming(f, g) == Volumes({IF l \in here THEN f[l] ELSE l : l \in luns})
                               = rest \cup {g[v] : v \in Volumes(here)}
<1>1. here \subseteq luns /\ \A l \in luns : l \in LunType
  BY DEF LunsAt, TypeOK
<1>2. \A f, g : Sees(f, g) => Becoming(f, g)
  BY InPlace
<1> HIDE DEF Sees, Becoming
<1>3. Volumes(Mapped(luns, here)) = rest \cup {[v EXCEPT !.usable = TRUE] : v \in Volumes(here)}
  <2> DEFINE f == [l \in luns |-> [l EXCEPT !.mapped = TRUE]]
             g == [v \in Volumes(here) |-> [v EXCEPT !.usable = TRUE]]
  <2>1. Sees(f, g)
    BY <1>1 DEF Sees, Volumes, VolumeOf, LunType
  <2> HIDE DEF f, g
  <2>2. Becoming(f, g)
    BY <1>2, <2>1
  <2>3. Mapped(luns, here) = {IF l \in here THEN f[l] ELSE l : l \in luns}
    BY DEF Mapped, f
  <2>4. {g[v] : v \in Volumes(here)} = {[v EXCEPT !.usable = TRUE] : v \in Volumes(here)}
    BY DEF g
  <2> QED
    BY <2>2, <2>3, <2>4 DEF Becoming
<1>4. Volumes(Resized(luns, here, new)) = rest \cup {[v EXCEPT !.size = new] : v \in Volumes(here)}
  <2> DEFINE f == [l \in luns |-> [l EXCEPT !.size = new]]
             g == [v \in Volumes(here) |-> [v EXCEPT !.size = new]]
  <2>1. Sees(f, g)
    BY <1>1 DEF Sees, Volumes, VolumeOf, LunType
  <2> HIDE DEF f, g
  <2>2. Becoming(f, g)
    BY <1>2, <2>1
  <2>3. Resized(luns, here, new) = {IF l \in here THEN f[l] ELSE l : l \in luns}
    BY DEF Resized, f
  <2>4. {g[v] : v \in Volumes(here)} = {[v EXCEPT !.size = new] : v \in Volumes(here)}
    BY DEF g
  <2> QED
    BY <2>2, <2>3, <2>4 DEF Becoming
<1>5. Volumes(Noted(luns, here, new)) = rest \cup {[v EXCEPT !.note = new] : v \in Volumes(here)}
  <2> DEFINE f == [l \in luns |-> [l EXCEPT !.note = new]]
             g == [v \in Volumes(here) |-> [v EXCEPT !.note = new]]
  <2>1. Sees(f, g)
    BY <1>1 DEF Sees, Volumes, VolumeOf, LunType
  <2> HIDE DEF f, g
  <2>2. Becoming(f, g)
    BY <1>2, <2>1
  <2>3. Noted(luns, here, new) = {IF l \in here THEN f[l] ELSE l : l \in luns}
    BY DEF Noted, f
  <2>4. {g[v] : v \in Volumes(here)} = {[v EXCEPT !.note = new] : v \in Volumes(here)}
    BY DEF g
  <2> QED
    BY <2>2, <2>3, <2>4 DEF Becoming
<1> QED
  BY <1>3, <1>4, <1>5

\* The volume of a clone.
LEMMA VolumeOfClone ==
  ASSUME NEW l \in LunType, NEW name, NEW id
  PROVE  VolumeOf(CloneOf(l, name, id)) =
           [pool |-> VolumeOf(l).pool, name |-> name, size |-> VolumeOf(l).size,
            note |-> VolumeOf(l).note, usable |-> FALSE]
<1> DEFINE copy == CloneOf(l, name, id)
<1>1. /\ copy.pool = l.pool /\ copy.name = name /\ copy.size = l.size
      /\ copy.note = l.note /\ copy.mapped = FALSE
  BY DEF CloneOf, LunType
<1> QED
  BY <1>1 DEF VolumeOf

\* A call that is answered with an error has no further effect.
LEMMA ErrorAnswers ==
  ASSUME TypeOK, NEW p \in Procs, Active(p), UNCHANGED luns, Return(p, 2)
  PROVE  [Service!Next]_Service!vars
<1>1. CASE job[p].req.op \in VolumeOps
  <2>1. Service!Becomes(p, "failed")
    BY <1>1, ServiceMoves
  <2>2. CallMap[p] # Service!Idle /\ CallMap[p].st \in {"pending", "half", "effect"}
    BY <1>1 DEF CallMap, CallOf, StatusOf, Active, Service!Idle
  <2>3. Service!Answer(p)
    BY <2>1, <2>2 DEF Service!Answer, Service!Answered, CallMap
  <2> QED
    BY <2>3 DEF Service!Next
<1>2. CASE job[p].req.op \notin VolumeOps
  <2>1. UNCHANGED CallMap
    BY <1>2, OtherMoves DEF Return, TypeOK, JobType
  <2> QED
    BY <2>1 DEF Service!vars, CallMap
<1> QED
  BY <1>1, <1>2

\* A move to a step that looks the same from outside is a stutter.
LEMMA SilentMoves ==
  ASSUME TypeOK, NEW p \in Procs, Active(p), UNCHANGED luns,
         job[p].pc \notin {"map", "rescan"},
         NEW j, job' = [job EXCEPT ![p] = j], j.req = job[p].req,
         j.pc \notin {"map", "rescan", "done"} \/ j.req.op \notin VolumeOps
  PROVE  UNCHANGED Service!vars
<1>1. CallOf(j) = CallOf(job[p])
  BY DEF CallOf, StatusOf, Active
<1>2. [q \in Procs |-> CallOf(job'[q])] = [q \in Procs |-> CallOf(job[q])]
  BY <1>1 DEF TypeOK
<1> QED
  BY <1>2 DEF Service!vars

\* A call that is made, and one that is collected.
LEMMA CallAndFinish ==
  ASSUME TypeOK, NEW p \in Procs
  PROVE  /\ \A r \in Requests : Call(p, r) => [Service!Next]_Service!vars
         /\ Finish(p) => [Service!Next]_Service!vars
<1>1. ASSUME NEW r \in Requests, Call(p, r) PROVE [Service!Next]_Service!vars
  <2>1. CallOf(Idle) = Service!Idle /\ job[p] = Idle
    BY <1>1 DEF Call, CallOf, Idle, NoRequest, VolumeOps, Service!Idle
  <2>2. CASE r.op \in VolumeOps
    <3>1. CallOf(Started(r, calls + 1)) = [st |-> "pending", req |-> r]
      BY <2>2 DEF CallOf, Started, Idle, StatusOf, FirstStep, VolumeOps
    <3>2. [q \in Procs |-> CallOf(job'[q])] =
            [CallMap EXCEPT ![p] = [st |-> "pending", req |-> r]]
      BY <1>1, <3>1 DEF Call, CallMap, TypeOK
    <3>3. Service!Invoke(p)
      BY <1>1, <2>1, <2>2, <3>2 DEF Call, CallMap, Service!Invoke
    <3> QED
      BY <3>3 DEF Service!Next
  <2>3. CASE r.op \notin VolumeOps
    <3>1. Started(r, calls + 1).req = r
      BY DEF Started, Idle
    <3>2. job[p].req.op \notin VolumeOps
      BY <2>1 DEF Idle, NoRequest, VolumeOps
    <3>3. UNCHANGED CallMap
      BY <1>1, <2>3, <3>1, <3>2, OtherMoves DEF Call
    <3> QED
      BY <1>1, <3>3 DEF Call, CallMap, Service!vars
  <2> QED
    BY <2>2, <2>3
<1>2. ASSUME Finish(p) PROVE [Service!Next]_Service!vars
  <2>1. CallOf(Idle) = Service!Idle
    BY DEF CallOf, Idle, NoRequest, VolumeOps, Service!Idle
  <2>2. CASE job[p].req.op \in VolumeOps
    <3>1. CallMap[p] # Service!Idle /\ CallMap[p].st \in {"ok", "failed"}
      BY <1>2, <2>2 DEF Finish, CallMap, CallOf, StatusOf, Service!Idle
    <3>2. [q \in Procs |-> CallOf(job'[q])] = [CallMap EXCEPT ![p] = Service!Idle]
      BY <1>2, <2>1 DEF Finish, CallMap, TypeOK
    <3>3. Service!Release(p)
      BY <1>2, <3>1, <3>2 DEF Finish, CallMap, Service!Release
    <3> QED
      BY <3>3 DEF Service!Next
  <2>3. CASE job[p].req.op \notin VolumeOps
    <3>1. Idle.req.op \notin VolumeOps
      BY DEF Idle, NoRequest, VolumeOps
    <3>2. UNCHANGED CallMap
      BY <1>2, <2>3, <3>1, OtherMoves DEF Finish
    <3> QED
      BY <1>2, <3>2 DEF Finish, CallMap, Service!vars
  <2> QED
    BY <2>2, <2>3
<1> QED
  BY <1>1, <1>2

\* A request of a script that changes LUNs is an action of the service.
LEMMA Effects ==
  ASSUME TypeOK, NEW p \in Procs
  PROVE  /\ CreateLun(p) => Service!Allocate(p)
         /\ MapLun(p) => Service!Publish(p)
         /\ DestroyLun(p) => Service!Delete(p)
         /\ DoDirectResize(p) => Service!Resize(p)
         /\ SetLunComment(p) => Service!Annotate(p)
         /\ CloneLun(p) => Service!Copy(p)
<1> DEFINE r == job[p].req
<1>1. ASSUME CreateLun(p) PROVE Service!Allocate(p)
  <2>1. Active(p) /\ r.op \in VolumeOps /\ CallMap[p] = [st |-> "pending", req |-> r]
    BY <1>1 DEF CreateLun, At, Active, VolumeOps, CallMap, CallOf, StatusOf
  <2>2. Service!Becomes(p, "half") \/ Service!Becomes(p, "failed")
    BY <1>1, <2>1, ServiceMoves DEF CreateLun, Then, Pcs
  <2>3. Service!At(r.pool, r.name) = {}
    BY <1>1, VolumesAt DEF CreateLun, Volumes
  <2> DEFINE new == NewLun(r, r.pool, job[p].id)
  <2>4. VolumeOf(new) = [pool |-> r.pool, name |-> r.name, size |-> r.size,
                         note |-> NewNote, usable |-> FALSE]
    BY DEF NewLun, VolumeOf
  <2>5. Volumes(luns') = Volumes(luns) \cup {VolumeOf(new)}
    <3>1. luns' = luns \cup {new}
      BY <1>1 DEF CreateLun
    <3> HIDE DEF new
    <3> QED
      BY <3>1 DEF Volumes
  <2> QED
    BY <1>1, <2>1, <2>2, <2>3, <2>4, <2>5
       DEF CreateLun, At, CallMap, Volumes, Service!Allocate, Service!Pending, Service!Idle
<1>2. ASSUME MapLun(p) PROVE Service!Publish(p)
  <2>1. Active(p) /\ r.op \in VolumeOps /\ CallMap[p] = [st |-> "half", req |-> r]
    BY <1>2 DEF MapLun, At, Active, VolumeOps, CallMap, CallOf, StatusOf
  <2>2. Service!Becomes(p, "ok") \/ Service!Becomes(p, "failed")
    BY <1>2, <2>1, ServiceMoves DEF MapLun, Finally
  <2>3. Volumes(luns') = (Volumes(luns) \ Service!At(r.pool, r.name))
                           \cup {[v EXCEPT !.usable = TRUE] : v \in Service!At(r.pool, r.name)}
    BY <1>2, VolumesAt, RequestsInPlace DEF MapLun
  <2> QED
    BY <2>1, <2>2, <2>3 DEF CallMap, Volumes, Service!Publish, Service!Answered, Service!Idle
<1> DEFINE here == Service!At(job[p].at, r.name)
<1>3. Target(p) = LunsAt(luns, job[p].at, r.name) /\ Volumes(Target(p)) = here
  BY VolumesAt DEF Target
<1>4. ASSUME NEW l \in Target(p)
      PROVE  /\ VolumeOf(l) \in Volumes(luns)
             /\ VolumeOf(l).name = r.name /\ VolumeOf(l).pool = job[p].at
  BY DEF Target, LunsAt, Volumes, VolumeOf
<1>5. ASSUME DestroyLun(p) PROVE Service!Delete(p)
  <2>1. Active(p) /\ r.op \in VolumeOps /\ CallMap[p] = [st |-> "pending", req |-> r]
    BY <1>5 DEF DestroyLun, At, Active, VolumeOps, CallMap, CallOf, StatusOf
  <2>2. Service!Becomes(p, "ok") \/ Service!Becomes(p, "failed")
    BY <1>5, <2>1, ServiceMoves DEF DestroyLun, Finally
  <2>3. PICK l \in Target(p) : TRUE
    BY <1>5 DEF DestroyLun
  <2>4. Volumes(luns') = Volumes(luns) \ here
    <3>1. \A k \in luns : VolumeOf(k) \in Volumes(Target(p)) <=> k \in Target(p)
      BY DEF Target, LunsAt, Volumes, VolumeOf
    <3>2. luns' = luns \ Target(p)
      BY <1>5 DEF DestroyLun
    <3> QED
      BY <1>3, <3>1, <3>2 DEF Volumes
  <2> QED
    BY <1>4, <1>5, <2>1, <2>2, <2>3, <2>4
       DEF DestroyLun, At, CallMap, Volumes, Service!Delete, Service!Pending,
           Service!Answered, Service!Idle
<1>6. ASSUME DoDirectResize(p) PROVE Service!Resize(p)
  <2>1. Active(p) /\ r.op \in VolumeOps /\ CallMap[p] = [st |-> "pending", req |-> r]
    BY <1>6 DEF DoDirectResize, At, Active, VolumeOps, CallMap, CallOf, StatusOf
  <2>2. Service!Becomes(p, "effect") \/ Service!Becomes(p, "failed")
    BY <1>6, <2>1, ServiceMoves DEF DoDirectResize, Then, Pcs
  <2>3. PICK l \in Target(p) : TRUE
    BY <1>6 DEF DoDirectResize
  <2>4. Volumes(luns') = (Volumes(luns) \ here) \cup {[v EXCEPT !.size = r.size] : v \in here}
    <3>1. luns' = Resized(luns, Target(p), r.size)
      BY <1>6 DEF DoDirectResize
    <3> QED
      BY <1>3, <3>1, RequestsInPlace
  <2> QED
    BY <1>4, <1>6, <2>1, <2>2, <2>3, <2>4
       DEF DoDirectResize, At, CallMap, Volumes, Service!Resize, Service!Pending, Service!Idle
<1>7. ASSUME SetLunComment(p) PROVE Service!Annotate(p)
  <2>1. Active(p) /\ r.op \in VolumeOps /\ CallMap[p] = [st |-> "pending", req |-> r]
    BY <1>7 DEF SetLunComment, At, Active, VolumeOps, CallMap, CallOf, StatusOf
  <2>2. Service!Becomes(p, "ok") \/ Service!Becomes(p, "failed")
    BY <1>7, <2>1, ServiceMoves DEF SetLunComment, Finally
  <2>3. PICK l \in Target(p) : TRUE
    BY <1>7 DEF SetLunComment
  <2>4. Volumes(luns') = (Volumes(luns) \ here) \cup {[v EXCEPT !.note = r.note] : v \in here}
    <3>1. luns' = Noted(luns, Target(p), r.note)
      BY <1>7 DEF SetLunComment
    <3> QED
      BY <1>3, <3>1, RequestsInPlace
  <2> QED
    BY <1>4, <1>7, <2>1, <2>2, <2>3, <2>4
       DEF SetLunComment, At, CallMap, Volumes, Service!Annotate, Service!Pending,
           Service!Answered, Service!Idle
<1>8. ASSUME CloneLun(p) PROVE Service!Copy(p)
  <2>1. Active(p) /\ r.op \in VolumeOps /\ CallMap[p] = [st |-> "pending", req |-> r]
    BY <1>8 DEF CloneLun, At, Active, VolumeOps, CallMap, CallOf, StatusOf
  <2>2. Service!Becomes(p, "ok") \/ Service!Becomes(p, "failed")
    BY <1>8, <2>1, ServiceMoves DEF CloneLun, Finally
  <2>3. PICK l \in Target(p) : luns' = luns \cup {CloneOf(l, r.into, job[p].id)}
    BY <1>8 DEF CloneLun
  <2>4. Service!At(job[p].at, r.into) = {}
    BY <1>8, VolumesAt DEF CloneLun, Volumes
  <2> DEFINE copy == CloneOf(l, r.into, job[p].id)
  <2> DEFINE v == VolumeOf(l)
             w == [pool |-> v.pool, name |-> r.into, size |-> v.size, note |-> v.note,
                   usable |-> FALSE]
  <2>5. VolumeOf(copy) = w
    <3>1. l \in LunType
      BY DEF Target, LunsAt, TypeOK
    <3> QED
      BY <3>1, VolumeOfClone
  <2>6. Volumes(luns') = Volumes(luns) \cup {VolumeOf(copy)}
    <3>1. luns' = luns \cup {copy}
      BY <2>3
    <3> HIDE DEF copy
    <3> QED
      BY <3>1 DEF Volumes
  <2> HIDE DEF copy
  <2>7. /\ v \in Volumes(luns) /\ v.name = r.name
        /\ Service!At(v.pool, r.into) = {}
        /\ Volumes(luns') = Volumes(luns) \cup {w}
    BY <1>4, <2>4, <2>5, <2>6
  <2>8. Service!Pending(p, "snapshot") /\ Service!Answered(p)
    BY <1>8, <2>1, <2>2 DEF CloneLun, At, CallMap, Service!Pending, Service!Answered, Service!Idle
  <2>9. [q \in Procs |-> CallOf(job[q])][p].req = r
    BY <2>1 DEF CallMap
  <2> HIDE DEF v
  <2> QED
    BY <2>7, <2>8, <2>9 DEF Volumes, Service!Copy
<1> QED
  BY <1>1, <1>2, <1>5, <1>6, <1>7, <1>8

\* Every step of the scripts is a step of the service, or none.
LEMMA EveryStep ==
  ASSUME TypeOK, [Next]_vars
  PROVE  [Service!Next]_Service!vars
<1> DEFINE Served == [Service!Next]_Service!vars
<1>1. ASSUME NEW p \in Procs, Step(p) PROVE Served
  <2>1. Active(p)
    BY <1>1 DEF Step, At, Active, Lookup, CreateLun, MapLun, DestroyLun, DoDirectResize,
         SetLunComment, CloneLun, SearchToAttach, Poll, Rescan, Detach, PreMove,
         SearchToSave, OpenFile, WriteFile
  <2>2. CASE \/ CreateLun(p) \/ MapLun(p) \/ DestroyLun(p)
             \/ DoDirectResize(p) \/ SetLunComment(p) \/ CloneLun(p)
    BY <2>2, Effects DEF Service!Next
  <2>3. CASE Lookup(p)
    <3>1. CASE Return(p, 2)
      BY <2>1, <2>3, <3>1, ErrorAnswers DEF Lookup
    <3>2. CASE ~Return(p, 2)
      <4>1. job[p].pc = "lookup" /\ UNCHANGED luns /\ job[p].req \in Requests
            /\ job[p].req.op \in {"create", "remove", "grow", "setinfo", "snapshot"}
        <5>1. job[p].req \in Requests /\ job[p].pc \in StepsOf(job[p].req.op) \cup {"done"}
          BY <2>3 DEF Lookup, TypeOK, InStep
        <5>2. job[p].req \in AllRequests
          BY <5>1, RequestsAssumption
        <5> QED
          BY <2>3, <5>1, <5>2 DEF Lookup, StepsOf, AllRequests
      <4>2. PICK at \in Pools \cup {NoPool}, pc \in Pcs \ {"map", "rescan", "done"} :
              job' = [job EXCEPT ![p] = [@ EXCEPT !.pc = pc, !.at = at]]
        <5>1. CASE Goto(p, "alloc")
          <6>1. job' = [job EXCEPT ![p] = [@ EXCEPT !.pc = "alloc", !.at = job[p].at]]
            BY <5>1 DEF Goto, TypeOK, JobType
          <6>2. job[p].at \in Pools \cup {NoPool}
            BY DEF TypeOK, JobType
          <6> QED
            BY <6>1, <6>2 DEF Pcs
        <5>2. CASE ~Goto(p, "alloc")
          <6>1. job[p].req.op # "create"
            BY <2>3, <3>2, <5>2 DEF Lookup
          <6>2. PICK l \in luns :
                  job' = [job EXCEPT ![p].pc = AfterLookup(job[p].req.op), ![p].at = l.pool]
            BY <2>3, <3>2, <5>2 DEF Lookup, LunsNamed
          <6>3. l.pool \in Pools /\ AfterLookup(job[p].req.op) \in Pcs \ {"map", "rescan", "done"}
            BY <4>1, <6>1 DEF AfterLookup, Pcs, TypeOK, LunType
          <6>4. job' = [job EXCEPT ![p] = [@ EXCEPT !.pc = AfterLookup(job[p].req.op), !.at = l.pool]]
            BY <6>2 DEF TypeOK, JobType
          <6> QED
            BY <6>3, <6>4
        <5> QED
          BY <5>1, <5>2
      <4>3. job' = [job EXCEPT ![p] = [job[p] EXCEPT !.pc = pc, !.at = at]]
        BY <4>2 DEF TypeOK
      <4> DEFINE j == [job[p] EXCEPT !.pc = pc, !.at = at]
      <4>4. j.req = job[p].req /\ j.pc = pc
        BY DEF TypeOK, JobType
      <4> HIDE DEF j
      <4>5. UNCHANGED Service!vars
        BY <2>1, <4>1, <4>2, <4>3, <4>4, SilentMoves DEF j
      <4> QED
        BY <4>5
    <3> QED
      BY <3>1, <3>2
  <2>4. CASE \/ SearchToAttach(p) \/ Poll(p) \/ Detach(p) \/ PreMove(p)
    <3>1. job[p].req.op \notin VolumeOps /\ UNCHANGED luns
      BY <2>4 DEF SearchToAttach, Poll, Detach, PreMove, At, VolumeOps
    <3>2. \E j : j.req = job[p].req /\ job' = [job EXCEPT ![p] = j]
      <4>1. CASE Detach(p) \/ PreMove(p)
        BY <4>1 DEF Detach, PreMove, Goto, Return, TypeOK, JobType
      <4>2. CASE SearchToAttach(p)
        BY <4>2 DEF SearchToAttach, Goto, Return, Answer, TypeOK, JobType
      <4>3. CASE Poll(p)
        <5> DEFINE Moved == \E j : j.req = job[p].req /\ job' = [job EXCEPT ![p] = j]
        <5>1. Return(p, 2) => Moved
          BY DEF Return, TypeOK, JobType
        <5>2. \A d \in dev : Answer(p, d.id) => Moved
          BY DEF Answer, TypeOK, JobType
        <5>3. job' = [job EXCEPT ![p].tries = @ + 1] => Moved
          BY DEF TypeOK, JobType
        <5>4. job' = [job EXCEPT ![p].pc = "done", ![p].rc = 1, ![p].tries = @ + 1] => Moved
          <6>1. job[p] = [job[p] EXCEPT !.req = job[p].req] /\ job[p] \in JobType
            BY DEF TypeOK, JobType
          <6>2. [job[p] EXCEPT !.pc = "done", !.rc = 1, !.tries = @ + 1].req = job[p].req
            BY <6>1 DEF JobType
          <6>3. job' = [job EXCEPT ![p].pc = "done", ![p].rc = 1, ![p].tries = @ + 1] =>
                  job' = [job EXCEPT ![p] = [job[p] EXCEPT !.pc = "done", !.rc = 1, !.tries = @ + 1]]
            BY DEF TypeOK
          <6> QED
            BY <6>2, <6>3
        <5> HIDE DEF Moved
        <5>5. Moved
          BY <4>3, <5>1, <5>2, <5>3, <5>4 DEF Poll
        <5> QED
          BY <5>5 DEF Moved
      <4> QED
        BY <2>4, <4>1, <4>2, <4>3
    <3>3. UNCHANGED CallMap
      BY <3>1, <3>2, OtherMoves
    <3> QED
      BY <3>1, <3>3 DEF CallMap, Service!vars
  <2>5. CASE Rescan(p)
    <3>1. CASE job[p].req.op = "grow"
      <4>1. job[p].req.op \in VolumeOps /\ CallMap[p] = [st |-> "effect", req |-> job[p].req]
        BY <2>5, <3>1 DEF Rescan, VolumeOps, CallMap, CallOf, StatusOf
      <4>2. Service!Answered(p)
        BY <2>1, <2>5, <3>1, <4>1, ServiceMoves DEF Rescan, Finally, Service!Answered
      <4>3. Service!Answer(p)
        BY <2>5, <4>1, <4>2 DEF Rescan, CallMap, Service!Answer, Service!Idle
      <4> QED
        BY <4>3 DEF Service!Next
    <3>2. CASE job[p].req.op # "grow"
      <4>1. job[p].req \in Requests /\ job[p].req.op \in {"attach", "pre_move"}
        <5>1. job[p].req \in Requests /\ job[p].pc \in StepsOf(job[p].req.op) \cup {"done"}
          BY <2>5 DEF Rescan, TypeOK, InStep
        <5>2. job[p].req \in AllRequests
          BY <5>1, RequestsAssumption
        <5> QED
          BY <2>5, <3>2, <5>1, <5>2 DEF Rescan, StepsOf, AllRequests
      <4>2. \E j : j.req = job[p].req /\ job' = [job EXCEPT ![p] = j]
        BY <2>5 DEF Rescan, Then, Finally, Goto, Return, TypeOK, JobType
      <4>3. UNCHANGED CallMap
        BY <4>1, <4>2, OtherMoves DEF VolumeOps
      <4> QED
        BY <2>5, <4>3 DEF Rescan, CallMap, Service!vars
    <3> QED
      BY <3>1, <3>2
  <2>6. CASE SearchToSave(p) \/ OpenFile(p) \/ WriteFile(p)
    <3>1. CASE Return(p, 2)
      BY <2>1, <2>6, <3>1, ErrorAnswers DEF SearchToSave, OpenFile, WriteFile
    <3>2. CASE ~Return(p, 2)
      <4>1. /\ job[p].pc \in {"search", "open", "write"} /\ UNCHANGED luns
            /\ \E j : /\ job' = [job EXCEPT ![p] = j] /\ j.req = job[p].req
                      /\ j.pc \in {"open", "write", "lookup"}
        <5>1. CASE SearchToSave(p)
          BY <3>2, <5>1 DEF SearchToSave, At, Goto, TypeOK, JobType
        <5>2. CASE OpenFile(p) \/ WriteFile(p)
          BY <5>2 DEF OpenFile, WriteFile, At, Goto, TypeOK, JobType
        <5> QED
          BY <2>6, <5>1, <5>2
      <4> QED
        BY <2>1, <4>1, SilentMoves
    <3> QED
      BY <3>1, <3>2
  <2> QED
    BY <1>1, <2>2, <2>3, <2>4, <2>5, <2>6 DEF Step
<1>2. ASSUME NEW p \in Procs, Fail(p) PROVE Served
  BY <1>2, ErrorAnswers DEF Fail
<1>3. ASSUME NEW d \in dev, Settle(d) PROVE Served
  BY <1>3 DEF Settle, Service!vars
<1>4. ASSUME UNCHANGED vars PROVE Served
  BY <1>4 DEF vars, Service!vars
<1> HIDE DEF Served
<1>5. ASSUME NEW p \in Procs, \/ Finish(p) \/ \E r \in Requests : Call(p, r) PROVE Served
  BY <1>5, CallAndFinish DEF Served
<1> QED
  <2>1. ASSUME Next PROVE Served
    BY <1>1, <1>2, <1>3, <1>5, <2>1 DEF Next
  <2>2. Served
    BY <1>4, <2>1
  <2> QED
    BY <2>2 DEF Served

\* The scripts implement the volume service, for all processes, names, pools
\* and requests: whatever interleaves and fails, a volume changes only by a
\* call that names it, at most once, and before that call reports success.
THEOREM ServiceRefinement == Spec => ImplementsService
<1>1. Init => Service!Init
  BY DEF Init, Service!Init, CallOf, Idle, NoRequest, VolumeOps, Service!Idle
<1>2. TypeOK /\ [Next]_vars => [Service!Next]_Service!vars
  BY EveryStep
<1> QED
  BY <1>1, <1>2, TypeCorrect, PTL DEF Spec, ImplementsService, Service!Spec
-----------------------------------------------------------------------------
(***************************************************************************)
(* A call takes a bounded number of steps: there is one loop, and it counts*)
(***************************************************************************)

\* Only the loop counts searches, and it goes on below the bound only; only a call that
\* has ended has an exit code.
Searching ==
  \A p \in Procs :
    /\ job[p].pc # "done" => job[p].rc = 0
    /\ job[p].pc = "poll" => job[p].tries < MaxRetries
    /\ job[p].pc \notin {"poll", "done"} => job[p].tries = 0

\* Where a step of a script leads: to its end, to a step further on, or once more
\* round the loop of attach.
Onward(i, j) ==
  \/ j.pc = "done"
  \/ /\ j.tries = i.tries /\ j.rc = i.rc
     /\ \/ i.pc = "search" /\ j.pc \in {"rescan", "open", "lookup"}
        \/ i.pc = "open"   /\ j.pc = "write"
        \/ i.pc = "write"  /\ j.pc = "lookup"
        \/ i.pc = "lookup" /\ j.pc \in {"alloc", "destroy", "resize", "comment", "clone"}
        \/ i.pc = "alloc"  /\ j.pc = "map"
        \/ i.pc \in {"resize", "check"} /\ j.pc = "rescan"
        \/ i.pc = "rescan" /\ j.pc = "poll"
  \/ /\ i.pc = "poll" /\ j.pc = "poll" /\ j.rc = i.rc
     /\ j.tries = i.tries + 1 /\ i.tries + 1 < MaxRetries

LEMMA OwnMoves ==
  ASSUME TypeOK, NEW p \in Procs
  PROVE  /\ \A pc \in Pcs : Goto(p, pc) =>
              /\ job'[p].pc = pc /\ job'[p].tries = job[p].tries /\ job'[p].rc = job[p].rc
              /\ \A q \in Procs \ {p} : job'[q] = job[q]
         /\ \A rc \in 0..2 : Return(p, rc) =>
              job'[p].pc = "done" /\ \A q \in Procs \ {p} : job'[q] = job[q]
         /\ \A id : Answer(p, id) =>
              job'[p].pc = "done" /\ \A q \in Procs \ {p} : job'[q] = job[q]
<1>1. job \in [Procs -> JobType] /\ job[p] \in JobType
  BY DEF TypeOK
<1>2. ASSUME NEW id, Answer(p, id)
      PROVE  job'[p].pc = "done" /\ \A q \in Procs \ {p} : job'[q] = job[q]
  <2> DEFINE j == [job[p] EXCEPT !.pc = "done", !.rc = 0, !.out = id]
  <2>1. j.pc = "done"
    BY <1>1 DEF JobType
  <2>2. job' = [job EXCEPT ![p] = j]
    BY <1>2 DEF Answer
  <2> HIDE DEF j
  <2> QED
    BY <1>1, <2>1, <2>2
<1> QED
  BY <1>1, <1>2 DEF Goto, Return, JobType

\* A script that has not ended takes each step as its operation has it.
LEMMA StepsOnward ==
  ASSUME TypeOK, NEW p \in Procs, Step(p) \/ Fail(p)
  PROVE  /\ Active(p) /\ Onward(job[p], job'[p])
         /\ \A q \in Procs \ {p} : job'[q] = job[q]
<1>1. /\ job \in [Procs -> JobType] /\ job[p] \in JobType /\ InStep
      /\ job[p].pc # "idle" => job[p].req \in Requests
  BY DEF TypeOK, InStep
<1> DEFINE Done == /\ Active(p) /\ Onward(job[p], job'[p])
                   /\ \A q \in Procs \ {p} : job'[q] = job[q]
<1> USE <1>1, OwnMoves DEF At, Active, Pcs, Then, Finally, Onward
<1>2. CASE Fail(p)
  BY <1>2 DEF Fail
<1>3. CASE Lookup(p)
  <2>1. CASE \E rc \in 0..2 : Return(p, rc)
    BY <1>3, <2>1 DEF Lookup
  <2>2. CASE Goto(p, "alloc")
    BY <1>3, <2>2 DEF Lookup
  <2>3. CASE job[p].req.op # "create" /\ \E l \in luns :
               job' = [job EXCEPT ![p].pc = AfterLookup(job[p].req.op), ![p].at = l.pool]
    <3>1. job[p].req.op \in {"remove", "grow", "setinfo", "snapshot"}
      BY <1>3, <2>3, RequestFields DEF Lookup, InStep, StepsOf
    <3>2. AfterLookup(job[p].req.op) \in {"destroy", "resize", "comment", "clone"}
      BY <3>1 DEF AfterLookup
    <3>3. /\ job'[p].pc = AfterLookup(job[p].req.op)
          /\ job'[p].tries = job[p].tries /\ job'[p].rc = job[p].rc
          /\ \A q \in Procs \ {p} : job'[q] = job[q]
      BY <2>3 DEF JobType
    <3> QED
      BY <1>3, <3>2, <3>3 DEF Lookup
  <2> QED
    BY <1>3, <2>1, <2>2, <2>3 DEF Lookup, LunsNamed
<1>4. CASE CreateLun(p) \/ MapLun(p) \/ DestroyLun(p) \/ DoDirectResize(p) \/ SetLunComment(p)
             \/ CloneLun(p) \/ Detach(p)
  BY <1>4 DEF CreateLun, MapLun, DestroyLun, DoDirectResize, SetLunComment, CloneLun, Detach
<1>5. CASE SearchToAttach(p)
  <2>1. CASE \E id : Answer(p, id)
    BY <1>5, <2>1 DEF SearchToAttach
  <2>2. CASE Return(p, 2) \/ Goto(p, "rescan")
    BY <1>5, <2>2 DEF SearchToAttach
  <2> QED
    BY <1>5, <2>1, <2>2 DEF SearchToAttach
<1>6. CASE Poll(p)
  <2>1. CASE \E id : Answer(p, id)
    BY <1>6, <2>1 DEF Poll
  <2>2. CASE Return(p, 2)
    BY <1>6, <2>2 DEF Poll
  <2>3. CASE /\ job[p].tries + 1 < MaxRetries
             /\ job' = [job EXCEPT ![p].tries = @ + 1]
    BY <1>6, <2>3 DEF Poll, JobType
  <2>4. CASE job' = [job EXCEPT ![p].pc = "done", ![p].rc = 1, ![p].tries = @ + 1]
    BY <1>6, <2>4 DEF Poll, JobType
  <2> QED
    BY <1>6, <2>1, <2>2, <2>3, <2>4 DEF Poll
<1>7. CASE Rescan(p)
  BY <1>7 DEF Rescan
<1>8. CASE PreMove(p)
  BY <1>8 DEF PreMove
<1>9. CASE SearchToSave(p)
  BY <1>9 DEF SearchToSave, JobType
<1>10. CASE OpenFile(p) \/ WriteFile(p)
  BY <1>10 DEF OpenFile, WriteFile
<1> QED
  BY <1>2, <1>3, <1>4, <1>5, <1>6, <1>7, <1>8, <1>9, <1>10 DEF Step

LEMMA SearchingKept == TypeOK /\ Searching /\ [Next]_vars => Searching'
<1> SUFFICES ASSUME TypeOK, Searching, [Next]_vars PROVE Searching'
  OBVIOUS
<1>1. ASSUME NEW p \in Procs, Step(p) \/ Fail(p) PROVE Searching'
  <2>1. job[p].tries \in 0..MaxRetries /\ MaxRetries > 0 /\ MaxRetries \in Nat
    BY RetriesAssumption DEF TypeOK, JobType
  <2> QED
    BY <1>1, <2>1, StepsOnward DEF Searching, Onward, Active
<1>2. ASSUME NEW p \in Procs, NEW r \in Requests, Call(p, r) PROVE Searching'
  <2>1. /\ job'[p].tries = 0 /\ job'[p].rc = 0 /\ job'[p].pc # "poll"
        /\ \A q \in Procs \ {p} : job'[q] = job[q]
    <3>1. r.op \in {"create", "remove", "grow", "setinfo", "snapshot",
                    "attach", "detach", "pre_move"}
      BY RequestFields
    <3>2. /\ Started(r, calls + 1).tries = 0 /\ Started(r, calls + 1).rc = 0
          /\ Started(r, calls + 1).pc # "poll"
      BY <3>1 DEF Started, Idle, FirstStep
    <3> QED
      BY <1>2, <3>2 DEF Call, TypeOK
  <2> QED
    BY <2>1 DEF Searching
<1>3. ASSUME NEW p \in Procs, Finish(p) PROVE Searching'
  BY <1>3 DEF Finish, TypeOK, Searching, Idle
<1>4. CASE UNCHANGED vars \/ \E d \in dev : Settle(d)
  BY <1>4 DEF vars, Settle, Searching
<1> QED
  BY <1>1, <1>2, <1>3, <1>4 DEF Next

\* For any number of scripts, attempts and calls, and whatever others do to the filer and
\* the devices: each step of a script leaves it fewer, so that no call takes more than
\* MAX_RETRIES and six of them.
THEOREM EachStepCountsHolds == Spec => EachStepCounts
<1> DEFINE Counts == \A p \in Procs :
                       Step(p) \/ Fail(p) => StepsLeft(job'[p]) \in 0 .. StepsLeft(job[p]) - 1
<1>1. TypeOK /\ Searching /\ [Next]_vars => Counts
  <2> SUFFICES ASSUME TypeOK, Searching, NEW p \in Procs, Step(p) \/ Fail(p)
               PROVE  StepsLeft(job'[p]) \in 0 .. StepsLeft(job[p]) - 1
    OBVIOUS
  <2>1. /\ job[p].pc \in Pcs \ {"idle", "done"} /\ Onward(job[p], job'[p])
        /\ job[p].pc = "poll" => job[p].tries < MaxRetries
        /\ job[p].pc # "poll" => job[p].tries = 0
    BY StepsOnward DEF TypeOK, JobType, Active, Searching
  <2>2. MaxRetries \in Nat \ {0} /\ job[p].tries \in Nat
    BY RetriesAssumption DEF TypeOK, JobType
  <2>3. StepsLeft(job[p]) \in Nat \ {0}
    BY <2>1, <2>2 DEF StepsLeft, Pcs
  <2>4. CASE job'[p].pc = "done"
    BY <2>3, <2>4 DEF StepsLeft
  <2>5. ASSUME NEW i, NEW j, Onward(i, j), j.pc # "done", i.tries \in Nat,
               i.pc # "poll" => i.tries = 0
        PROVE  StepsLeft(j) \in 0 .. StepsLeft(i) - 1
    <3>1. CASE i.pc = "poll"
      BY <2>2, <2>5, <3>1 DEF Onward, StepsLeft
    <3>2. CASE i.pc = "rescan"
      BY <2>2, <2>5, <3>2 DEF Onward, StepsLeft
    <3>3. CASE i.pc \in {"resize", "check", "alloc"}
      BY <2>2, <2>5, <3>3 DEF Onward, StepsLeft
    <3>4. CASE i.pc \in {"search", "open", "write", "lookup"}
      BY <2>2, <2>5, <3>4 DEF Onward, StepsLeft
    <3> QED
      BY <2>5, <3>1, <3>2, <3>3, <3>4 DEF Onward
  <2> QED
    BY <2>1, <2>2, <2>3, <2>4, <2>5
<1>2. Init => Searching
  BY DEF Init, Searching, Idle
<1> QED
  BY <1>1, <1>2, SearchingKept, TypeCorrect, PTL DEF Spec, EachStepCounts
=============================================================================
