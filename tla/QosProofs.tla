------------------------------ MODULE QosProofs ------------------------------
(* What the clients keep of the QoS groups, for any number of clients,       *)
(* groups and LUNs.                                                          *)
EXTENDS QosGroups, TLAPS

\* A group that is marked, or that a rename is about to mark, was meant.
Meant ==
  /\ \A g \in groups : g.marked => g.id \in meant
  /\ \A c \in Clients : stage[c] = "rename" =>
       spec[c] \in PolicyNames /\ \A g \in groups : g.name = spec[c] => g.id \in meant

\* MarkedAtReturn, from the rename on.
Left ==
  \A c \in Clients : \A g \in groups :
    stage[c] \in {"clean", "done"} /\ g.name = spec[c] /\ ~g.marked =>
      c \in missed \/ c \in taken \/ g.id \notin meant

QosInv == QosTypeOK /\ Meant /\ Left /\ MarkedIsWanted

\* What a rename does to the groups: those of the name are marked.
LEMMA Renamed ==
  ASSUME QosTypeOK, NEW n \in PolicyNames, ~Taken(n)
  PROVE  /\ \A h \in Marked(n) : \E g \in groups :
              /\ h.id = g.id /\ h.name = g.name
              /\ IF g.name = n THEN h.marked ELSE h = g
         /\ \A g \in groups : \E h \in Marked(n) : h.id = g.id
         /\ Marked(n) \subseteq [id : 1..made, name : PolicyNames, marked : BOOLEAN]
<1>1. \A g \in groups : g \in Named(n) <=> g.name = n
  BY DEF Taken, Named
<1>2. \A g \in groups : /\ [g EXCEPT !.marked = TRUE].id = g.id
                        /\ [g EXCEPT !.marked = TRUE].name = g.name
                        /\ [g EXCEPT !.marked = TRUE].marked = TRUE
                        /\ [g EXCEPT !.marked = TRUE] \in [id : 1..made, name : PolicyNames, marked : BOOLEAN]
  BY DEF QosTypeOK
<1>3. Named(n) \subseteq groups
  BY DEF Named
<1>4. ASSUME NEW h \in Marked(n)
      PROVE  /\ \E g \in groups : /\ h.id = g.id /\ h.name = g.name
                                  /\ IF g.name = n THEN h.marked ELSE h = g
             /\ h \in [id : 1..made, name : PolicyNames, marked : BOOLEAN]
  <2>1. CASE h \in groups \ Named(n)
    BY <2>1, <1>1 DEF QosTypeOK
  <2>2. CASE h \notin groups \ Named(n)
    <3>1. PICK g \in Named(n) : h = [g EXCEPT !.marked = TRUE]
      BY <2>2 DEF Marked
    <3> QED
      BY <3>1, <1>1, <1>2, <1>3
  <2> QED
    BY <2>1, <2>2
<1>5. ASSUME NEW g \in groups
      PROVE  \E h \in Marked(n) : h.id = g.id
  <2>1. CASE g \in Named(n)
    BY <2>1, <1>2 DEF Marked
  <2>2. CASE g \notin Named(n)
    BY <2>2 DEF Marked
  <2> QED
    BY <2>1, <2>2
<1> QED
  BY <1>4, <1>5

\* Groups that are marked are as unique as they were.
LEMMA RenamedApart ==
  ASSUME QosTypeOK, NEW n \in PolicyNames, ~Taken(n), NEW h \in Marked(n), NEW k \in Marked(n),
         h.id = k.id \/ (h.name = k.name /\ h.marked = k.marked)
  PROVE  h = k
<1>1. PICK g \in groups : h.id = g.id /\ h.name = g.name /\ IF g.name = n THEN h.marked ELSE h = g
  BY Renamed
<1>2. PICK f \in groups : k.id = f.id /\ k.name = f.name /\ IF f.name = n THEN k.marked ELSE k = f
  BY Renamed
<1>3. h \in [id : 1..made, name : PolicyNames, marked : BOOLEAN]
      /\ k \in [id : 1..made, name : PolicyNames, marked : BOOLEAN]
  BY Renamed
<1>4. g = f
  <2>1. CASE h.id = k.id
    BY <2>1, <1>1, <1>2 DEF QosTypeOK
  <2>2. CASE h.id # k.id
    <3>1. g.name = f.name
      BY <2>2, <1>1, <1>2
    <3>2. CASE g.name = n
      BY <3>1, <3>2 DEF QosTypeOK, Taken
    <3>3. CASE g.name # n
      BY <2>2, <3>1, <3>3, <1>1, <1>2 DEF QosTypeOK
    <3> QED
      BY <3>2, <3>3
  <2> QED
    BY <2>1, <2>2
<1>5. CASE g.name # n
  BY <1>1, <1>2, <1>4, <1>5
<1>6. CASE g.name = n
  <2>1. h.marked = TRUE /\ k.marked = TRUE /\ h.id = k.id /\ h.name = k.name
    BY <1>1, <1>2, <1>3, <1>4, <1>6
  <2> QED
    BY <2>1, <1>3
<1> QED
  BY <1>5, <1>6

\* The types of what belongs to the calls, after a step.
TypesAfter ==
  /\ stage' \in [Clients -> {"idle", "rename", "clean", "done"}]
  /\ spec' \in [Clients -> PolicyNames \cup {NoSpec}]
  /\ taken' \subseteq Clients /\ missed' \subseteq Clients

\* The calls of the other clients are where they were.
OthersStay(c) ==
  \A d \in Clients \ {c} :
    /\ stage'[d] = stage[d] /\ spec'[d] = spec[d]
    /\ d \in taken => d \in taken'
    /\ d \in missed => d \in missed'

LEMMA GoesTo ==
  ASSUME QosTypeOK, NEW c \in Clients, NEW s \in {"clean", "done"}, stage' = [stage EXCEPT ![c] = s],
         spec' = spec, taken' \in {taken, taken \cup {c}}, missed' \in {missed, missed \cup {c}}
  PROVE  TypesAfter /\ OthersStay(c) /\ stage'[c] = s
BY DEF QosTypeOK, TypesAfter, OthersStay

LEMMA IsOver ==
  ASSUME QosTypeOK, NEW c \in Clients, Leaves(c)
  PROVE  TypesAfter /\ OthersStay(c) /\ stage'[c] = "idle"
<1>1. /\ stage' = [stage EXCEPT ![c] = "idle"] /\ spec' = [spec EXCEPT ![c] = NoSpec]
      /\ taken' = taken \ {c} /\ missed' = missed \ {c}
  BY DEF Leaves
<1> QED
  BY <1>1 DEF QosTypeOK, TypesAfter, OthersStay

\* A rename takes effect, and the call goes on or is broken off.
LEMMA RenameKept ==
  ASSUME QosInv, NEW c \in Clients, stage[c] = "rename", ~Taken(spec[c]),
         groups' = Marked(spec[c]), TypesAfter, OthersStay(c),
         \/ stage'[c] = "clean" /\ spec'[c] = spec[c] /\ left' = left
         \/ stage'[c] = "idle" /\ left' = left \cup Ids(groups' \ groups),
         UNCHANGED <<uses, made, meant, busy>>
  PROVE  QosInv'
<1> DEFINE n == spec[c]
<1>1. n \in PolicyNames /\ \A g \in groups : g.name = n => g.id \in meant
  BY DEF QosInv, Meant
<1>2. /\ \A h \in groups' : \E g \in groups :
            h.id = g.id /\ h.name = g.name /\ IF g.name = n THEN h.marked ELSE h = g
      /\ \A g \in groups : \E h \in groups' : h.id = g.id
      /\ groups' \subseteq [id : 1..made, name : PolicyNames, marked : BOOLEAN]
  BY <1>1, Renamed DEF QosInv
<1>3. \A h, k \in groups' : h.id = k.id \/ (h.name = k.name /\ h.marked = k.marked) => h = k
  BY <1>1, RenamedApart DEF QosInv
<1>4. stage'[c] \in {"clean", "idle"} /\ (stage'[c] = "clean" => spec'[c] = n)
  OBVIOUS
<1> HIDE DEF n
<1>5. QosTypeOK'
  <2>1. \A u \in uses' : \E h \in groups' : h.id = u.id
    BY <1>2 DEF QosInv, QosTypeOK
  <2>2. \A h \in groups' \ groups : h.id \in 1..made
    BY <1>2
  <2>3. left \subseteq 1..made /\ Ids(groups' \ groups) \subseteq 1..made
    BY <2>2 DEF QosInv, QosTypeOK, Ids
  <2>4. left' \subseteq 1..made
    BY <2>3
  <2> QED
    BY <1>2, <1>3, <2>1, <2>4 DEF QosInv, QosTypeOK, TypesAfter
<1>6. Meant'
  <2>1. \A h \in groups' : h.marked => h.id \in meant'
    BY <1>1, <1>2 DEF QosInv, Meant
  <2>2. ASSUME NEW d \in Clients, stage'[d] = "rename"
        PROVE  spec'[d] \in PolicyNames /\ \A h \in groups' : h.name = spec'[d] => h.id \in meant'
    BY <1>2, <1>4, <2>2 DEF QosInv, Meant, OthersStay
  <2> QED
    BY <2>1, <2>2 DEF Meant
<1>7. Left'
  <2> SUFFICES ASSUME NEW d \in Clients, NEW h \in groups', stage'[d] \in {"clean", "done"},
                      h.name = spec'[d], ~h.marked
               PROVE  d \in missed' \/ d \in taken' \/ h.id \notin meant'
    BY DEF Left
  <2>1. PICK g \in groups : h.id = g.id /\ h.name = g.name /\ IF g.name = n THEN h.marked ELSE h = g
    BY <1>2
  <2>2. d # c
    BY <1>4, <2>1
  <2>3. h = g
    BY <2>1
  <2> QED
    BY <2>2, <2>3 DEF QosInv, Left, OthersStay
<1>8. MarkedIsWanted'
  <2>1. CASE stage'[c] = "clean"
    BY <2>1 DEF MarkedIsWanted
  <2>2. CASE left' = left \cup Ids(groups' \ groups)
    <3> SUFFICES ASSUME NEW h \in groups', h.marked, h.id \notin busy \cup left'
                 PROVE  \E d \in Clients : stage'[d] = "clean"
      BY DEF MarkedIsWanted
    <3>1. h \in groups /\ h.id \notin left
      BY <2>2 DEF Ids
    <3>2. PICK d \in Clients : stage[d] = "clean"
      BY <3>1 DEF QosInv, MarkedIsWanted
    <3> QED
      BY <3>2 DEF OthersStay
  <2> QED
    BY <2>1, <2>2
<1> QED
  BY <1>5, <1>6, <1>7, <1>8 DEF QosInv

\* Marked groups that no LUN uses are deleted.
LEMMA DeletedKept ==
  ASSUME QosInv, NEW c \in Clients, stage[c] = "clean", NEW gone \in SUBSET Unused,
         groups' = groups \ gone, TypesAfter, OthersStay(c),
         \/ stage'[c] = "idle"
         \/ /\ stage'[c] = "done" /\ spec'[c] = spec[c]
            /\ (c \in taken => c \in taken') /\ (c \in missed => c \in missed'),
         \/ left' = Ids(Unused \ gone) /\ busy' = Ids(uses)
         \/ left' = left \cup Ids({g \in groups' : g.marked}) /\ busy' = busy,
         UNCHANGED <<uses, made, meant>>
  PROVE  QosInv'
<1>1. groups' \subseteq groups
  OBVIOUS
<1>2. \A g \in groups : g.id \in 1..made
  BY DEF QosInv, QosTypeOK
<1>3. QosTypeOK'
  <2>1. \A u \in uses' : \E g \in groups' : g.id = u.id
    BY DEF QosInv, QosTypeOK, Unused, Used
  <2>2. busy' \subseteq 1..made'
    <3>1. busy \subseteq 1..made /\ \A u \in uses : u.id \in 1..made
      BY DEF QosInv, QosTypeOK
    <3>2. Ids(uses) \subseteq 1..made
      BY <3>1 DEF Ids
    <3> QED
      BY <3>1, <3>2
  <2>3. left' \subseteq 1..made'
    <3>1. Ids(Unused \ gone) \subseteq 1..made /\ Ids({g \in groups' : g.marked}) \subseteq 1..made
      BY <1>1, <1>2 DEF Ids, Unused
    <3> QED
      BY <3>1 DEF QosInv, QosTypeOK
  <2> QED
    BY <1>1, <2>1, <2>2, <2>3 DEF QosInv, QosTypeOK, TypesAfter
<1>4. Meant'
  BY <1>1 DEF QosInv, Meant, OthersStay
<1>5. Left'
  BY <1>1 DEF QosInv, Left, OthersStay
<1>6. MarkedIsWanted'
  <2>1. CASE left' = left \cup Ids({g \in groups' : g.marked})
    BY <2>1 DEF MarkedIsWanted, Ids
  <2>2. CASE left' = Ids(Unused \ gone) /\ busy' = Ids(uses)
    BY <2>2 DEF MarkedIsWanted, Unused, Used, Ids
  <2> QED
    BY <2>1, <2>2
<1> QED
  BY <1>3, <1>4, <1>5, <1>6 DEF QosInv

\* The groups stay.
LEMMA CreateKept == ASSUME QosInv, NEW n \in PolicyNames, QosPolicyGroupCreate(n) PROVE QosInv'
<1> DEFINE new == [id |-> made + 1, name |-> n, marked |-> FALSE]
<1>1. /\ Free(n) /\ Named(n) = {} /\ made' = made + 1 /\ groups' = groups \cup {new}
      /\ UNCHANGED <<uses, stage, spec, meant, taken, missed, busy, left>>
  BY DEF QosPolicyGroupCreate, marking
<1>2. new.id = made + 1 /\ new.name = n /\ new.marked = FALSE
  OBVIOUS
<1>3. \A g \in groups : g.id \in 1..made /\ (g.marked = FALSE => g.name # n)
  BY <1>1 DEF QosInv, QosTypeOK, Named
<1>4. \A c \in Clients : stage[c] = "idle" \/ spec[c] # n
  BY <1>1 DEF Free
<1>5. made \in Nat
  BY DEF QosInv, QosTypeOK
<1>6. QosTypeOK'
  <2>1. groups' \subseteq [id : 1..made', name : PolicyNames, marked : BOOLEAN]
    <3>1. 1..made \subseteq 1..made' /\ made + 1 \in 1..made'
      BY <1>1, <1>5
    <3>2. new \in [id : 1..made', name : PolicyNames, marked : BOOLEAN]
      BY <3>1
    <3>3. \A g \in groups : g \in [id : 1..made', name : PolicyNames, marked : BOOLEAN]
      BY <3>1 DEF QosInv, QosTypeOK
    <3> QED
      BY <1>1, <3>2, <3>3
  <2> HIDE DEF new
  <2>2. \A g, h \in groups' : g.id = h.id \/ (g.name = h.name /\ g.marked = h.marked) => g = h
    <3> SUFFICES ASSUME NEW g \in groups', NEW h \in groups',
                        g.id = h.id \/ (g.name = h.name /\ g.marked = h.marked)
                 PROVE  g = h
      OBVIOUS
    <3>1. CASE g \in groups /\ h \in groups
      BY <3>1 DEF QosInv, QosTypeOK
    <3>2. ASSUME NEW f \in groups PROVE f.id # new.id /\ ~(f.name = new.name /\ f.marked = new.marked)
      BY <1>2, <1>3, <1>5
    <3> QED
      BY <1>1, <3>1, <3>2
  <2>3. \A u \in uses' : \E g \in groups' : g.id = u.id
    BY <1>1 DEF QosInv, QosTypeOK
  <2>4. /\ uses' \subseteq [lun : Luns, id : 1..made']
        /\ meant' \subseteq 1..made' /\ busy' \subseteq 1..made' /\ left' \subseteq 1..made'
    BY <1>1, <1>5 DEF QosInv, QosTypeOK
  <2> QED
    BY <1>1, <1>5, <2>1, <2>2, <2>3, <2>4 DEF QosInv, QosTypeOK
<1> HIDE DEF new
<1>7. Meant'
  BY <1>1, <1>2, <1>4 DEF QosInv, Meant
<1>8. Left'
  BY <1>1, <1>2, <1>4 DEF QosInv, Left
<1>9. MarkedIsWanted'
  BY <1>1, <1>2 DEF QosInv, MarkedIsWanted
<1> QED
  BY <1>6, <1>7, <1>8, <1>9 DEF QosInv

LEMMA UsesKept ==
  ASSUME QosInv, uses' \subseteq [lun : Luns, id : 1..made],
         \A u \in uses' : \E g \in groups : g.id = u.id,
         UNCHANGED <<groups, made, stage, spec, meant, taken, missed, busy, left>>
  PROVE  QosInv'
<1>1. QosTypeOK'
  BY DEF QosInv, QosTypeOK
<1> QED
  BY <1>1 DEF QosInv, Meant, Left, MarkedIsWanted

LEMMA SetLunKept ==
  ASSUME QosInv, NEW l \in Luns, NEW n \in PolicyNames, SetLunQos(l, n)
  PROVE  QosInv'
<1>1. PICK g \in Named(n) : uses' = {u \in uses : u.lun # l} \cup {[lun |-> l, id |-> g.id]}
  BY DEF SetLunQos
<1>2. g \in groups /\ g.id \in 1..made
  BY DEF Named, QosInv, QosTypeOK
<1>3. uses' \subseteq [lun : Luns, id : 1..made]
  BY <1>1, <1>2 DEF QosInv, QosTypeOK
<1>4. \A u \in uses' : \E f \in groups : f.id = u.id
  BY <1>1, <1>2 DEF QosInv, QosTypeOK
<1>5. UNCHANGED <<groups, made, stage, spec, meant, taken, missed, busy, left>>
  BY DEF SetLunQos, marking
<1> QED
  BY <1>3, <1>4, <1>5, UsesKept

LEMMA ReleasedKept == ASSUME QosInv, NEW u \in uses, Released(u) PROVE QosInv'
<1>1. uses' \subseteq uses /\ UNCHANGED <<groups, made, stage, spec, meant, taken, missed, busy, left>>
  BY DEF Released, marking
<1> QED
  BY <1>1, UsesKept DEF QosInv, QosTypeOK

LEMMA MarkKept ==
  ASSUME QosInv, NEW c \in Clients, NEW n \in PolicyNames \cup {NoSpec}, Mark(c, n)
  PROVE  QosInv'
<1>1. /\ n # NoSpec => Free(n)
      /\ stage' = [stage EXCEPT ![c] = IF n = NoSpec THEN "clean" ELSE "rename"]
      /\ spec' = [spec EXCEPT ![c] = n] /\ meant' = meant \cup Ids(Named(n))
      /\ stage[c] = "idle" /\ UNCHANGED <<groups, uses, made, taken, missed, busy, left>>
  BY DEF Mark
<1>2. /\ stage' \in [Clients -> {"idle", "rename", "clean", "done"}]
      /\ spec' \in [Clients -> PolicyNames \cup {NoSpec}]
      /\ spec'[c] = n /\ stage'[c] = (IF n = NoSpec THEN "clean" ELSE "rename")
      /\ \A d \in Clients \ {c} : stage'[d] = stage[d] /\ spec'[d] = spec[d]
  BY <1>1 DEF QosInv, QosTypeOK
<1>3. meant' \subseteq 1..made /\ meant \subseteq meant'
  BY <1>1 DEF QosInv, QosTypeOK, Named, Ids
<1>4. \A g \in groups : g.name # NoSpec
  BY QosAssumption DEF QosInv, QosTypeOK
<1>5. \A d \in Clients : stage[d] # "idle" => spec[d] # n \/ n = NoSpec
  BY <1>1 DEF Free
<1>6. \A g \in groups : g.id \in meant' => g.id \in meant \/ g.name = n
  <2> SUFFICES ASSUME NEW g \in groups, g.id \in meant', g.id \notin meant PROVE g.name = n
    OBVIOUS
  <2>1. PICK f \in Named(n) : f.id = g.id
    BY <1>1 DEF Ids
  <2> QED
    BY <2>1 DEF Named, QosInv, QosTypeOK
<1>7. QosTypeOK'
  BY <1>1, <1>2, <1>3 DEF QosInv, QosTypeOK
<1>8. Meant'
  <2>1. \A g \in groups : g.marked => g.id \in meant'
    BY <1>3 DEF QosInv, Meant
  <2>2. \A g \in groups : g.name = n => g.id \in meant'
    BY <1>1, <2>1 DEF Named, Ids
  <2>3. ASSUME NEW d \in Clients, stage'[d] = "rename"
        PROVE  spec'[d] \in PolicyNames /\ \A g \in groups : g.name = spec'[d] => g.id \in meant'
    <3>1. CASE d = c
      BY <3>1, <1>2, <2>2, <2>3
    <3>2. CASE d # c
      BY <3>2, <1>2, <1>3, <2>3 DEF QosInv, Meant
    <3> QED
      BY <3>1, <3>2
  <2> QED
    BY <1>1, <2>1, <2>3 DEF Meant
<1>9. Left'
  <2> SUFFICES ASSUME NEW d \in Clients, NEW g \in groups', stage'[d] \in {"clean", "done"},
                      g.name = spec'[d], ~g.marked, g.id \in meant'
               PROVE  d \in missed' \/ d \in taken'
    BY DEF Left
  <2>1. g \in groups /\ d # c
    BY <1>1, <1>2, <1>4
  <2>2. stage[d] \in {"clean", "done"} /\ g.name = spec[d] /\ g.name # n
    BY <1>2, <1>4, <1>5, <2>1
  <2>3. g.id \in meant
    BY <1>6, <2>1, <2>2
  <2> QED
    BY <1>1, <2>1, <2>2, <2>3 DEF QosInv, Left
<1>10. MarkedIsWanted'
  BY <1>1, <1>2 DEF QosInv, MarkedIsWanted
<1> QED
  BY <1>7, <1>8, <1>9, <1>10 DEF QosInv

\* A rename had no effect, and the call goes on or is broken off.
LEMMA LoggedKept ==
  ASSUME QosInv, NEW c \in Clients, stage[c] = "rename", TypesAfter, OthersStay(c),
         \/ stage'[c] = "clean" /\ spec'[c] = spec[c] /\ c \in taken' \cup missed'
         \/ stage'[c] = "idle",
         UNCHANGED <<groups, uses, made, meant, busy, left>>
  PROVE  QosInv'
<1>1. QosTypeOK'
  BY DEF QosInv, QosTypeOK, TypesAfter
<1>2. Meant'
  BY DEF QosInv, Meant, OthersStay
<1>3. Left'
  BY DEF QosInv, Left, OthersStay
<1>4. MarkedIsWanted'
  BY DEF QosInv, MarkedIsWanted, OthersStay
<1> QED
  BY <1>1, <1>2, <1>3, <1>4 DEF QosInv

LEMMA RenameAnyKept ==
  ASSUME QosInv, NEW c \in Clients, QosPolicyGroupRename(c) \/ RenameRefused(c)
  PROVE  QosInv'
<1>1. QosTypeOK /\ stage[c] = "rename"
  BY DEF QosInv, QosPolicyGroupRename, RenameRefused
<1>2. stage' = [stage EXCEPT ![c] = "clean"] /\ spec' = spec /\ missed' = missed
  BY DEF QosPolicyGroupRename, RenameRefused
<1>3. taken' \in {taken, taken \cup {c}}
  BY DEF QosPolicyGroupRename, RenameRefused
<1>4. TypesAfter /\ OthersStay(c) /\ stage'[c] = "clean"
  BY <1>1, <1>2, <1>3, GoesTo
<1>5. CASE QosPolicyGroupRename(c)
  BY <1>1, <1>2, <1>4, <1>5, RenameKept DEF QosPolicyGroupRename
<1>6. CASE RenameRefused(c)
  BY <1>1, <1>2, <1>4, <1>6, LoggedKept DEF RenameRefused
<1> QED
  BY <1>5, <1>6

LEMMA RenameFailKept == ASSUME QosInv, NEW c \in Clients, RenameFails(c) PROVE QosInv'
<1>1. /\ stage[c] = "rename" /\ stage' = [stage EXCEPT ![c] = "clean"] /\ missed' = missed \cup {c}
      /\ groups' \in RenamedPerhaps(spec[c])
      /\ UNCHANGED <<uses, made, spec, meant, taken, busy, left>>
  BY DEF RenameFails
<1>2. TypesAfter /\ OthersStay(c) /\ stage'[c] = "clean"
  BY <1>1, GoesTo DEF QosInv
<1>3. CASE groups' = groups
  BY <1>1, <1>2, <1>3, LoggedKept
<1>4. CASE groups' # groups
  <2>1. ~Taken(spec[c]) /\ groups' = Marked(spec[c])
    BY <1>1, <1>4 DEF RenamedPerhaps
  <2> QED
    BY <1>1, <1>2, <2>1, RenameKept
<1> QED
  BY <1>3, <1>4

LEMMA RenameBreakKept == ASSUME QosInv, NEW c \in Clients, RenameBreaks(c) PROVE QosInv'
<1>1. /\ stage[c] = "rename" /\ left' = left \cup Ids(groups' \ groups)
      /\ groups' \in RenamedPerhaps(spec[c])
      /\ UNCHANGED <<uses, made, meant, busy>>
  BY DEF RenameBreaks
<1>2. TypesAfter /\ OthersStay(c) /\ stage'[c] = "idle"
  BY IsOver DEF QosInv, RenameBreaks
<1>3. CASE groups' = groups
  <2>1. left' = left
    BY <1>1, <1>3 DEF Ids
  <2> QED
    BY <1>1, <1>2, <1>3, <2>1, LoggedKept
<1>4. CASE groups' # groups
  <2>1. ~Taken(spec[c]) /\ groups' = Marked(spec[c])
    BY <1>1, <1>4 DEF RenamedPerhaps
  <2> QED
    BY <1>1, <1>2, <2>1, RenameKept
<1> QED
  BY <1>3, <1>4

LEMMA RemoveKept ==
  ASSUME QosInv, NEW c \in Clients, RemoveUnused(c) \/ RemoveUnusedFails(c)
  PROVE  QosInv'
<1>1. /\ stage[c] = "clean" /\ stage' = [stage EXCEPT ![c] = "done"]
      /\ UNCHANGED <<uses, made, spec, meant, taken, missed>>
  BY DEF RemoveUnused, RemoveUnusedFails
<1>2. TypesAfter /\ OthersStay(c) /\ stage'[c] = "done"
  BY <1>1, GoesTo DEF QosInv
<1>3. CASE RemoveUnused(c)
  <2>1. PICK gone \in SUBSET Unused : groups' = groups \ gone /\ left' = Ids(Unused \ gone)
    BY <1>3 DEF RemoveUnused
  <2>2. busy' = Ids(uses)
    BY <1>3 DEF RemoveUnused
  <2> QED
    BY <1>1, <1>2, <2>1, <2>2, DeletedKept
<1>4. CASE RemoveUnusedFails(c)
  <2>1. PICK gone \in SUBSET Unused : groups' = groups \ gone
    BY <1>4 DEF RemoveUnusedFails
  <2>2. left' = left \cup Ids({g \in groups' : g.marked}) /\ busy' = busy
    BY <1>4 DEF RemoveUnusedFails
  <2> QED
    BY <1>1, <1>2, <2>1, <2>2, DeletedKept
<1> QED
  BY <1>3, <1>4

LEMMA RemoveBreakKept == ASSUME QosInv, NEW c \in Clients, RemoveUnusedBreaks(c) PROVE QosInv'
<1>1. PICK gone \in SUBSET Unused : groups' = groups \ gone
  BY DEF RemoveUnusedBreaks
<1>2. /\ stage[c] = "clean" /\ left' = left \cup Ids({g \in groups' : g.marked})
      /\ UNCHANGED <<uses, made, meant, busy>>
  BY DEF RemoveUnusedBreaks
<1>3. TypesAfter /\ OthersStay(c) /\ stage'[c] = "idle"
  BY IsOver DEF QosInv, RemoveUnusedBreaks
<1> QED
  BY <1>1, <1>2, <1>3, DeletedKept

LEMMA ReturnKept == ASSUME QosInv, NEW c \in Clients, MarkReturned(c) PROVE QosInv'
<1>1. stage[c] = "done" /\ UNCHANGED <<groups, uses, made, meant, busy, left>>
  BY DEF MarkReturned
<1>2. TypesAfter /\ OthersStay(c) /\ stage'[c] = "idle"
  BY IsOver DEF QosInv, MarkReturned
<1>3. QosTypeOK'
  BY <1>1, <1>2 DEF QosInv, QosTypeOK, TypesAfter
<1>4. Meant'
  BY <1>1, <1>2 DEF QosInv, Meant, OthersStay
<1>5. Left'
  BY <1>1, <1>2 DEF QosInv, Left, OthersStay
<1>6. MarkedIsWanted'
  BY <1>1, <1>2 DEF QosInv, MarkedIsWanted, OthersStay
<1> QED
  BY <1>3, <1>4, <1>5, <1>6 DEF QosInv

LEMMA QosStep == QosInv /\ [QosNext]_qosVars => QosInv'
<1> SUFFICES ASSUME QosInv, [QosNext]_qosVars PROVE QosInv'
  OBVIOUS
<1>1. ASSUME NEW n \in PolicyNames, QosPolicyGroupCreate(n) PROVE QosInv'
  BY <1>1, CreateKept
<1>2. ASSUME NEW l \in Luns, NEW n \in PolicyNames, SetLunQos(l, n) PROVE QosInv'
  BY <1>2, SetLunKept
<1>3. ASSUME NEW u \in uses, Released(u) PROVE QosInv'
  BY <1>3, ReleasedKept
<1>4. ASSUME NEW c \in Clients, NEW n \in PolicyNames \cup {NoSpec}, Mark(c, n) PROVE QosInv'
  BY <1>4, MarkKept
<1>5. ASSUME NEW c \in Clients,
             \/ QosPolicyGroupRename(c) \/ RenameRefused(c) \/ RenameFails(c) \/ RenameBreaks(c)
             \/ RemoveUnused(c) \/ RemoveUnusedFails(c) \/ RemoveUnusedBreaks(c)
             \/ MarkReturned(c)
      PROVE  QosInv'
  BY <1>5, RenameAnyKept, RenameFailKept, RenameBreakKept, RemoveKept, RemoveBreakKept, ReturnKept
<1>6. CASE UNCHANGED qosVars
  <2>1. UNCHANGED <<groups, uses, made, stage, spec, meant, taken, missed, busy, left>>
    BY <1>6 DEF qosVars, marking
  <2>2. uses' \subseteq [lun : Luns, id : 1..made] /\ \A u \in uses' : \E g \in groups : g.id = u.id
    BY <2>1 DEF QosInv, QosTypeOK
  <2> QED
    BY <2>1, <2>2, UsesKept
<1> QED
  BY <1>1, <1>2, <1>3, <1>4, <1>5, <1>6 DEF QosNext

LEMMA QosStart == QosInit => QosInv
<1> SUFFICES ASSUME QosInit PROVE QosInv
  OBVIOUS
<1>1. /\ groups = {} /\ uses = {} /\ made = 0 /\ meant = {} /\ taken = {} /\ missed = {}
      /\ busy = {} /\ left = {}
      /\ \A c \in Clients : stage[c] = "idle"
  BY DEF QosInit
<1>2. QosTypeOK
  <2>1. stage \in [Clients -> {"idle", "rename", "clean", "done"}]
        /\ spec \in [Clients -> PolicyNames \cup {NoSpec}]
    BY DEF QosInit
  <2>2. made \in Nat
    BY <1>1
  <2> QED
    BY <1>1, <2>1, <2>2 DEF QosTypeOK
<1> QED
  BY <1>1, <1>2 DEF QosInv, Meant, Left, MarkedIsWanted

THEOREM QosInvariant == QosSpec => []QosInv
  BY QosStart, QosStep, PTL DEF QosSpec
-----------------------------------------------------------------------------
\* The names of groups stay unique, marked or not, and a group in use stays.
THEOREM QosTypeCorrect == QosSpec => []QosTypeOK
<1>1. QosInv => QosTypeOK
  BY DEF QosInv
<1> QED
  BY <1>1, QosInvariant, PTL

\* A marking leaves a group it was called for only when its rename failed.
THEOREM MarkedAtReturnHolds == QosSpec => []MarkedAtReturn
<1>1. QosInv => MarkedAtReturn
  BY DEF QosInv, Left, MarkedAtReturn
<1> QED
  BY <1>1, QosInvariant, PTL

\* For any number of clients whose calls fail or are broken off anywhere: a marked group
\* stays only while there is a reason, and one deletion that succeeds makes up for all
\* that were left before.
THEOREM MarkedIsWantedHolds == QosSpec => []MarkedIsWanted
<1>1. QosInv => MarkedIsWanted
  BY DEF QosInv
<1> QED
  BY <1>1, QosInvariant, PTL

\* Whatever any number of clients mark and delete, a group that disappears was to be
\* deleted and was not in use.
THEOREM DeletedWasMeantHolds == QosSpec => DeletedWasMeant
<1> DEFINE Was == \A g \in groups : (\A h \in groups' : h.id # g.id) => g.id \in meant /\ ~Used(g.id)
<1>1. QosInv /\ [QosNext]_qosVars => [Was]_qosVars
  <2> SUFFICES ASSUME QosInv, QosNext PROVE Was
    OBVIOUS
  <2>1. CASE groups \subseteq groups'
    BY <2>1
  <2>2. ASSUME NEW c \in Clients, stage[c] = "rename", ~Taken(spec[c]), groups' = Marked(spec[c])
        PROVE  Was
    BY <2>2, Renamed DEF QosInv, Meant
  <2>3. ASSUME NEW gone \in SUBSET Unused, groups' = groups \ gone
        PROVE  Was
    BY <2>3 DEF Unused, QosInv, Meant
  <2> HIDE DEF Was
  <2>4. ASSUME NEW c \in Clients, QosPolicyGroupRename(c) \/ RenameRefused(c)
                               \/ RenameFails(c) \/ RenameBreaks(c)
        PROVE  Was
    <3>1. \/ groups' = groups
          \/ stage[c] = "rename" /\ ~Taken(spec[c]) /\ groups' = Marked(spec[c])
      BY <2>4 DEF QosPolicyGroupRename, RenameRefused, RenameFails, RenameBreaks, RenamedPerhaps
    <3> QED
      BY <3>1, <2>1, <2>2
  <2>5. ASSUME NEW c \in Clients, RemoveUnused(c) \/ RemoveUnusedFails(c) \/ RemoveUnusedBreaks(c)
        PROVE  Was
    BY <2>5, <2>3 DEF RemoveUnused, RemoveUnusedFails, RemoveUnusedBreaks
  <2>6. ASSUME NEW c \in Clients, MarkReturned(c) \/ \E n \in PolicyNames \cup {NoSpec} : Mark(c, n)
        PROVE  Was
    BY <2>6, <2>1 DEF MarkReturned, Mark
  <2>7. CASE (\E n \in PolicyNames : QosPolicyGroupCreate(n) \/ \E l \in Luns : SetLunQos(l, n))
             \/ \E u \in uses : Released(u)
    BY <2>7, <2>1 DEF QosPolicyGroupCreate, SetLunQos, Released
  <2> QED
    BY <2>4, <2>5, <2>6, <2>7 DEF QosNext
<1> QED
  BY <1>1, QosInvariant, PTL DEF QosSpec, DeletedWasMeant
===============================================================================
