----------------------------- MODULE PagingProofs -----------------------------
(* What Paging promises of every list, page size and number of changes.     *)
EXTENDS Paging, TLAPS

\* The functions that keep a place in the list.
WithCursor == Functions \ {"7mode_lun_list", "7mode_igroups"}

\* What is behind the place was taken once if it stayed, what lies ahead not yet.
Counted(r) ==
  /\ times[r] = 0 \/ (times[r] = 1 /\ Asked(r))
  /\ getter \in WithCursor =>
       /\ r > cursor => times[r] = 0
       /\ r \in steady /\ Asked(r) /\ r <= cursor => times[r] = 1
  /\ getter = "7mode_lun_list" =>
       /\ VolumeOf[r] \in todo => times[r] = 0
       /\ r \in steady /\ VolumeOf[r] \notin todo \cup skipped => times[r] = 1
  /\ getter = "7mode_igroups" =>
       /\ pc = "page" => times[r] = 0
       /\ pc = "done" /\ r \in steady /\ Asked(r) => times[r] = 1

\* A function is at its end when nothing that stayed is left.
Exhausted(r) ==
  /\ ToTheEnd /\ getter \in WithCursor /\ (pc = "done" \/ (pc = "end" /\ ~failed))
       => (r \in steady /\ Asked(r) => r <= cursor)
  /\ getter = "7mode_lun_list" /\ pc = "done" => VolumeOf[r] \notin todo

\* Who holds an iterator, and when.
Holding ==
  /\ pc \in {"start", "end"} => getter = "7mode_getter"
  /\ held => getter = "7mode_getter" /\ (pc \in {"page", "end"} \/ endFailed)

PagingInv == PagingTypeOK /\ Holding /\ (\A r \in Records : Counted(r) /\ Exhausted(r))

\* The types hold at first and are kept by every step.
LEMMA TypesKept == PagingTypeOK /\ [PagingNext]_pagingVars => PagingTypeOK'
<1> USE PagingAssumption DEF PagingTypeOK, Records
<1> SUFFICES ASSUME PagingTypeOK, [PagingNext]_pagingVars PROVE PagingTypeOK'
  OBVIOUS
<1>1. ASSUME NEW function, NextPage(function) PROVE PagingTypeOK'
  BY <1>1 DEF NextPage, IsPage, Take, byVolume, iterator, filer
<1>2. CASE OnlyPage
  BY <1>2 DEF OnlyPage, IsPage, Take, byVolume, iterator, filer
<1>3. CASE InvokeApi
  BY <1>3 DEF InvokeApi, IsPage, Take, byVolume, iterator, filer
<1>4. CASE PageFails
  BY <1>4 DEF PageFails, result, byVolume, iterator, filer
<1>5. CASE IterStart
  BY <1>5 DEF IterStart, result, byVolume, filer
<1>6. CASE IterStartFails
  BY <1>6 DEF IterStartFails, result, byVolume, filer
<1>7. CASE IterNext
  BY <1>7 DEF IterNext, IsPage, Take, byVolume, iterator, filer
<1>8. CASE IterNextFails
  BY <1>8 DEF IterNextFails, result, byVolume, filer
<1>9. CASE IterEnd
  BY <1>9 DEF IterEnd, result, byVolume, filer
<1>10. CASE IterEndFails
  BY <1>10 DEF IterEndFails, result, byVolume, filer
<1>11. CASE VolLuns
  BY <1>11 DEF VolLuns, Take, iterator, filer
<1>12. CASE VolLunsFail
  BY <1>12 DEF VolLunsFail, result, iterator, filer
<1>13. CASE VolLunsDone
  BY <1>13 DEF VolLunsDone, result, byVolume, iterator, filer
<1>14. CASE AllIgroups
  BY <1>14 DEF AllIgroups, Take, byVolume, iterator, filer
<1>15. CASE \E r \in Records : Added(r) \/ Removed(r)
  <2>1. PICK r \in Records : Added(r) \/ Removed(r)
    BY <1>15
  <2>2. UNCHANGED <<getter, pc, cursor, iter_records, times, todo, skipped, failed, held, endFailed>>
    BY <2>1 DEF Added, Removed, result, byVolume, iterator
  <2>3. changes' \in Nat
    BY <2>1 DEF Added, Removed
  <2>4. stored' \subseteq 1..Last /\ steady' \subseteq stored'
    <3>1. CASE Added(r)
      BY <3>1 DEF Added
    <3>2. CASE Removed(r)
      BY <3>2 DEF Removed
    <3> QED
      BY <2>1, <3>1, <3>2
  <2> QED
    BY <2>2, <2>3, <2>4
<1>16. CASE UNCHANGED pagingVars
  BY <1>16 DEF pagingVars, result, byVolume, iterator, filer
<1> QED
  BY <1>1, <1>2, <1>3, <1>4, <1>5, <1>6, <1>7, <1>8, <1>9, <1>10, <1>11, <1>12, <1>13, <1>14,
     <1>15, <1>16 DEF PagingNext, GetLunList, GetLunMap, GetIgroupByInitiators

\* Only the 7-mode getter holds an iterator, and only until it returns.
LEMMA HoldingKept == PagingTypeOK /\ Holding /\ [PagingNext]_pagingVars => Holding'
<1> SUFFICES ASSUME PagingTypeOK, Holding, [PagingNext]_pagingVars PROVE Holding'
  OBVIOUS
<1> USE DEF Holding
<1>1. ASSUME NEW function \in Paged, NextPage(function) PROVE Holding'
  BY <1>1 DEF NextPage, Paged, byVolume, iterator, filer
<1>2. CASE OnlyPage
  BY <1>2 DEF OnlyPage, byVolume, iterator, filer
<1>3. CASE InvokeApi
  BY <1>3 DEF InvokeApi, byVolume, iterator, filer
<1>4. CASE PageFails
  BY <1>4 DEF PageFails, result, byVolume, iterator, filer
<1>5. CASE IterStart
  BY <1>5 DEF IterStart, result, byVolume, filer
<1>6. CASE IterStartFails
  BY <1>6 DEF IterStartFails, result, byVolume, filer
<1>7. CASE IterNext
  BY <1>7 DEF IterNext, byVolume, iterator, filer
<1>8. CASE IterNextFails
  BY <1>8 DEF IterNextFails, result, byVolume, filer
<1>9. CASE IterEnd
  BY <1>9 DEF IterEnd, result, byVolume, filer
<1>10. CASE IterEndFails
  BY <1>10 DEF IterEndFails, result, byVolume, filer
<1>11. CASE VolLuns
  BY <1>11 DEF VolLuns, iterator, filer
<1>12. CASE VolLunsFail
  BY <1>12 DEF VolLunsFail, result, iterator, filer
<1>13. CASE VolLunsDone
  BY <1>13 DEF VolLunsDone, result, byVolume, iterator, filer
<1>14. CASE AllIgroups
  BY <1>14 DEF AllIgroups, byVolume, iterator, filer
<1>15. CASE \E r \in Records : Added(r) \/ Removed(r)
  BY <1>15 DEF Added, Removed, result, byVolume, iterator
<1>16. CASE UNCHANGED pagingVars
  BY <1>16 DEF pagingVars, result, byVolume, iterator, filer
<1> QED
  BY <1>1, <1>2, <1>3, <1>4, <1>5, <1>6, <1>7, <1>8, <1>9, <1>10, <1>11, <1>12, <1>13, <1>14,
     <1>15, <1>16 DEF PagingNext, GetLunList, GetLunMap, GetIgroupByInitiators, Paged

\* The query of a function selects what the function was asked for.
LEMMA AskedIsSelected == \A r \in Records : Asked(r) => Selected(r)
  BY PagingAssumption DEF Asked, Selected, ByInitiators

\* A page that is taken from the place on moves the place and keeps the count.
LEMMA PageCounted ==
  ASSUME PagingTypeOK, NEW r \in Records, Counted(r), NEW place \in cursor..Last,
         getter \in WithCursor, UNCHANGED <<getter, steady>>,
         Take(PageTo(place)), cursor' = place
  PROVE  Counted(r)'
<1>1. times' = [q \in Records |-> IF q \in PageTo(place) /\ Kept(q) THEN times[q] + 1 ELSE times[q]]
  BY DEF Take
<1>2. Kept(r) <=> Asked(r)
  BY DEF Kept, Asked
<1>3. Asked(r)' <=> Asked(r)
  BY DEF Asked
<1>4. getter \notin {"7mode_lun_list", "7mode_igroups"}
  BY DEF WithCursor
<1>5. cursor \in Int /\ place \in Int /\ r \in Int /\ cursor <= place /\ place <= Last
  BY PagingAssumption DEF PagingTypeOK, Records
<1>6. r \in PageTo(place) <=> r \in stored /\ r > cursor /\ Selected(r) /\ r <= place
  BY DEF PageTo, Ahead
<1>7. times'[r] = IF r \in PageTo(place) /\ Kept(r) THEN times[r] + 1 ELSE times[r]
  BY <1>1
<1>8. steady \subseteq stored
  BY DEF PagingTypeOK
<1>9. r > cursor => times[r] = 0
  BY DEF Counted
<1>10. times'[r] = 0 \/ (times'[r] = 1 /\ Asked(r))
  BY <1>2, <1>6, <1>7, <1>9 DEF Counted
<1>11. r > place => times'[r] = 0
  BY <1>5, <1>6, <1>7, <1>9
<1>12. r \in steady /\ Asked(r) /\ r <= place => times'[r] = 1
  <2>1. CASE r <= cursor
    BY <2>1, <1>5, <1>6, <1>7 DEF Counted
  <2>2. CASE ~(r <= cursor)
    BY <2>2, <1>2, <1>5, <1>6, <1>7, <1>8, <1>9, AskedIsSelected
  <2> QED
    BY <2>1, <2>2
<1> QED
  BY <1>3, <1>4, <1>10, <1>11, <1>12 DEF Counted

\* When nothing lies behind a page, nothing that was asked for is left.
LEMMA PageExhausts ==
  ASSUME PagingTypeOK, NEW r \in Records, NEW place \in cursor..Last, Ahead \subseteq PageTo(place),
         r \in steady, Asked(r)
  PROVE  r <= place
<1>1. cursor \in Int /\ place \in Int /\ r \in Int /\ cursor <= place
  BY PagingAssumption DEF PagingTypeOK, Records
<1>2. r > cursor => r \in Ahead
  BY AskedIsSelected DEF PagingTypeOK, Ahead
<1> QED
  BY <1>1, <1>2 DEF PageTo

\* The count survives every step that takes nothing and leaves the steady records.
LEMMA NothingTaken ==
  ASSUME NEW r \in Records, Counted(r), UNCHANGED <<getter, cursor, times, todo, skipped>>,
         steady' \subseteq steady, getter = "7mode_igroups" => pc' \in {pc, "raised"}
  PROVE  Counted(r)'
<1>1. Asked(r)' <=> Asked(r)
  BY DEF Asked
<1> QED
  BY <1>1 DEF Counted

\* Every step keeps the count of every record.
LEMMA CountedKept ==
  ASSUME PagingTypeOK, Holding, [PagingNext]_pagingVars, NEW r \in Records, Counted(r)
  PROVE  Counted(r)'
<1>1. ASSUME NEW function \in Paged, NextPage(function) PROVE Counted(r)'
  <2>1. getter \in WithCursor
    BY <1>1 DEF NextPage, WithCursor, Functions, Paged
  <2>2. PICK place \in cursor..Last : Take(PageTo(place)) /\ cursor' = place
    BY <1>1 DEF NextPage
  <2> QED
    BY <1>1, <2>1, <2>2, PageCounted DEF NextPage, filer
<1>2. CASE OnlyPage
  <2>1. getter \in WithCursor
    BY <1>2 DEF OnlyPage, WithCursor, Functions, Paged
  <2>2. PICK place \in cursor..Last : Take(PageTo(place)) /\ cursor' = place
    BY <1>2 DEF OnlyPage
  <2> QED
    BY <1>2, <2>1, <2>2, PageCounted DEF OnlyPage, filer
<1>3. CASE InvokeApi
  <2>1. getter \in WithCursor
    BY <1>3 DEF InvokeApi, WithCursor, Functions, Paged
  <2>2. PICK place \in cursor..Last : Take(PageTo(place)) /\ cursor' = place
    BY <1>3 DEF InvokeApi
  <2> QED
    BY <1>3, <2>1, <2>2, PageCounted DEF InvokeApi, filer
<1>4. CASE PageFails
  BY <1>4, NothingTaken DEF PageFails, result, byVolume, filer
<1>5. CASE IterStart
  BY <1>5, NothingTaken DEF IterStart, result, byVolume, filer, Holding
<1>6. CASE IterStartFails
  BY <1>6, NothingTaken DEF IterStartFails, result, byVolume, filer
<1>7. CASE IterNext
  <2>1. getter \in WithCursor
    BY <1>7 DEF IterNext, WithCursor, Functions, Paged
  <2>2. PICK place \in cursor..Last : Take(PageTo(place)) /\ cursor' = place
    BY <1>7 DEF IterNext
  <2> QED
    BY <1>7, <2>1, <2>2, PageCounted DEF IterNext, filer
<1>8. CASE IterNextFails
  BY <1>8, NothingTaken DEF IterNextFails, result, byVolume, filer
<1>9. CASE IterEnd
  BY <1>9, NothingTaken DEF IterEnd, result, byVolume, filer, Holding
<1>10. CASE IterEndFails
  BY <1>10, NothingTaken DEF IterEndFails, result, byVolume, filer
<1>11. CASE VolLuns
  <2>1. PICK v \in todo : /\ Take({q \in stored : VolumeOf[q] = v})
                          /\ todo' = todo \ {v}
    BY <1>11 DEF VolLuns
  <2>2. getter = "7mode_lun_list" /\ getter' = getter /\ UNCHANGED <<skipped, steady>>
    BY <1>11 DEF VolLuns, filer
  <2>3. Kept(r) /\ Asked(r) /\ Asked(r)' /\ getter \notin WithCursor
    BY <2>2 DEF Kept, Asked, ByInitiators, WithCursor
  <2>4. times'[r] = IF r \in stored /\ VolumeOf[r] = v THEN times[r] + 1 ELSE times[r]
    BY <2>1, <2>3 DEF Take
  <2>5. VolumeOf[r] \in todo => times[r] = 0
    BY <2>2 DEF Counted
  <2> QED
    BY <2>1, <2>2, <2>3, <2>4, <2>5 DEF Counted, PagingTypeOK
<1>12. CASE VolLunsFail
  <2>1. UNCHANGED <<getter, times, steady>> /\ getter = "7mode_lun_list"
    BY <1>12 DEF VolLunsFail, result, filer
  <2>2. Asked(r) /\ Asked(r)' /\ getter \notin WithCursor
    BY <2>1 DEF Asked, ByInitiators, WithCursor
  <2> QED
    BY <1>12, <2>1, <2>2 DEF VolLunsFail, Counted
<1>13. CASE VolLunsDone
  BY <1>13, NothingTaken DEF VolLunsDone, result, byVolume, filer
<1>14. CASE AllIgroups
  <2>1. getter = "7mode_igroups" /\ pc = "page" /\ pc' = "done" /\ UNCHANGED <<getter, steady>>
    BY <1>14 DEF AllIgroups, filer
  <2>2. Kept(r) <=> Asked(r)
    BY DEF Kept, Asked
  <2>3. Asked(r)' <=> Asked(r)
    BY <2>1 DEF Asked
  <2>4. times[r] = 0
    BY <2>1 DEF Counted
  <2>5. times'[r] = IF r \in stored /\ Kept(r) THEN times[r] + 1 ELSE times[r]
    BY <1>14 DEF AllIgroups, Take
  <2> QED
    BY <2>1, <2>2, <2>3, <2>4, <2>5 DEF Counted, PagingTypeOK, WithCursor
<1>15. CASE \E q \in Records : Added(q) \/ Removed(q)
  BY <1>15, NothingTaken DEF Added, Removed, result, byVolume
<1>16. CASE UNCHANGED pagingVars
  BY <1>16, NothingTaken DEF pagingVars, result, byVolume, filer
<1> QED
  BY <1>1, <1>2, <1>3, <1>4, <1>5, <1>6, <1>7, <1>8, <1>9, <1>10, <1>11, <1>12, <1>13, <1>14,
     <1>15, <1>16 DEF PagingNext, GetLunList, GetLunMap, GetIgroupByInitiators, Paged

\* A step that changes neither the place nor who runs leaves a function as far
\* as it was.
LEMMA AsFarAsBefore ==
  ASSUME NEW r \in Records, Exhausted(r), UNCHANGED <<getter, cursor, todo>>,
         steady' \subseteq steady,
         pc' = "raised" \/ (pc' = pc /\ failed' = failed)
  PROVE  Exhausted(r)'
  BY DEF Exhausted, Asked, ToTheEnd

\* A function that stops has nothing left to find.
LEMMA ExhaustedKept ==
  ASSUME PagingTypeOK, Holding, [PagingNext]_pagingVars, NEW r \in Records, Counted(r), Exhausted(r)
  PROVE  Exhausted(r)'
<1>0. Asked(r)' <=> Asked(r)
  <2>1. getter' = getter
    BY DEF PagingNext, pagingVars, GetLunList, GetLunMap, GetIgroupByInitiators, NextPage, OnlyPage, InvokeApi,
           PageFails, IterStart, IterStartFails, IterNext, IterNextFails, IterEnd, IterEndFails,
           VolLuns, VolLunsFail, VolLunsDone, AllIgroups, Added, Removed
  <2> QED
    BY <2>1 DEF Asked
<1>1. ASSUME NEW function \in Paged, NextPage(function) PROVE Exhausted(r)'
  <2>1. UNCHANGED <<getter, steady>> /\ getter \notin {"7mode_getter", "7mode_lun_list"}
    BY <1>1 DEF NextPage, filer, Paged
  <2>2. PICK place \in cursor..Last : \E tag \in Tagged(place) :
          /\ cursor' = place
          /\ pc' = IF tag THEN "page" ELSE "done"
    BY <1>1 DEF NextPage
  <2>3. pc' = "done" => Ahead \subseteq PageTo(place)
    BY <2>2 DEF Tagged
  <2>4. pc' # "end"
    BY <2>2
  <2> QED
    BY <1>0, <2>1, <2>2, <2>3, <2>4, PageExhausts DEF Exhausted
<1>2. CASE OnlyPage
  BY <1>2 DEF OnlyPage, Exhausted, ToTheEnd
<1>3. CASE InvokeApi
  <2>1. UNCHANGED <<getter, steady>> /\ getter = "invoke_api"
    BY <1>3 DEF InvokeApi, filer
  <2>2. PICK place \in cursor..Last : \E tag \in Tagged(place) :
          /\ cursor' = place
          /\ pc' = IF tag /\ (Limit > 0 => iter_records' < Limit) THEN "page" ELSE "done"
    BY <1>3 DEF InvokeApi
  <2>3. pc' = "done" /\ Limit = 0 => Ahead \subseteq PageTo(place)
    <3>1. Limit = 0 => ~(Limit > 0)
      BY PagingAssumption
    <3>2. FALSE \in Tagged(place) => Ahead \subseteq PageTo(place)
      BY DEF Tagged
    <3>3. Limit = 0 => \E tag \in Tagged(place) : pc' = IF tag THEN "page" ELSE "done"
      BY <2>2, <3>1
    <3>4. \A tag \in Tagged(place) : tag \in BOOLEAN
      BY DEF Tagged
    <3> QED
      BY <3>2, <3>3, <3>4
  <2>4. pc' # "end"
    BY <2>2
  <2> QED
    BY <1>0, <2>1, <2>2, <2>3, <2>4, PageExhausts DEF Exhausted, ToTheEnd
<1>4. CASE PageFails
  BY <1>4, AsFarAsBefore DEF PageFails, result, byVolume, filer
<1>5. CASE IterStart
  BY <1>5 DEF IterStart, filer, Holding, Exhausted, PagingTypeOK
<1>6. CASE IterStartFails
  BY <1>6, AsFarAsBefore DEF IterStartFails, result, byVolume, filer
<1>7. CASE IterNext
  <2>1. UNCHANGED <<getter, steady>> /\ getter = "7mode_getter"
    BY <1>7 DEF IterNext, filer
  <2>2. PICK place \in cursor..Last :
          /\ PageTo(place) = {} => Ahead = {}
          /\ cursor' = place
          /\ pc' = IF PageTo(place) = {} THEN "end" ELSE "page"
    BY <1>7 DEF IterNext
  <2>3. pc' # "page" => Ahead \subseteq PageTo(place)
    BY <2>2
  <2> QED
    BY <1>0, <2>1, <2>2, <2>3, PageExhausts DEF Exhausted
<1>8. CASE IterNextFails
  BY <1>8 DEF IterNextFails, Exhausted
<1>9. CASE IterEnd
  <2>1. UNCHANGED <<getter, cursor, steady, todo>> /\ pc = "end" /\ getter = "7mode_getter"
    BY <1>9 DEF IterEnd, result, filer, Holding, byVolume
  <2>2. pc' = "done" => ~failed
    BY <1>9 DEF IterEnd
  <2>3. pc' # "end"
    BY <1>9 DEF IterEnd
  <2> QED
    BY <1>0, <2>1, <2>2, <2>3 DEF Exhausted, ToTheEnd
<1>10. CASE IterEndFails
  BY <1>10, AsFarAsBefore DEF IterEndFails, result, byVolume, filer
<1>11. CASE VolLuns
  BY <1>11 DEF VolLuns, Exhausted, WithCursor
<1>12. CASE VolLunsFail
  BY <1>12 DEF VolLunsFail, Exhausted, WithCursor
<1>13. CASE VolLunsDone
  BY <1>13 DEF VolLunsDone, Exhausted, WithCursor, byVolume
<1>14. CASE AllIgroups
  BY <1>14 DEF AllIgroups, Exhausted, WithCursor
<1>15. CASE \E q \in Records : Added(q) \/ Removed(q)
  BY <1>15, AsFarAsBefore DEF Added, Removed, result, byVolume, iterator
<1>16. CASE UNCHANGED pagingVars
  BY <1>16, AsFarAsBefore DEF pagingVars, result, byVolume, iterator, filer
<1> QED
  BY <1>1, <1>2, <1>3, <1>4, <1>5, <1>6, <1>7, <1>8, <1>9, <1>10, <1>11, <1>12, <1>13, <1>14,
     <1>15, <1>16 DEF PagingNext, GetLunList, GetLunMap, GetIgroupByInitiators, Paged

\* The inductive invariant holds in every behaviour.
THEOREM PagingInvariant == PagingSpec => []PagingInv
<1>1. PagingInit => PagingInv
  <2>1. ASSUME PagingInit PROVE PagingTypeOK
    <3>1. pc \in {"start", "page"} /\ steady = stored /\ stored \subseteq Records
      BY <2>1 DEF PagingInit
    <3>2. cursor \in 0..Last /\ times \in [Records -> Nat]
      BY <2>1, PagingAssumption DEF PagingInit, Records
    <3> QED
      BY <2>1, <3>1, <3>2, PagingAssumption DEF PagingInit, PagingTypeOK
  <2>2. PagingInit => Holding
    BY DEF PagingInit, Holding
  <2>3. ASSUME PagingInit, NEW r \in Records PROVE Counted(r) /\ Exhausted(r)
    <3>1. times[r] = 0 /\ cursor = 0 /\ r > cursor /\ todo = Volumes /\ pc \notin {"end", "done"}
      BY <2>3 DEF PagingInit, Records
    <3>2. VolumeOf[r] \in todo
      BY <3>1, PagingAssumption
    <3>3. ~(r <= cursor)
      BY <3>1 DEF Records
    <3> QED
      BY <3>1, <3>2, <3>3 DEF Counted, Exhausted
  <2> QED
    BY <2>1, <2>2, <2>3 DEF PagingInv
<1>2. PagingInv /\ [PagingNext]_pagingVars => PagingInv'
  BY TypesKept, HoldingKept, CountedKept, ExhaustedKept DEF PagingInv, Records
<1> QED
  BY <1>1, <1>2, PTL DEF PagingSpec

\* Every variable has its type; an iterator is known to the function that holds it.
THEOREM PagingTypeCorrect == PagingSpec => []PagingTypeOK
<1>1. PagingInv => PagingTypeOK
  BY DEF PagingInv
<1> QED
  BY <1>1, PagingInvariant, PTL

\* No function returns a record twice, or one that it was not asked for: the
\* place moves past every record it has taken.
THEOREM EachOnceHolds == PagingSpec => []EachOnce
<1>1. PagingInv => EachOnce
  BY DEF PagingInv, EachOnce, Counted
<1> QED
  BY <1>1, PagingInvariant, PTL

\* A function that returns has found what was there all the time, as far as it read.
THEOREM SteadyFoundHolds == PagingSpec => []SteadyFound
<1>1. ASSUME PagingInv, pc = "done", NEW r \in steady, Asked(r)
      PROVE  times[r] = 1 \/ VolumeOf[r] \in skipped \/ (~ToTheEnd /\ r > cursor)
  <2>1. r \in Records /\ Counted(r) /\ Exhausted(r) /\ cursor \in 0..Last
    BY <1>1 DEF PagingInv, PagingTypeOK
  <2>2. CASE getter \in WithCursor
    <3>1. r <= cursor => times[r] = 1
      BY <1>1, <2>1, <2>2 DEF Counted
    <3>2. r <= cursor \/ r > cursor
      BY <2>1, PagingAssumption DEF Records
    <3>3. ToTheEnd => r <= cursor
      BY <1>1, <2>1, <2>2 DEF Exhausted
    <3> QED
      BY <3>1, <3>2, <3>3
  <2>3. CASE getter = "7mode_lun_list"
    BY <1>1, <2>1, <2>3 DEF Counted, Exhausted
  <2>4. CASE getter = "7mode_igroups"
    BY <1>1, <2>1, <2>4 DEF Counted
  <2> QED
    BY <1>1, <2>2, <2>3, <2>4, PagingAssumption DEF PagingInv, PagingTypeOK, WithCursor
<1>2. PagingInv => SteadyFound
  BY <1>1 DEF SteadyFound
<1> QED
  BY <1>2, PagingInvariant, PTL

\* An iterator that stays in the filer had its own request fail.
THEOREM IteratorReleasedHolds == PagingSpec => []IteratorReleased
<1>1. PagingInv => IteratorReleased
  BY DEF PagingInv, Holding, IteratorReleased
<1> QED
  BY <1>1, PagingInvariant, PTL
==============================================================================
