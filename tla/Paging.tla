-------------------------------- MODULE Paging --------------------------------
(***************************************************************************)
(* How the clients read lists from the filer, while others add and remove  *)
(* records.  In cluster mode a list comes in pages, and a next-tag says    *)
(* where to go on; in 7-mode an iterator is opened, read and ended, or a   *)
(* list is asked for volume by volume.  Records are numbered in the order  *)
(* of the filer; a tag is a place in that order.                           *)
(***************************************************************************)
EXTENDS Integers, FiniteSets

CONSTANTS
  Last,         \* records have numbers from 1 to Last
  Getters,      \* which functions are used
  MaxRecords,   \* max-records of a page (100), maximum of a 7-mode page
  RecordStep,   \* record_step of invoke_api (50)
  Limit,        \* the records wanted of invoke_api, 0 for all
  Volumes, VolumeOf,       \* VolumeOf[r]: the volume of r
  Initiators, InitiatorsOf, \* InitiatorsOf[r]: those of igroup r
  WantedSet, First,           \* the initiators asked for, and the first of the list
  MaxChanges    \* bound: records that others add or remove

Records == 1..Last

Paged     == {"get_lun_list", "get_lun_map", "get_igroup_by_initiators"}
Functions == Paged \cup {"get_lun_by_args", "invoke_api", "7mode_getter", "7mode_lun_list",
                         "7mode_igroups"}
ByInitiators == {"get_igroup_by_initiators", "7mode_igroups"}

ASSUME PagingAssumption ==
  /\ Last \in Nat /\ MaxRecords \in Nat \ {0} /\ RecordStep \in Nat \ {0} /\ Limit \in Nat
  /\ Getters \subseteq Functions
  /\ VolumeOf \in [Records -> Volumes]
  /\ InitiatorsOf \in [Records -> SUBSET Initiators]
  /\ First \in WantedSet /\ MaxChanges \in Nat

VARIABLES
  getter,       \* the function that runs
  pc,           \* "start", "page", "end", or the end: "done", "raised"
  stored,       \* the records there are
  steady,       \* those that were there all the time
  cursor,       \* the place that the tag stands for
  iter_records, \* the counter of invoke_api
  times,        \* times[r]: how often r is in the result
  todo,         \* volumes to be asked for
  skipped,      \* volumes whose request failed
  failed,       \* the loop of the 7-mode getter was left by an exception
  held,         \* the filer holds an iterator for the 7-mode getter
  endFailed,    \* a start or end request failed: the script cannot know of held
  changes

result   == <<cursor, iter_records, times>>
byVolume == <<todo, skipped>>
iterator == <<failed, held, endFailed>>
filer    == <<stored, steady, changes>>
pagingVars     == <<getter, pc, result, byVolume, iterator, filer>>

PagingInit ==
  /\ getter \in Getters
  /\ pc = IF getter = "7mode_getter" THEN "start" ELSE "page"
  /\ stored \in SUBSET Records
  /\ steady = stored
  /\ cursor = 0 /\ iter_records = 0
  /\ times = [r \in Records |-> 0]
  /\ todo = Volumes /\ skipped = {}
  /\ failed = FALSE /\ held = FALSE /\ endFailed = FALSE /\ changes = 0

\* The filter after the query: igroups that match exactly.
Kept(r) == getter \in ByInitiators => InitiatorsOf[r] = WantedSet

\* What the query selects: of igroups, those with the first initiator.
Selected(r) == getter = "get_igroup_by_initiators" => First \in InitiatorsOf[r]

Ahead == {r \in stored : r > cursor /\ Selected(r)}

\* A page: what lies ahead up to a place, no more than allowed, perhaps nothing.
PageTo(place) == {r \in Ahead : r <= place}

Take(page) ==
  times' = [r \in Records |-> IF r \in page /\ Kept(r) THEN times[r] + 1 ELSE times[r]]

IsPage(place, most) ==
  /\ place \in cursor..Last
  /\ Cardinality(PageTo(place)) <= most

\* next-tag: there is one as long as records lie ahead, and there may be one
\* when none does.
Tagged(place) == IF Ahead \subseteq PageTo(place) THEN BOOLEAN ELSE {TRUE}

\* Mutant: a page without records is taken for the last.
NextPageUntilEmpty(function) ==
  /\ pc = "page" /\ getter = function
  /\ \E place \in cursor..Last : \E tag \in Tagged(place) :
       /\ IsPage(place, MaxRecords)
       /\ Take(PageTo(place))
       /\ cursor' = place
       /\ pc' = IF tag /\ PageTo(place) # {} THEN "page" ELSE "done"
  /\ UNCHANGED <<getter, iter_records, byVolume, iterator, filer>>

\* Mutant: the tag is not sent, and the filer starts over.
NextPageUntagged(function) ==
  /\ pc = "page" /\ getter = function
  /\ \E place \in cursor..Last : \E tag \in Tagged(place) :
       /\ IsPage(place, MaxRecords)
       /\ Take(PageTo(place))
       /\ pc' = IF tag THEN "page" ELSE "done"
  /\ UNCHANGED <<getter, cursor, iter_records, byVolume, iterator, filer>>

\* A turn of the loop of a function that follows the tag.
NextPage(function) ==
  /\ pc = "page" /\ getter = function
  /\ \E place \in cursor..Last : \E tag \in Tagged(place) :
       /\ IsPage(place, MaxRecords)
       /\ Take(PageTo(place))
       /\ cursor' = place
       /\ pc' = IF tag THEN "page" ELSE "done"
  /\ UNCHANGED <<getter, iter_records, byVolume, iterator, filer>>

GetLunList            == NextPage("get_lun_list")
GetLunMap             == NextPage("get_lun_map")
GetIgroupByInitiators == NextPage("get_igroup_by_initiators")

\* get_lun_by_args: the first page, whatever the tag says.
OnlyPage ==
  /\ pc = "page" /\ getter = "get_lun_by_args"
  /\ \E place \in cursor..Last :
       /\ IsPage(place, MaxRecords)
       /\ Take(PageTo(place))
       /\ cursor' = place
  /\ pc' = "done"
  /\ UNCHANGED <<getter, iter_records, byVolume, iterator, filer>>

\* Mutant: counts down the records still wanted, 0 for infinite.
InvokeApiCountingDown ==
  /\ pc = "page" /\ getter = "invoke_api"
  /\ \E place \in cursor..Last : \E tag \in Tagged(place) :
       /\ IsPage(place, RecordStep)
       /\ Take(PageTo(place))
       /\ cursor' = place
       /\ iter_records' = iter_records - RecordStep
       /\ pc' = IF tag /\ iter_records' # 0 THEN "page" ELSE "done"
  /\ UNCHANGED <<getter, byVolume, iterator, filer>>

\* A turn of the loop of invoke_api: a limit is counted in full pages.
InvokeApi ==
  /\ pc = "page" /\ getter = "invoke_api"
  /\ \E place \in cursor..Last : \E tag \in Tagged(place) :
       /\ IsPage(place, RecordStep)
       /\ Take(PageTo(place))
       /\ cursor' = place
       /\ iter_records' = IF Limit > 0 THEN iter_records + RecordStep ELSE 0
       /\ pc' = IF tag /\ (Limit > 0 => iter_records' < Limit) THEN "page" ELSE "done"
  /\ UNCHANGED <<getter, byVolume, iterator, filer>>

\* Any of these requests fails: the exception leaves the function.  Of the requests for
\* the volumes of 7-mode, this is so when it is not the filer that reports the error.
PageFails ==
  /\ pc = "page" /\ getter # "7mode_getter"
  /\ getter = "7mode_lun_list" => todo # {}
  /\ pc' = "raised"
  /\ UNCHANGED <<getter, result, byVolume, iterator, filer>>

\* The 7-mode getter.  Without a tag there is nothing to read.
IterStart ==
  /\ pc = "start"
  /\ IF stored = {} THEN pc' = "done" /\ UNCHANGED held
                    ELSE pc' = "page" /\ held' = TRUE
  /\ UNCHANGED <<getter, failed, endFailed, result, byVolume, filer>>

\* The iterator may be open when the answer is lost.
IterStartFails ==
  /\ pc = "start"
  /\ pc' = "raised" /\ endFailed' = TRUE /\ held' \in BOOLEAN
  /\ UNCHANGED <<getter, failed, result, byVolume, filer>>

\* A turn of its loop: no records means that there are no more.
IterNext ==
  /\ pc = "page" /\ getter = "7mode_getter"
  /\ \E place \in cursor..Last :
       /\ IsPage(place, MaxRecords)
       /\ PageTo(place) = {} => Ahead = {}
       /\ Take(PageTo(place))
       /\ cursor' = place
       /\ pc' = IF PageTo(place) = {} THEN "end" ELSE "page"
  /\ UNCHANGED <<getter, iter_records, byVolume, iterator, filer>>

\* Mutant: without the finally clause.
IterNextRaises ==
  /\ pc = "page" /\ getter = "7mode_getter"
  /\ pc' = "raised"
  /\ UNCHANGED <<getter, result, byVolume, iterator, filer>>

IterNextFails ==
  /\ pc = "page" /\ getter = "7mode_getter"
  /\ failed' = TRUE
  /\ pc' = "end"
  /\ UNCHANGED <<getter, held, endFailed, result, byVolume, filer>>

\* The finally clause; afterwards the exception of the loop goes on.
IterEnd ==
  /\ pc = "end"
  /\ held' = FALSE
  /\ pc' = IF failed THEN "raised" ELSE "done"
  /\ UNCHANGED <<getter, failed, endFailed, result, byVolume, filer>>

\* Its own exception replaces that of the loop.
IterEndFails ==
  /\ pc = "end"
  /\ pc' = "raised" /\ endFailed' = TRUE /\ held' \in BOOLEAN
  /\ UNCHANGED <<getter, failed, result, byVolume, filer>>

\* get_lun_list in 7-mode, with a volume_list: a volume after the other.
VolLuns ==
  /\ pc = "page" /\ getter = "7mode_lun_list" /\ todo # {}
  /\ \E v \in todo :
       /\ Take({r \in stored : VolumeOf[r] = v})
       /\ todo' = todo \ {v}
  /\ UNCHANGED <<getter, pc, cursor, iter_records, skipped, iterator, filer>>

\* A volume whose request the filer answers with an error (NaApiError) is passed over,
\* whatever the error is.
VolLunsFail ==
  /\ pc = "page" /\ getter = "7mode_lun_list" /\ todo # {}
  /\ \E v \in todo : skipped' = skipped \cup {v} /\ todo' = todo \ {v}
  /\ UNCHANGED <<getter, pc, result, iterator, filer>>

VolLunsDone ==
  /\ pc = "page" /\ getter = "7mode_lun_list" /\ todo = {}
  /\ pc' = "done"
  /\ UNCHANGED <<getter, result, byVolume, iterator, filer>>

\* get_igroup_by_initiators in 7-mode: all igroups in one answer, filtered here.
AllIgroups ==
  /\ pc = "page" /\ getter = "7mode_igroups"
  /\ Take(stored)
  /\ pc' = "done"
  /\ UNCHANGED <<getter, cursor, iter_records, byVolume, iterator, filer>>

\* Other clients of the filer.
Added(r) ==
  /\ changes < MaxChanges /\ r \notin stored
  /\ stored' = stored \cup {r} /\ changes' = changes + 1
  /\ UNCHANGED <<getter, pc, result, byVolume, iterator, steady>>

Removed(r) ==
  /\ changes < MaxChanges /\ r \in stored
  /\ stored' = stored \ {r} /\ steady' = steady \ {r} /\ changes' = changes + 1
  /\ UNCHANGED <<getter, pc, result, byVolume, iterator>>

PagingNext ==
  \/ GetLunList \/ GetLunMap \/ GetIgroupByInitiators \/ OnlyPage \/ InvokeApi \/ PageFails
  \/ IterStart \/ IterStartFails \/ IterNext \/ IterNextFails \/ IterEnd \/ IterEndFails
  \/ VolLuns \/ VolLunsFail \/ VolLunsDone \/ AllIgroups
  \/ \E r \in Records : Added(r) \/ Removed(r)

PagingSpec == PagingInit /\ [][PagingNext]_pagingVars
-----------------------------------------------------------------------------
(* Properties *)

\* What the function was asked for.
Asked(r) == getter \in ByInitiators => InitiatorsOf[r] = WantedSet

\* The types of the variables.
PagingTypeOK ==
  /\ getter \in Getters /\ pc \in {"start", "page", "end", "done", "raised"}
  /\ stored \subseteq Records /\ steady \subseteq stored
  /\ cursor \in 0..Last /\ iter_records \in Nat
  /\ times \in [Records -> Nat]
  /\ todo \subseteq Volumes /\ skipped \subseteq Volumes
  /\ failed \in BOOLEAN /\ held \in BOOLEAN /\ endFailed \in BOOLEAN /\ changes \in Nat

\* A record is in the result once at most, and only if it was asked for ("Get
\* igroups exactly matching a set of initiators"), whatever others change.
EachOnce == \A r \in Records : times[r] <= 1 /\ (times[r] = 1 => Asked(r))

\* The functions that read to the end; get_lun_by_args reads one page.
ToTheEnd == getter # "get_lun_by_args" /\ (getter = "invoke_api" => Limit = 0)

\* A function that returns has found every record that was there all the time; the
\* 7-mode list may lack those of a volume whose request failed, and a function that
\* stops early those that lie beyond the place where it stopped.
SteadyFound ==
  pc = "done" =>
    \A r \in steady : Asked(r) =>
      times[r] = 1 \/ VolumeOf[r] \in skipped \/ (~ToTheEnd /\ r > cursor)

\* A 7-mode iterator is released, also when a page could not be read; only its
\* own start or end request can leave it in the filer.
IteratorReleased == pc \in {"done", "raised"} /\ held => endFailed
==============================================================================
