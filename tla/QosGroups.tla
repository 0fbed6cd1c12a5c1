------------------------------ MODULE QosGroups ------------------------------
(***************************************************************************)
(* QoS policy groups in cluster mode.  A group may still be in use for a   *)
(* while after its LUN was destroyed, so it is not deleted but renamed     *)
(* (marked), and every such call also has the filer delete all marked      *)
(* groups that are not in use.  Names are unique: a rename is refused when *)
(* the new name is taken.  A NaApiError of either request is only logged;  *)
(* any other exception, such as one raised while the answer is read or     *)
(* parsed, and a kill, end the call where it is, and with it the script.   *)
(* Several clients do so at the same time, for volumes of different names; *)
(* an info that is None or legacy makes nothing and marks nothing.         *)
(***************************************************************************)
EXTENDS Integers, FiniteSets

CONSTANTS
  Clients,
  PolicyNames,  \* spec['policy_name']
  NoSpec,       \* an info without spec
  Luns,
  MaxDelete,    \* max-records of the request that deletes, 3500
  MaxGroups     \* bound: groups that are made

ASSUME QosAssumption == NoSpec \notin PolicyNames /\ MaxDelete \in Nat /\ MaxGroups \in Nat

VARIABLES
  groups,       \* the groups, [id, name, marked]: marked stands for DELETED_PREFIX
  uses,         \* which LUN uses which group, [lun, id]
  made,         \* groups made so far
  stage,        \* "idle", the next request of a marking: "rename", "clean", or "done"
  spec,         \* spec[c]: the name a marking was called with
  meant,        \* the groups that had the name that a marking was called with
  taken,        \* clients whose rename was refused because the new name is taken
  missed,       \* clients whose rename failed otherwise
  busy,         \* the groups in use when the marked ones were last deleted
  left          \* those a call has left marked since: it was broken off, the request
                \* that deletes has failed, or there were too many for it

marking == <<stage, spec, meant, taken, missed>>
qosVars == <<groups, uses, made, marking, busy, left>>

QosInit ==
  /\ groups = {} /\ uses = {} /\ made = 0
  /\ stage = [c \in Clients |-> "idle"]
  /\ spec = [c \in Clients |-> NoSpec]
  /\ meant = {} /\ taken = {} /\ missed = {}
  /\ busy = {} /\ left = {}

Named(n)  == {g \in groups : g.name = n /\ ~g.marked}
Taken(n)  == \E g \in groups : g.name = n /\ g.marked
Used(id)  == \E u \in uses : u.id = id
Unused    == {g \in groups : g.marked /\ ~Used(g.id)}
Ids(gs)   == {g.id : g \in gs}

\* A caller works on a volume at a time, and nobody else on that one.
Free(n) == \A c \in Clients : stage[c] = "idle" \/ spec[c] # n

\* provision_qos_policy_group with a spec: refused when the name exists.
QosPolicyGroupCreate(n) ==
  /\ Free(n) /\ made < MaxGroups
  /\ Named(n) = {}
  /\ made' = made + 1
  /\ groups' = groups \cup {[id |-> made + 1, name |-> n, marked |-> FALSE]}
  /\ UNCHANGED <<uses, marking, busy, left>>

\* set_lun_qos_policy_group
SetLunQos(l, n) ==
  /\ Free(n)
  /\ \E g \in Named(n) : uses' = {u \in uses : u.lun # l} \cup {[lun |-> l, id |-> g.id]}
  /\ UNCHANGED <<groups, made, marking, busy, left>>

\* A LUN was destroyed, and at last the filer notices.
Released(u) ==
  /\ u \in uses
  /\ uses' = uses \ {u}
  /\ UNCHANGED <<groups, made, marking, busy, left>>

\* mark_qos_policy_group_for_deletion is called.
Mark(c, n) ==
  /\ stage[c] = "idle" /\ (n # NoSpec => Free(n))
  /\ stage' = [stage EXCEPT ![c] = IF n = NoSpec THEN "clean" ELSE "rename"]
  /\ spec' = [spec EXCEPT ![c] = n]
  /\ meant' = meant \cup Ids(Named(n))
  /\ UNCHANGED <<groups, uses, made, taken, missed, busy, left>>

Marked(n) == (groups \ Named(n)) \cup {[g EXCEPT !.marked = TRUE] : g \in Named(n)}

\* Mutant: the group is deleted by its name, which is refused while it is in use.
DeleteByName(c) ==
  /\ stage[c] = "rename"
  /\ groups' = {g \in groups : g \notin Named(spec[c]) \/ Used(g.id)}
  /\ stage' = [stage EXCEPT ![c] = "clean"]
  /\ UNCHANGED <<uses, made, spec, meant, taken, missed, busy, left>>

\* Mutant: after the rename the call returns.
RenameAndReturn(c) ==
  /\ stage[c] = "rename" /\ ~Taken(spec[c])
  /\ groups' = Marked(spec[c])
  /\ stage' = [stage EXCEPT ![c] = "done"]
  /\ UNCHANGED <<uses, made, spec, meant, taken, missed, busy, left>>

\* When nobody has the name the rename is refused, which changes nothing either.
QosPolicyGroupRename(c) ==
  /\ stage[c] = "rename" /\ ~Taken(spec[c])
  /\ groups' = Marked(spec[c])
  /\ stage' = [stage EXCEPT ![c] = "clean"]
  /\ UNCHANGED <<uses, made, spec, meant, taken, missed, busy, left>>

\* Logged, and the call goes on.
RenameRefused(c) ==
  /\ stage[c] = "rename" /\ Taken(spec[c])
  /\ taken' = taken \cup {c}
  /\ stage' = [stage EXCEPT ![c] = "clean"]
  /\ UNCHANGED <<groups, uses, made, spec, meant, missed, busy, left>>

\* What a rename that is not answered well has done: all or nothing.
RenamedPerhaps(n) == {groups} \cup (IF Taken(n) THEN {} ELSE {Marked(n)})

\* So it is when the request fails with a NaApiError.
RenameFails(c) ==
  /\ stage[c] = "rename"
  /\ groups' \in RenamedPerhaps(spec[c])
  /\ missed' = missed \cup {c}
  /\ stage' = [stage EXCEPT ![c] = "clean"]
  /\ UNCHANGED <<uses, made, spec, meant, taken, busy, left>>

\* The call is over, and another one may be made.
Leaves(c) ==
  /\ stage' = [stage EXCEPT ![c] = "idle"]
  /\ spec' = [spec EXCEPT ![c] = NoSpec]
  /\ taken' = taken \ {c} /\ missed' = missed \ {c}

\* Another exception, or a kill, while the rename is under way: nothing is deleted.
RenameBreaks(c) ==
  /\ stage[c] = "rename"
  /\ groups' \in RenamedPerhaps(spec[c])
  /\ left' = left \cup Ids(groups' \ groups)
  /\ Leaves(c)
  /\ UNCHANGED <<uses, made, meant, busy>>

\* Mutant: the query has no prefix.
RemoveUnusedOfAnyName(c) ==
  /\ stage[c] = "clean"
  /\ groups' = {g \in groups : Used(g.id)}
  /\ busy' = Ids(uses) /\ left' = {}
  /\ stage' = [stage EXCEPT ![c] = "done"]
  /\ UNCHANGED <<uses, made, spec, meant, taken, missed>>

\* Mutant: groups are deleted by force, also those in use.
RemoveUnusedByForce(c) ==
  /\ stage[c] = "clean"
  /\ groups' = {g \in groups : ~g.marked}
  /\ busy' = Ids(uses) /\ left' = {}
  /\ stage' = [stage EXCEPT ![c] = "done"]
  /\ UNCHANGED <<uses, made, spec, meant, taken, missed>>

\* remove_unused_qos_policy_groups: what is in use is left (continue-on-failure).
RemoveUnused(c) ==
  /\ stage[c] = "clean"
  /\ \E gone \in SUBSET Unused :
       /\ IF Cardinality(Unused) <= MaxDelete THEN gone = Unused
                                              ELSE Cardinality(gone) = MaxDelete
       /\ groups' = groups \ gone
       /\ left' = Ids(Unused \ gone)
  /\ busy' = Ids(uses)
  /\ stage' = [stage EXCEPT ![c] = "done"]
  /\ UNCHANGED <<uses, made, spec, meant, taken, missed>>

\* The request fails with a NaApiError, before or after it deleted some.
RemoveUnusedFails(c) ==
  /\ stage[c] = "clean"
  /\ \E gone \in SUBSET Unused : groups' = groups \ gone
  /\ left' = left \cup Ids({g \in groups' : g.marked})
  /\ stage' = [stage EXCEPT ![c] = "done"]
  /\ UNCHANGED <<uses, made, spec, meant, taken, missed, busy>>

\* Another exception, or a kill, before or while the request is under way.
RemoveUnusedBreaks(c) ==
  /\ stage[c] = "clean"
  /\ \E gone \in SUBSET Unused : groups' = groups \ gone
  /\ left' = left \cup Ids({g \in groups' : g.marked})
  /\ Leaves(c)
  /\ UNCHANGED <<uses, made, meant, busy>>

\* The caller goes on.
MarkReturned(c) ==
  /\ stage[c] = "done"
  /\ Leaves(c)
  /\ UNCHANGED <<groups, uses, made, meant, busy, left>>

QosNext ==
  \/ \E n \in PolicyNames : QosPolicyGroupCreate(n)
  \/ \E l \in Luns, n \in PolicyNames : SetLunQos(l, n)
  \/ \E u \in uses : Released(u)
  \/ \E c \in Clients, n \in PolicyNames \cup {NoSpec} : Mark(c, n)
  \/ \E c \in Clients :
       \/ QosPolicyGroupRename(c) \/ RenameRefused(c) \/ RenameFails(c) \/ RenameBreaks(c)
       \/ RemoveUnused(c) \/ RemoveUnusedFails(c) \/ RemoveUnusedBreaks(c)
       \/ MarkReturned(c)

QosSpec == QosInit /\ [][QosNext]_qosVars
-----------------------------------------------------------------------------
(* Properties *)

\* The types of the variables; a name stands for one group, marked or not, and a
\* group that is in use is there.
QosTypeOK ==
  /\ groups \subseteq [id : 1..made, name : PolicyNames, marked : BOOLEAN]
  /\ \A g, h \in groups : g.id = h.id \/ (g.name = h.name /\ g.marked = h.marked) => g = h
  /\ uses \subseteq [lun : Luns, id : 1..made]
  /\ \A u \in uses : \E g \in groups : g.id = u.id
  /\ made \in Nat
  /\ stage \in [Clients -> {"idle", "rename", "clean", "done"}]
  /\ spec \in [Clients -> PolicyNames \cup {NoSpec}]
  /\ meant \subseteq 1..made
  /\ taken \subseteq Clients /\ missed \subseteq Clients
  /\ busy \subseteq 1..made /\ left \subseteq 1..made

\* A group disappears only when a call to mark it was made while it had its name,
\* and while no LUN uses it, whatever other clients mark and delete.
DeletedWasMeant ==
  [][\A g \in groups :
       (\A h \in groups' : h.id # g.id) => g.id \in meant /\ ~Used(g.id)]_qosVars

\* When a marking returns, the group it was called for is marked or gone, whatever
\* others made, marked and deleted meanwhile, unless its rename was refused or failed.
MarkedAtReturn ==
  \A c \in Clients : \A g \in groups :
    stage[c] = "done" /\ g.name = spec[c] /\ ~g.marked =>
      c \in missed \/ c \in taken \/ g.id \notin meant

\* A marked group is there for a reason: it was in use when the marked ones were last
\* deleted, the request that deletes it is still to come, or a call has left it since.
\* So whatever was left by calls that failed or were broken off is gone, if not in use,
\* once a deletion succeeds, when there are not too many.
MarkedIsWanted ==
  \A g \in groups :
    g.marked => g.id \in busy \cup left \/ \E c \in Clients : stage[c] = "clean"
===============================================================================
