---------------------------- MODULE VolumeService ----------------------------
(***************************************************************************)
(* What the provider promises the program that runs its scripts, and all   *)
(* it promises: a call changes only the volume it names, it takes effect   *)
(* at most once and between its start and its answer, and it is answered   *)
(* with success only after it has taken full effect.  A call answered with *)
(* failure may have had no effect, its full effect, or (create) half of    *)
(* it: a volume that is allocated but that no host can reach.              *)
(***************************************************************************)
CONSTANTS
  Clients,    \* those who call: one script process each
  Requests,   \* what may be asked for
  NewNote     \* the comment of a new volume

VARIABLES
  store,      \* the volumes: [pool, name, size, note, usable]
  call        \* call[c]: [st |-> "idle"], or [st, req] for a call

vars == <<store, call>>

Idle == [st |-> "idle"]

At(pool, name) == {v \in store : v.pool = pool /\ v.name = name}

Becomes(c, st) == call' = [call EXCEPT ![c].st = st]

\* Any effect may be followed by success, or by a failure that hides it.
Answered(c) == Becomes(c, "ok") \/ Becomes(c, "failed")

Init ==
  /\ store = {}
  /\ call = [c \in Clients |-> Idle]

Invoke(c) ==
  /\ call[c] = Idle
  /\ \E r \in Requests : call' = [call EXCEPT ![c] = [st |-> "pending", req |-> r]]
  /\ UNCHANGED store

Pending(c, op) == call[c] # Idle /\ call[c].st = "pending" /\ call[c].req.op = op

\* The first half of create: the volume exists, no host reaches it.
Allocate(c) ==
  /\ Pending(c, "create")
  /\ LET r == call[c].req IN
       /\ At(r.pool, r.name) = {}
       /\ store' = store \cup {[pool |-> r.pool, name |-> r.name, size |-> r.size,
                                note |-> NewNote, usable |-> FALSE]}
  /\ Becomes(c, "half") \/ Becomes(c, "failed")

\* The second half: the hosts reach it.
Publish(c) ==
  /\ call[c] # Idle /\ call[c].st = "half"
  /\ LET r == call[c].req
         new == At(r.pool, r.name) IN
       store' = (store \ new) \cup {[v EXCEPT !.usable = TRUE] : v \in new}
  /\ Answered(c)

Delete(c) ==
  /\ Pending(c, "remove")
  /\ \E v \in store :
       /\ v.name = call[c].req.name
       /\ store' = store \ At(v.pool, v.name)
  /\ Answered(c)

\* The new size is there before the hosts are told of it.
Resize(c) ==
  /\ Pending(c, "grow")
  /\ \E v \in store :
       /\ v.name = call[c].req.name
       /\ store' = (store \ At(v.pool, v.name))
                     \cup {[u EXCEPT !.size = call[c].req.size] : u \in At(v.pool, v.name)}
  /\ Becomes(c, "effect") \/ Becomes(c, "failed")

Annotate(c) ==
  /\ Pending(c, "setinfo")
  /\ \E v \in store :
       /\ v.name = call[c].req.name
       /\ store' = (store \ At(v.pool, v.name))
                     \cup {[u EXCEPT !.note = call[c].req.note] : u \in At(v.pool, v.name)}
  /\ Answered(c)

\* The copy lies beside its source, whatever other pools hold.
Copy(c) ==
  /\ Pending(c, "snapshot")
  /\ \E v \in store :
       /\ v.name = call[c].req.name
       /\ At(v.pool, call[c].req.into) = {}
       /\ store' = store \cup {[pool |-> v.pool, name |-> call[c].req.into, size |-> v.size,
                                note |-> v.note, usable |-> FALSE]}
  /\ Answered(c)

Answer(c) ==
  /\ call[c] # Idle
  /\ \/ call[c].st = "effect" /\ Answered(c)
     \/ call[c].st \in {"pending", "half"} /\ Becomes(c, "failed")
  /\ UNCHANGED store

Release(c) ==
  /\ call[c] # Idle /\ call[c].st \in {"ok", "failed"}
  /\ call' = [call EXCEPT ![c] = Idle]
  /\ UNCHANGED store

Next ==
  \E c \in Clients :
    \/ Invoke(c) \/ Answer(c) \/ Release(c)
    \/ Allocate(c) \/ Publish(c) \/ Delete(c)
    \/ Resize(c) \/ Annotate(c) \/ Copy(c)

Spec == Init /\ [][Next]_vars
==============================================================================
