------------------------------- MODULE CloneJob -------------------------------
(***************************************************************************)
(* Clones in 7-mode: clone_lun and clone_file of client_7mode.  The filer  *)
(* starts a clone operation and answers with its id; the script then polls *)
(* clone-list-status.  The operation goes on whatever becomes of the       *)
(* script.  The filer may forget it: a finished one is purged, a running   *)
(* one is lost when the filer reboots.  Any request may fail.              *)
(***************************************************************************)
EXTENDS Integers

CONSTANTS
  Scripts,
  Kind,         \* Kind[p]: "lun" for clone_lun, "file" for clone_file
  Parts,        \* Parts[p]: z_calls, the requests of a clone_lun; 1 for a file
  Retry,        \* attempts of _clear_clone, 3
  Forgets,      \* the scripts whose operation the filer may forget before it was polled
  MaxFaults     \* bound: requests that fail

ASSUME CloneAssumption ==
  /\ Kind \in [Scripts -> {"lun", "file"}]
  /\ Parts \in [Scripts -> Nat \ {0}]
  /\ \A p \in Scripts : Kind[p] = "file" => Parts[p] = 1
  /\ Retry \in Nat \ {0} /\ Forgets \subseteq Scripts /\ MaxFaults \in Nat

VARIABLES
  pc,           \* "start", "poll", "clear", or the end: "ok", "raised"
  part,         \* the part of the clone that is wanted, from 1
  why,          \* what the exception is about: "none", "job", "request", "killed"
  retry,        \* attempts left to clear the operation
  op,           \* the operation in the filer: "none", "running", "completed", "failed"
  copied,       \* the parts the filer has copied
  faults        \* requests that failed so far

vars == <<pc, part, why, retry, op, copied, faults>>
script == <<pc, part, why, retry>>

Init ==
  /\ pc = [p \in Scripts |-> "start"]
  /\ part = [p \in Scripts |-> 1]
  /\ why = [p \in Scripts |-> "none"]
  /\ retry = [p \in Scripts |-> 0]
  /\ op = [p \in Scripts |-> "none"]
  /\ copied = [p \in Scripts |-> 0]
  /\ faults = 0

Raise(p, reason) ==
  /\ pc' = [pc EXCEPT ![p] = "raised"]
  /\ why' = [why EXCEPT ![p] = reason]

\* The request after the current one, or the end of the loop.
NextPart(p) ==
  IF part[p] < Parts[p]
  THEN pc' = [pc EXCEPT ![p] = "start"] /\ part' = [part EXCEPT ![p] = @ + 1]
  ELSE pc' = [pc EXCEPT ![p] = "ok"] /\ UNCHANGED part

\* clone-start is answered with the id of an operation.
CloneStart(p) ==
  /\ pc[p] = "start"
  /\ op' = [op EXCEPT ![p] = "running"]
  /\ pc' = [pc EXCEPT ![p] = "poll"]
  /\ UNCHANGED <<part, why, retry, copied, faults>>

\* It is answered without a volume-uuid: there is nothing to poll.  The code
\* takes the part as copied, and so it is here.
CloneAtOnce(p) ==
  /\ pc[p] = "start"
  /\ copied' = [copied EXCEPT ![p] = @ + 1]
  /\ op' = [op EXCEPT ![p] = "none"]
  /\ NextPart(p)
  /\ UNCHANGED <<why, retry, faults>>

\* It fails, or takes effect and the answer is lost.
StartFails(p) ==
  /\ pc[p] = "start" /\ faults < MaxFaults
  /\ faults' = faults + 1
  /\ op' \in {op, [op EXCEPT ![p] = "running"]}
  /\ Raise(p, "request")
  /\ UNCHANGED <<part, retry, copied>>

\* Mutant: whatever is not running is taken for completed.
CheckCloneStatusIgnoringFailure(p) ==
  /\ pc[p] = "poll" /\ Kind[p] = "lun"
  /\ op[p] \in {"completed", "failed"}
  /\ NextPart(p)
  /\ UNCHANGED <<why, retry, op, copied, faults>>

\* Mutant: polling goes on until the operation has completed.
CheckCloneStatusUntilCompleted(p) ==
  /\ pc[p] = "poll" /\ Kind[p] = "lun"
  /\ op[p] = "completed"
  /\ NextPart(p)
  /\ UNCHANGED <<why, retry, op, copied, faults>>

\* While the operation is running, or the filer reports none, the loop turns
\* without a change.
CheckCloneStatus(p) ==
  /\ pc[p] = "poll" /\ Kind[p] = "lun"
  /\ \/ op[p] = "completed" /\ NextPart(p) /\ UNCHANGED why
     \/ op[p] = "failed" /\ Raise(p, "job") /\ UNCHANGED part
  /\ UNCHANGED <<retry, op, copied, faults>>

\* The except clause of clone_file.
ClearFirst(p, reason) ==
  /\ pc' = [pc EXCEPT ![p] = "clear"]
  /\ why' = [why EXCEPT ![p] = reason]
  /\ retry' = [retry EXCEPT ![p] = Retry]
  /\ UNCHANGED part

\* Mutant: an operation that is not reported is waited for.
WaitForCloneFinishPatiently(p) ==
  /\ pc[p] = "poll" /\ Kind[p] = "file"
  /\ \/ op[p] = "completed" /\ NextPart(p) /\ UNCHANGED <<why, retry>>
     \/ op[p] = "failed" /\ ClearFirst(p, "job")
  /\ UNCHANGED <<op, copied, faults>>

\* While the operation is running the loop turns; none is UnknownCloneId.
WaitForCloneFinish(p) ==
  /\ pc[p] = "poll" /\ Kind[p] = "file"
  /\ \/ op[p] = "completed" /\ NextPart(p) /\ UNCHANGED <<why, retry>>
     \/ op[p] = "failed" /\ ClearFirst(p, "job")
     \/ op[p] = "none" /\ Raise(p, "job") /\ UNCHANGED <<part, retry>>
  /\ UNCHANGED <<op, copied, faults>>

\* The request of a poll fails.
PollFails(p) ==
  /\ pc[p] = "poll" /\ faults < MaxFaults
  /\ faults' = faults + 1
  /\ IF Kind[p] = "file" THEN ClearFirst(p, "request")
                         ELSE Raise(p, "request") /\ UNCHANGED <<part, retry>>
  /\ UNCHANGED <<op, copied>>

\* Mutant: the count starts at what is left after the first attempt.
AgainButOnce(p) ==
  /\ retry' = [retry EXCEPT ![p] = @ - 1]
  /\ pc' = [pc EXCEPT ![p] = IF retry[p] <= 2 THEN "raised" ELSE "clear"]

\* Mutant: the attempt is counted, and the loop does not end.
AgainOnceMore(p) ==
  /\ retry' = [retry EXCEPT ![p] = @ - 1]
  /\ pc' = [pc EXCEPT ![p] = IF retry[p] = 0 THEN "raised" ELSE "clear"]

\* An attempt has failed; after the last one the first exception goes on.
Again(p) ==
  /\ retry' = [retry EXCEPT ![p] = @ - 1]
  /\ pc' = [pc EXCEPT ![p] = IF retry[p] = 1 THEN "raised" ELSE "clear"]

\* Only a finished operation can be cleared; the filer refuses others.
ClearClone(p) ==
  /\ pc[p] = "clear"
  /\ IF op[p] \in {"completed", "failed"}
     THEN /\ op' = [op EXCEPT ![p] = "none"]
          /\ pc' = [pc EXCEPT ![p] = "raised"] /\ UNCHANGED retry
     ELSE Again(p) /\ UNCHANGED op
  /\ UNCHANGED <<part, why, copied, faults>>

ClearFails(p) ==
  /\ pc[p] = "clear" /\ faults < MaxFaults
  /\ faults' = faults + 1
  /\ Again(p)
  /\ UNCHANGED <<part, why, op, copied>>

\* An exception that is no NaApiError, or a kill.
Break(p) ==
  /\ pc[p] \in {"start", "poll", "clear"}
  /\ Raise(p, "killed")
  /\ UNCHANGED <<part, retry, op, copied, faults>>

\* The filer.
JobCompletes(p) ==
  /\ op[p] = "running"
  /\ op' = [op EXCEPT ![p] = "completed"]
  /\ copied' = [copied EXCEPT ![p] = @ + 1]
  /\ UNCHANGED <<script, faults>>

JobFails(p) ==
  /\ op[p] = "running"
  /\ op' = [op EXCEPT ![p] = "failed"]
  /\ UNCHANGED <<script, copied, faults>>

JobForgotten(p) ==
  /\ p \in Forgets /\ op[p] # "none"
  /\ op' = [op EXCEPT ![p] = "none"]
  /\ UNCHANGED <<script, copied, faults>>

Next ==
  \E p \in Scripts :
    \/ CloneStart(p) \/ CloneAtOnce(p) \/ StartFails(p)
    \/ CheckCloneStatus(p) \/ WaitForCloneFinish(p) \/ PollFails(p)
    \/ ClearClone(p) \/ ClearFails(p) \/ Break(p)
    \/ JobCompletes(p) \/ JobFails(p) \/ JobForgotten(p)

Step(p) ==
  \/ CloneStart(p) \/ CheckCloneStatus(p) \/ WaitForCloneFinish(p) \/ ClearClone(p)

Spec == Init /\ [][Next]_vars

\* A script that can go on does, and the filer ends what it has started.
FairSpec ==
  Spec /\ \A p \in Scripts : WF_vars(Step(p)) /\ WF_vars(JobCompletes(p) \/ JobFails(p))
-----------------------------------------------------------------------------
(* Properties *)

Ended(p) == pc[p] \in {"ok", "raised"}

\* The types of the variables, and the attempts left of a loop that is entered.
TypeOK ==
  /\ pc \in [Scripts -> {"start", "poll", "clear", "ok", "raised"}]
  /\ part \in [Scripts -> Nat] /\ \A p \in Scripts : part[p] \in 1..Parts[p]
  /\ why \in [Scripts -> {"none", "job", "request", "killed"}]
  /\ retry \in [Scripts -> 0..Retry]
  /\ \A p \in Scripts : pc[p] = "clear" => retry[p] > 0
  /\ op \in [Scripts -> {"none", "running", "completed", "failed"}]
  /\ copied \in [Scripts -> Nat] /\ faults \in Nat

UnderWay == {p \in Scripts : op[p] = "running"}

Told(p) ==
  IF pc[p] = "ok" THEN "ok"
  ELSE IF pc[p] # "raised" THEN "pending"
  ELSE IF why[p] = "job" THEN "failed" ELSE "unsure"

Answer == [p \in Scripts |-> Told(p)]

Service == INSTANCE CloneService WITH open <- UnderWay, done <- copied, answer <- Answer

\* A clone that is reported as made is made, in all its parts and once each;
\* when the error reported is that of the operation, nothing of it is to come.
ImplementsCloneService == Service!Spec

\* clone_file ends, whatever the filer forgets ("Waits till a clone operation is
\* complete or errored out").
FileEnds == \A p \in Scripts : Kind[p] = "file" => <>Ended(p)

\* clone_lun ends when the filer keeps its operation until it was polled.
LunEnds == \A p \in Scripts : Kind[p] = "lun" /\ p \notin Forgets => <>Ended(p)

\* clone_lun ends in any case ("Checks for the job till completed").
JobCheckEnds == \A p \in Scripts : Kind[p] = "lun" => <>Ended(p)

\* clone_file that was told of a failed operation leaves it uncleared in the
\* filer only if three requests failed ("Filer might be rebooting").
FailedIsCleared ==
  \A p \in Scripts :
    Kind[p] = "file" /\ pc[p] = "raised" /\ why[p] = "job" /\ op[p] = "failed"
      => faults >= Retry

\* What a script may still do about the part it is at, but for polls that find the
\* operation running: a request, a look at the outcome, and attempts to clear.
StepsLeft(p) ==
  CASE pc[p] = "start" -> Retry + 2
    [] pc[p] = "poll"  -> Retry + 1
    [] pc[p] = "clear" -> retry[p]
    [] OTHER           -> 0

\* What a script does brings it to the next part or leaves it less to do about this
\* one, whatever the filer answers: none of its loops goes round for another reason
\* than an operation that is running, or that _check_clone_status does not find.
EachStepCounts ==
  [][\A p \in Scripts :
       <<pc[p], part[p], retry[p]>>' # <<pc[p], part[p], retry[p]>> =>
         \/ part'[p] = part[p] + 1 /\ part'[p] <= Parts[p]
         \/ part'[p] = part[p] /\ StepsLeft(p)' \in 0 .. StepsLeft(p) - 1]_vars

\* Why the service is implemented: how far the filer is with the current part.
Progress ==
  \A p \in Scripts :
    /\ pc[p] = "start" => op[p] # "running" /\ copied[p] = part[p] - 1
    /\ pc[p] = "poll" => /\ op[p] = "completed" => copied[p] = part[p]
                         /\ op[p] \in {"running", "failed"} => copied[p] = part[p] - 1
    /\ pc[p] = "ok" => op[p] # "running" /\ copied[p] = Parts[p]
    /\ op[p] = "running" => copied[p] < Parts[p]
    /\ pc[p] = "clear" => why[p] \in {"job", "request"}
    /\ pc[p] \in {"clear", "raised"} /\ why[p] = "job" => op[p] # "running"

\* Why a failed operation is cleared: only a fault stops an attempt.
Attempts ==
  \A p \in Scripts :
    Kind[p] = "file" /\ why[p] = "job" /\ op[p] = "failed" =>
      /\ pc[p] = "clear" => faults >= Retry - retry[p]
      /\ pc[p] = "raised" => faults >= Retry

JobInv == TypeOK /\ Progress /\ Attempts
==============================================================================
