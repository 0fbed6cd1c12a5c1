---------------------------- MODULE CloneJobProofs ----------------------------
(***************************************************************************)
(* Proofs about CloneJob: what a script may be told, for any number of     *)
(* scripts, parts, attempts and faults.                                    *)
(***************************************************************************)
EXTENDS CloneJob, TLAPS

USE CloneAssumption

\* Each action of a script or of the filer keeps the types.
LEMMA TypeKept == ASSUME TypeOK, [Next]_vars PROVE TypeOK'
<1>1. CASE UNCHANGED vars
  BY <1>1 DEF TypeOK, vars
<1>2. ASSUME NEW p \in Scripts, CloneStart(p) PROVE TypeOK'
  BY <1>2 DEF TypeOK, CloneStart
<1>3. ASSUME NEW p \in Scripts, CloneAtOnce(p) PROVE TypeOK'
  BY <1>3 DEF TypeOK, CloneAtOnce, NextPart
<1>4. ASSUME NEW p \in Scripts, StartFails(p) PROVE TypeOK'
  BY <1>4 DEF TypeOK, StartFails, Raise
<1>5. ASSUME NEW p \in Scripts, CheckCloneStatus(p) PROVE TypeOK'
  BY <1>5 DEF TypeOK, CheckCloneStatus, NextPart, Raise
<1>6. ASSUME NEW p \in Scripts, WaitForCloneFinish(p) PROVE TypeOK'
  BY <1>6 DEF TypeOK, WaitForCloneFinish, NextPart, Raise, ClearFirst
<1>7. ASSUME NEW p \in Scripts, PollFails(p) PROVE TypeOK'
  BY <1>7 DEF TypeOK, PollFails, Raise, ClearFirst
<1>8. ASSUME NEW p \in Scripts, ClearClone(p) PROVE TypeOK'
  BY <1>8 DEF TypeOK, ClearClone, Again
<1>9. ASSUME NEW p \in Scripts, ClearFails(p) PROVE TypeOK'
  BY <1>9 DEF TypeOK, ClearFails, Again
<1>10. ASSUME NEW p \in Scripts, Break(p) PROVE TypeOK'
  BY <1>10 DEF TypeOK, Break, Raise
<1>11. ASSUME NEW p \in Scripts, JobCompletes(p) PROVE TypeOK'
  <2>1. UNCHANGED <<pc, part, why, retry, faults>>
    BY <1>11 DEF JobCompletes, script
  <2>2. copied[p] + 1 \in Nat
    BY DEF TypeOK
  <2>3. copied' \in [Scripts -> Nat]
    BY <1>11, <2>2 DEF JobCompletes, TypeOK
  <2>4. op' \in [Scripts -> {"none", "running", "completed", "failed"}]
    BY <1>11 DEF JobCompletes, TypeOK
  <2>5. QED
    BY <2>1, <2>3, <2>4 DEF TypeOK
<1>12. ASSUME NEW p \in Scripts, JobFails(p) PROVE TypeOK'
  BY <1>12 DEF TypeOK, JobFails, script
<1>13. ASSUME NEW p \in Scripts, JobForgotten(p) PROVE TypeOK'
  BY <1>13 DEF TypeOK, JobForgotten, script
<1>14. QED
  BY <1>1, <1>2, <1>3, <1>4, <1>5, <1>6, <1>7, <1>8, <1>9, <1>10, <1>11, <1>12, <1>13
  DEF Next

\* What the filer has copied agrees with where the script is.
LEMMA ProgressKept == ASSUME TypeOK, Progress, [Next]_vars PROVE Progress'
<1>1. CASE UNCHANGED vars
  BY <1>1 DEF Progress, vars
<1>2. ASSUME NEW p \in Scripts, CloneStart(p) PROVE Progress'
  BY <1>2 DEF TypeOK, Progress, CloneStart
<1>3. ASSUME NEW p \in Scripts, CloneAtOnce(p) PROVE Progress'
  BY <1>3 DEF TypeOK, Progress, CloneAtOnce, NextPart
<1>4. ASSUME NEW p \in Scripts, StartFails(p) PROVE Progress'
  BY <1>4 DEF TypeOK, Progress, StartFails, Raise
<1>5. ASSUME NEW p \in Scripts, CheckCloneStatus(p) PROVE Progress'
  BY <1>5 DEF TypeOK, Progress, CheckCloneStatus, NextPart, Raise
<1>6. ASSUME NEW p \in Scripts, WaitForCloneFinish(p) PROVE Progress'
  BY <1>6 DEF TypeOK, Progress, WaitForCloneFinish, NextPart, Raise, ClearFirst
<1>7. ASSUME NEW p \in Scripts, PollFails(p) PROVE Progress'
  BY <1>7 DEF TypeOK, Progress, PollFails, Raise, ClearFirst
<1>8. ASSUME NEW p \in Scripts, ClearClone(p) PROVE Progress'
  BY <1>8 DEF TypeOK, Progress, ClearClone, Again
<1>9. ASSUME NEW p \in Scripts, ClearFails(p) PROVE Progress'
  BY <1>9 DEF TypeOK, Progress, ClearFails, Again
<1>10. ASSUME NEW p \in Scripts, Break(p) PROVE Progress'
  BY <1>10 DEF TypeOK, Progress, Break, Raise
<1>11. ASSUME NEW p \in Scripts, JobCompletes(p) PROVE Progress'
  BY <1>11 DEF TypeOK, Progress, JobCompletes, script
<1>12. ASSUME NEW p \in Scripts, JobFails(p) PROVE Progress'
  BY <1>12 DEF TypeOK, Progress, JobFails, script
<1>13. ASSUME NEW p \in Scripts, JobForgotten(p) PROVE Progress'
  BY <1>13 DEF TypeOK, Progress, JobForgotten, script
<1>14. QED
  BY <1>1, <1>2, <1>3, <1>4, <1>5, <1>6, <1>7, <1>8, <1>9, <1>10, <1>11, <1>12, <1>13
  DEF Next

\* Attempts are used up by faults only, while there is something to clear.
LEMMA AttemptsKept ==
  ASSUME TypeOK, Progress, Attempts, [Next]_vars PROVE Attempts'
<1>1. CASE UNCHANGED vars
  BY <1>1 DEF Attempts, vars
<1>2. ASSUME NEW p \in Scripts, CloneStart(p) PROVE Attempts'
  BY <1>2 DEF TypeOK, Attempts, CloneStart
<1>3. ASSUME NEW p \in Scripts, CloneAtOnce(p) PROVE Attempts'
  BY <1>3 DEF TypeOK, Attempts, CloneAtOnce, NextPart
<1>4. ASSUME NEW p \in Scripts, StartFails(p) PROVE Attempts'
  BY <1>4 DEF TypeOK, Attempts, StartFails, Raise
<1>5. ASSUME NEW p \in Scripts, CheckCloneStatus(p) PROVE Attempts'
  BY <1>5 DEF TypeOK, Attempts, CheckCloneStatus, NextPart, Raise
<1>6. ASSUME NEW p \in Scripts, WaitForCloneFinish(p) PROVE Attempts'
  BY <1>6 DEF TypeOK, Attempts, WaitForCloneFinish, NextPart, Raise, ClearFirst
<1>7. ASSUME NEW p \in Scripts, PollFails(p) PROVE Attempts'
  BY <1>7 DEF TypeOK, Attempts, PollFails, Raise, ClearFirst
<1>8. ASSUME NEW p \in Scripts, ClearClone(p) PROVE Attempts'
  BY <1>8 DEF TypeOK, Attempts, ClearClone, Again
<1>9. ASSUME NEW p \in Scripts, ClearFails(p) PROVE Attempts'
  BY <1>9 DEF TypeOK, Attempts, ClearFails, Again
<1>10. ASSUME NEW p \in Scripts, Break(p) PROVE Attempts'
  BY <1>10 DEF TypeOK, Attempts, Break, Raise
<1>11. ASSUME NEW p \in Scripts, JobCompletes(p) PROVE Attempts'
  BY <1>11 DEF TypeOK, Attempts, JobCompletes, script
<1>12. ASSUME NEW p \in Scripts, JobFails(p) PROVE Attempts'
  BY <1>12 DEF TypeOK, Progress, Attempts, JobFails, script
<1>13. ASSUME NEW p \in Scripts, JobForgotten(p) PROVE Attempts'
  BY <1>13 DEF TypeOK, Attempts, JobForgotten, script
<1>14. QED
  BY <1>1, <1>2, <1>3, <1>4, <1>5, <1>6, <1>7, <1>8, <1>9, <1>10, <1>11, <1>12, <1>13
  DEF Next

LEMMA JobInvariant == Spec => []JobInv
<1>1. Init => JobInv
  BY DEF Init, JobInv, TypeOK, Progress, Attempts
<1>2. JobInv /\ [Next]_vars => JobInv'
  BY TypeKept, ProgressKept, AttemptsKept DEF JobInv
<1>3. QED
  BY <1>1, <1>2, PTL DEF Spec

\* Every variable has its type, and a script that clears an operation has an attempt left.
THEOREM JobTypeCorrect == Spec => []TypeOK
<1>1. JobInv => TypeOK
  BY DEF JobInv
<1> QED
  BY <1>1, JobInvariant, PTL

\* A failed operation of clone_file stays in the filer only when every attempt
\* of _clear_clone met a failed request, for any number of attempts.
THEOREM FailureIsCleared == Spec => []FailedIsCleared
<1>1. JobInv => FailedIsCleared
  BY DEF JobInv, TypeOK, Attempts, FailedIsCleared
<1>2. QED
  BY <1>1, JobInvariant, PTL

\* A step that the service does not see.
LEMMA Unseen ==
  ASSUME UnderWay' = UnderWay, copied' = copied, \A q \in Scripts : Told(q)' = Told(q)
  PROVE  [Service!Next]_(Service!svars)
<1>1. Answer' = Answer
  BY DEF Answer
<1>2. QED
  BY <1>1 DEF Service!svars

\* A step in which only one script is told something.
LEMMA OneIsTold ==
  ASSUME NEW p \in Scripts, \A q \in Scripts \ {p} : Told(q)' = Told(q)
  PROVE  /\ Answer' = [Answer EXCEPT ![p] = Told(p)']
         /\ Answer[p] = Told(p)
BY DEF Answer

\* Every step of a script or of the filer is one of the service, or unseen.
LEMMA EveryJobStep ==
  ASSUME JobInv, [Next]_vars PROVE [Service!Next]_(Service!svars)
<1> USE DEF JobInv
<1>1. CASE UNCHANGED vars
  BY <1>1, Unseen DEF vars, UnderWay, Told
<1>2. ASSUME NEW p \in Scripts, CloneStart(p) PROVE Service!Begin(p)
  <2>1. \A q \in Scripts : Told(q)' = Told(q)
    BY <1>2 DEF TypeOK, CloneStart, Told
  <2>2. Told(p) = "pending"
    BY <1>2 DEF CloneStart, Told
  <2>3. UnderWay' = UnderWay \cup {p} /\ p \notin UnderWay
    BY <1>2 DEF TypeOK, Progress, CloneStart, UnderWay
  <2>4. copied[p] < Parts[p] /\ copied' = copied
    BY <1>2 DEF TypeOK, Progress, CloneStart
  <2>5. QED
    BY <2>1, <2>2, <2>3, <2>4 DEF Service!Begin, Service!Pending, Answer
<1>3. ASSUME NEW p \in Scripts, CloneAtOnce(p) PROVE Service!CopyAtOnce(p)
  <2>1. \A q \in Scripts \ {p} : Told(q)' = Told(q)
    BY <1>3 DEF TypeOK, CloneAtOnce, NextPart, Told
  <2>2. Told(p) = "pending"
    BY <1>3 DEF CloneAtOnce, Told
  <2>3. UnderWay' = UnderWay /\ p \notin UnderWay
    BY <1>3 DEF TypeOK, Progress, CloneAtOnce, UnderWay
  <2>4. /\ copied[p] = part[p] - 1 /\ part[p] \in 1..Parts[p] /\ Parts[p] \in Nat
        /\ copied' = [copied EXCEPT ![p] = @ + 1] /\ copied'[p] = copied[p] + 1
    BY <1>3 DEF TypeOK, Progress, CloneAtOnce
  <2>5. Told(p)' = IF part[p] < Parts[p] THEN "pending" ELSE "ok"
    BY <1>3 DEF TypeOK, CloneAtOnce, NextPart, Told
  <2>6. Told(p)' = IF copied'[p] = Parts[p] THEN "ok" ELSE "pending"
    BY <2>4, <2>5
  <2>7. QED
    BY <2>1, <2>2, <2>3, <2>4, <2>6, OneIsTold DEF Service!CopyAtOnce, Service!Pending
<1>4. ASSUME NEW p \in Scripts, StartFails(p) PROVE Service!AnswerUnsure(p)
  <2>1. \A q \in Scripts \ {p} : Told(q)' = Told(q)
    BY <1>4 DEF TypeOK, StartFails, Raise, Told
  <2>2. Told(p) = "pending" /\ Told(p)' = "unsure"
    BY <1>4 DEF TypeOK, StartFails, Raise, Told
  <2>3. UnderWay' = UnderWay \/ UnderWay' = UnderWay \cup {p}
    BY <1>4 DEF TypeOK, StartFails, UnderWay
  <2>4. copied[p] < Parts[p] /\ copied' = copied
    BY <1>4 DEF TypeOK, Progress, StartFails
  <2>5. QED
    BY <2>1, <2>2, <2>3, <2>4, OneIsTold DEF Service!AnswerUnsure, Service!Pending
<1>5. ASSUME NEW p \in Scripts, pc[p] \in {"start", "poll", "clear"},
             UNCHANGED <<UnderWay, copied>>, \A q \in Scripts \ {p} : Told(q)' = Told(q),
             \/ Told(p)' = "pending"
             \/ Told(p)' = "ok" /\ p \notin UnderWay /\ copied[p] = Parts[p]
             \/ Told(p)' = "failed" /\ p \notin UnderWay
             \/ Told(p)' = "unsure"
      PROVE  [Service!Next]_(Service!svars)
  <2>1. Told(p) = "pending"
    BY <1>5 DEF Told
  <2>2. CASE Told(p)' = "pending"
    BY <1>5, <2>1, <2>2, Unseen
  <2>3. ASSUME Told(p)' = "ok", p \notin UnderWay, copied[p] = Parts[p]
        PROVE  Service!AnswerOk(p)
    BY <1>5, <2>1, <2>3, OneIsTold DEF Service!AnswerOk, Service!Pending
  <2>4. ASSUME Told(p)' = "failed", p \notin UnderWay PROVE Service!AnswerFailed(p)
    BY <1>5, <2>1, <2>4, OneIsTold DEF Service!AnswerFailed, Service!Pending
  <2>5. ASSUME Told(p)' = "unsure" PROVE Service!AnswerUnsure(p)
    BY <1>5, <2>1, <2>5, OneIsTold DEF Service!AnswerUnsure, Service!Pending
  <2>6. QED
    BY <1>5, <2>2, <2>3, <2>4, <2>5 DEF Service!Next
<1>6. ASSUME NEW p \in Scripts, CheckCloneStatus(p) PROVE [Service!Next]_(Service!svars)
  <2>1. pc[p] = "poll" /\ UNCHANGED <<UnderWay, copied>>
    BY <1>6 DEF CheckCloneStatus, UnderWay
  <2>2. \A q \in Scripts \ {p} : Told(q)' = Told(q)
    BY <1>6 DEF TypeOK, CheckCloneStatus, NextPart, Raise, Told
  <2>3. op[p] = "completed" => p \notin UnderWay /\ copied[p] = part[p]
    BY <2>1 DEF Progress, UnderWay
  <2>4. op[p] = "completed" => Told(p)' = IF part[p] < Parts[p] THEN "pending" ELSE "ok"
    BY <1>6 DEF TypeOK, CheckCloneStatus, NextPart, Told
  <2>5. op[p] # "completed" => Told(p)' = "failed" /\ p \notin UnderWay
    BY <1>6 DEF TypeOK, CheckCloneStatus, Raise, Told, UnderWay
  <2>6. ~(part[p] < Parts[p]) => part[p] = Parts[p]
    BY DEF TypeOK
  <2>7. QED
    BY <1>5, <2>1, <2>2, <2>3, <2>4, <2>5, <2>6
<1>7. ASSUME NEW p \in Scripts, WaitForCloneFinish(p) PROVE [Service!Next]_(Service!svars)
  <2>1. pc[p] = "poll" /\ UNCHANGED <<UnderWay, copied>>
    BY <1>7 DEF WaitForCloneFinish, UnderWay
  <2>2. \A q \in Scripts \ {p} : Told(q)' = Told(q)
    BY <1>7 DEF TypeOK, WaitForCloneFinish, NextPart, Raise, ClearFirst, Told
  <2>3. part[p] = Parts[p]
    BY <1>7 DEF TypeOK, WaitForCloneFinish
  <2>4. op[p] = "completed" => /\ p \notin UnderWay /\ copied[p] = Parts[p]
                               /\ Told(p)' = "ok"
    BY <1>7, <2>1, <2>3 DEF TypeOK, Progress, UnderWay, WaitForCloneFinish, NextPart, Told
  <2>5. op[p] = "failed" => Told(p)' = "pending"
    BY <1>7 DEF TypeOK, WaitForCloneFinish, ClearFirst, Told
  <2>6. op[p] = "none" => Told(p)' = "failed" /\ p \notin UnderWay
    BY <1>7 DEF TypeOK, WaitForCloneFinish, Raise, Told, UnderWay
  <2>7. QED
    BY <1>5, <1>7, <2>1, <2>2, <2>4, <2>5, <2>6 DEF WaitForCloneFinish
<1>8. ASSUME NEW p \in Scripts, PollFails(p) PROVE [Service!Next]_(Service!svars)
  <2>1. pc[p] = "poll" /\ UNCHANGED <<UnderWay, copied>>
    BY <1>8 DEF PollFails, UnderWay
  <2>2. \A q \in Scripts \ {p} : Told(q)' = Told(q)
    BY <1>8 DEF TypeOK, PollFails, Raise, ClearFirst, Told
  <2>3. Told(p)' \in {"pending", "unsure"}
    BY <1>8 DEF TypeOK, PollFails, Raise, ClearFirst, Told
  <2>4. QED
    BY <1>5, <2>1, <2>2, <2>3
<1>9. ASSUME NEW p \in Scripts, ClearClone(p) PROVE [Service!Next]_(Service!svars)
  <2>1. pc[p] = "clear" /\ UNCHANGED <<UnderWay, copied>>
    BY <1>9 DEF TypeOK, ClearClone, UnderWay
  <2>2. \A q \in Scripts \ {p} : Told(q)' = Told(q)
    BY <1>9 DEF TypeOK, ClearClone, Again, Told
  <2>3. \/ Told(p)' \in {"pending", "unsure"}
        \/ Told(p)' = "failed" /\ why[p] = "job"
    BY <1>9 DEF TypeOK, ClearClone, Again, Told
  <2>4. why[p] = "job" => p \notin UnderWay
    BY <2>1 DEF Progress, UnderWay
  <2>5. QED
    BY <1>5, <2>1, <2>2, <2>3, <2>4
<1>10. ASSUME NEW p \in Scripts, ClearFails(p) PROVE [Service!Next]_(Service!svars)
  <2>1. pc[p] = "clear" /\ UNCHANGED <<UnderWay, copied>>
    BY <1>10 DEF ClearFails, UnderWay
  <2>2. \A q \in Scripts \ {p} : Told(q)' = Told(q)
    BY <1>10 DEF TypeOK, ClearFails, Again, Told
  <2>3. \/ Told(p)' \in {"pending", "unsure"}
        \/ Told(p)' = "failed" /\ why[p] = "job"
    BY <1>10 DEF TypeOK, ClearFails, Again, Told
  <2>4. why[p] = "job" => p \notin UnderWay
    BY <2>1 DEF Progress, UnderWay
  <2>5. QED
    BY <1>5, <2>1, <2>2, <2>3, <2>4
<1>11. ASSUME NEW p \in Scripts, Break(p) PROVE [Service!Next]_(Service!svars)
  <2>1. pc[p] \in {"start", "poll", "clear"} /\ UNCHANGED <<UnderWay, copied>>
    BY <1>11 DEF Break, UnderWay
  <2>2. \A q \in Scripts \ {p} : Told(q)' = Told(q)
    BY <1>11 DEF TypeOK, Break, Raise, Told
  <2>3. Told(p)' = "unsure"
    BY <1>11 DEF TypeOK, Break, Raise, Told
  <2>4. QED
    BY <1>5, <2>1, <2>2, <2>3
<1>12. ASSUME NEW p \in Scripts, JobCompletes(p) PROVE Service!Copy(p)
  <2>1. Answer' = Answer
    BY <1>12 DEF JobCompletes, script, Answer, Told
  <2>2. p \in UnderWay /\ UnderWay' = UnderWay \ {p}
    BY <1>12 DEF TypeOK, JobCompletes, UnderWay
  <2>3. QED
    BY <1>12, <2>1, <2>2 DEF JobCompletes, Service!Copy
<1>13. ASSUME NEW p \in Scripts, op[p] = "running", UNCHANGED <<script, copied>>,
              NEW s \in {"failed", "none"}, op' = [op EXCEPT ![p] = s]
       PROVE  Service!Lose(p)
  <2>1. Answer' = Answer
    BY <1>13 DEF script, Answer, Told
  <2>2. p \in UnderWay /\ UnderWay' = UnderWay \ {p}
    BY <1>13 DEF TypeOK, UnderWay
  <2>3. QED
    BY <1>13, <2>1, <2>2 DEF Service!Lose
<1>14. ASSUME NEW p \in Scripts, JobFails(p) \/ JobForgotten(p)
       PROVE  [Service!Next]_(Service!svars)
  <2>1. CASE op[p] = "running"
    BY <1>13, <1>14, <2>1 DEF JobFails, JobForgotten, Service!Next
  <2>2. CASE op[p] # "running"
    <3>1. UnderWay' = UnderWay
      BY <1>14, <2>2 DEF TypeOK, JobFails, JobForgotten, UnderWay
    <3>2. QED
      BY <1>14, <2>2, <3>1, Unseen DEF JobFails, JobForgotten, script, Told
  <2>3. QED
    BY <2>1, <2>2
<1>15. QED
  BY <1>1, <1>2, <1>3, <1>4, <1>6, <1>7, <1>8, <1>9, <1>10, <1>11, <1>12, <1>14
  DEF Next, Service!Next

\* Whatever the filer forgets and whatever request fails: "ok" is answered when
\* all parts are copied, each of them once; the error of the operation is
\* answered when none is under way; and after any answer at most one part comes.
THEOREM CloneServiceRefinement == Spec => ImplementsCloneService
<1>1. Init => Service!Init
  BY DEF Init, Service!Init, UnderWay, Answer, Told
<1>2. JobInv /\ [Next]_vars => [Service!Next]_(Service!svars)
  BY EveryJobStep
<1>3. QED
  BY <1>1, <1>2, JobInvariant, PTL DEF Spec, ImplementsCloneService, Service!Spec

\* What one step does to the place q of a script.
Onward(q) ==
  \/ part'[q] = part[q] + 1 /\ part'[q] <= Parts[q]
  \/ part'[q] = part[q] /\ StepsLeft(q)' \in 0 .. StepsLeft(q) - 1

Stays(q) == pc'[q] = pc[q] /\ part'[q] = part[q] /\ retry'[q] = retry[q]

\* A step of script p moves no other script.
LEMMA OthersStay ==
  ASSUME TypeOK, NEW p \in Scripts,
         \/ CloneStart(p) \/ CloneAtOnce(p) \/ StartFails(p)
         \/ CheckCloneStatus(p) \/ WaitForCloneFinish(p) \/ PollFails(p)
         \/ ClearClone(p) \/ ClearFails(p) \/ Break(p)
         \/ JobCompletes(p) \/ JobFails(p) \/ JobForgotten(p)
  PROVE  \A q \in Scripts \ {p} : Stays(q)
<1>1. CASE CloneStart(p) \/ CloneAtOnce(p) \/ StartFails(p)
  BY <1>1 DEF TypeOK, CloneStart, CloneAtOnce, StartFails, NextPart, Raise, Stays
<1>2. CASE CheckCloneStatus(p)
  BY <1>2 DEF TypeOK, CheckCloneStatus, NextPart, Raise, Stays
<1>3. CASE WaitForCloneFinish(p)
  BY <1>3 DEF TypeOK, WaitForCloneFinish, NextPart, Raise, ClearFirst, Stays
<1>4. CASE PollFails(p)
  BY <1>4 DEF TypeOK, PollFails, Raise, ClearFirst, Stays
<1>5. CASE ClearClone(p) \/ ClearFails(p) \/ Break(p)
  BY <1>5 DEF TypeOK, ClearClone, ClearFails, Break, Again, Raise, Stays
<1>6. CASE JobCompletes(p) \/ JobFails(p) \/ JobForgotten(p)
  BY <1>6 DEF JobCompletes, JobFails, JobForgotten, script, Stays
<1> QED
  BY <1>1, <1>2, <1>3, <1>4, <1>5, <1>6

\* A step of script p brings it onward; one of its operation leaves it where it is.
LEMMA OwnOnward ==
  ASSUME TypeOK, NEW p \in Scripts,
         \/ CloneStart(p) \/ CloneAtOnce(p) \/ StartFails(p)
         \/ CheckCloneStatus(p) \/ WaitForCloneFinish(p) \/ PollFails(p)
         \/ ClearClone(p) \/ ClearFails(p) \/ Break(p)
         \/ JobCompletes(p) \/ JobFails(p) \/ JobForgotten(p)
  PROVE  Stays(p) \/ Onward(p)
<1>0. /\ Retry \in Nat \ {0} /\ part[p] \in Nat /\ Parts[p] \in Nat /\ retry[p] \in Nat
      /\ part[p] <= Parts[p] /\ retry[p] <= Retry
      /\ pc[p] = "clear" => retry[p] > 0
  BY DEF TypeOK
<1>1. /\ pc[p] = "start" => StepsLeft(p) = Retry + 2
      /\ pc[p] = "poll" => StepsLeft(p) = Retry + 1
      /\ pc[p] = "clear" => StepsLeft(p) = retry[p]
  BY DEF StepsLeft
<1>2. /\ pc'[p] = "poll" => StepsLeft(p)' = Retry + 1
      /\ pc'[p] = "clear" => StepsLeft(p)' = retry'[p]
      /\ pc'[p] \in {"ok", "raised"} => StepsLeft(p)' = 0
  BY DEF StepsLeft
<1>3. ASSUME NextPart(p), pc[p] \in {"start", "poll"} PROVE Onward(p)
  BY <1>0, <1>1, <1>2, <1>3 DEF TypeOK, NextPart, Onward
<1>4. ASSUME pc'[p] = "raised", part' = part, pc[p] \in {"start", "poll", "clear"}
      PROVE  Onward(p)
  BY <1>0, <1>1, <1>2, <1>4 DEF Onward
<1>5. ASSUME pc'[p] = "clear", retry'[p] = Retry, part' = part, pc[p] = "poll"
      PROVE  Onward(p)
  BY <1>0, <1>1, <1>2, <1>5 DEF Onward
<1>6. ASSUME Again(p), part' = part, pc[p] = "clear" PROVE Onward(p)
  BY <1>0, <1>1, <1>2, <1>6 DEF TypeOK, Again, Onward
<1>7. CASE CloneStart(p)
  BY <1>0, <1>1, <1>2, <1>7 DEF TypeOK, CloneStart, Onward
<1>8. CASE CloneAtOnce(p)
  BY <1>3, <1>8 DEF CloneAtOnce
<1>9. CASE StartFails(p) \/ Break(p)
  BY <1>4, <1>9 DEF TypeOK, StartFails, Break, Raise
<1>10. CASE CheckCloneStatus(p)
  BY <1>3, <1>4, <1>10 DEF TypeOK, CheckCloneStatus, Raise
<1>11. CASE WaitForCloneFinish(p)
  BY <1>3, <1>4, <1>5, <1>11 DEF TypeOK, WaitForCloneFinish, Raise, ClearFirst
<1>12. CASE PollFails(p)
  BY <1>4, <1>5, <1>12 DEF TypeOK, PollFails, Raise, ClearFirst
<1>13. CASE ClearClone(p) \/ ClearFails(p)
  BY <1>4, <1>6, <1>13 DEF TypeOK, ClearClone, ClearFails
<1>14. CASE JobCompletes(p) \/ JobFails(p) \/ JobForgotten(p)
  BY <1>14 DEF JobCompletes, JobFails, JobForgotten, script, Stays
<1> QED
  BY <1>7, <1>8, <1>9, <1>10, <1>11, <1>12, <1>13, <1>14

\* For any number of scripts, parts and attempts, and whatever the filer answers or
\* forgets: each part takes a script at most Retry + 2 steps that change anything.
THEOREM EachStepCountsHolds == Spec => EachStepCounts
<1> DEFINE Counts == \A p \in Scripts :
                       <<pc[p], part[p], retry[p]>>' # <<pc[p], part[p], retry[p]>> => Onward(p)
<1>1. TypeOK /\ Next => Counts
  <2> SUFFICES ASSUME TypeOK, Next, NEW q \in Scripts PROVE Stays(q) \/ Onward(q)
    BY DEF Stays
  <2>1. PICK p \in Scripts :
          \/ CloneStart(p) \/ CloneAtOnce(p) \/ StartFails(p)
          \/ CheckCloneStatus(p) \/ WaitForCloneFinish(p) \/ PollFails(p)
          \/ ClearClone(p) \/ ClearFails(p) \/ Break(p)
          \/ JobCompletes(p) \/ JobFails(p) \/ JobForgotten(p)
    BY DEF Next
  <2>2. CASE q = p
    BY <2>1, <2>2, OwnOnward
  <2>3. CASE q # p
    BY <2>1, <2>3, OthersStay
  <2> QED
    BY <2>2, <2>3
<1>2. TypeOK /\ [Next]_vars => [Counts]_vars
  BY <1>1
<1> QED
  BY <1>2, JobTypeCorrect, PTL DEF Spec, EachStepCounts, Onward
==============================================================================
