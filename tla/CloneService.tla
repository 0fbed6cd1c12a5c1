---------------------------- MODULE CloneService ----------------------------
(***************************************************************************)
(* What a 7-mode clone promises its caller.  A clone is made in parts, one *)
(* after the other; a part is under way in the filer until it is copied or *)
(* lost.  The answer "ok" comes when everything is copied, "failed" when   *)
(* nothing is under way any more.  With the answer "unsure" a part may be  *)
(* under way, and be copied when the caller has long been told of an error.*)
(***************************************************************************)
EXTENDS Integers

CONSTANTS
  Scripts,
  Parts         \* Parts[p]: the requests that the clone of p takes

VARIABLES
  open,         \* the scripts with a part of their clone under way
  done,         \* done[p]: the parts that are copied
  answer        \* answer[p]: "pending", "ok", "failed", "unsure"

svars == <<open, done, answer>>

Pending(p) == answer[p] = "pending"

Init ==
  /\ open = {}
  /\ done = [p \in Scripts |-> 0]
  /\ answer = [p \in Scripts |-> "pending"]

Begin(p) ==
  /\ Pending(p) /\ p \notin open /\ done[p] < Parts[p]
  /\ open' = open \cup {p}
  /\ UNCHANGED <<done, answer>>

\* Whoever waits for it, or has stopped waiting.
Copy(p) ==
  /\ p \in open
  /\ open' = open \ {p}
  /\ done' = [done EXCEPT ![p] = @ + 1]
  /\ UNCHANGED answer

Lose(p) ==
  /\ p \in open
  /\ open' = open \ {p}
  /\ UNCHANGED <<done, answer>>

\* A part that is copied before the request for it is answered, and perhaps
\* with it the whole clone.
CopyAtOnce(p) ==
  /\ Pending(p) /\ p \notin open /\ done[p] < Parts[p]
  /\ done' = [done EXCEPT ![p] = @ + 1]
  /\ answer' = [answer EXCEPT ![p] = IF done'[p] = Parts[p] THEN "ok" ELSE "pending"]
  /\ UNCHANGED open

AnswerOk(p) ==
  /\ Pending(p) /\ p \notin open /\ done[p] = Parts[p]
  /\ answer' = [answer EXCEPT ![p] = "ok"]
  /\ UNCHANGED <<open, done>>

AnswerFailed(p) ==
  /\ Pending(p) /\ p \notin open
  /\ answer' = [answer EXCEPT ![p] = "failed"]
  /\ UNCHANGED <<open, done>>

AnswerUnsure(p) ==
  /\ Pending(p)
  /\ answer' = [answer EXCEPT ![p] = "unsure"]
  /\ \/ UNCHANGED open
     \/ done[p] < Parts[p] /\ open' = open \cup {p}
  /\ UNCHANGED done

Next ==
  \E p \in Scripts :
    \/ Begin(p) \/ Copy(p) \/ Lose(p) \/ CopyAtOnce(p)
    \/ AnswerOk(p) \/ AnswerFailed(p) \/ AnswerUnsure(p)

Spec == Init /\ [][Next]_svars
==============================================================================
