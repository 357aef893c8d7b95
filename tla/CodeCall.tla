------------------------------ MODULE CodeCall ------------------------------
(***************************************************************************)
(* What a call of startTask is promised, without runners, offers, timers   *)
(* and connections: it waits in the queue until a runner takes it, and is  *)
(* settled once, by an answer, an error or a cancellation.  Its code       *)
(* begins to run once at most, after a runner took it; a caller that got   *)
(* an error may find it begin later, one that has the answer may not.      *)
(***************************************************************************)
EXTENDS Naturals

CONSTANT Requests

VARIABLES result, begun

vars == <<result, begun>>

Init ==
  /\ result = [q \in Requests |-> "idle"]
  /\ begun = [q \in Requests |-> 0]

\* Calls settle together when the runner they share goes.
Move(S, from, to) ==
  /\ \A q \in S : result[q] = from
  /\ result' = [q \in Requests |-> IF q \in S THEN to ELSE result[q]]
  /\ UNCHANGED begun

Call(q) == Move({q}, "idle", "queued")

Refuse(q) == Move({q}, "idle", "expired")

Expire(q) == Move({q}, "queued", "expired")

Take(q) == Move({q}, "queued", "tasked")

Lose(q) == Move({q}, "queued", "failed")

Answer(q) == Move({q}, "tasked", "returned")

Cancel(q) == Move({q}, "tasked", "cancelled")

Fail(S) == Move(S, "tasked", "failed")

Begin(q) ==
  /\ begun[q] = 0
  /\ result[q] \in {"tasked", "failed", "cancelled"}
  /\ begun' = [begun EXCEPT ![q] = 1]
  /\ UNCHANGED result

Next ==
  \/ \E q \in Requests :
       \/ Call(q) \/ Refuse(q) \/ Expire(q) \/ Take(q) \/ Lose(q) \/ Answer(q) \/ Cancel(q)
       \/ Begin(q)
  \/ \E S \in SUBSET Requests : Fail(S)

Spec == Init /\ [][Next]_vars
=============================================================================
