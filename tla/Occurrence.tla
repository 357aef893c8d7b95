----------------------------- MODULE Occurrence -----------------------------
(***************************************************************************)
(* What the scheduler promises of a recorded occurrence, without hosts,    *)
(* leases, epochs, timers or sweeps: its status and the attempts counted.  *)
(* A settled occurrence stays settled until retention or the deletion of   *)
(* its job removes it; every retry uses up one attempt, the last one fails *)
(* it, and an occurrence handed back uses up none.                         *)
(***************************************************************************)
EXTENDS Naturals

CONSTANTS Tasks, MaxAttempts

VARIABLES status, attempts

vars == <<status, attempts>>

Init ==
  /\ status = [t \in Tasks |-> "pending"]
  /\ attempts = [t \in Tasks |-> 0]

\* Several rows change status in one statement; their attempts do not.
Move(S, from, to) ==
  /\ \A t \in S : status[t] = from
  /\ status' = [t \in Tasks |-> IF t \in S THEN to ELSE status[t]]
  /\ UNCHANGED attempts

Claim(S) == Move(S, "pending", "running")

Miss(S) == Move(S, "pending", "missed")

Release(t) == Move({t}, "running", "pending")

Succeed(t) == Move({t}, "running", "succeeded")

\* An attempt is used up.
Attempted(t, to) ==
  /\ status[t] = "running"
  /\ status' = [status EXCEPT ![t] = to]
  /\ attempts' = [attempts EXCEPT ![t] = @ + 1]

Retry(t) ==
  /\ attempts[t] + 1 < MaxAttempts
  /\ Attempted(t, "pending")

Fail(t) ==
  /\ attempts[t] + 1 = MaxAttempts
  /\ Attempted(t, "failed")

Delete(t) ==
  /\ status[t] # "deleted"
  /\ status' = [status EXCEPT ![t] = "deleted"]
  /\ attempts' = [attempts EXCEPT ![t] = 0]

Next ==
  \/ \E S \in SUBSET Tasks : Claim(S) \/ Miss(S)
  \/ \E t \in Tasks : Release(t) \/ Succeed(t) \/ Retry(t) \/ Fail(t) \/ Delete(t)

Spec == Init /\ [][Next]_vars
=============================================================================
