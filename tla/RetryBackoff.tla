---------------------------- MODULE RetryBackoff ----------------------------
(***************************************************************************)
(* The retry curve shared by the executor and the reaper: exponential in   *)
(* the number of the attempt that just failed, and capped.                 *)
(***************************************************************************)
EXTENDS Integers

ExponentialBackoff(attempts, baseMs, factor, maxMs) ==
  LET raw == baseMs * factor ^ (attempts - 1)
  IN  IF attempts < 1 THEN 0 ELSE IF raw < maxMs THEN raw ELSE maxMs
=============================================================================
