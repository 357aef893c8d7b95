---------------------------- MODULE MCTaskQueue ----------------------------
(* TLC instances of TaskQueue.                                             *)
EXTENDS TaskQueue, TLC

Curve == INSTANCE RetryBackoff

\* The curve in ticks: 1, 2, 2, ... (5s, 10s, ... capped at 5min in the code).
MCBackoff(n) == Curve!ExponentialBackoff(n, 1, 2, 2)

Interchangeable == Permutations(Hosts) \cup Permutations(Reapers)
============================================================================
