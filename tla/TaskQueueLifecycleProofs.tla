---------------------- MODULE TaskQueueLifecycleProofs ----------------------
(***************************************************************************)
(* TaskQueue implements Occurrence, for every value of the constants: each *)
(* statement on the table is one step of the life cycle of an occurrence,  *)
(* or none.  What a statement does to a row follows from its guards and,   *)
(* where it counts an attempt it knows from a snapshot, from the           *)
(* invariants of TaskQueueBudgetProofs.                                    *)
(***************************************************************************)
EXTENDS TaskQueueBudgetProofs

-----------------------------------------------------------------------------
(* A step of the table, as the life cycle sees it.                         *)

Same(u) ==
  row'[u].status = row[u].status /\ row'[u].attempts = row[u].attempts

Moved(u, from, to) ==
  /\ row[u].status = from /\ row'[u].status = to
  /\ row'[u].attempts = row[u].attempts

Counted(u, to) ==
  /\ row[u].status = "running" /\ row'[u].status = to
  /\ row'[u].attempts = row[u].attempts + 1

OneMoves(u) ==
  \/ Moved(u, "pending", "missed")
  \/ Moved(u, "running", "pending")
  \/ Moved(u, "running", "succeeded")
  \/ Counted(u, "pending") /\ row[u].attempts + 1 < MaxAttempts
  \/ Counted(u, "failed") /\ row[u].attempts + 1 = MaxAttempts
  \/ row[u].status # "deleted" /\ row'[u].status = "deleted" /\ row'[u].attempts = 0

SomeMove(S, from, to) ==
  \A u \in Tasks : IF u \in S THEN Moved(u, from, to) ELSE Same(u)

TableMoves ==
  \/ \A u \in Tasks : Same(u)
  \/ \E S \in SUBSET Tasks : SomeMove(S, "pending", "running")
  \/ \E S \in SUBSET Tasks : SomeMove(S, "pending", "missed")
  \/ \E t \in Tasks : OneMoves(t) /\ \A u \in Tasks : u # t => Same(u)

\* A table that moves so is a step of Occurrence, or a stutter.
LEMMA MovesImplement ==
  ASSUME TypeOK, TypeOK', TableMoves
  PROVE  [Abstract!Next]_(Abstract!vars)
<1> DEFINE status == [t \in Tasks |-> row[t].status]
           attempts == [t \in Tasks |-> row[t].attempts]
<1>1. CASE \A u \in Tasks : Same(u)
  BY <1>1 DEF Same, Abstract!vars
<1>2. ASSUME NEW S \in SUBSET Tasks, NEW from, NEW to, SomeMove(S, from, to)
      PROVE  Abstract!Move(S, from, to)
  <2>1. /\ \A u \in S : row[u].status = from
        /\ \A u \in Tasks : row'[u].status = IF u \in S THEN to ELSE row[u].status
        /\ \A u \in Tasks : row'[u].attempts = row[u].attempts
    BY <1>2 DEF SomeMove, Moved, Same
  <2> QED
    BY <2>1 DEF Abstract!Move
<1>3. CASE \E S \in SUBSET Tasks : SomeMove(S, "pending", "running")
  BY <1>2, <1>3 DEF Abstract!Next, Abstract!Claim
<1>4. CASE \E S \in SUBSET Tasks : SomeMove(S, "pending", "missed")
  BY <1>2, <1>4 DEF Abstract!Next, Abstract!Miss
<1>5. ASSUME NEW t \in Tasks, OneMoves(t), \A u \in Tasks : u # t => Same(u)
      PROVE  Abstract!Next
  <2>0. \A u \in Tasks : row'[u].attempts \in Nat /\ row[u].attempts \in Nat
    BY DEF TypeOK, Row
  <2>1. ASSUME NEW from, NEW to, Moved(t, from, to) PROVE Abstract!Move({t}, from, to)
    <3>1. SomeMove({t}, from, to)
      BY <1>5, <2>1 DEF SomeMove
    <3> QED
      BY <1>2, <3>1
  <2>2. ASSUME NEW to, Counted(t, to) PROVE Abstract!Attempted(t, to)
    <3>1. /\ row[t].status = "running"
          /\ \A u \in Tasks : row'[u].status = IF u = t THEN to ELSE row[u].status
          /\ \A u \in Tasks : row'[u].attempts =
               IF u = t THEN row[u].attempts + 1 ELSE row[u].attempts
      BY <1>5, <2>2 DEF Counted, Same
    <3> QED
      BY <3>1 DEF Abstract!Attempted
  <2>3. CASE Moved(t, "pending", "missed")
    BY <2>1, <2>3 DEF Abstract!Next, Abstract!Miss
  <2>4. CASE Moved(t, "running", "pending")
    BY <2>1, <2>4 DEF Abstract!Next, Abstract!Release
  <2>5. CASE Moved(t, "running", "succeeded")
    BY <2>1, <2>5 DEF Abstract!Next, Abstract!Succeed
  <2>6. CASE Counted(t, "pending") /\ row[t].attempts + 1 < MaxAttempts
    BY <2>2, <2>6 DEF Abstract!Next, Abstract!Retry
  <2>7. CASE Counted(t, "failed") /\ row[t].attempts + 1 = MaxAttempts
    BY <2>2, <2>7 DEF Abstract!Next, Abstract!Fail
  <2>8. CASE row[t].status # "deleted" /\ row'[t].status = "deleted" /\ row'[t].attempts = 0
    <3>1. /\ row[t].status # "deleted"
          /\ \A u \in Tasks : row'[u].status = IF u = t THEN "deleted" ELSE row[u].status
          /\ \A u \in Tasks : row'[u].attempts = IF u = t THEN 0 ELSE row[u].attempts
      BY <1>5, <2>8 DEF Same
    <3>2. Abstract!Delete(t)
      BY <3>1 DEF Abstract!Delete
    <3> QED
      BY <3>2 DEF Abstract!Next
  <2> QED
    BY <1>5, <2>3, <2>4, <2>5, <2>6, <2>7, <2>8 DEF OneMoves
<1> QED
  BY <1>1, <1>3, <1>4, <1>5 DEF TableMoves

-----------------------------------------------------------------------------
(* Every action moves the table so.                                        *)

LEMMA RowKept == UNCHANGED row => TableMoves
BY DEF TableMoves, Same

LEMMA OneRowMoves ==
  ASSUME NEW t \in Tasks, Same(t) \/ OneMoves(t),
         \A u \in Tasks : u # t => row'[u] = row[u]
  PROVE  TableMoves
<1>1. \A u \in Tasks : u # t => Same(u)
  BY DEF Same
<1>2. CASE Same(t)
  BY <1>1, <1>2 DEF TableMoves
<1>3. CASE OneMoves(t)
  BY <1>1, <1>3 DEF TableMoves
<1> QED
  BY <1>2, <1>3

\* A guarded write of a claim or of a sweep: a row that matches is running.
LEMMA GuardedMoves ==
  ASSUME TypeOK, NEW h, NEW t \in Tasks, NEW e \in Epochs, NEW r \in Row,
         GuardedUpdate(h, t, e, r),
         Matches(h, t, e) =>
           \/ r.attempts = row[t].attempts /\ r.status \in {"running", "pending", "succeeded"}
           \/ /\ r.attempts = row[t].attempts + 1
              /\ \/ r.status = "pending" /\ row[t].attempts + 1 < MaxAttempts
                 \/ r.status = "failed" /\ row[t].attempts + 1 = MaxAttempts
  PROVE  TableMoves
<1>1. /\ row'[t] = IF Matches(h, t, e) THEN r ELSE row[t]
      /\ \A u \in Tasks : u # t => row'[u] = row[u]
  BY GuardedFacts DEF TypeOK
<1>2. Same(t) \/ OneMoves(t)
  BY <1>1 DEF Same, OneMoves, Moved, Counted, Matches
<1> QED
  BY <1>1, <1>2, OneRowMoves

LEMMA ReaperMoves ==
  ASSUME TypeOK, NEW q \in Reapers, NEW t \in Tasks, NEW r \in Row,
         ReaperUpdate(q, t, r),
         ReaperMatches(t, sweep[q][t]) =>
           \/ r.attempts = row[t].attempts /\ r.status = "succeeded"
           \/ /\ r.attempts = row[t].attempts + 1
              /\ \/ r.status = "pending" /\ row[t].attempts + 1 < MaxAttempts
                 \/ r.status = "failed" /\ row[t].attempts + 1 = MaxAttempts
  PROVE  TableMoves
<1>1. /\ row'[t] = IF ReaperMatches(t, sweep[q][t]) THEN r ELSE row[t]
      /\ \A u \in Tasks : u # t => row'[u] = row[u]
  BY ReaperUpdateType
<1>2. Same(t) \/ OneMoves(t)
  BY <1>1 DEF Same, OneMoves, Moved, Counted, ReaperMatches, LeaseExpired
<1> QED
  BY <1>1, <1>2, OneRowMoves

LEMMA FireStepMoves ==
  ASSUME TypeOK, BudgetInv, NEW t \in Tasks, NEW e \in Epochs, FireStep(t, e)
  PROVE  TableMoves
<1>a. /\ fire[t][e] \in Fire /\ row[t] \in Row /\ 0 \in Int /\ Lease \in Int
      /\ row \in [Tasks -> Row] /\ MaxAttempts \in Nat
      /\ RowSound(t) /\ ClaimCurrent(t, e)
  BY TaskQueueAssumption DEF TypeOK, BudgetInv, TaskInv
<1>1. CASE \/ TimerFires(t, e) \/ ReportDispatched(t, e) \/ MarkFails(t, e)
           \/ HandlerReturns(t, e) \/ HandlerThrows(t, e) \/ WriteRejects(t, e)
  BY <1>1, RowKept DEF TimerFires, ReportDispatched, MarkFails, HandlerReturns,
                       HandlerThrows, WriteRejects
<1>2. CASE BeginDispatch(t, e)
  <2> DEFINE r == [row[t] EXCEPT !.startedAt = TRUE, !.lease = Lease]
  <2>1. r \in Row /\ r.status = row[t].status /\ r.attempts = row[t].attempts
    BY <1>a DEF Row
  <2>2. CASE SetRow(t, r)
    <3>1. row'[t] = r /\ \A u \in Tasks : u # t => row'[u] = row[u]
      BY <1>a, <2>1, <2>2, SetRowFacts
    <3> QED
      BY <2>1, <3>1, OneRowMoves DEF Same
  <2> QED
    BY <1>2, <2>2, RowKept DEF BeginDispatch
<1>3. CASE MarkDispatched(t, e)
  <2> DEFINE r == [row[t] EXCEPT !.dispatchedAt = TRUE]
  <2>1. r \in Row /\ r.status = row[t].status /\ r.attempts = row[t].attempts
    BY <1>a DEF Row
  <2>2. GuardedUpdate(fire[t][e].host, t, e, r)
    BY <1>3 DEF MarkDispatched
  <2> HIDE DEF r
  <2> QED
    BY <2>1, <2>2, GuardedMoves DEF Matches
<1>4. CASE CompleteTask(t, e)
  <2> DEFINE r == [row[t] EXCEPT !.status = "succeeded"]
  <2>1. r \in Row /\ r.status = "succeeded" /\ r.attempts = row[t].attempts
    BY <1>a, StatusType DEF Row, Statuses, Terminal
  <2>2. GuardedUpdate(fire[t][e].host, t, e, r)
    BY <1>4 DEF CompleteTask
  <2> HIDE DEF r
  <2> QED
    BY <2>1, <2>2, GuardedMoves
<1>5. CASE FailTaskTerminal(t, e)
  <2> DEFINE r == [row[t] EXCEPT !.status = "failed", !.attempts = @ + 1]
             h == fire[t][e].host
  <2>1. r \in Row /\ r.status = "failed" /\ r.attempts = row[t].attempts + 1
    BY <1>a, CountedType DEF Row, Statuses, Terminal
  <2>2. GuardedUpdate(h, t, e, r)
    BY <1>5 DEF FailTaskTerminal
  <2>3. ASSUME Matches(h, t, e) PROVE row[t].attempts + 1 = MaxAttempts
    <3>1. fire[t][e].attempts = row[t].attempts /\ row[t].attempts < MaxAttempts
      BY <1>5, <1>a, <2>3 DEF FailTaskTerminal, ClaimCurrent, Held, Matches, RowSound
    <3>2. row[t].attempts + 1 >= MaxAttempts /\ row[t].attempts \in Nat
      BY <1>5, <1>a, <3>1 DEF FailTaskTerminal, NextAttempts, Row
    <3> QED
      BY <1>a, <3>1, <3>2
  <2> HIDE DEF r, h
  <2> QED
    BY <2>1, <2>2, <2>3, GuardedMoves
<1>6. CASE RescheduleTask(t, e)
  <2> DEFINE k == Backoff(NextAttempts(t, e))
             r == [Cleared(row[t]) EXCEPT !.status = "pending", !.attempts = @ + 1,
                                          !.runAt = k]
             h == fire[t][e].host
  <2>0. NextAttempts(t, e) \in 1..MaxAttempts
    BY <1>6, <1>a DEF RescheduleTask, NextAttempts, Fire
  <2>k. k \in Int
    BY <2>0, TaskQueueAssumption
  <2> HIDE DEF k
  <2>1. r \in Row /\ r.status = "pending" /\ r.attempts = row[t].attempts + 1
    BY <1>a, <2>k, RetriedRow
  <2>2. GuardedUpdate(h, t, e, r)
    BY <1>6 DEF RescheduleTask, k
  <2>3. ASSUME Matches(h, t, e) PROVE row[t].attempts + 1 < MaxAttempts
    <3>1. fire[t][e].attempts = row[t].attempts
      BY <1>6, <1>a, <2>3 DEF RescheduleTask, ClaimCurrent, Held, Matches
    <3> QED
      BY <1>6, <3>1 DEF RescheduleTask, NextAttempts
  <2> HIDE DEF r, h
  <2> QED
    BY <2>1, <2>2, <2>3, GuardedMoves
<1> QED
  BY <1>1, <1>2, <1>3, <1>4, <1>5, <1>6 DEF FireStep

LEMMA HostStepMoves ==
  ASSUME TypeOK, NEW h \in Hosts, HostStep(h)
  PROVE  TableMoves
<1>a. row \in [Tasks -> Row]
  BY DEF TypeOK
<1>1. ASSUME NEW S \in SUBSET Tasks, ClaimDueTasks(h, S) PROVE TableMoves
  <2>1. ASSUME NEW u \in Tasks
        PROVE  IF u \in S THEN Moved(u, "pending", "running") ELSE Same(u)
    <3>0. row[u] \in Row
      BY <1>a
    <3>1. CASE u \in S
      BY <1>1, <3>0, <3>1 DEF ClaimDueTasks, Due, Moved, Row
    <3>2. CASE u \notin S
      BY <1>1, <3>2 DEF ClaimDueTasks, Same
    <3> QED
      BY <3>1, <3>2
  <2> QED
    BY <2>1 DEF TableMoves, SomeMove
<1>2. ASSUME NEW t \in Tasks, NEW e \in Epochs, ReleaseClaim(h, t, e) PROVE TableMoves
  <2> DEFINE r == [Cleared(row[t]) EXCEPT !.status = "pending"]
  <2>0. Cleared(row[t]) \in Row /\ row[t] \in Row
    BY <1>a, ClearedFacts
  <2>1. r \in Row /\ r.status = "pending" /\ r.attempts = row[t].attempts
    BY <2>0, ClearedFacts, StatusType DEF Row, Statuses
  <2>2. GuardedUpdate(h, t, e, r)
    BY <1>2 DEF ReleaseClaim
  <2> HIDE DEF r
  <2> QED
    BY <2>1, <2>2, GuardedMoves
<1>3. CASE UNCHANGED row
  BY <1>3, RowKept
<1> QED
  BY <1>1, <1>2, <1>3 DEF HostStep, ScheduleClaimed, HandBackClaims, ReleaseRejects,
                          Stop, Crash, Restart

LEMMA ReaperStepMoves ==
  ASSUME TypeOK, BudgetInv, NEW q \in Reapers, ReaperStep(q)
  PROVE  TableMoves
<1>a. row \in [Tasks -> Row] /\ MaxAttempts \in Nat
  BY TaskQueueAssumption DEF TypeOK
<1>1. ASSUME NEW S \in SUBSET Tasks, RetireMissedPending(q, S) PROVE TableMoves
  <2>1. ASSUME NEW u \in Tasks
        PROVE  IF u \in S THEN Moved(u, "pending", "missed") ELSE Same(u)
    <3>0. row[u] \in Row
      BY <1>a
    <3>1. CASE u \in S
      BY <1>1, <3>0, <3>1 DEF RetireMissedPending, Moved, Row
    <3>2. CASE u \notin S
      BY <1>1, <3>2 DEF RetireMissedPending, Same
    <3> QED
      BY <3>1, <3>2
  <2> QED
    BY <2>1 DEF TableMoves, SomeMove
<1>2. ASSUME NEW t \in Tasks, CompleteExpired(q, t) PROVE TableMoves
  <2> DEFINE r == [row[t] EXCEPT !.status = "succeeded"]
  <2>0. row[t] \in Row
    BY <1>a
  <2>1. r \in Row /\ r.status = "succeeded" /\ r.attempts = row[t].attempts
    BY <2>0, StatusType DEF Row, Statuses, Terminal
  <2>2. ReaperUpdate(q, t, r)
    BY <1>2 DEF CompleteExpired
  <2> HIDE DEF r
  <2> QED
    BY <2>1, <2>2, ReaperMoves
<1>3. ASSUME NEW t \in Tasks, DeadLetterExpired(q, t) PROVE TableMoves
  <2> DEFINE r == [row[t] EXCEPT !.status = "failed", !.attempts = @ + 1]
  <2>1. r \in Row /\ r.status = "failed" /\ r.attempts = row[t].attempts + 1
    BY <1>a, CountedType DEF Row, Statuses, Terminal
  <2>2. ReaperUpdate(q, t, r)
    BY <1>3 DEF DeadLetterExpired
  <2>3. ASSUME ReaperMatches(t, sweep[q][t]) PROVE row[t].attempts + 1 = MaxAttempts
    <3>1. /\ sweep[q][t].attempts = row[t].attempts
          /\ row[t].attempts < MaxAttempts /\ row[t].attempts + 1 >= MaxAttempts
      BY <1>3, <2>3, SweepMatches DEF DeadLetterExpired
    <3>2. row[t].attempts \in Nat
      BY <1>a DEF Row
    <3> QED
      BY <1>a, <3>1, <3>2
  <2> HIDE DEF r
  <2> QED
    BY <2>1, <2>2, <2>3, ReaperMoves
<1>4. ASSUME NEW t \in Tasks, ReclaimExpired(q, t) PROVE TableMoves
  <2> DEFINE k == Backoff(sweep[q][t].attempts + 1)
             r == [Cleared(row[t]) EXCEPT !.status = "pending", !.attempts = @ + 1,
                     !.epoch = @ + 1, !.runAt = k]
  <2>0. sweep[q][t].attempts + 1 \in 1..MaxAttempts
    BY <1>4, <1>a DEF ReclaimExpired, Expired, TypeOK
  <2>k. k \in Int
    BY <2>0, TaskQueueAssumption
  <2> HIDE DEF k
  <2>1. r \in Row /\ r.status = "pending" /\ r.attempts = row[t].attempts + 1
    BY <1>a, <2>k, ReclaimedRow
  <2>2. ReaperUpdate(q, t, r)
    BY <1>4 DEF ReclaimExpired, k
  <2>3. ASSUME ReaperMatches(t, sweep[q][t]) PROVE row[t].attempts + 1 < MaxAttempts
    BY <1>4, <2>3, SweepMatches DEF ReclaimExpired
  <2> HIDE DEF r
  <2> QED
    BY <2>1, <2>2, <2>3, ReaperMoves
<1>5. CASE UNCHANGED row
  BY <1>5, RowKept
<1> QED
  BY <1>1, <1>2, <1>3, <1>4, <1>5 DEF ReaperStep, FindExpiredLeases, RowErrors, AbortSweep

LEMMA TableStepMoves ==
  ASSUME TypeOK, NEW t \in Tasks, TableStep(t)
  PROVE  TableMoves
<1>a. row \in [Tasks -> Row] /\ row[t] \in Row
  BY DEF TypeOK
<1>1. CASE UpdateToMissed(t)
  <2>1. Moved(t, "pending", "missed") /\ \A u \in Tasks : u # t => row'[u] = row[u]
    BY <1>1, <1>a DEF UpdateToMissed, SetRow, Row, Moved
  <2> QED
    BY <2>1, OneRowMoves DEF OneMoves
<1>2. ASSUME NEW grace \in Graces, UpdateMissedAfter(t, grace) PROVE TableMoves
  <2>1. Same(t) /\ \A u \in Tasks : u # t => row'[u] = row[u]
    BY <1>2, <1>a DEF UpdateMissedAfter, SetRow, Row, Same
  <2> QED
    BY <2>1, OneRowMoves
<1>3. CASE DeletePending(t) \/ CascadeDelete(t) \/ DeleteFinished(t)
  <2>1. /\ row[t].status # "deleted" /\ row'[t] = Deleted
        /\ \A u \in Tasks : u # t => row'[u] = row[u]
    BY <1>3, <1>a DEF DeletePending, CascadeDelete, DeleteFinished, SetRow, Terminal
  <2> QED
    BY <2>1, OneRowMoves DEF OneMoves, Deleted
<1> QED
  BY <1>1, <1>2, <1>3 DEF TableStep

LEMMA TickMoves ==
  ASSUME TypeOK, Tick
  PROVE  TableMoves
BY TickShape DEF TableMoves, Same, RowStays

\* Every step of the mains, the reapers, the other writers and the clock is a
\* step of the life cycle of an occurrence or leaves it where it is.
THEOREM LifecycleCorrect == Spec => Lifecycle
<1>1. Init => Abstract!Init
  <2> SUFFICES ASSUME Init PROVE Abstract!Init
    OBVIOUS
  <2>1. \A t \in Tasks : row[t].status = "pending" /\ row[t].attempts = 0
    BY DEF Init, Recorded
  <2> QED
    BY <2>1 DEF Abstract!Init
<1>2. TypeOK /\ TypeOK' /\ BudgetInv /\ [Next]_vars => [Abstract!Next]_(Abstract!vars)
  <2> SUFFICES ASSUME TypeOK, TypeOK', BudgetInv, [Next]_vars PROVE TableMoves
    BY MovesImplement
  <2>1. CASE UNCHANGED vars
    BY <2>1, RowKept DEF vars
  <2> QED
    BY <2>1, FireStepMoves, HostStepMoves, ReaperStepMoves, TableStepMoves, TickMoves
       DEF Next
<1> QED
  BY <1>1, <1>2, TypeCorrect, SnapshotsAgree, PTL DEF Spec, Lifecycle, Abstract!Spec
=============================================================================
