----------------------- MODULE TaskQueueBudgetProofs -----------------------
(***************************************************************************)
(* The attempt budget and the dispatch marker of a row, for every value of *)
(* the constants.  Both the executor and the reaper decide what to write   *)
(* from a snapshot of the row (the claim's reply, the sweep's read), so    *)
(* the inductive invariant says that a snapshot that can still match the   *)
(* row agrees with it.  The invariant is local to a row: each step either  *)
(* keeps what the invariant reads of a row or is one of a few transitions. *)
(***************************************************************************)
EXTENDS TaskQueueProofs

Held(t, e) == fire[t][e].pc \notin {"none", "over"}

\* A claim that still owns its row knows the attempts counted so far, and the
\* row carries no marker unless this claim started to write one.
ClaimCurrent(t, e) ==
  (Held(t, e) /\ row[t].status = "running" /\ row[t].epoch = e)
    => /\ fire[t][e].attempts = row[t].attempts
       /\ fire[t][e].mark = "none" => ~row[t].dispatchedAt

\* What a sweep read is of an epoch already reached, and still true of a row
\* that is running at that epoch.
SweepCurrent(r, t) ==
  (sweep[r][t] # Resolved /\ row[t].status # "deleted")
    => /\ sweep[r][t].epoch =< row[t].epoch
       /\ (row[t].status = "running" /\ row[t].epoch = sweep[r][t].epoch)
            => sweep[r][t].attempts = row[t].attempts

\* The row's own part.
RowSound(t) ==
  /\ row[t].status \in {"pending", "running"} => row[t].attempts < MaxAttempts
  /\ row[t].status = "failed" => row[t].attempts = MaxAttempts /\ ~row[t].dispatchedAt
  /\ row[t].status = "pending" => ~row[t].dispatchedAt

TaskInv(t) ==
  /\ RowSound(t)
  /\ \A e \in Epochs : ClaimCurrent(t, e)
  /\ \A r \in Reapers : SweepCurrent(r, t)

BudgetInv == \A t \in Tasks : TaskInv(t)

-----------------------------------------------------------------------------
(* Transitions of one row, as the invariant sees them.                     *)

RowStays(t) ==
  /\ row'[t].status = row[t].status /\ row'[t].epoch = row[t].epoch
  /\ row'[t].attempts = row[t].attempts /\ row'[t].dispatchedAt = row[t].dispatchedAt

FireStays(t) ==
  \A e \in Epochs : Held(t, e)' =>
    /\ Held(t, e)
    /\ fire'[t][e].attempts = fire[t][e].attempts
    /\ fire'[t][e].mark = "none" => fire[t][e].mark = "none"

SweepStays(t) ==
  \A r \in Reapers : sweep'[r][t] = Resolved \/ sweep'[r][t] = sweep[r][t]

\* The row is taken from its owner, or was not running: no snapshot matters
\* any more but for its epoch.
RowUnowned(t) ==
  /\ row[t].status # "deleted" /\ row'[t].status # "running"
  /\ row'[t].status = "deleted" \/ row'[t].epoch \in {row[t].epoch, row[t].epoch + 1}
  /\ RowSound(t)'

\* The row a retry or a reclaim puts back to pending.
LEMMA RetriedRow ==
  ASSUME NEW q \in Row, NEW k \in Int
  PROVE  LET r == [Cleared(q) EXCEPT !.status = "pending", !.attempts = @ + 1,
                                     !.runAt = k]
         IN  /\ r \in Row /\ r.status = "pending" /\ r.epoch = q.epoch
             /\ r.attempts = q.attempts + 1 /\ ~r.dispatchedAt
<1> DEFINE c == Cleared(q)
           r == [c EXCEPT !.status = "pending", !.attempts = @ + 1, !.runAt = k]
<1>1. c \in Row /\ c.attempts = q.attempts /\ c.epoch = q.epoch /\ ~c.dispatchedAt
  BY ClearedFacts
<1> HIDE DEF c
<1>2. r \in Row
  BY <1>1, RetryType
<1>3. r.status = "pending" /\ r.epoch = c.epoch /\ r.dispatchedAt = c.dispatchedAt
  BY <1>1 DEF Row
<1>4. r.attempts = c.attempts + 1
  BY <1>1 DEF Row
<1> QED
  BY <1>1, <1>2, <1>3, <1>4 DEF c

LEMMA ReclaimedRow ==
  ASSUME NEW q \in Row, NEW k \in Int
  PROVE  LET r == [Cleared(q) EXCEPT !.status = "pending", !.attempts = @ + 1,
                                     !.epoch = @ + 1, !.runAt = k]
         IN  /\ r \in Row /\ r.status = "pending" /\ r.epoch = q.epoch + 1
             /\ r.attempts = q.attempts + 1 /\ ~r.dispatchedAt
<1> DEFINE c == Cleared(q)
           r == [c EXCEPT !.status = "pending", !.attempts = @ + 1,
                          !.epoch = @ + 1, !.runAt = k]
<1>1. c \in Row /\ c.attempts = q.attempts /\ c.epoch = q.epoch /\ ~c.dispatchedAt
  BY ClearedFacts
<1> HIDE DEF c
<1>2. r \in Row
  BY <1>1, ReclaimType
<1>3. r.status = "pending" /\ r.dispatchedAt = c.dispatchedAt
  BY <1>1 DEF Row
<1>4. r.attempts = c.attempts + 1 /\ r.epoch = c.epoch + 1
  BY <1>1 DEF Row
<1> QED
  BY <1>1, <1>2, <1>3, <1>4 DEF c

\* Nothing the invariant reads changes, or claims end and sweeps move on.
LEMMA Stays ==
  ASSUME NEW t \in Tasks, TaskInv(t), RowStays(t), FireStays(t), SweepStays(t)
  PROVE  TaskInv(t)'
<1>1. RowSound(t)'
  BY DEF TaskInv, RowSound, RowStays
<1>2. ASSUME NEW e \in Epochs PROVE ClaimCurrent(t, e)'
  BY DEF TaskInv, ClaimCurrent, RowStays, FireStays
<1>3. ASSUME NEW r \in Reapers PROVE SweepCurrent(r, t)'
  BY DEF TaskInv, SweepCurrent, RowStays, SweepStays
<1> QED
  BY <1>1, <1>2, <1>3 DEF TaskInv

\* The row leaves "running", or stays out of it.
LEMMA Unowned ==
  ASSUME TypeOK, NEW t \in Tasks, TaskInv(t), RowUnowned(t), SweepStays(t)
  PROVE  TaskInv(t)'
<1>0. row[t].epoch \in Nat /\ \A r \in Reapers : sweep[r][t].epoch \in Nat
  BY DEF TypeOK, Row, Expired
<1>1. RowSound(t)'
  BY DEF RowUnowned
<1>2. ASSUME NEW e \in Epochs PROVE ClaimCurrent(t, e)'
  BY DEF ClaimCurrent, RowUnowned
<1>3. ASSUME NEW r \in Reapers PROVE SweepCurrent(r, t)'
  <2> SUFFICES ASSUME sweep'[r][t] # Resolved, row'[t].status # "deleted"
               PROVE  sweep'[r][t].epoch =< row'[t].epoch
    BY DEF SweepCurrent, RowUnowned
  <2>1. sweep'[r][t] = sweep[r][t] /\ row[t].status # "deleted"
    BY DEF SweepStays, RowUnowned
  <2>2. sweep[r][t].epoch =< row[t].epoch
    BY <2>1 DEF TaskInv, SweepCurrent
  <2> QED
    BY <1>0, <2>1, <2>2 DEF RowUnowned
<1> QED
  BY <1>1, <1>2, <1>3 DEF TaskInv

\* A step on one claim leaves every other row alone; of its own row it keeps
\* what the invariant reads if the claim ends, or keeps its snapshot and does
\* not lose its marker.
LEMMA FireFrame ==
  ASSUME TypeOK, NEW t \in Tasks, NEW e \in Epochs, NEW f \in Fire,
         SetFire(t, e, f),
         \/ f.pc = "over"
         \/ /\ Held(t, e) /\ f.attempts = fire[t][e].attempts
            /\ f.mark = "none" => fire[t][e].mark = "none"
  PROVE  \A u \in Tasks : FireStays(u)
<1>1. fire \in [Tasks -> [Epochs -> Fire]]
  BY DEF TypeOK
<1>2. /\ fire'[t][e] = f
      /\ \A u \in Tasks : \A d \in Epochs : <<u, d>> # <<t, e>> => fire'[u][d] = fire[u][d]
  BY <1>1, SetFireFacts
<1> SUFFICES ASSUME NEW u \in Tasks, NEW d \in Epochs, Held(u, d)'
             PROVE  /\ Held(u, d)
                    /\ fire'[u][d].attempts = fire[u][d].attempts
                    /\ fire'[u][d].mark = "none" => fire[u][d].mark = "none"
  BY DEF FireStays
<1>3. CASE <<u, d>> = <<t, e>>
  BY <1>2, <1>3 DEF Held
<1>4. CASE <<u, d>> # <<t, e>>
  BY <1>2, <1>4 DEF Held
<1> QED
  BY <1>3, <1>4

LEMMA EndsFrame ==
  ASSUME TypeOK, NEW t \in Tasks, NEW e \in Epochs, Ends(t, e)
  PROVE  \A u \in Tasks : FireStays(u)
<1>1. Blank("over") \in Fire /\ Blank("over").pc = "over"
  BY BlankType DEF FireStates, Blank
<1> QED
  BY <1>1, FireFrame DEF Ends

LEMMA FireStepBudget ==
  ASSUME TypeOK, BudgetInv, NEW t \in Tasks, NEW e \in Epochs, FireStep(t, e)
  PROVE  BudgetInv'
<1>a. /\ fire[t][e] \in Fire /\ row[t] \in Row /\ 0 \in Int /\ Lease \in Int
      /\ row \in [Tasks -> Row]
  BY TaskQueueAssumption DEF TypeOK
<1>b. /\ TaskInv(t) /\ \A u \in Tasks : TaskInv(u)
      /\ RowSound(t) /\ ClaimCurrent(t, e)
  BY DEF BudgetInv, TaskInv
<1>c. sweep' = sweep /\ \A u \in Tasks : SweepStays(u)
  BY DEF FireStep, TimerFires, BeginDispatch, ReportDispatched, MarkDispatched,
         MarkFails, HandlerReturns, HandlerThrows, CompleteTask, FailTaskTerminal,
         RescheduleTask, WriteRejects, SweepStays
<1>d. ASSUME UNCHANGED row, \A u \in Tasks : FireStays(u) PROVE BudgetInv'
  <2>1. \A u \in Tasks : RowStays(u)
    BY <1>d DEF RowStays
  <2> QED
    BY <1>b, <1>c, <1>d, <2>1, Stays DEF BudgetInv
<1>e. ASSUME \A u \in Tasks : FireStays(u),
             \A u \in Tasks : u # t => row'[u] = row[u],
             RowStays(t) \/ RowUnowned(t)
      PROVE  BudgetInv'
  <2>1. \A u \in Tasks : u # t => RowStays(u)
    BY <1>e DEF RowStays
  <2>2. \A u \in Tasks : u # t => TaskInv(u)'
    BY <1>b, <1>c, <1>e, <2>1, Stays
  <2>3. TaskInv(t)'
    BY <1>b, <1>c, <1>e, Stays, Unowned
  <2> QED
    BY <2>2, <2>3 DEF BudgetInv
<1>1. CASE TimerFires(t, e)
  <2> DEFINE f == [fire[t][e] EXCEPT !.pc = "firing", !.delay = 0]
  <2>1. f \in Fire
    BY <1>a, PcType DEF FireStates
  <2>2. Held(t, e) /\ f.attempts = fire[t][e].attempts /\ f.mark = fire[t][e].mark
    BY <1>1, <1>a DEF TimerFires, Held, Fire
  <2>3. SetFire(t, e, f) /\ UNCHANGED row
    BY <1>1 DEF TimerFires
  <2> QED
    BY <1>d, <2>1, <2>2, <2>3, FireFrame
<1>2. CASE BeginDispatch(t, e)
  <2>1. CASE Owns(t, e) /\ ~row[t].startedAt
    <3> DEFINE f == [fire[t][e] EXCEPT !.pc = "handling"]
               r == [row[t] EXCEPT !.startedAt = TRUE, !.lease = Lease]
    <3>1. f \in Fire
      BY <1>a, PcType DEF FireStates
    <3>2. Held(t, e) /\ f.attempts = fire[t][e].attempts /\ f.mark = fire[t][e].mark
      BY <1>2, <1>a DEF BeginDispatch, Held, Fire
    <3>3. SetFire(t, e, f) /\ SetRow(t, r)
      BY <1>2, <2>1 DEF BeginDispatch
    <3>4. \A u \in Tasks : FireStays(u)
      BY <3>1, <3>2, <3>3, FireFrame
    <3>5. /\ r \in Row /\ r.status = row[t].status /\ r.epoch = row[t].epoch
          /\ r.attempts = row[t].attempts /\ r.dispatchedAt = row[t].dispatchedAt
      BY <1>a DEF Row
    <3>6. row'[t] = r /\ \A u \in Tasks : u # t => row'[u] = row[u]
      BY <1>a, <3>3, <3>5, SetRowFacts
    <3> HIDE DEF r, f
    <3> QED
      BY <1>e, <3>4, <3>5, <3>6 DEF RowStays
  <2>2. CASE ~(Owns(t, e) /\ ~row[t].startedAt)
    BY <1>2, <1>d, <2>2, EndsFrame DEF BeginDispatch
  <2> QED
    BY <2>1, <2>2
<1>3. CASE ReportDispatched(t, e)
  <2> DEFINE f == [fire[t][e] EXCEPT !.mark = "writing"]
  <2>1. /\ f \in Fire /\ Held(t, e) /\ f.mark # "none"
        /\ f.attempts = fire[t][e].attempts
    BY <1>3, <1>a DEF ReportDispatched, Held, Fire, Marks
  <2>2. SetFire(t, e, f) /\ UNCHANGED row
    BY <1>3 DEF ReportDispatched
  <2> QED
    BY <1>d, <2>1, <2>2, FireFrame
<1>4. CASE MarkDispatched(t, e)
  <2> DEFINE f == [fire[t][e] EXCEPT !.mark = "settled"]
             r == [row[t] EXCEPT !.dispatchedAt = TRUE]
             h == fire[t][e].host
  <2>1. /\ f \in Fire /\ f.mark # "none" /\ f.attempts = fire[t][e].attempts
        /\ f.pc = fire[t][e].pc
    BY <1>a DEF Fire, Marks
  <2>2. SetFire(t, e, f) /\ GuardedUpdate(h, t, e, r)
    BY <1>4 DEF MarkDispatched
  <2>3. /\ r \in Row /\ r.status = row[t].status /\ r.epoch = row[t].epoch
        /\ r.attempts = row[t].attempts
    BY <1>a DEF Row
  <2>4. /\ row'[t] = IF Matches(h, t, e) THEN r ELSE row[t]
        /\ \A u \in Tasks : u # t => row'[u] = row[u]
    BY <1>a, <2>2, <2>3, GuardedFacts
  <2>5. fire'[t][e] = f /\ \A d \in Epochs : d # e => fire'[t][d] = fire[t][d]
    BY <2>1, <2>2, SetFireFacts DEF TypeOK
  <2>6. \A u \in Tasks : u # t => FireStays(u) /\ RowStays(u)
    BY <2>1, <2>2, <2>4, SetFireFacts DEF TypeOK, FireStays, RowStays, Held
  <2>7. RowSound(t)'
    BY <1>b, <2>3, <2>4 DEF RowSound, Matches
  <2>8. ASSUME NEW d \in Epochs PROVE ClaimCurrent(t, d)'
    <3>1. ClaimCurrent(t, d)
      BY <1>b DEF TaskInv
    <3> HIDE DEF f, r, h
    <3> QED
      BY <2>1, <2>3, <2>4, <2>5, <3>1 DEF ClaimCurrent, Held, Matches
  <2>9. ASSUME NEW q \in Reapers PROVE SweepCurrent(q, t)'
    BY <1>b, <1>c, <2>3, <2>4 DEF TaskInv, SweepCurrent
  <2>10. TaskInv(t)'
    BY <2>7, <2>8, <2>9 DEF TaskInv
  <2>11. \A u \in Tasks : u # t => TaskInv(u)'
    BY <1>b, <1>c, <2>6, Stays
  <2> QED
    BY <2>10, <2>11 DEF BudgetInv
<1>5. CASE MarkFails(t, e)
  <2> DEFINE f == [fire[t][e] EXCEPT !.mark = "settled"]
  <2>1. /\ f \in Fire /\ f.mark # "none" /\ f.attempts = fire[t][e].attempts
        /\ f.pc = fire[t][e].pc
    BY <1>a DEF Fire, Marks
  <2>2. SetFire(t, e, f) /\ UNCHANGED row
    BY <1>5 DEF MarkFails
  <2>3. /\ fire'[t][e] = f
        /\ \A u \in Tasks : \A d \in Epochs :
             <<u, d>> # <<t, e>> => fire'[u][d] = fire[u][d]
    BY <2>1, <2>2, SetFireFacts DEF TypeOK
  <2> HIDE DEF f
  <2>4. ASSUME NEW u \in Tasks PROVE FireStays(u)
    <3> SUFFICES ASSUME NEW d \in Epochs, Held(u, d)'
                 PROVE  /\ Held(u, d)
                        /\ fire'[u][d].attempts = fire[u][d].attempts
                        /\ fire'[u][d].mark = "none" => fire[u][d].mark = "none"
      BY DEF FireStays
    <3>1. CASE <<u, d>> = <<t, e>>
      BY <2>1, <2>3, <3>1 DEF Held
    <3>2. CASE <<u, d>> # <<t, e>>
      BY <2>3, <3>2 DEF Held
    <3> QED
      BY <3>1, <3>2
  <2> QED
    BY <1>d, <2>2, <2>4
<1>6. CASE HandlerReturns(t, e)
  <2> DEFINE f == [fire[t][e] EXCEPT !.pc = "returned",
                                     !.mark = IF @ = "none" THEN "writing" ELSE @]
  <2>1. /\ f \in Fire /\ Held(t, e) /\ f.mark # "none"
        /\ f.attempts = fire[t][e].attempts
    BY <1>6, <1>a DEF HandlerReturns, Held, Fire, FireStates, Marks
  <2>2. SetFire(t, e, f) /\ UNCHANGED row
    BY <1>6 DEF HandlerReturns
  <2> QED
    BY <1>d, <2>1, <2>2, FireFrame
<1>7. CASE HandlerThrows(t, e)
  <2> DEFINE f == [fire[t][e] EXCEPT !.pc = "threw"]
  <2>1. /\ f \in Fire /\ Held(t, e) /\ f.mark = fire[t][e].mark
        /\ f.attempts = fire[t][e].attempts
    BY <1>7, <1>a DEF HandlerThrows, Held, Fire, FireStates
  <2>2. SetFire(t, e, f) /\ UNCHANGED row
    BY <1>7 DEF HandlerThrows
  <2> QED
    BY <1>d, <2>1, <2>2, FireFrame
<1>8. CASE CompleteTask(t, e)
  <2> DEFINE r == [row[t] EXCEPT !.status = "succeeded"]
             h == fire[t][e].host
  <2>1. r \in Row /\ r.status = "succeeded" /\ r.epoch = row[t].epoch
    BY <1>a, StatusType DEF Row, Statuses, Terminal
  <2>2. GuardedUpdate(h, t, e, r) /\ Ends(t, e)
    BY <1>8 DEF CompleteTask
  <2>3. /\ row'[t] = IF Matches(h, t, e) THEN r ELSE row[t]
        /\ \A u \in Tasks : u # t => row'[u] = row[u]
    BY <1>a, <2>1, <2>2, GuardedFacts
  <2> HIDE DEF r, h
  <2>4. RowStays(t) \/ RowUnowned(t)
    BY <2>1, <2>3 DEF RowStays, RowUnowned, RowSound, Matches
  <2> QED
    BY <1>e, <2>2, <2>3, <2>4, EndsFrame
<1>9. CASE FailTaskTerminal(t, e)
  <2> DEFINE r == [row[t] EXCEPT !.status = "failed", !.attempts = @ + 1]
             h == fire[t][e].host
  <2>1. /\ r \in Row /\ r.status = "failed" /\ r.epoch = row[t].epoch
        /\ r.attempts = row[t].attempts + 1 /\ r.dispatchedAt = row[t].dispatchedAt
    BY <1>a, CountedType DEF Row, Statuses, Terminal
  <2>2. GuardedUpdate(h, t, e, r) /\ Ends(t, e)
    BY <1>9 DEF FailTaskTerminal
  <2>3. /\ row'[t] = IF Matches(h, t, e) THEN r ELSE row[t]
        /\ \A u \in Tasks : u # t => row'[u] = row[u]
    BY <1>a, <2>1, <2>2, GuardedFacts
  <2>4. ASSUME Matches(h, t, e)
        PROVE  row[t].attempts + 1 = MaxAttempts /\ ~row[t].dispatchedAt
    <3>1. /\ fire[t][e].attempts = row[t].attempts /\ ~row[t].dispatchedAt
          /\ row[t].attempts < MaxAttempts
      BY <1>9, <1>b, <2>4 DEF FailTaskTerminal, ClaimCurrent, Held, Matches, RowSound
    <3>2. row[t].attempts + 1 >= MaxAttempts
      BY <1>9, <3>1 DEF FailTaskTerminal, NextAttempts
    <3>3. row[t].attempts \in Nat /\ MaxAttempts \in Nat
      BY <1>a, TaskQueueAssumption DEF Row
    <3> QED
      BY <3>1, <3>2, <3>3
  <2> HIDE DEF r, h
  <2>5. RowStays(t) \/ RowUnowned(t)
    BY <2>1, <2>3, <2>4 DEF RowStays, RowUnowned, RowSound, Matches
  <2> QED
    BY <1>e, <2>2, <2>3, <2>5, EndsFrame
<1>10. CASE RescheduleTask(t, e)
  <2> DEFINE k == Backoff(NextAttempts(t, e))
             r == [Cleared(row[t]) EXCEPT !.status = "pending", !.attempts = @ + 1,
                                          !.runAt = k]
             h == fire[t][e].host
  <2>0. NextAttempts(t, e) \in 1..MaxAttempts
    BY <1>10, <1>a, TaskQueueAssumption DEF RescheduleTask, NextAttempts, Fire
  <2>k. k \in Int
    BY <2>0, TaskQueueAssumption
  <2> HIDE DEF k
  <2>1. /\ r \in Row /\ r.status = "pending" /\ r.epoch = row[t].epoch
        /\ r.attempts = row[t].attempts + 1 /\ ~r.dispatchedAt
    BY <1>a, <2>k, RetriedRow
  <2>2. GuardedUpdate(h, t, e, r) /\ Ends(t, e)
    BY <1>10 DEF RescheduleTask, k
  <2>3. /\ row'[t] = IF Matches(h, t, e) THEN r ELSE row[t]
        /\ \A u \in Tasks : u # t => row'[u] = row[u]
    BY <1>a, <2>1, <2>2, GuardedFacts
  <2>4. ASSUME Matches(h, t, e) PROVE row[t].attempts + 1 < MaxAttempts
    <3>1. fire[t][e].attempts = row[t].attempts
      BY <1>10, <1>b, <2>4 DEF RescheduleTask, ClaimCurrent, Held, Matches
    <3> QED
      BY <1>10, <3>1 DEF RescheduleTask, NextAttempts
  <2> HIDE DEF r, h
  <2>5. RowStays(t) \/ RowUnowned(t)
    BY <2>1, <2>3, <2>4 DEF RowStays, RowUnowned, RowSound, Matches
  <2> QED
    BY <1>e, <2>2, <2>3, <2>5, EndsFrame
<1>11. CASE WriteRejects(t, e)
  BY <1>11, <1>d, EndsFrame DEF WriteRejects
<1> QED
  BY <1>1, <1>2, <1>3, <1>4, <1>5, <1>6, <1>7, <1>8, <1>9, <1>10, <1>11 DEF FireStep

-----------------------------------------------------------------------------
(* A claim's reply on its way speaks of claims nothing else has touched.   *)

ReplyInv ==
  /\ \A t \in Tasks : \A e \in Epochs :
       (Held(t, e) /\ row[t].status # "deleted") => e =< row[t].epoch
  /\ \A h \in Hosts : \A batch \in replies[h] : \A t \in Tasks : \A e \in Epochs :
       <<t, e>> \in batch => fire[t][e].pc = "claimed" /\ fire[t][e].host = h
  /\ \A h \in Hosts : \A b1, b2 \in replies[h] : \A t \in Tasks : \A e \in Epochs :
       (<<t, e>> \in b1 /\ <<t, e>> \in b2) => b1 = b2

\* The claims of no reply are touched.
ClaimKept(t, e) ==
  /\ Held(t, e)' => Held(t, e)
  /\ fire[t][e].pc = "claimed" =>
       fire'[t][e].pc = "claimed" /\ fire'[t][e].host = fire[t][e].host

RowGrows(t) ==
  row'[t].status # "deleted" =>
    row[t].status # "deleted" /\ row'[t].epoch \in {row[t].epoch, row[t].epoch + 1}

LEMMA BlankOver == Blank("over").pc = "over"
BY DEF Blank

LEMMA ReplyStays ==
  ASSUME TypeOK, ReplyInv, UNCHANGED replies,
         \A t \in Tasks : RowGrows(t),
         \A t \in Tasks : \A e \in Epochs : ClaimKept(t, e)
  PROVE  ReplyInv'
<1>0. \A t \in Tasks : row[t].epoch \in Nat
  BY DEF TypeOK, Row
<1>1. ASSUME NEW t \in Tasks, NEW e \in Epochs, Held(t, e)', row'[t].status # "deleted"
      PROVE  e =< row'[t].epoch
  <2>1. /\ Held(t, e) /\ row[t].status # "deleted" /\ e \in Nat
        /\ row'[t].epoch \in {row[t].epoch, row[t].epoch + 1}
    BY <1>1, EpochsNat DEF ClaimKept, RowGrows
  <2>2. e =< row[t].epoch
    BY <2>1 DEF ReplyInv
  <2> QED
    BY <1>0, <2>1, <2>2
<1>2. ASSUME NEW h \in Hosts, NEW batch \in replies'[h],
             NEW t \in Tasks, NEW e \in Epochs, <<t, e>> \in batch
      PROVE  fire'[t][e].pc = "claimed" /\ fire'[t][e].host = h
  <2>1. fire[t][e].pc = "claimed" /\ fire[t][e].host = h
    BY <1>2 DEF ReplyInv
  <2> QED
    BY <2>1 DEF ClaimKept
<1> QED
  BY <1>1, <1>2 DEF ReplyInv

\* One claim, not on its way in a reply, moves on or ends.
LEMMA FireKept ==
  ASSUME TypeOK, NEW t \in Tasks, NEW e \in Epochs, NEW f \in Fire, SetFire(t, e, f),
         \/ fire[t][e].pc # "claimed" /\ (f.pc = "over" \/ Held(t, e))
         \/ f.pc = fire[t][e].pc /\ f.host = fire[t][e].host
  PROVE  \A u \in Tasks : \A d \in Epochs : ClaimKept(u, d)
<1>1. /\ fire'[t][e] = f
      /\ \A u \in Tasks : \A d \in Epochs : <<u, d>> # <<t, e>> => fire'[u][d] = fire[u][d]
  BY SetFireFacts DEF TypeOK
<1> SUFFICES ASSUME NEW u \in Tasks, NEW d \in Epochs PROVE ClaimKept(u, d)
  OBVIOUS
<1>2. CASE <<u, d>> = <<t, e>>
  BY <1>1, <1>2 DEF ClaimKept, Held
<1>3. CASE <<u, d>> # <<t, e>>
  BY <1>1, <1>3 DEF ClaimKept, Held
<1> QED
  BY <1>2, <1>3

LEMMA EndsKept ==
  ASSUME TypeOK, NEW t \in Tasks, NEW e \in Epochs, Ends(t, e), fire[t][e].pc # "claimed"
  PROVE  \A u \in Tasks : \A d \in Epochs : ClaimKept(u, d)
<1>1. Blank("over") \in Fire /\ Blank("over").pc = "over"
  BY BlankType, BlankOver DEF FireStates
<1> QED
  BY <1>1, FireKept DEF Ends

\* A guarded update of a running row.
LEMMA GuardedGrows ==
  ASSUME TypeOK, NEW h, NEW t \in Tasks, NEW e \in Epochs, NEW r \in Row,
         GuardedUpdate(h, t, e, r), r.epoch = row[t].epoch
  PROVE  \A u \in Tasks : RowGrows(u)
<1>1. /\ row'[t] = IF Matches(h, t, e) THEN r ELSE row[t]
      /\ \A u \in Tasks : u # t => row'[u] = row[u]
  BY GuardedFacts DEF TypeOK
<1> QED
  BY <1>1 DEF RowGrows, Matches

LEMMA FireStepReply ==
  ASSUME TypeOK, ReplyInv, NEW t \in Tasks, NEW e \in Epochs, FireStep(t, e)
  PROVE  ReplyInv'
<1>a. /\ fire[t][e] \in Fire /\ row[t] \in Row /\ 0 \in Int /\ Lease \in Int
      /\ row \in [Tasks -> Row]
  BY TaskQueueAssumption DEF TypeOK
<1>b. UNCHANGED row => \A u \in Tasks : RowGrows(u)
  BY DEF RowGrows
<1>c. UNCHANGED replies
  BY DEF FireStep, TimerFires, BeginDispatch, ReportDispatched, MarkDispatched,
         MarkFails, HandlerReturns, HandlerThrows, CompleteTask, FailTaskTerminal,
         RescheduleTask, WriteRejects
<1>1. CASE TimerFires(t, e)
  <2>1. [fire[t][e] EXCEPT !.pc = "firing", !.delay = 0] \in Fire
    BY <1>a, PcType DEF FireStates
  <2>2. Held(t, e) /\ fire[t][e].pc # "claimed"
    BY <1>1 DEF TimerFires, Held
  <2> QED
    BY <1>1, <1>b, <1>c, <2>1, <2>2, FireKept, ReplyStays DEF TimerFires
<1>2. CASE BeginDispatch(t, e)
  <2>1. Held(t, e) /\ fire[t][e].pc # "claimed"
    BY <1>2 DEF BeginDispatch, Held
  <2>2. [fire[t][e] EXCEPT !.pc = "handling"] \in Fire
    BY <1>a, PcType DEF FireStates
  <2>3. \A u \in Tasks : \A d \in Epochs : ClaimKept(u, d)
    BY <1>2, <2>1, <2>2, FireKept, EndsKept DEF BeginDispatch
  <2> DEFINE r == [row[t] EXCEPT !.startedAt = TRUE, !.lease = Lease]
  <2>4. r \in Row /\ r.epoch = row[t].epoch /\ r.status = row[t].status
    BY <1>a DEF Row
  <2>5. SetRow(t, r) \/ UNCHANGED row
    BY <1>2 DEF BeginDispatch
  <2> HIDE DEF r
  <2>6. \A u \in Tasks : RowGrows(u)
    BY <1>a, <1>b, <2>4, <2>5, SetRowFacts DEF RowGrows
  <2> QED
    BY <1>c, <2>3, <2>6, ReplyStays
<1>3. CASE ReportDispatched(t, e)
  <2>1. [fire[t][e] EXCEPT !.mark = "writing"] \in Fire
    BY <1>a DEF Fire, Marks
  <2>2. Held(t, e) /\ fire[t][e].pc # "claimed"
    BY <1>3 DEF ReportDispatched, Held
  <2> QED
    BY <1>3, <1>b, <1>c, <2>1, <2>2, FireKept, ReplyStays DEF ReportDispatched
<1>4. CASE MarkDispatched(t, e) \/ MarkFails(t, e)
  <2> DEFINE f == [fire[t][e] EXCEPT !.mark = "settled"]
             r == [row[t] EXCEPT !.dispatchedAt = TRUE]
  <2>1. f \in Fire /\ f.pc = fire[t][e].pc /\ f.host = fire[t][e].host
    BY <1>a DEF Fire, Marks
  <2>2. SetFire(t, e, f)
    BY <1>4 DEF MarkDispatched, MarkFails
  <2>3. r \in Row /\ r.epoch = row[t].epoch
    BY <1>a DEF Row
  <2>4. GuardedUpdate(fire[t][e].host, t, e, r) \/ UNCHANGED row
    BY <1>4 DEF MarkDispatched, MarkFails
  <2> HIDE DEF f, r
  <2>5. \A u \in Tasks : RowGrows(u)
    BY <1>b, <2>3, <2>4, GuardedGrows
  <2>6. \A u \in Tasks : \A d \in Epochs : ClaimKept(u, d)
    BY <2>1, <2>2, FireKept
  <2> QED
    BY <1>c, <2>5, <2>6, ReplyStays
<1>5. CASE HandlerReturns(t, e)
  <2>1. [fire[t][e] EXCEPT !.pc = "returned",
                           !.mark = IF @ = "none" THEN "writing" ELSE @] \in Fire
    BY <1>a DEF Fire, FireStates, Marks
  <2>2. Held(t, e) /\ fire[t][e].pc # "claimed"
    BY <1>5 DEF HandlerReturns, Held
  <2> QED
    BY <1>5, <1>b, <1>c, <2>1, <2>2, FireKept, ReplyStays DEF HandlerReturns
<1>6. CASE HandlerThrows(t, e)
  <2>1. [fire[t][e] EXCEPT !.pc = "threw"] \in Fire
    BY <1>a, PcType DEF FireStates
  <2>2. Held(t, e) /\ fire[t][e].pc # "claimed"
    BY <1>6 DEF HandlerThrows, Held
  <2> QED
    BY <1>6, <1>b, <1>c, <2>1, <2>2, FireKept, ReplyStays DEF HandlerThrows
<1>7. CASE CompleteTask(t, e)
  <2>0. row[t] \in Row
    BY <1>a
  <2>1. /\ [row[t] EXCEPT !.status = "succeeded"] \in Row
        /\ [row[t] EXCEPT !.status = "succeeded"].epoch = row[t].epoch
    BY <2>0, StatusType DEF Row, Statuses, Terminal
  <2>2. \A u \in Tasks : RowGrows(u)
    BY <1>7, <2>1, GuardedGrows DEF CompleteTask
  <2>3. Ends(t, e) /\ fire[t][e].pc # "claimed"
    BY <1>7 DEF CompleteTask
  <2> QED
    BY <1>c, <2>2, <2>3, EndsKept, ReplyStays
<1>8. CASE FailTaskTerminal(t, e)
  <2>1. /\ [row[t] EXCEPT !.status = "failed", !.attempts = @ + 1] \in Row
        /\ [row[t] EXCEPT !.status = "failed", !.attempts = @ + 1].epoch = row[t].epoch
    BY <1>a, CountedType DEF Row, Statuses, Terminal
  <2>2. \A u \in Tasks : RowGrows(u)
    BY <1>8, <2>1, GuardedGrows DEF FailTaskTerminal
  <2>3. Ends(t, e) /\ fire[t][e].pc # "claimed"
    BY <1>8 DEF FailTaskTerminal
  <2> QED
    BY <1>c, <2>2, <2>3, EndsKept, ReplyStays
<1>9. CASE RescheduleTask(t, e)
  <2> DEFINE k == Backoff(NextAttempts(t, e))
             r == [Cleared(row[t]) EXCEPT !.status = "pending", !.attempts = @ + 1,
                                          !.runAt = k]
  <2>0. NextAttempts(t, e) \in 1..MaxAttempts
    BY <1>9, <1>a, TaskQueueAssumption DEF RescheduleTask, NextAttempts, Fire
  <2>k. k \in Int
    BY <2>0, TaskQueueAssumption
  <2> HIDE DEF k
  <2>1. r \in Row /\ r.epoch = row[t].epoch
    BY <1>a, <2>k, RetriedRow
  <2>2. GuardedUpdate(fire[t][e].host, t, e, r)
    BY <1>9 DEF RescheduleTask, k
  <2> HIDE DEF r
  <2>3. \A u \in Tasks : RowGrows(u)
    BY <2>1, <2>2, GuardedGrows
  <2>4. Ends(t, e) /\ fire[t][e].pc # "claimed"
    BY <1>9 DEF RescheduleTask
  <2> QED
    BY <1>c, <2>3, <2>4, EndsKept, ReplyStays
<1>10. CASE WriteRejects(t, e)
  <2>1. Ends(t, e) /\ fire[t][e].pc # "claimed" /\ UNCHANGED row
    BY <1>10 DEF WriteRejects
  <2> QED
    BY <1>b, <1>c, <2>1, EndsKept, ReplyStays
<1> QED
  BY <1>1, <1>2, <1>3, <1>4, <1>5, <1>6, <1>7, <1>8, <1>9, <1>10 DEF FireStep

-----------------------------------------------------------------------------
LEMMA HostStepBudget ==
  ASSUME TypeOK, BudgetInv, ReplyInv, NEW h \in Hosts, HostStep(h)
  PROVE  BudgetInv'
<1>a. /\ fire \in [Tasks -> [Epochs -> Fire]] /\ row \in [Tasks -> Row]
      /\ Lease \in Int /\ \A u \in Tasks : TaskInv(u)
  BY TaskQueueAssumption DEF TypeOK, BudgetInv
<1>c. sweep' = sweep /\ \A u \in Tasks : SweepStays(u)
  BY DEF HostStep, ClaimDueTasks, ScheduleClaimed, HandBackClaims, ReleaseClaim,
         ReleaseRejects, Stop, Crash, Restart, SweepStays
<1>d. ASSUME UNCHANGED row, \A u \in Tasks : FireStays(u) PROVE BudgetInv'
  <2>1. \A u \in Tasks : RowStays(u)
    BY <1>d DEF RowStays
  <2> QED
    BY <1>a, <1>c, <1>d, <2>1, Stays DEF BudgetInv
<1>1. ASSUME NEW S \in SUBSET Tasks, ClaimDueTasks(h, S) PROVE BudgetInv'
  <2> SUFFICES ASSUME NEW u \in Tasks PROVE TaskInv(u)'
    BY DEF BudgetInv
  <2>0. row[u] \in Row /\ row[u].epoch \in Nat
    BY <1>a DEF Row
  <2>1. CASE u \notin S
    <3>1. row'[u] = row[u] /\ \A e \in Epochs : fire'[u][e] = fire[u][e]
      BY <1>1, <2>1 DEF ClaimDueTasks
    <3> QED
      BY <1>a, <1>c, <3>1, Stays DEF RowStays, FireStays, Held
  <2>2. CASE u \in S
    <3>1. /\ row[u].status = "pending"
          /\ row'[u].status = "running" /\ row'[u].epoch = row[u].epoch + 1
          /\ row'[u].attempts = row[u].attempts
          /\ row'[u].dispatchedAt = row[u].dispatchedAt
      BY <1>1, <2>0, <2>2 DEF ClaimDueTasks, Due, Row
    <3>a. row[u].epoch + 1 \in Epochs
      <4>1. row[u].epoch < MaxEpoch
        BY <1>1, <2>2 DEF ClaimDueTasks
      <4> QED
        BY <2>0, <4>1, TaskQueueAssumption DEF Epochs
    <3>2. fire'[u][row[u].epoch + 1].attempts = row[u].attempts
      BY <1>1, <2>2, <3>a DEF ClaimDueTasks
    <3>3. RowSound(u)'
      BY <1>a, <3>1 DEF TaskInv, RowSound
    <3>4. ASSUME NEW e \in Epochs PROVE ClaimCurrent(u, e)'
      BY <1>a, <3>1, <3>a, <3>2 DEF TaskInv, RowSound, ClaimCurrent
    <3>5. ASSUME NEW r \in Reapers PROVE SweepCurrent(r, u)'
      <4>1. SweepCurrent(r, u) /\ sweep[r][u].epoch \in Nat
        BY <1>a DEF TaskInv, TypeOK, Expired
      <4> QED
        BY <1>c, <2>0, <3>1, <4>1 DEF SweepCurrent
    <3> QED
      BY <3>3, <3>4, <3>5 DEF TaskInv
  <2> QED
    BY <2>1, <2>2
<1>2. ASSUME NEW batch \in replies[h], ScheduleClaimed(h, batch) PROVE BudgetInv'
  <2>0. \A t \in Tasks : \A e \in Epochs : <<t, e>> \in batch => Held(t, e)
    BY <1>2 DEF ReplyInv, Held
  <2>1. ASSUME NEW u \in Tasks, NEW e \in Epochs
        PROVE  /\ fire'[u][e].attempts = fire[u][e].attempts
               /\ fire'[u][e].mark = fire[u][e].mark
               /\ Held(u, e)' => Held(u, e)
    <3>1. fire[u][e] \in Fire
      BY <1>a
    <3>2. fire'[u][e] = IF <<u, e>> \in batch THEN [fire[u][e] EXCEPT !.pc = "armed"]
                                              ELSE fire[u][e]
      BY <1>2 DEF ScheduleClaimed
    <3> QED
      BY <2>0, <3>1, <3>2 DEF Held, Fire
  <2>2. \A u \in Tasks : FireStays(u)
    BY <2>1 DEF FireStays
  <2> QED
    BY <1>2, <1>d, <2>2 DEF ScheduleClaimed
<1>3. ASSUME NEW batch \in replies[h], HandBackClaims(h, batch) PROVE BudgetInv'
  <2>1. \A u \in Tasks : \A e \in Epochs :
          fire'[u][e] = IF <<u, e>> \in batch THEN Blank("over") ELSE fire[u][e]
    BY <1>3 DEF HandBackClaims
  <2>2. \A u \in Tasks : FireStays(u)
    BY <2>1, BlankOver DEF FireStays, Held
  <2> QED
    BY <1>3, <1>d, <2>2 DEF HandBackClaims
<1>4. ASSUME NEW t \in Tasks, NEW e \in Epochs, ReleaseClaim(h, t, e) PROVE BudgetInv'
  <2> DEFINE r == [Cleared(row[t]) EXCEPT !.status = "pending"]
  <2>0. Cleared(row[t]) \in Row /\ row[t] \in Row
    BY <1>a, ClearedFacts
  <2>1. /\ r \in Row /\ r.status = "pending" /\ r.epoch = row[t].epoch
        /\ r.attempts = row[t].attempts /\ ~r.dispatchedAt
    BY <2>0, ClearedFacts, StatusType DEF Row, Statuses
  <2>2. GuardedUpdate(h, t, e, r) /\ UNCHANGED fire
    BY <1>4 DEF ReleaseClaim
  <2> HIDE DEF r
  <2>3. /\ row'[t] = IF Matches(h, t, e) THEN r ELSE row[t]
        /\ \A u \in Tasks : u # t => row'[u] = row[u]
    BY <1>a, <2>1, <2>2, GuardedFacts
  <2>4. TaskInv(t) /\ RowSound(t)
    BY <1>a DEF TaskInv
  <2>5. RowStays(t) \/ RowUnowned(t)
    BY <2>1, <2>3, <2>4 DEF RowStays, RowUnowned, RowSound, Matches
  <2>6. \A u \in Tasks : FireStays(u) /\ (u # t => RowStays(u))
    BY <2>2, <2>3 DEF FireStays, RowStays, Held
  <2> QED
    BY <1>a, <1>c, <2>5, <2>6, Stays, Unowned DEF BudgetInv
<1>5. ASSUME NEW t \in Tasks, NEW e \in Epochs, ReleaseRejects(h, t, e) PROVE BudgetInv'
  BY <1>5, <1>d DEF ReleaseRejects, FireStays, Held
<1>6. CASE Stop(h)
  <2>1. ASSUME NEW u \in Tasks, NEW e \in Epochs, Held(u, e)'
        PROVE  /\ fire'[u][e].attempts = fire[u][e].attempts
               /\ fire'[u][e].mark = fire[u][e].mark
               /\ Held(u, e)
    <3>1. fire[u][e] \in Fire
      BY <1>a
    <3>2. \/ fire'[u][e] = fire[u][e]
          \/ fire'[u][e] = Blank("over")
          \/ /\ fire[u][e].pc = "armed"
             /\ fire'[u][e] = [fire[u][e] EXCEPT !.pc = "stranded", !.delay = 0]
      BY <1>6 DEF Stop
    <3> QED
      BY <2>1, <3>1, <3>2, BlankOver DEF Held, Fire
  <2>2. \A u \in Tasks : FireStays(u)
    BY <2>1 DEF FireStays
  <2> QED
    BY <1>6, <1>d, <2>2 DEF Stop
<1>7. CASE Crash(h)
  <2>1. \A u \in Tasks : \A e \in Epochs :
          fire'[u][e] = fire[u][e] \/ fire'[u][e] = Blank("over")
    BY <1>7 DEF Crash
  <2>2. \A u \in Tasks : FireStays(u)
    BY <2>1, BlankOver DEF FireStays, Held
  <2> QED
    BY <1>7, <1>d, <2>2 DEF Crash
<1>8. CASE Restart(h)
  BY <1>8, <1>d DEF Restart, FireStays, Held
<1> QED
  BY <1>1, <1>2, <1>3, <1>4, <1>5, <1>6, <1>7, <1>8 DEF HostStep

LEMMA HostStepReply ==
  ASSUME TypeOK, ReplyInv, NEW h \in Hosts, HostStep(h)
  PROVE  ReplyInv'
<1>a. /\ fire \in [Tasks -> [Epochs -> Fire]] /\ row \in [Tasks -> Row]
      /\ \A u \in Tasks : row[u].epoch \in Nat
      /\ Epochs \subseteq Nat
      /\ replies \in [Hosts -> SUBSET SUBSET (Tasks \X Epochs)]
  BY EpochsNat DEF TypeOK, Row
<1>b. UNCHANGED row => \A u \in Tasks : RowGrows(u)
  BY DEF RowGrows
<1>1. ASSUME NEW S \in SUBSET Tasks, ClaimDueTasks(h, S) PROVE ReplyInv'
  <2> DEFINE new == {<<t, row[t].epoch + 1>> : t \in S}
  <2>1. /\ \A g \in Hosts : g # h => replies'[g] = replies[g]
        /\ replies'[h] = replies[h] \cup {new}
    BY <1>1, <1>a DEF ClaimDueTasks
  <2>2. \A u \in Tasks : \A e \in Epochs :
          /\ <<u, e>> \in new <=> u \in S /\ e = row[u].epoch + 1
          /\ <<u, e>> \in new => fire'[u][e].pc = "claimed" /\ fire'[u][e].host = h
          /\ <<u, e>> \notin new => fire'[u][e] = fire[u][e]
    BY <1>1 DEF ClaimDueTasks
  <2>3. \A u \in Tasks :
          /\ u \in S => /\ row[u].status = "pending"
                        /\ row'[u].epoch = row[u].epoch + 1
          /\ u \notin S => row'[u] = row[u]
    BY <1>1, <1>a DEF ClaimDueTasks, Due, Row
  <2> HIDE DEF new
  <2>4. \A g \in Hosts : \A batch \in replies[g] : \A u \in Tasks : \A e \in Epochs :
          <<u, e>> \in batch => <<u, e>> \notin new
    <3> SUFFICES ASSUME NEW g \in Hosts, NEW batch \in replies[g],
                        NEW u \in Tasks, NEW e \in Epochs,
                        <<u, e>> \in batch, <<u, e>> \in new
                 PROVE  FALSE
      OBVIOUS
    <3>1. Held(u, e) /\ u \in S /\ e = row[u].epoch + 1
      BY <2>2 DEF ReplyInv, Held
    <3>2. e =< row[u].epoch
      BY <2>3, <3>1 DEF ReplyInv
    <3> QED
      BY <1>a, <3>1, <3>2
  <2>5. ASSUME NEW u \in Tasks, NEW e \in Epochs, Held(u, e)', row'[u].status # "deleted"
        PROVE  e =< row'[u].epoch
    <3>1. CASE <<u, e>> \in new
      BY <1>a, <2>2, <2>3, <3>1
    <3>2. CASE <<u, e>> \notin new
      <4>1. Held(u, e)
        BY <2>2, <2>5, <3>2 DEF Held
      <4>2. row[u].status # "deleted"
        BY <2>3, <2>5
      <4>3. e =< row[u].epoch
        BY <4>1, <4>2 DEF ReplyInv
      <4>4. row'[u].epoch = row[u].epoch \/ row'[u].epoch = row[u].epoch + 1
        BY <2>3
      <4> QED
        BY <1>a, <4>3, <4>4
    <3> QED
      BY <3>1, <3>2
  <2>6. ASSUME NEW g \in Hosts, NEW batch \in replies'[g],
               NEW u \in Tasks, NEW e \in Epochs, <<u, e>> \in batch
        PROVE  fire'[u][e].pc = "claimed" /\ fire'[u][e].host = g
    <3>1. CASE batch \in replies[g]
      BY <2>2, <2>4, <2>6, <3>1 DEF ReplyInv
    <3>2. CASE batch \notin replies[g]
      BY <2>1, <2>2, <2>6, <3>2
    <3> QED
      BY <3>1, <3>2
  <2>7. ASSUME NEW g \in Hosts, NEW b1 \in replies'[g], NEW b2 \in replies'[g],
               NEW u \in Tasks, NEW e \in Epochs, <<u, e>> \in b1, <<u, e>> \in b2
        PROVE  b1 = b2
    BY <2>1, <2>4, <2>7 DEF ReplyInv
  <2> QED
    BY <2>5, <2>6, <2>7 DEF ReplyInv
<1>2. ASSUME NEW batch \in replies[h],
             ScheduleClaimed(h, batch) \/ HandBackClaims(h, batch)
      PROVE  ReplyInv'
  <2>1. UNCHANGED row /\ replies' = [replies EXCEPT ![h] = @ \ {batch}]
    BY <1>2 DEF ScheduleClaimed, HandBackClaims
  <2>2. ASSUME NEW u \in Tasks, NEW e \in Epochs, <<u, e>> \notin batch
        PROVE  fire'[u][e] = fire[u][e]
    BY <1>2, <2>2 DEF ScheduleClaimed, HandBackClaims
  <2>3. ASSUME NEW u \in Tasks, NEW e \in Epochs, <<u, e>> \in batch
        PROVE  Held(u, e)
    BY <2>3 DEF ReplyInv, Held
  <2>4. ASSUME NEW u \in Tasks, NEW e \in Epochs, Held(u, e)', row'[u].status # "deleted"
        PROVE  e =< row'[u].epoch
    <3>1. Held(u, e)
      BY <2>2, <2>3, <2>4 DEF Held
    <3> QED
      BY <2>1, <2>4, <3>1 DEF ReplyInv
  <2>5. \A g \in Hosts : \A b \in replies'[g] : b \in replies[g] /\ (g = h => b # batch)
    BY <1>a, <2>1
  <2>6. ASSUME NEW g \in Hosts, NEW b \in replies'[g],
               NEW u \in Tasks, NEW e \in Epochs, <<u, e>> \in b
        PROVE  fire'[u][e].pc = "claimed" /\ fire'[u][e].host = g
    <3>1. fire[u][e].pc = "claimed" /\ fire[u][e].host = g
      BY <2>5, <2>6 DEF ReplyInv
    <3>2. <<u, e>> \notin batch
      BY <2>5, <2>6, <3>1 DEF ReplyInv
    <3> QED
      BY <2>2, <3>1, <3>2
  <2> QED
    BY <2>4, <2>5, <2>6 DEF ReplyInv
<1>4. ASSUME NEW t \in Tasks, NEW e \in Epochs, ReleaseClaim(h, t, e) PROVE ReplyInv'
  <2> DEFINE r == [Cleared(row[t]) EXCEPT !.status = "pending"]
  <2>0. Cleared(row[t]) \in Row /\ row[t] \in Row
    BY <1>a, ClearedFacts
  <2>1. r \in Row /\ r.epoch = row[t].epoch
    BY <2>0, ClearedFacts, StatusType DEF Row, Statuses
  <2>2. GuardedUpdate(h, t, e, r) /\ UNCHANGED <<fire, replies>>
    BY <1>4 DEF ReleaseClaim
  <2> HIDE DEF r
  <2>3. \A u \in Tasks : RowGrows(u)
    BY <2>1, <2>2, GuardedGrows
  <2> QED
    BY <2>2, <2>3, ReplyStays DEF ClaimKept, Held
<1>5. ASSUME NEW t \in Tasks, NEW e \in Epochs, ReleaseRejects(h, t, e) PROVE ReplyInv'
  BY <1>5, <1>b, ReplyStays DEF ReleaseRejects, ClaimKept, Held
<1>6. CASE Stop(h)
  <2>1. ASSUME NEW u \in Tasks, NEW e \in Epochs PROVE ClaimKept(u, e)
    <3>1. \/ fire'[u][e] = fire[u][e]
          \/ fire[u][e].pc = "armed"
      BY <1>6 DEF Stop
    <3> QED
      BY <3>1 DEF ClaimKept, Held
  <2> QED
    BY <1>6, <1>b, <2>1, ReplyStays DEF Stop
<1>7. CASE Crash(h)
  <2>1. \A u \in Tasks : \A e \in Epochs :
          \/ fire'[u][e] = fire[u][e]
          \/ fire'[u][e] = Blank("over") /\ fire[u][e].host = h
    BY <1>7 DEF Crash, OfHost
  <2>2. /\ UNCHANGED row /\ replies'[h] = {}
        /\ \A g \in Hosts : g # h => replies'[g] = replies[g]
    BY <1>7, <1>a DEF Crash
  <2>3. \A u \in Tasks : \A e \in Epochs : Held(u, e)' => Held(u, e)
    BY <2>1, BlankOver DEF Held
  <2>4. ASSUME NEW g \in Hosts, NEW b \in replies'[g],
               NEW u \in Tasks, NEW e \in Epochs, <<u, e>> \in b
        PROVE  fire'[u][e].pc = "claimed" /\ fire'[u][e].host = g
    <3>1. g # h /\ b \in replies[g]
      BY <2>2, <2>4
    <3> QED
      BY <2>1, <2>4, <3>1 DEF ReplyInv
  <2>5. \A g \in Hosts : replies'[g] \subseteq replies[g]
    BY <2>2
  <2> QED
    BY <2>2, <2>3, <2>4, <2>5 DEF ReplyInv
<1>8. CASE Restart(h)
  BY <1>8, <1>b, ReplyStays DEF Restart, ClaimKept, Held
<1> QED
  BY <1>1, <1>2, <1>4, <1>5, <1>6, <1>7, <1>8 DEF HostStep

-----------------------------------------------------------------------------
(* The reaper's steps: none touches a claim or a reply.                    *)

LEMMA FireUnchanged == UNCHANGED fire => \A t \in Tasks : FireStays(t)
BY DEF FireStays, Held

\* A sweep resolves a row, or gives up on some.
LEMMA SweepResolved ==
  ASSUME TypeOK, NEW r \in Reapers, NEW t \in Tasks,
         sweep' = [sweep EXCEPT ![r][t] = Resolved]
  PROVE  \A u \in Tasks : SweepStays(u)
BY DEF TypeOK, SweepStays

\* One guarded statement of the reaper: it takes the row from its owner, or
\* matches no row.
LEMMA ReaperUpdateBudget ==
  ASSUME TypeOK, BudgetInv, NEW r \in Reapers, NEW t \in Tasks, NEW new \in Row,
         ReaperUpdate(r, t, new), UNCHANGED fire,
         new.status # "running", new.epoch \in {row[t].epoch, row[t].epoch + 1},
         ReaperMatches(t, sweep[r][t]) =>
           /\ new.status \in {"pending", "running"} => new.attempts < MaxAttempts
           /\ new.status = "failed" => new.attempts = MaxAttempts /\ ~new.dispatchedAt
           /\ new.status = "pending" => ~new.dispatchedAt
  PROVE  BudgetInv'
<1>1. /\ \A u \in Tasks : u # t => row'[u] = row[u]
      /\ row'[t] = IF ReaperMatches(t, sweep[r][t]) THEN new ELSE row[t]
  BY ReaperUpdateType
<1>2. \A u \in Tasks : SweepStays(u) /\ FireStays(u) /\ TaskInv(u)
  BY SweepResolved, FireUnchanged DEF ReaperUpdate, BudgetInv
<1>3. ASSUME NEW u \in Tasks, u # t PROVE TaskInv(u)'
  <2>1. RowStays(u)
    BY <1>1, <1>3 DEF RowStays
  <2> QED
    BY <1>2, <2>1, Stays
<1>4. CASE ReaperMatches(t, sweep[r][t])
  <2>1. RowUnowned(t)
    BY <1>1, <1>4 DEF RowUnowned, RowSound, ReaperMatches, LeaseExpired
  <2>2. TaskInv(t)'
    BY <1>2, <2>1, Unowned
  <2> QED
    BY <1>3, <2>2 DEF BudgetInv
<1>5. CASE ~ReaperMatches(t, sweep[r][t])
  <2>1. RowStays(t)
    BY <1>1, <1>5 DEF RowStays
  <2>2. TaskInv(t)'
    BY <1>2, <2>1, Stays
  <2> QED
    BY <1>3, <2>2 DEF BudgetInv
<1> QED
  BY <1>4, <1>5

\* A sweep whose statement matches has read the attempts the row still has,
\* and read no marker exactly when there is none.
LEMMA SweepMatches ==
  ASSUME TypeOK, BudgetInv, NEW r \in Reapers, NEW t \in Tasks,
         sweep[r][t] # Resolved, ReaperMatches(t, sweep[r][t])
  PROVE  /\ sweep[r][t].attempts = row[t].attempts
         /\ sweep[r][t].dispatchedAt = row[t].dispatchedAt
         /\ row[t].attempts < MaxAttempts
<1>1. TaskInv(t) /\ SweepCurrent(r, t)
  BY DEF BudgetInv, TaskInv
<1>2. row[t].status = "running" /\ row[t].epoch = sweep[r][t].epoch
  BY DEF ReaperMatches, LeaseExpired
<1> QED
  BY <1>1, <1>2 DEF SweepCurrent, TaskInv, RowSound, ReaperMatches

LEMMA ReaperStepBudget ==
  ASSUME TypeOK, BudgetInv, NEW r \in Reapers, ReaperStep(r)
  PROVE  BudgetInv'
<1>a. /\ row \in [Tasks -> Row] /\ sweep \in [Reapers -> [Tasks -> Expired]]
      /\ \A u \in Tasks : TaskInv(u) /\ RowSound(u)
      /\ MaxAttempts \in Nat
  BY TaskQueueAssumption DEF TypeOK, BudgetInv, TaskInv
<1>1. ASSUME NEW S \in SUBSET Tasks, RetireMissedPending(r, S) PROVE BudgetInv'
  <2> SUFFICES ASSUME NEW u \in Tasks PROVE TaskInv(u)'
    BY DEF BudgetInv
  <2>1. FireStays(u) /\ SweepStays(u)
    BY <1>1, FireUnchanged DEF RetireMissedPending, SweepStays
  <2>2. CASE u \in S
    <3>1. row[u] \in Row /\ row'[u] = [row[u] EXCEPT !.status = "missed"]
      BY <1>1, <1>a, <2>2 DEF RetireMissedPending
    <3>2. row[u].status = "pending" /\ row'[u].status = "missed"
          /\ row'[u].epoch = row[u].epoch
      BY <1>1, <2>2, <3>1 DEF RetireMissedPending, Row
    <3>3. RowUnowned(u)
      BY <3>2 DEF RowUnowned, RowSound
    <3> QED
      BY <1>a, <2>1, <3>3, Unowned
  <2>3. CASE u \notin S
    <3>1. RowStays(u)
      BY <1>1, <2>3 DEF RetireMissedPending, RowStays
    <3> QED
      BY <1>a, <2>1, <3>1, Stays
  <2> QED
    BY <2>2, <2>3
<1>2. ASSUME NEW S \in SUBSET Tasks, FindExpiredLeases(r, S) PROVE BudgetInv'
  <2> SUFFICES ASSUME NEW u \in Tasks PROVE TaskInv(u)'
    BY DEF BudgetInv
  <2>1. RowSound(u)'
    BY <1>2, <1>a DEF FindExpiredLeases, RowSound
  <2>2. ASSUME NEW e \in Epochs PROVE ClaimCurrent(u, e)'
    BY <1>2, <1>a DEF FindExpiredLeases, TaskInv, ClaimCurrent, Held
  <2>3. ASSUME NEW q \in Reapers PROVE SweepCurrent(q, u)'
    <3>1. \/ sweep'[q][u] = Resolved \/ sweep'[q][u] = sweep[q][u]
          \/ /\ sweep'[q][u].epoch = row[u].epoch
             /\ sweep'[q][u].attempts = row[u].attempts
      BY <1>2, <1>a DEF FindExpiredLeases
    <3>2. SweepCurrent(q, u) /\ row[u].epoch \in Nat
      BY <1>a DEF TaskInv, Row
    <3> QED
      BY <1>2, <3>1, <3>2 DEF FindExpiredLeases, SweepCurrent
  <2> QED
    BY <2>1, <2>2, <2>3 DEF TaskInv
<1>3. ASSUME NEW t \in Tasks, CompleteExpired(r, t) PROVE BudgetInv'
  <2> DEFINE new == [row[t] EXCEPT !.status = "succeeded"]
  <2>0. row[t] \in Row
    BY <1>a
  <2>1. new \in Row /\ new.status = "succeeded" /\ new.epoch = row[t].epoch
    BY <2>0, StatusType DEF Row, Statuses, Terminal
  <2>2. ReaperUpdate(r, t, new) /\ UNCHANGED fire
    BY <1>3 DEF CompleteExpired
  <2> HIDE DEF new
  <2> QED
    BY <2>1, <2>2, ReaperUpdateBudget
<1>4. ASSUME NEW t \in Tasks, DeadLetterExpired(r, t) PROVE BudgetInv'
  <2> DEFINE new == [row[t] EXCEPT !.status = "failed", !.attempts = @ + 1]
  <2>1. /\ new \in Row /\ new.status = "failed" /\ new.epoch = row[t].epoch
        /\ new.attempts = row[t].attempts + 1
        /\ new.dispatchedAt = row[t].dispatchedAt
    BY <1>a, CountedType DEF Row, Statuses, Terminal
  <2>2. ReaperUpdate(r, t, new) /\ UNCHANGED fire
    BY <1>4 DEF DeadLetterExpired
  <2>3. ASSUME ReaperMatches(t, sweep[r][t])
        PROVE  row[t].attempts + 1 = MaxAttempts /\ ~row[t].dispatchedAt
    <3>1. /\ sweep[r][t].attempts = row[t].attempts /\ ~row[t].dispatchedAt
          /\ row[t].attempts < MaxAttempts /\ row[t].attempts + 1 >= MaxAttempts
      BY <1>4, <2>3, SweepMatches DEF DeadLetterExpired
    <3>2. row[t].attempts \in Nat
      BY <1>a DEF Row
    <3> QED
      BY <1>a, <3>1, <3>2
  <2> HIDE DEF new
  <2> QED
    BY <2>1, <2>2, <2>3, ReaperUpdateBudget
<1>5. ASSUME NEW t \in Tasks, ReclaimExpired(r, t) PROVE BudgetInv'
  <2> DEFINE k == Backoff(sweep[r][t].attempts + 1)
             new == [Cleared(row[t]) EXCEPT !.status = "pending", !.attempts = @ + 1,
                       !.epoch = @ + 1, !.runAt = k]
  <2>0. sweep[r][t].attempts + 1 \in 1..MaxAttempts
    BY <1>5, <1>a DEF ReclaimExpired, Expired
  <2>k. k \in Int
    BY <2>0, TaskQueueAssumption
  <2> HIDE DEF k
  <2>1. /\ new \in Row /\ new.status = "pending" /\ new.epoch = row[t].epoch + 1
        /\ new.attempts = row[t].attempts + 1 /\ ~new.dispatchedAt
    BY <1>a, <2>k, ReclaimedRow
  <2>2. ReaperUpdate(r, t, new) /\ UNCHANGED fire
    BY <1>5 DEF ReclaimExpired, k
  <2>3. ASSUME ReaperMatches(t, sweep[r][t]) PROVE row[t].attempts + 1 < MaxAttempts
    BY <1>5, <2>3, SweepMatches DEF ReclaimExpired
  <2> HIDE DEF new
  <2> QED
    BY <2>1, <2>2, <2>3, ReaperUpdateBudget
<1>d. ASSUME UNCHANGED <<row, fire>>, \A u \in Tasks : SweepStays(u) PROVE BudgetInv'
  <2>1. \A u \in Tasks : RowStays(u) /\ FireStays(u)
    BY <1>d, FireUnchanged DEF RowStays
  <2> QED
    BY <1>a, <1>d, <2>1, Stays DEF BudgetInv
<1>6. ASSUME NEW t \in Tasks, RowErrors(r, t) PROVE BudgetInv'
  BY <1>6, <1>d, SweepResolved DEF RowErrors
<1>7. CASE AbortSweep(r)
  <2>1. \A u \in Tasks : SweepStays(u)
    BY <1>7, <1>a DEF AbortSweep, SweepStays
  <2> QED
    BY <1>7, <1>d, <2>1 DEF AbortSweep
<1> QED
  BY <1>1, <1>2, <1>3, <1>4, <1>5, <1>6, <1>7 DEF ReaperStep

LEMMA ReaperStepReply ==
  ASSUME TypeOK, ReplyInv, NEW r \in Reapers, ReaperStep(r)
  PROVE  ReplyInv'
<1>a. row \in [Tasks -> Row] /\ 0 \in Int
  BY DEF TypeOK
<1>b. UNCHANGED <<fire, replies>>
  BY DEF ReaperStep, RetireMissedPending, FindExpiredLeases, CompleteExpired,
         DeadLetterExpired, ReclaimExpired, RowErrors, AbortSweep
<1>c. \A u \in Tasks : \A e \in Epochs : ClaimKept(u, e)
  BY <1>b DEF ClaimKept, Held
<1>d. ASSUME \A u \in Tasks : RowGrows(u) PROVE ReplyInv'
  BY <1>b, <1>c, <1>d, ReplyStays
<1>e. ASSUME NEW t \in Tasks, NEW new \in Row, ReaperUpdate(r, t, new),
             new.epoch \in {row[t].epoch, row[t].epoch + 1}
      PROVE  ReplyInv'
  <2>1. /\ \A u \in Tasks : u # t => row'[u] = row[u]
        /\ row'[t] = IF ReaperMatches(t, sweep[r][t]) THEN new ELSE row[t]
    BY <1>e, ReaperUpdateType
  <2>2. \A u \in Tasks : RowGrows(u)
    BY <1>e, <2>1 DEF RowGrows, ReaperMatches, LeaseExpired
  <2> QED
    BY <1>d, <2>2
<1>1. ASSUME NEW S \in SUBSET Tasks, RetireMissedPending(r, S) PROVE ReplyInv'
  <2>1. ASSUME NEW u \in Tasks PROVE RowGrows(u)
    <3>1. row[u] \in Row
      BY <1>a
    <3>2. CASE u \in S
      <4>1. row'[u] = [row[u] EXCEPT !.status = "missed"] /\ row[u].status = "pending"
        BY <1>1, <3>2 DEF RetireMissedPending
      <4> QED
        BY <3>1, <4>1 DEF RowGrows, Row
    <3>3. CASE u \notin S
      BY <1>1, <3>3 DEF RetireMissedPending, RowGrows
    <3> QED
      BY <3>2, <3>3
  <2> QED
    BY <1>d, <2>1
<1>2. ASSUME NEW S \in SUBSET Tasks, FindExpiredLeases(r, S) PROVE ReplyInv'
  BY <1>2, <1>d DEF FindExpiredLeases, RowGrows
<1>3. ASSUME NEW t \in Tasks, CompleteExpired(r, t) PROVE ReplyInv'
  <2>0. row[t] \in Row
    BY <1>a
  <2>1. /\ [row[t] EXCEPT !.status = "succeeded"] \in Row
        /\ [row[t] EXCEPT !.status = "succeeded"].epoch = row[t].epoch
    BY <2>0, StatusType DEF Row, Statuses, Terminal
  <2> QED
    BY <1>3, <1>e, <2>1 DEF CompleteExpired
<1>4. ASSUME NEW t \in Tasks, DeadLetterExpired(r, t) PROVE ReplyInv'
  <2>1. /\ [row[t] EXCEPT !.status = "failed", !.attempts = @ + 1] \in Row
        /\ [row[t] EXCEPT !.status = "failed", !.attempts = @ + 1].epoch = row[t].epoch
    BY <1>a, CountedType DEF Row, Statuses, Terminal
  <2> QED
    BY <1>4, <1>e, <2>1 DEF DeadLetterExpired
<1>5. ASSUME NEW t \in Tasks, ReclaimExpired(r, t) PROVE ReplyInv'
  <2> DEFINE k == Backoff(sweep[r][t].attempts + 1)
             new == [Cleared(row[t]) EXCEPT !.status = "pending", !.attempts = @ + 1,
                       !.epoch = @ + 1, !.runAt = k]
  <2>0. sweep[r][t].attempts + 1 \in 1..MaxAttempts
    BY <1>5, TaskQueueAssumption DEF ReclaimExpired, Expired, TypeOK
  <2>k. k \in Int
    BY <2>0, TaskQueueAssumption
  <2> HIDE DEF k
  <2>1. new \in Row /\ new.epoch = row[t].epoch + 1
    BY <1>a, <2>k, ReclaimedRow
  <2>2. ReaperUpdate(r, t, new)
    BY <1>5 DEF ReclaimExpired, k
  <2> HIDE DEF new
  <2> QED
    BY <1>e, <2>1, <2>2
<1>6. ASSUME NEW t \in Tasks, RowErrors(r, t) PROVE ReplyInv'
  BY <1>6, <1>d DEF RowErrors, RowGrows
<1>7. CASE AbortSweep(r)
  BY <1>7, <1>d DEF AbortSweep, RowGrows
<1> QED
  BY <1>1, <1>2, <1>3, <1>4, <1>5, <1>6, <1>7 DEF ReaperStep

-----------------------------------------------------------------------------
(* The other writers and the clock.                                        *)

\* A row that was not running is moved on or deleted, or any row is deleted.
LEMMA TableStepShape ==
  ASSUME TypeOK, NEW t \in Tasks, TableStep(t)
  PROVE  /\ UNCHANGED <<fire, replies, sweep>>
         /\ \A u \in Tasks : u # t => row'[u] = row[u]
         /\ \/ RowStays(t)
            \/ row[t].status # "deleted" /\ row'[t].status = "deleted"
            \/ /\ row[t].status = "pending" /\ row'[t].status = "missed"
               /\ row'[t].epoch = row[t].epoch
<1>a. row \in [Tasks -> Row] /\ row[t] \in Row
  BY DEF TypeOK
<1>1. CASE UpdateToMissed(t)
  BY <1>1, <1>a DEF UpdateToMissed, SetRow, Row
<1>2. ASSUME NEW grace \in Graces, UpdateMissedAfter(t, grace)
      PROVE  /\ UNCHANGED <<fire, replies, sweep>>
             /\ \A u \in Tasks : u # t => row'[u] = row[u]
             /\ RowStays(t)
  BY <1>2, <1>a DEF UpdateMissedAfter, SetRow, Row, RowStays
<1>3. CASE DeletePending(t)
  BY <1>3, <1>a DEF DeletePending, SetRow, Deleted
<1>4. CASE CascadeDelete(t)
  BY <1>4, <1>a DEF CascadeDelete, SetRow, Deleted
<1>5. CASE DeleteFinished(t)
  BY <1>5, <1>a DEF DeleteFinished, SetRow, Deleted, Terminal
<1> QED
  BY <1>1, <1>2, <1>3, <1>4, <1>5 DEF TableStep

LEMMA TableStepBudget ==
  ASSUME TypeOK, BudgetInv, NEW t \in Tasks, TableStep(t)
  PROVE  BudgetInv'
<1>1. \A u \in Tasks : TaskInv(u) /\ SweepStays(u) /\ FireStays(u)
  BY TableStepShape, FireUnchanged DEF BudgetInv, SweepStays
<1>2. RowStays(t) \/ RowUnowned(t)
  BY TableStepShape DEF RowUnowned, RowSound
<1>3. TaskInv(t)'
  BY <1>1, <1>2, Stays, Unowned
<1>4. ASSUME NEW u \in Tasks, u # t PROVE TaskInv(u)'
  <2>1. RowStays(u)
    BY <1>4, TableStepShape DEF RowStays
  <2> QED
    BY <1>1, <2>1, Stays
<1> QED
  BY <1>3, <1>4 DEF BudgetInv

LEMMA TableStepReply ==
  ASSUME TypeOK, ReplyInv, NEW t \in Tasks, TableStep(t)
  PROVE  ReplyInv'
<1>1. \A u \in Tasks : \A e \in Epochs : ClaimKept(u, e)
  BY TableStepShape DEF ClaimKept, Held
<1>2. \A u \in Tasks : RowGrows(u)
  BY TableStepShape DEF RowGrows, RowStays
<1> QED
  BY <1>1, <1>2, ReplyStays, TableStepShape

\* The clock moves nothing that the invariants read.
LEMMA TickShape ==
  ASSUME TypeOK, Tick
  PROVE  /\ UNCHANGED <<replies, sweep>>
         /\ \A u \in Tasks : RowStays(u)
         /\ \A u \in Tasks : \A e \in Epochs :
              /\ fire'[u][e].pc = fire[u][e].pc /\ fire'[u][e].host = fire[u][e].host
              /\ fire'[u][e].attempts = fire[u][e].attempts
              /\ fire'[u][e].mark = fire[u][e].mark
<1>1. ASSUME NEW u \in Tasks PROVE RowStays(u)
  <2>1. row[u] \in Row
    BY DEF TypeOK
  <2> QED
    BY <2>1 DEF Tick, RowStays, Row
<1>2. ASSUME NEW u \in Tasks, NEW e \in Epochs
      PROVE  /\ fire'[u][e].pc = fire[u][e].pc /\ fire'[u][e].host = fire[u][e].host
             /\ fire'[u][e].attempts = fire[u][e].attempts
             /\ fire'[u][e].mark = fire[u][e].mark
  <2>1. fire[u][e] \in Fire
    BY DEF TypeOK
  <2> QED
    BY <2>1 DEF Tick, Fire
<1> QED
  BY <1>1, <1>2 DEF Tick

LEMMA TickBudget ==
  ASSUME TypeOK, BudgetInv, Tick
  PROVE  BudgetInv'
<1>1. \A u \in Tasks : RowStays(u) /\ FireStays(u) /\ SweepStays(u)
  BY TickShape DEF FireStays, SweepStays, Held
<1> QED
  BY <1>1, Stays DEF BudgetInv

LEMMA TickReply ==
  ASSUME TypeOK, ReplyInv, Tick
  PROVE  ReplyInv'
<1>1. \A u \in Tasks : \A e \in Epochs : ClaimKept(u, e)
  BY TickShape DEF ClaimKept, Held
<1>2. \A u \in Tasks : RowGrows(u)
  BY TickShape DEF RowGrows, RowStays
<1> QED
  BY <1>1, <1>2, ReplyStays, TickShape

-----------------------------------------------------------------------------
(* The theorems.                                                           *)

LEMMA BudgetInit == Init => BudgetInv /\ ReplyInv
<1> SUFFICES ASSUME Init PROVE BudgetInv /\ ReplyInv
  OBVIOUS
<1>1. ASSUME NEW t \in Tasks PROVE TaskInv(t)
  <2>1. \E due, deadline : row[t] = Recorded(due, deadline)
    BY DEF Init
  <2>2. /\ row[t].status = "pending" /\ row[t].attempts = 0
        /\ row[t].dispatchedAt = FALSE
    BY <2>1 DEF Recorded
  <2>3. RowSound(t)
    BY <2>2, TaskQueueAssumption DEF RowSound
  <2>4. \A e \in Epochs : ClaimCurrent(t, e)
    BY <2>2 DEF ClaimCurrent
  <2>5. \A r \in Reapers : SweepCurrent(r, t)
    BY DEF Init, SweepCurrent
  <2> QED
    BY <2>3, <2>4, <2>5 DEF TaskInv
<1>2. \A t \in Tasks : \A e \in Epochs : ~Held(t, e)
  BY DEF Init, Held, Blank
<1>3. ReplyInv
  BY <1>2 DEF Init, ReplyInv
<1> QED
  BY <1>1, <1>3 DEF BudgetInv

\* The snapshots a claim and a sweep decide from agree with any row they can
\* still match.
THEOREM SnapshotsAgree == Spec => [](BudgetInv /\ ReplyInv)
<1>1. TypeOK /\ BudgetInv /\ ReplyInv /\ [Next]_vars => BudgetInv' /\ ReplyInv'
  <2> SUFFICES ASSUME TypeOK, BudgetInv, ReplyInv, [Next]_vars
               PROVE  BudgetInv' /\ ReplyInv'
    OBVIOUS
  <2>1. CASE UNCHANGED vars
    <3>1. \A t \in Tasks : RowStays(t) /\ FireStays(t) /\ SweepStays(t) /\ RowGrows(t)
      BY <2>1 DEF vars, RowStays, FireStays, SweepStays, Held, RowGrows
    <3>2. \A t \in Tasks : \A e \in Epochs : ClaimKept(t, e)
      BY <2>1 DEF vars, ClaimKept, Held
    <3>3. UNCHANGED replies
      BY <2>1 DEF vars
    <3> QED
      BY <3>1, <3>2, <3>3, Stays, ReplyStays DEF BudgetInv
  <2>2. CASE Next
    BY <2>2, FireStepBudget, FireStepReply, HostStepBudget, HostStepReply,
       ReaperStepBudget, ReaperStepReply, TableStepBudget, TableStepReply,
       TickBudget, TickReply DEF Next
  <2> QED
    BY <2>1, <2>2
<1> QED
  BY <1>1, BudgetInit, TypeCorrect, PTL DEF Spec

\* The attempt budget is exact: a row fails only with its last attempt used,
\* and a row that may still run has one left, for any number of mains,
\* reapers, attempts and faults.
THEOREM BudgetCorrect == Spec => []AttemptBudgetExact
<1>1. BudgetInv => AttemptBudgetExact
  BY DEF BudgetInv, TaskInv, RowSound, AttemptBudgetExact
<1> QED
  BY <1>1, SnapshotsAgree, PTL

\* An occurrence whose dispatch marker landed is never recorded failed,
\* neither by its owner nor by a sweep that read it before the marker landed.
THEOREM DispatchCorrect == Spec => []DispatchedNeverFails
<1>1. BudgetInv => DispatchedNeverFails
  BY DEF BudgetInv, TaskInv, RowSound, DispatchedNeverFails
<1> QED
  BY <1>1, SnapshotsAgree, PTL
============================================================================
