-------------------------- MODULE TaskQueueProofs --------------------------
(***************************************************************************)
(* Theorems about TaskQueue, for every set of rows, hosts and reapers and  *)
(* every value of the other constants.                                     *)
(***************************************************************************)
EXTENDS TaskQueue, FiniteSetTheorems, TLAPS

-----------------------------------------------------------------------------
(* What the update operators do to the table and to the claims.            *)

\* SetRow replaces one row and leaves the others.
LEMMA SetRowFacts ==
  ASSUME row \in [Tasks -> Row], NEW t \in Tasks, NEW r \in Row, SetRow(t, r)
  PROVE  /\ row' \in [Tasks -> Row]
         /\ row'[t] = r
         /\ \A u \in Tasks : u # t => row'[u] = row[u]
BY DEF SetRow

\* A guarded update replaces the row of a matching claim and nothing else.
LEMMA GuardedFacts ==
  ASSUME row \in [Tasks -> Row], NEW h, NEW t \in Tasks, NEW e \in Epochs,
         NEW r \in Row, GuardedUpdate(h, t, e, r)
  PROVE  /\ row' \in [Tasks -> Row]
         /\ row'[t] = IF Matches(h, t, e) THEN r ELSE row[t]
         /\ \A u \in Tasks : u # t => row'[u] = row[u]
BY SetRowFacts DEF GuardedUpdate

\* SetFire replaces one claim and leaves the others.
LEMMA SetFireFacts ==
  ASSUME fire \in [Tasks -> [Epochs -> Fire]],
         NEW t \in Tasks, NEW e \in Epochs, NEW f \in Fire, SetFire(t, e, f)
  PROVE  /\ fire' \in [Tasks -> [Epochs -> Fire]]
         /\ fire'[t][e] = f
         /\ \A u \in Tasks : \A d \in Epochs : <<u, d>> # <<t, e>> => fire'[u][d] = fire[u][d]
BY DEF SetFire

LEMMA EpochsNat == Epochs \subseteq Nat
BY DEF Epochs

LEMMA BlankType == \A pc \in FireStates : Blank(pc) \in Fire
BY DEF Blank, Fire, Marks

\* The claims a step writes are claims.
LEMMA PcType ==
  ASSUME NEW f \in Fire, NEW p \in FireStates
  PROVE  /\ [f EXCEPT !.pc = p] \in Fire
         /\ [f EXCEPT !.pc = p, !.delay = 0] \in Fire
BY 0 \in Int DEF Fire

LEMMA DelayType ==
  ASSUME NEW f \in Fire, NEW k \in Int
  PROVE  [f EXCEPT !.delay = k] \in Fire
BY DEF Fire

LEMMA EndsType ==
  ASSUME fire \in [Tasks -> [Epochs -> Fire]],
         NEW t \in Tasks, NEW e \in Epochs, Ends(t, e)
  PROVE  fire' \in [Tasks -> [Epochs -> Fire]]
<1>1. Blank("over") \in Fire
  BY BlankType DEF FireStates
<1> QED
  BY <1>1, SetFireFacts DEF Ends

\* The claim's columns cleared, and nothing else.
LEMMA ClearedFacts ==
  ASSUME NEW r \in Row
  PROVE  /\ Cleared(r) \in Row
         /\ Cleared(r).attempts = r.attempts
         /\ Cleared(r).status = r.status
         /\ Cleared(r).epoch = r.epoch
         /\ ~Cleared(r).startedAt /\ ~Cleared(r).dispatchedAt
BY 0 \in Int DEF Cleared, Row

LEMMA ChargeType ==
  ASSUME charged \in [Tasks -> SUBSET Nat],
         NEW t \in Tasks, NEW e \in Nat, Charge(t, e)
  PROVE  charged' \in [Tasks -> SUBSET Nat]
BY DEF Charge

LEMMA FaultType == faults \in Nat /\ Fault => faults' \in Nat
BY DEF Fault

\* The rows a statement writes are rows.
LEMMA StatusType ==
  ASSUME NEW r \in Row, NEW s \in Statuses
  PROVE  [r EXCEPT !.status = s] \in Row
BY DEF Row

LEMMA CountedType ==
  ASSUME NEW r \in Row, NEW s \in Statuses
  PROVE  [r EXCEPT !.status = s, !.attempts = @ + 1] \in Row
<1>1. r.attempts + 1 \in Nat
  BY DEF Row
<1> QED
  BY <1>1 DEF Row

LEMMA RetryType ==
  ASSUME NEW r \in Row, NEW k \in Int
  PROVE  [r EXCEPT !.status = "pending", !.attempts = @ + 1, !.runAt = k] \in Row
<1>1. r.attempts + 1 \in Nat
  BY DEF Row
<1> QED
  BY <1>1 DEF Row, Statuses

LEMMA ReclaimType ==
  ASSUME NEW r \in Row, NEW k \in Int
  PROVE  [r EXCEPT !.status = "pending", !.attempts = @ + 1, !.epoch = @ + 1,
                   !.runAt = k] \in Row
<1>1. r.attempts + 1 \in Nat /\ r.epoch + 1 \in Nat
  BY DEF Row
<1> QED
  BY <1>1 DEF Row, Statuses

LEMMA DeletedType == Deleted \in Row
BY 0 \in Int DEF Deleted, Row, Statuses

-----------------------------------------------------------------------------
(* Type correctness: one lemma for the steps of each process.              *)

LEMMA FireStepType ==
  ASSUME TypeOK, NEW t \in Tasks, NEW e \in Epochs, FireStep(t, e)
  PROVE  TypeOK'
<1>a. fire[t][e] \in Fire /\ row[t] \in Row /\ 0 \in Int
  BY DEF TypeOK
<1>b. fire \in [Tasks -> [Epochs -> Fire]] /\ row \in [Tasks -> Row]
  BY DEF TypeOK
<1>c. Lease \in Int
  BY TaskQueueAssumption
<1>1. CASE TimerFires(t, e)
  <2>1. [fire[t][e] EXCEPT !.pc = "firing", !.delay = 0] \in Fire
    BY <1>a DEF Fire, FireStates
  <2>2. fire' \in [Tasks -> [Epochs -> Fire]]
    BY <1>1, <1>b, <2>1, SetFireFacts DEF TimerFires
  <2>3. tracked' \in [Hosts -> [Tasks -> Nat]]
    BY <1>1 DEF TimerFires, TypeOK
  <2> QED
    BY <1>1, <2>2, <2>3 DEF TimerFires, TypeOK, history
<1>2. CASE BeginDispatch(t, e)
  <2>1. [fire[t][e] EXCEPT !.pc = "handling"] \in Fire
    BY <1>a DEF Fire, FireStates
  <2>2. [row[t] EXCEPT !.startedAt = TRUE, !.lease = Lease] \in Row
    BY <1>a, <1>c DEF Row
  <2>3. fire' \in [Tasks -> [Epochs -> Fire]]
    BY <1>2, <1>b, <2>1, SetFireFacts, EndsType DEF BeginDispatch
  <2>4. row' \in [Tasks -> Row]
    BY <1>2, <1>b, <2>2, SetRowFacts DEF BeginDispatch
  <2> QED
    BY <1>2, <2>3, <2>4 DEF BeginDispatch, TypeOK, history
<1>3. CASE ReportDispatched(t, e)
  <2>1. [fire[t][e] EXCEPT !.mark = "writing"] \in Fire
    BY <1>a DEF Fire, Marks
  <2>2. fire' \in [Tasks -> [Epochs -> Fire]]
    BY <1>3, <1>b, <2>1, SetFireFacts DEF ReportDispatched
  <2> QED
    BY <1>3, <2>2 DEF ReportDispatched, TypeOK
<1>4. CASE MarkDispatched(t, e)
  <2>1. [fire[t][e] EXCEPT !.mark = "settled"] \in Fire
    BY <1>a DEF Fire, Marks
  <2>2. fire' \in [Tasks -> [Epochs -> Fire]]
    BY <1>4, <1>b, <2>1, SetFireFacts DEF MarkDispatched
  <2>3. [row[t] EXCEPT !.dispatchedAt = TRUE] \in Row
    BY <1>a DEF Row
  <2>4. row' \in [Tasks -> Row]
    BY <1>4, <1>b, <2>3, GuardedFacts DEF MarkDispatched
  <2> QED
    BY <1>4, <2>2, <2>4 DEF MarkDispatched, TypeOK, history
<1>5. CASE MarkFails(t, e)
  <2>1. [fire[t][e] EXCEPT !.mark = "settled"] \in Fire
    BY <1>a DEF Fire, Marks
  <2>2. fire' \in [Tasks -> [Epochs -> Fire]]
    BY <1>5, <1>b, <2>1, SetFireFacts DEF MarkFails
  <2> QED
    BY <1>5, <2>2, FaultType DEF MarkFails, TypeOK, history
<1>6. CASE HandlerReturns(t, e)
  <2>1. [fire[t][e] EXCEPT !.pc = "returned",
                           !.mark = IF @ = "none" THEN "writing" ELSE @] \in Fire
    BY <1>a DEF Fire, FireStates, Marks
  <2>2. fire' \in [Tasks -> [Epochs -> Fire]]
    BY <1>6, <1>b, <2>1, SetFireFacts DEF HandlerReturns
  <2> QED
    BY <1>6, <2>2 DEF HandlerReturns, TypeOK
<1>7. CASE HandlerThrows(t, e)
  <2>1. [fire[t][e] EXCEPT !.pc = "threw"] \in Fire
    BY <1>a DEF Fire, FireStates
  <2>2. fire' \in [Tasks -> [Epochs -> Fire]]
    BY <1>7, <1>b, <2>1, SetFireFacts DEF HandlerThrows
  <2> QED
    BY <1>7, <2>2 DEF HandlerThrows, TypeOK, history
<1>8. CASE CompleteTask(t, e)
  <2>1. [row[t] EXCEPT !.status = "succeeded"] \in Row
    BY <1>a, StatusType DEF Statuses, Terminal
  <2>2. row' \in [Tasks -> Row]
    BY <1>8, <1>b, <2>1, GuardedFacts DEF CompleteTask
  <2> QED
    BY <1>8, <1>b, <2>2, EndsType DEF CompleteTask, TypeOK, history
<1>9. CASE FailTaskTerminal(t, e)
  <2>1. [row[t] EXCEPT !.status = "failed", !.attempts = @ + 1] \in Row
    BY <1>a, CountedType DEF Statuses, Terminal
  <2>2. row' \in [Tasks -> Row]
    BY <1>9, <1>b, <2>1, GuardedFacts DEF FailTaskTerminal
  <2>3. charged' \in [Tasks -> SUBSET Nat]
    BY <1>9, ChargeType, EpochsNat DEF FailTaskTerminal, TypeOK
  <2> QED
    BY <1>9, <1>b, <2>2, <2>3, EndsType DEF FailTaskTerminal, TypeOK
<1>10. CASE RescheduleTask(t, e)
  <2>0. NextAttempts(t, e) \in 1..MaxAttempts
    BY <1>10, <1>a, TaskQueueAssumption DEF RescheduleTask, NextAttempts, Fire
  <2>1. Backoff(NextAttempts(t, e)) \in Int
    BY <2>0, TaskQueueAssumption
  <2>2. [Cleared(row[t]) EXCEPT !.status = "pending", !.attempts = @ + 1,
                                !.runAt = Backoff(NextAttempts(t, e))] \in Row
    BY <1>a, <2>1, ClearedFacts, RetryType
  <2>3. row' \in [Tasks -> Row]
    BY <1>10, <1>b, <2>2, GuardedFacts DEF RescheduleTask
  <2>4. charged' \in [Tasks -> SUBSET Nat]
    BY <1>10, ChargeType, EpochsNat DEF RescheduleTask, TypeOK
  <2> QED
    BY <1>10, <1>b, <2>3, <2>4, EndsType DEF RescheduleTask, TypeOK
<1>11. CASE WriteRejects(t, e)
  BY <1>11, <1>b, EndsType, FaultType DEF WriteRejects, TypeOK, history
<1> QED
  BY <1>1, <1>2, <1>3, <1>4, <1>5, <1>6, <1>7, <1>8, <1>9, <1>10, <1>11 DEF FireStep

LEMMA HostStepType ==
  ASSUME TypeOK, NEW h \in Hosts, HostStep(h)
  PROVE  TypeOK'
<1>a. /\ fire \in [Tasks -> [Epochs -> Fire]] /\ row \in [Tasks -> Row]
      /\ Blank("over") \in Fire /\ 0 \in Int /\ Lease \in Int
  BY BlankType, TaskQueueAssumption DEF TypeOK, FireStates
<1>1. ASSUME NEW S \in SUBSET Tasks, ClaimDueTasks(h, S) PROVE TypeOK'
  <2>0. \A t \in S : t \in Tasks /\ row[t] \in Row /\ row[t].epoch < MaxEpoch
    BY <1>1, <1>a DEF ClaimDueTasks
  <2>a. \A t \in S : row[t].epoch \in Nat /\ row[t].attempts \in Nat /\ row[t].runAt \in Int
    BY <2>0 DEF Row
  <2>b. \A t \in S : row[t].epoch + 1 \in Epochs
    BY <2>0, <2>a, TaskQueueAssumption DEF Epochs
  <2>1. ASSUME NEW t \in S
        PROVE  /\ [row[t] EXCEPT !.status = "running", !.claimedBy = h,
                                 !.lease = Lease, !.epoch = @ + 1] \in Row
               /\ [pc |-> "claimed", host |-> h, attempts |-> row[t].attempts,
                   delay |-> row[t].runAt, mark |-> "none"] \in Fire
    <3>1. row[t] \in Row /\ row[t].epoch + 1 \in Nat
      BY <2>0, <2>a
    <3>2. [row[t] EXCEPT !.status = "running", !.claimedBy = h,
                         !.lease = Lease, !.epoch = @ + 1] \in Row
      BY <3>1, <1>a DEF Row, Statuses
    <3> QED
      BY <2>a, <3>2 DEF Fire, FireStates, Marks
  <2>2. row' \in [Tasks -> Row]
    BY <1>1, <1>a, <2>1 DEF ClaimDueTasks
  <2>3. fire' \in [Tasks -> [Epochs -> Fire]]
    BY <1>1, <1>a, <2>1 DEF ClaimDueTasks
  <2>4. {<<t, row[t].epoch + 1>> : t \in S} \in SUBSET (Tasks \X Epochs)
    BY <2>b
  <2>5. replies' \in [Hosts -> SUBSET SUBSET (Tasks \X Epochs)]
    BY <1>1, <2>4 DEF ClaimDueTasks, TypeOK
  <2>6. faults' \in Nat
    BY <1>1, FaultType DEF ClaimDueTasks, TypeOK
  <2> QED
    BY <1>1, <2>2, <2>3, <2>5, <2>6 DEF ClaimDueTasks, TypeOK, history
<1>2. ASSUME NEW batch \in replies[h], ScheduleClaimed(h, batch) PROVE TypeOK'
  <2>1. ASSUME NEW t \in Tasks, NEW e \in Epochs
        PROVE  [fire[t][e] EXCEPT !.pc = "armed"] \in Fire
    <3>1. fire[t][e] \in Fire /\ "armed" \in FireStates
      BY <1>a DEF FireStates
    <3> QED
      BY <3>1, PcType
  <2>2. fire' \in [Tasks -> [Epochs -> Fire]]
    BY <1>2, <1>a, <2>1 DEF ScheduleClaimed
  <2>3. \A t \in Tasks : (\E e \in Epochs : <<t, e>> \in batch)
                           => (CHOOSE e \in Epochs : <<t, e>> \in batch) \in Nat
    BY EpochsNat
  <2>4. tracked' \in [Hosts -> [Tasks -> Nat]]
    BY <1>2, <2>3 DEF ScheduleClaimed, TypeOK
  <2>5. replies' \in [Hosts -> SUBSET SUBSET (Tasks \X Epochs)]
    BY <1>2 DEF ScheduleClaimed, TypeOK
  <2> QED
    BY <1>2, <2>2, <2>4, <2>5 DEF ScheduleClaimed, TypeOK, history
<1>3. ASSUME NEW batch \in replies[h], HandBackClaims(h, batch) PROVE TypeOK'
  <2>1. fire' \in [Tasks -> [Epochs -> Fire]]
    BY <1>3, <1>a DEF HandBackClaims
  <2>2. batch \in SUBSET (Tasks \X Epochs)
    BY <1>3 DEF TypeOK
  <2>3. /\ replies' \in [Hosts -> SUBSET SUBSET (Tasks \X Epochs)]
        /\ releases' \in [Hosts -> SUBSET (Tasks \X Epochs)]
    BY <1>3, <2>2 DEF HandBackClaims, TypeOK
  <2>4. faults' \in Nat
    BY <1>3, FaultType DEF HandBackClaims, TypeOK
  <2> QED
    BY <1>3, <2>1, <2>3, <2>4 DEF HandBackClaims, TypeOK, history
<1>4. ASSUME NEW t \in Tasks, NEW e \in Epochs, ReleaseClaim(h, t, e) PROVE TypeOK'
  <2>1. [Cleared(row[t]) EXCEPT !.status = "pending"] \in Row
    BY <1>a, ClearedFacts, StatusType DEF Statuses
  <2>2. row' \in [Tasks -> Row]
    BY <1>4, <1>a, <2>1, GuardedFacts DEF ReleaseClaim
  <2>3. releases' \in [Hosts -> SUBSET (Tasks \X Epochs)]
    BY <1>4 DEF ReleaseClaim, TypeOK
  <2> QED
    BY <1>4, <2>2, <2>3 DEF ReleaseClaim, TypeOK, history
<1>5. ASSUME NEW t \in Tasks, NEW e \in Epochs, ReleaseRejects(h, t, e) PROVE TypeOK'
  <2>1. releases' \in [Hosts -> SUBSET (Tasks \X Epochs)]
    BY <1>5 DEF ReleaseRejects, TypeOK
  <2> QED
    BY <1>5, <2>1, FaultType DEF ReleaseRejects, TypeOK, history
<1>6. CASE Stop(h)
  <2>1. ASSUME NEW t \in Tasks, NEW e \in Epochs
        PROVE  [fire[t][e] EXCEPT !.pc = "stranded", !.delay = 0] \in Fire
    <3>1. fire[t][e] \in Fire /\ "stranded" \in FireStates
      BY <1>a DEF FireStates
    <3> QED
      BY <3>1, PcType
  <2>2. fire' \in [Tasks -> [Epochs -> Fire]]
    BY <1>6, <1>a, <2>1 DEF Stop
  <2>3. /\ releases' \in [Hosts -> SUBSET (Tasks \X Epochs)]
        /\ tracked' \in [Hosts -> [Tasks -> Nat]]
        /\ phase' \in [Hosts -> {"up", "stopped", "down"}]
    BY <1>6 DEF Stop, TypeOK
  <2> QED
    BY <1>6, <2>2, <2>3, FaultType DEF Stop, TypeOK, history
<1>7. CASE Crash(h)
  <2>1. fire' \in [Tasks -> [Epochs -> Fire]]
    BY <1>7, <1>a DEF Crash
  <2>2. /\ releases' \in [Hosts -> SUBSET (Tasks \X Epochs)]
        /\ replies' \in [Hosts -> SUBSET SUBSET (Tasks \X Epochs)]
        /\ tracked' \in [Hosts -> [Tasks -> Nat]]
        /\ phase' \in [Hosts -> {"up", "stopped", "down"}]
    BY <1>7 DEF Crash, TypeOK
  <2>3. faults' \in Nat
    BY <1>7, FaultType DEF Crash, TypeOK
  <2> QED
    BY <1>7, <2>1, <2>2, <2>3 DEF Crash, TypeOK, history
<1>8. CASE Restart(h)
  BY <1>8 DEF Restart, TypeOK, history
<1> QED
  BY <1>1, <1>2, <1>3, <1>4, <1>5, <1>6, <1>7, <1>8 DEF HostStep

LEMMA SweepType ==
  ASSUME sweep \in [Reapers -> [Tasks -> Expired]],
         NEW r \in Reapers, NEW t \in Tasks, sweep' = [sweep EXCEPT ![r][t] = Resolved]
  PROVE  sweep' \in [Reapers -> [Tasks -> Expired]]
BY DEF Expired, Resolved

\* What one guarded statement of the reaper does.
LEMMA ReaperUpdateType ==
  ASSUME TypeOK, NEW r \in Reapers, NEW t \in Tasks, NEW new \in Row,
         ReaperUpdate(r, t, new)
  PROVE  /\ row' \in [Tasks -> Row]
         /\ lapsed' \in [Tasks -> SUBSET Nat]
         /\ sweep' \in [Reapers -> [Tasks -> Expired]]
         /\ \A u \in Tasks : u # t => row'[u] = row[u]
         /\ row'[t] = IF ReaperMatches(t, sweep[r][t]) THEN new ELSE row[t]
<1>1. /\ row' \in [Tasks -> Row]
      /\ \A u \in Tasks : u # t => row'[u] = row[u]
      /\ row'[t] = IF ReaperMatches(t, sweep[r][t]) THEN new ELSE row[t]
  BY SetRowFacts DEF ReaperUpdate, TypeOK
<1>2. lapsed' \in [Tasks -> SUBSET Nat]
  BY DEF ReaperUpdate, TypeOK, Expired
<1>3. sweep' \in [Reapers -> [Tasks -> Expired]]
  BY SweepType DEF ReaperUpdate, TypeOK
<1> QED
  BY <1>1, <1>2, <1>3

LEMMA ReaperStepType ==
  ASSUME TypeOK, NEW r \in Reapers, ReaperStep(r)
  PROVE  TypeOK'
<1>a. /\ fire \in [Tasks -> [Epochs -> Fire]] /\ row \in [Tasks -> Row]
      /\ sweep \in [Reapers -> [Tasks -> Expired]] /\ Resolved \in Expired
  BY DEF TypeOK, Expired, Resolved
<1>1. ASSUME NEW S \in SUBSET Tasks, RetireMissedPending(r, S) PROVE TypeOK'
  <2>1. \A t \in S : [row[t] EXCEPT !.status = "missed"] \in Row
    BY <1>a, StatusType DEF Statuses, Terminal
  <2> QED
    BY <1>1, <1>a, <2>1 DEF RetireMissedPending, TypeOK, history
<1>2. ASSUME NEW S \in SUBSET Tasks, FindExpiredLeases(r, S) PROVE TypeOK'
  <2>1. \A t \in S : [epoch |-> row[t].epoch, attempts |-> row[t].attempts,
                      dispatchedAt |-> row[t].dispatchedAt] \in Expired
    BY <1>a DEF Row, Expired
  <2>2. sweep' \in [Reapers -> [Tasks -> Expired]]
    BY <1>2, <1>a, <2>1 DEF FindExpiredLeases
  <2> QED
    BY <1>2, <2>2 DEF FindExpiredLeases, TypeOK, history
<1>3. ASSUME NEW t \in Tasks, CompleteExpired(r, t) PROVE TypeOK'
  <2>1. [row[t] EXCEPT !.status = "succeeded"] \in Row
    BY <1>a, StatusType DEF Statuses, Terminal
  <2> QED
    BY <1>3, <2>1, ReaperUpdateType DEF CompleteExpired, TypeOK
<1>4. ASSUME NEW t \in Tasks, DeadLetterExpired(r, t) PROVE TypeOK'
  <2>1. [row[t] EXCEPT !.status = "failed", !.attempts = @ + 1] \in Row
    BY <1>a, CountedType DEF Statuses, Terminal
  <2>2. charged' \in [Tasks -> SUBSET Nat]
    BY <1>4, <1>a, ChargeType DEF DeadLetterExpired, TypeOK, Expired
  <2> QED
    BY <1>4, <2>1, <2>2, ReaperUpdateType DEF DeadLetterExpired, TypeOK
<1>5. ASSUME NEW t \in Tasks, ReclaimExpired(r, t) PROVE TypeOK'
  <2>0. sweep[r][t].attempts + 1 \in 1..MaxAttempts
    BY <1>5, <1>a, TaskQueueAssumption DEF ReclaimExpired, Expired
  <2>1. Backoff(sweep[r][t].attempts + 1) \in Int
    BY <2>0, TaskQueueAssumption
  <2>2. [Cleared(row[t]) EXCEPT !.status = "pending", !.attempts = @ + 1,
           !.epoch = @ + 1, !.runAt = Backoff(sweep[r][t].attempts + 1)] \in Row
    BY <1>a, <2>1, ClearedFacts, ReclaimType
  <2>3. charged' \in [Tasks -> SUBSET Nat]
    BY <1>5, <1>a, ChargeType DEF ReclaimExpired, TypeOK, Expired
  <2> QED
    BY <1>5, <2>2, <2>3, ReaperUpdateType DEF ReclaimExpired, TypeOK
<1>6. ASSUME NEW t \in Tasks, RowErrors(r, t) PROVE TypeOK'
  BY <1>6, SweepType, FaultType DEF RowErrors, TypeOK, history
<1>7. CASE AbortSweep(r)
  BY <1>7, <1>a, FaultType DEF AbortSweep, TypeOK, history
<1> QED
  BY <1>1, <1>2, <1>3, <1>4, <1>5, <1>6, <1>7 DEF ReaperStep

LEMMA TableStepType ==
  ASSUME TypeOK, NEW t \in Tasks, TableStep(t)
  PROVE  TypeOK'
<1>a. row \in [Tasks -> Row] /\ row[t] \in Row
  BY DEF TypeOK
<1>1. CASE UpdateToMissed(t)
  <2>1. [row[t] EXCEPT !.status = "missed"] \in Row
    BY <1>a, StatusType DEF Statuses, Terminal
  <2> QED
    BY <1>1, <1>a, <2>1, SetRowFacts, FaultType DEF UpdateToMissed, TypeOK, history
<1>2. ASSUME NEW grace \in Graces, UpdateMissedAfter(t, grace) PROVE TypeOK'
  <2>1. (IF row[t].runAt > 0 THEN row[t].runAt ELSE 0) + grace \in Int
    BY <1>a, TaskQueueAssumption DEF Row
  <2>2. [row[t] EXCEPT !.missedAfter =
           (IF row[t].runAt > 0 THEN row[t].runAt ELSE 0) + grace] \in Row
    BY <1>a, <2>1 DEF Row
  <2> QED
    BY <1>2, <1>a, <2>2, SetRowFacts, FaultType DEF UpdateMissedAfter, TypeOK, history
<1>3. CASE DeletePending(t)
  BY <1>3, <1>a, DeletedType, SetRowFacts, FaultType DEF DeletePending, TypeOK, history
<1>4. CASE CascadeDelete(t)
  BY <1>4, <1>a, DeletedType, SetRowFacts, FaultType DEF CascadeDelete, TypeOK, history
<1>5. CASE DeleteFinished(t)
  BY <1>5, <1>a, DeletedType, SetRowFacts, FaultType DEF DeleteFinished, TypeOK, history
<1> QED
  BY <1>1, <1>2, <1>3, <1>4, <1>5 DEF TableStep

LEMMA TickType ==
  ASSUME TypeOK, Tick
  PROVE  TypeOK'
<1>1. \A k, floor \in Int : Before(k, floor) \in Int
  BY DEF Before
<1>2. ASSUME NEW t \in Tasks
      PROVE  [row[t] EXCEPT !.runAt = Before(@, 0),
                !.lease = IF row[t].status = "running" THEN Before(@, -1) ELSE @,
                !.missedAfter = IF @ = NoDeadline THEN @ ELSE Before(@, 0)] \in Row
  <2>1. row[t] \in Row
    BY DEF TypeOK
  <2>a. row[t].runAt \in Int /\ row[t].lease \in Int /\ 0 \in Int /\ -1 \in Int
    BY <2>1 DEF Row
  <2>2. Before(row[t].runAt, 0) \in Int /\ Before(row[t].lease, -1) \in Int
    BY <1>1, <2>a
  <2>3. (IF row[t].missedAfter = NoDeadline THEN row[t].missedAfter
         ELSE Before(row[t].missedAfter, 0)) \in Int \cup {NoDeadline}
    BY <1>1, <2>1 DEF Row
  <2> QED
    BY <2>1, <2>2, <2>3 DEF Row
<1>3. ASSUME NEW t \in Tasks, NEW e \in Epochs
      PROVE  [fire[t][e] EXCEPT !.delay = Before(@, 0)] \in Fire
  <2>1. fire[t][e] \in Fire /\ fire[t][e].delay \in Int /\ 0 \in Int
    BY DEF TypeOK, Fire
  <2>2. Before(fire[t][e].delay, 0) \in Int
    BY <1>1, <2>1
  <2> QED
    BY <2>1, <2>2, DelayType
<1> QED
  BY <1>2, <1>3 DEF Tick, TypeOK, history

\* Every variable keeps its type, for any set of rows, mains and reapers.
THEOREM TypeCorrect == Spec => []TypeOK
<1>1. Init => TypeOK
  <2> SUFFICES ASSUME Init PROVE TypeOK
    OBVIOUS
  <2>1. \A due \in 0..(Lookahead + 1) :
        \A deadline \in {NoDeadline} \cup
                        {d + g : d \in {0, Lookahead + 1}, g \in Graces} :
          Recorded(due, deadline) \in Row
    <3>1. /\ {d + g : d \in {0, Lookahead + 1}, g \in Graces} \subseteq Int
          /\ 0..(Lookahead + 1) \subseteq Int
      BY TaskQueueAssumption
    <3>2. ASSUME NEW due \in Int, NEW deadline \in Int \cup {NoDeadline}
          PROVE  Recorded(due, deadline) \in Row
      BY 0 \in Int DEF Recorded, Row, Statuses
    <3> SUFFICES ASSUME NEW due \in 0..(Lookahead + 1),
                        NEW deadline \in {NoDeadline} \cup
                              {d + g : d \in {0, Lookahead + 1}, g \in Graces}
                 PROVE  Recorded(due, deadline) \in Row
      OBVIOUS
    <3>3. due \in Int /\ deadline \in Int \cup {NoDeadline}
      BY <3>1
    <3> QED
      BY <3>2, <3>3
  <2>2. row \in [Tasks -> Row]
    BY <2>1 DEF Init
  <2>3. Blank("none") \in Fire /\ Resolved \in Expired
    BY BlankType DEF FireStates, Resolved, Expired
  <2> QED
    BY <2>2, <2>3, TaskQueueAssumption DEF Init, TypeOK
<1>2. TypeOK /\ [Next]_vars => TypeOK'
  <2> SUFFICES ASSUME TypeOK, [Next]_vars PROVE TypeOK'
    OBVIOUS
  <2>1. CASE UNCHANGED vars
    BY <2>1 DEF vars, TypeOK
  <2> QED
    BY <2>1, FireStepType, HostStepType, ReaperStepType, TableStepType, TickType
       DEF Next
<1> QED
  BY <1>1, <1>2, PTL DEF Spec

============================================================================
