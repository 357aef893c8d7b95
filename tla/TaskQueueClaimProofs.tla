------------------------ MODULE TaskQueueClaimProofs ------------------------
(***************************************************************************)
(* What one claim of a row may rely on, for every value of the constants:  *)
(* no other handler beside its own unless its lease lapsed, a row free of  *)
(* what an earlier owner left, its attempt counted once, no success        *)
(* without a handler that ran, and nothing kept by a main after stop().    *)
(* Each of the five needs the bookkeeping of a main (the map of tracked    *)
(* claims, the releases under way) to agree with the claims themselves.    *)
(***************************************************************************)
EXTENDS TaskQueueBudgetProofs

Unfired == {"claimed", "armed", "firing"}

-----------------------------------------------------------------------------
(* What a step of one claim does, in the terms of the invariants.          *)

\* The row keeps all but its lease and deadlines.
RowSame(t) ==
  /\ row'[t].status = row[t].status /\ row'[t].epoch = row[t].epoch
  /\ row'[t].attempts = row[t].attempts
  /\ row'[t].startedAt = row[t].startedAt
  /\ row'[t].dispatchedAt = row[t].dispatchedAt

Current(t, e) == row[t].status = "running" /\ row[t].epoch = e

NotCounted(t) == charged'[t] = charged[t]
AttemptCounted(t, e) ==
  /\ charged'[t] = charged[t] \cup {e}
  /\ row'[t].attempts = row[t].attempts + 1

Starts(t, e) ==
  /\ fire[t][e].pc = "firing" /\ fire'[t][e].pc = "handling"
  /\ fire'[t][e].mark = fire[t][e].mark
  /\ Current(t, e) /\ ran'[t] = ran[t] /\ NotCounted(t)
  /\ row'[t].status = row[t].status /\ row'[t].epoch = row[t].epoch
  /\ row'[t].attempts = row[t].attempts
  /\ row'[t].dispatchedAt = row[t].dispatchedAt

\* The claim moves on, and its row does not.
Proceeds(t, e) ==
  /\ RowSame(t) /\ NotCounted(t) /\ (ran[t] => ran'[t])
  /\ \/ /\ fire[t][e].pc = "armed" /\ fire'[t][e].pc = "firing"
        /\ fire'[t][e].mark = fire[t][e].mark
     \/ /\ fire[t][e].pc = "handling" /\ fire'[t][e].pc = "handling" /\ ran'[t]
     \/ /\ fire[t][e].pc = "handling" /\ fire'[t][e].pc = "returned" /\ ran'[t]
     \/ /\ fire[t][e].pc = "handling" /\ fire'[t][e].pc = "threw"
        /\ fire'[t][e].mark = fire[t][e].mark
     \/ /\ fire'[t][e].pc = fire[t][e].pc /\ fire[t][e].mark # "none"

MarkLands(t, e) ==
  /\ fire'[t][e].pc = fire[t][e].pc /\ fire[t][e].mark # "none" /\ ran'[t] = ran[t]
  /\ Current(t, e) /\ NotCounted(t)
  /\ row'[t].status = row[t].status /\ row'[t].epoch = row[t].epoch
  /\ row'[t].attempts = row[t].attempts /\ row'[t].startedAt = row[t].startedAt

\* The claim ends, with or without a write to its row.
Finishes(t, e) ==
  /\ fire[t][e].pc \in {"firing", "returned", "threw"}
  /\ fire'[t][e].pc = "over" /\ fire'[t][e].mark = "none" /\ ran'[t] = ran[t]
  /\ \/ RowSame(t) /\ NotCounted(t)
     \/ /\ Current(t, e) /\ row'[t].epoch = row[t].epoch
        /\ \/ /\ fire[t][e].mark # "none" /\ row'[t].status = "succeeded"
              /\ row'[t].attempts = row[t].attempts /\ NotCounted(t)
           \/ row'[t].status = "failed" /\ AttemptCounted(t, e)
              /\ row'[t].dispatchedAt = row[t].dispatchedAt
           \/ row'[t].status = "pending" /\ AttemptCounted(t, e)
              /\ ~row'[t].startedAt /\ ~row'[t].dispatchedAt

FireOthers(t, e) ==
  /\ UNCHANGED <<replies, releases, phase, sweep, lapsed>>
  /\ \A u \in Tasks : u # t =>
       row'[u] = row[u] /\ ran'[u] = ran[u] /\ charged'[u] = charged[u]
  /\ \A u \in Tasks : \A d \in Epochs :
       <<u, d>> # <<t, e>> => fire'[u][d] = fire[u][d]
  /\ fire'[t][e].host = fire[t][e].host \/ fire'[t][e].pc = "over"
  /\ \/ /\ fire[t][e].pc = "armed"
        /\ tracked' = [tracked EXCEPT ![fire[t][e].host][t] = 0]
     \/ /\ fire[t][e].pc = "armed" => fire'[t][e].pc = "armed"
        /\ UNCHANGED tracked

FireShape(t, e) ==
  /\ FireOthers(t, e)
  /\ Starts(t, e) \/ Proceeds(t, e) \/ MarkLands(t, e) \/ Finishes(t, e)

LEMMA FireFrameFacts ==
  ASSUME TypeOK, NEW t \in Tasks, NEW e \in Epochs, NEW f \in Fire, SetFire(t, e, f)
  PROVE  /\ fire'[t][e] = f
         /\ \A u \in Tasks : \A d \in Epochs :
              <<u, d>> # <<t, e>> => fire'[u][d] = fire[u][d]
BY SetFireFacts DEF TypeOK

LEMMA EndsFacts ==
  ASSUME TypeOK, NEW t \in Tasks, NEW e \in Epochs, Ends(t, e)
  PROVE  /\ fire'[t][e].pc = "over" /\ fire'[t][e].mark = "none"
         /\ \A u \in Tasks : \A d \in Epochs :
              <<u, d>> # <<t, e>> => fire'[u][d] = fire[u][d]
<1>1. Blank("over") \in Fire /\ Blank("over").pc = "over" /\ Blank("over").mark = "none"
  BY BlankType DEF FireStates, Blank
<1> QED
  BY <1>1, FireFrameFacts DEF Ends

LEMMA ChargeFacts ==
  ASSUME TypeOK, NEW t \in Tasks, NEW e, Charge(t, e)
  PROVE  /\ charged'[t] = charged[t] \cup {e}
         /\ \A u \in Tasks : u # t => charged'[u] = charged[u]
BY DEF Charge, TypeOK

LEMMA RanFacts ==
  ASSUME TypeOK, NEW t \in Tasks, ran' = [ran EXCEPT ![t] = TRUE]
  PROVE  ran'[t] /\ \A u \in Tasks : u # t => ran'[u] = ran[u]
BY DEF TypeOK

\* The row a retry, a reclaim or a release puts back carries nothing of its
\* owner.
LEMMA ClearedStart ==
  ASSUME NEW q \in Row
  PROVE  LET r == [Cleared(q) EXCEPT !.status = "pending"]
         IN  /\ r \in Row /\ r.status = "pending" /\ r.epoch = q.epoch
             /\ r.attempts = q.attempts /\ ~r.startedAt /\ ~r.dispatchedAt
<1> DEFINE c == Cleared(q)
           r == [c EXCEPT !.status = "pending"]
<1>1. /\ c \in Row /\ c.attempts = q.attempts /\ c.epoch = q.epoch
      /\ ~c.startedAt /\ ~c.dispatchedAt
  BY ClearedFacts
<1> HIDE DEF c
<1>2. /\ r \in Row /\ r.status = "pending" /\ r.epoch = c.epoch
      /\ r.attempts = c.attempts /\ r.startedAt = c.startedAt
      /\ r.dispatchedAt = c.dispatchedAt
  BY <1>1, StatusType DEF Row, Statuses
<1> QED
  BY <1>1, <1>2 DEF c

LEMMA RetriedStart ==
  ASSUME NEW q \in Row, NEW k \in Int
  PROVE  LET r == [Cleared(q) EXCEPT !.status = "pending", !.attempts = @ + 1,
                                     !.runAt = k]
         IN  ~r.startedAt
<1> DEFINE c == Cleared(q)
<1>1. c \in Row /\ ~c.startedAt
  BY ClearedFacts
<1> HIDE DEF c
<1>2. ~[c EXCEPT !.status = "pending", !.attempts = @ + 1, !.runAt = k].startedAt
  BY <1>1 DEF Row
<1> QED
  BY <1>2 DEF c

LEMMA ReclaimedStart ==
  ASSUME NEW q \in Row, NEW k \in Int
  PROVE  LET r == [Cleared(q) EXCEPT !.status = "pending", !.attempts = @ + 1,
                                     !.epoch = @ + 1, !.runAt = k]
         IN  ~r.startedAt
<1> DEFINE c == Cleared(q)
<1>1. c \in Row /\ ~c.startedAt
  BY ClearedFacts
<1> HIDE DEF c
<1>2. ~[c EXCEPT !.status = "pending", !.attempts = @ + 1, !.epoch = @ + 1,
                 !.runAt = k].startedAt
  BY <1>1 DEF Row
<1> QED
  BY <1>2 DEF c

LEMMA FireStepShape ==
  ASSUME TypeOK, NEW t \in Tasks, NEW e \in Epochs, FireStep(t, e)
  PROVE  FireShape(t, e)
<1>a. /\ fire[t][e] \in Fire /\ row[t] \in Row /\ 0 \in Int /\ Lease \in Int
      /\ row \in [Tasks -> Row] /\ MaxAttempts \in Nat /\ Epochs \subseteq Nat
  BY TaskQueueAssumption, EpochsNat DEF TypeOK
<1>b. UNCHANGED row => /\ RowSame(t) /\ \A u \in Tasks : row'[u] = row[u]
  BY DEF RowSame
<1>1. CASE TimerFires(t, e)
  <2> DEFINE f == [fire[t][e] EXCEPT !.pc = "firing", !.delay = 0]
  <2>0. f \in Fire
    BY <1>a, PcType DEF FireStates
  <2>1. /\ f \in Fire /\ f.pc = "firing" /\ f.mark = fire[t][e].mark
        /\ f.host = fire[t][e].host
    BY <1>a, <2>0 DEF Fire
  <2>2. SetFire(t, e, f)
    BY <1>1 DEF TimerFires
  <2> HIDE DEF f
  <2>3. FireOthers(t, e)
    BY <1>1, <2>1, <2>2, FireFrameFacts DEF TimerFires, FireOthers, history
  <2>4. Proceeds(t, e)
    BY <1>1, <1>b, <2>1, <2>2, FireFrameFacts
       DEF TimerFires, Proceeds, NotCounted, history
  <2> QED
    BY <2>3, <2>4 DEF FireShape
<1>2. CASE BeginDispatch(t, e)
  <2>1. CASE Owns(t, e) /\ ~row[t].startedAt
    <3> DEFINE f == [fire[t][e] EXCEPT !.pc = "handling"]
               r == [row[t] EXCEPT !.startedAt = TRUE, !.lease = Lease]
    <3>0. f \in Fire
      BY <1>a, PcType DEF FireStates
    <3>1. /\ f \in Fire /\ f.pc = "handling" /\ f.mark = fire[t][e].mark
          /\ f.host = fire[t][e].host
      BY <1>a, <3>0 DEF Fire
    <3>2. /\ r \in Row /\ r.status = row[t].status /\ r.epoch = row[t].epoch
          /\ r.attempts = row[t].attempts /\ r.dispatchedAt = row[t].dispatchedAt
      BY <1>a DEF Row
    <3>3. SetFire(t, e, f) /\ SetRow(t, r)
      BY <1>2, <2>1 DEF BeginDispatch
    <3> HIDE DEF f, r
    <3>4. row'[t] = r /\ \A u \in Tasks : u # t => row'[u] = row[u]
      BY <1>a, <3>2, <3>3, SetRowFacts
    <3>5. FireOthers(t, e)
      BY <1>2, <3>1, <3>3, <3>4, FireFrameFacts DEF BeginDispatch, FireOthers, history
    <3>6. Starts(t, e)
      BY <1>2, <2>1, <3>1, <3>2, <3>3, <3>4, FireFrameFacts
         DEF BeginDispatch, Starts, NotCounted, Current, Owns, Matches, history
    <3> QED
      BY <3>5, <3>6 DEF FireShape
  <2>2. CASE ~(Owns(t, e) /\ ~row[t].startedAt)
    <3>1. Ends(t, e) /\ UNCHANGED row
      BY <1>2, <2>2 DEF BeginDispatch
    <3> QED
      BY <1>2, <1>b, <3>1, EndsFacts
         DEF BeginDispatch, FireShape, FireOthers, Finishes, NotCounted, history
  <2> QED
    BY <2>1, <2>2
<1>3. CASE ReportDispatched(t, e)
  <2> DEFINE f == [fire[t][e] EXCEPT !.mark = "writing"]
  <2>1. f \in Fire /\ f.pc = "handling" /\ f.host = fire[t][e].host
    BY <1>3, <1>a DEF ReportDispatched, Fire, Marks
  <2>2. SetFire(t, e, f)
    BY <1>3 DEF ReportDispatched
  <2> HIDE DEF f
  <2>3. ran'[t] /\ \A u \in Tasks : u # t => ran'[u] = ran[u]
    BY <1>3, RanFacts DEF ReportDispatched
  <2>4. FireOthers(t, e)
    BY <1>3, <1>b, <2>1, <2>2, <2>3, FireFrameFacts DEF ReportDispatched, FireOthers
  <2>5. Proceeds(t, e)
    BY <1>3, <1>b, <2>1, <2>2, <2>3, FireFrameFacts DEF ReportDispatched, Proceeds, NotCounted
  <2> QED
    BY <2>4, <2>5 DEF FireShape
<1>4. CASE MarkDispatched(t, e)
  <2> DEFINE f == [fire[t][e] EXCEPT !.mark = "settled"]
             r == [row[t] EXCEPT !.dispatchedAt = TRUE]
             h == fire[t][e].host
  <2>1. f \in Fire /\ f.pc = fire[t][e].pc /\ f.host = fire[t][e].host
    BY <1>a DEF Fire, Marks
  <2>2. /\ r \in Row /\ r.status = row[t].status /\ r.epoch = row[t].epoch
        /\ r.attempts = row[t].attempts /\ r.startedAt = row[t].startedAt
    BY <1>a DEF Row
  <2>3. SetFire(t, e, f) /\ GuardedUpdate(h, t, e, r) /\ fire[t][e].mark # "none"
    BY <1>4 DEF MarkDispatched
  <2> HIDE DEF f, r
  <2>4. /\ row'[t] = IF Matches(h, t, e) THEN r ELSE row[t]
        /\ \A u \in Tasks : u # t => row'[u] = row[u]
    BY <1>a, <2>2, <2>3, GuardedFacts
  <2> HIDE DEF h
  <2>5. FireOthers(t, e)
    BY <1>4, <1>a, <2>1, <2>3, <2>4, FireFrameFacts DEF MarkDispatched, FireOthers, history
  <2>6. CASE Matches(h, t, e)
    <3>1. MarkLands(t, e)
      BY <1>4, <2>1, <2>2, <2>3, <2>4, <2>6, FireFrameFacts
         DEF MarkDispatched, MarkLands, NotCounted, Current, Matches, history
    <3> QED
      BY <2>5, <3>1 DEF FireShape
  <2>7. CASE ~Matches(h, t, e)
    <3>1. Proceeds(t, e)
      BY <1>4, <2>1, <2>3, <2>4, <2>7, FireFrameFacts
         DEF MarkDispatched, Proceeds, RowSame, NotCounted, history
    <3> QED
      BY <2>5, <3>1 DEF FireShape
  <2> QED
    BY <2>6, <2>7
<1>5. CASE MarkFails(t, e)
  <2> DEFINE f == [fire[t][e] EXCEPT !.mark = "settled"]
  <2>1. f \in Fire /\ f.pc = fire[t][e].pc /\ f.host = fire[t][e].host
    BY <1>a DEF Fire, Marks
  <2>2. SetFire(t, e, f) /\ fire[t][e].mark # "none"
    BY <1>5 DEF MarkFails
  <2> HIDE DEF f
  <2>3. FireOthers(t, e)
    BY <1>5, <1>b, <2>1, <2>2, FireFrameFacts DEF MarkFails, FireOthers, history
  <2>4. Proceeds(t, e)
    BY <1>5, <1>b, <2>1, <2>2, FireFrameFacts DEF MarkFails, Proceeds, NotCounted, history
  <2> QED
    BY <2>3, <2>4 DEF FireShape
<1>6. CASE HandlerReturns(t, e)
  <2> DEFINE f == [fire[t][e] EXCEPT !.pc = "returned",
                                     !.mark = IF @ = "none" THEN "writing" ELSE @]
  <2>1. f \in Fire /\ f.pc = "returned" /\ f.host = fire[t][e].host
    BY <1>a DEF Fire, FireStates, Marks
  <2>2. SetFire(t, e, f)
    BY <1>6 DEF HandlerReturns
  <2> HIDE DEF f
  <2>3. ran'[t] /\ \A u \in Tasks : u # t => ran'[u] = ran[u]
    BY <1>6, RanFacts DEF HandlerReturns
  <2>4. FireOthers(t, e)
    BY <1>6, <1>b, <2>1, <2>2, <2>3, FireFrameFacts DEF HandlerReturns, FireOthers
  <2>5. Proceeds(t, e)
    BY <1>6, <1>b, <2>1, <2>2, <2>3, FireFrameFacts DEF HandlerReturns, Proceeds, NotCounted
  <2> QED
    BY <2>4, <2>5 DEF FireShape
<1>7. CASE HandlerThrows(t, e)
  <2> DEFINE f == [fire[t][e] EXCEPT !.pc = "threw"]
  <2>1. /\ f \in Fire /\ f.pc = "threw" /\ f.mark = fire[t][e].mark
        /\ f.host = fire[t][e].host
    BY <1>a DEF Fire, FireStates
  <2>2. SetFire(t, e, f)
    BY <1>7 DEF HandlerThrows
  <2> HIDE DEF f
  <2> QED
    BY <1>7, <1>b, <2>1, <2>2, FireFrameFacts
       DEF HandlerThrows, FireShape, FireOthers, Proceeds, NotCounted, history
<1>8. CASE CompleteTask(t, e)
  <2> DEFINE r == [row[t] EXCEPT !.status = "succeeded"]
             h == fire[t][e].host
  <2>1. /\ r \in Row /\ r.status = "succeeded" /\ r.epoch = row[t].epoch
        /\ r.attempts = row[t].attempts
    BY <1>a, StatusType DEF Row, Statuses, Terminal
  <2>2. GuardedUpdate(h, t, e, r) /\ Ends(t, e)
    BY <1>8 DEF CompleteTask
  <2> HIDE DEF r
  <2>3. /\ row'[t] = IF Matches(h, t, e) THEN r ELSE row[t]
        /\ \A u \in Tasks : u # t => row'[u] = row[u]
    BY <1>a, <2>1, <2>2, GuardedFacts
  <2> HIDE DEF h
  <2>4. FireOthers(t, e)
    BY <1>8, <2>2, <2>3, EndsFacts DEF CompleteTask, FireOthers, history
  <2>5. Finishes(t, e)
    BY <1>8, <2>1, <2>2, <2>3, EndsFacts
       DEF CompleteTask, Finishes, RowSame, NotCounted, Current, Matches, history
  <2> QED
    BY <2>4, <2>5 DEF FireShape
<1>9. CASE FailTaskTerminal(t, e)
  <2> DEFINE r == [row[t] EXCEPT !.status = "failed", !.attempts = @ + 1]
             h == fire[t][e].host
  <2>1. /\ r \in Row /\ r.status = "failed" /\ r.epoch = row[t].epoch
        /\ r.attempts = row[t].attempts + 1 /\ r.dispatchedAt = row[t].dispatchedAt
    BY <1>a, CountedType DEF Row, Statuses, Terminal
  <2>2. GuardedUpdate(h, t, e, r) /\ Ends(t, e)
    BY <1>9 DEF FailTaskTerminal
  <2> HIDE DEF r
  <2>3. /\ row'[t] = IF Matches(h, t, e) THEN r ELSE row[t]
        /\ \A u \in Tasks : u # t => row'[u] = row[u]
    BY <1>a, <2>1, <2>2, GuardedFacts
  <2>6. IF Matches(h, t, e) THEN Charge(t, e) ELSE UNCHANGED charged
    BY <1>9 DEF FailTaskTerminal, Owns
  <2> HIDE DEF h
  <2>4. FireOthers(t, e)
    BY <1>9, <2>2, <2>3, <2>6, EndsFacts, ChargeFacts DEF FailTaskTerminal, FireOthers
  <2>5. Finishes(t, e)
    BY <1>9, <2>1, <2>2, <2>3, <2>6, EndsFacts, ChargeFacts
       DEF FailTaskTerminal, Finishes, RowSame, NotCounted, AttemptCounted, Current, Matches
  <2> QED
    BY <2>4, <2>5 DEF FireShape
<1>10. CASE RescheduleTask(t, e)
  <2> DEFINE k == Backoff(NextAttempts(t, e))
             r == [Cleared(row[t]) EXCEPT !.status = "pending", !.attempts = @ + 1,
                                          !.runAt = k]
             h == fire[t][e].host
  <2>0. NextAttempts(t, e) \in 1..MaxAttempts
    BY <1>10, <1>a DEF RescheduleTask, NextAttempts, Fire
  <2>k. k \in Int
    BY <2>0, TaskQueueAssumption
  <2> HIDE DEF k
  <2>1. /\ r \in Row /\ r.status = "pending" /\ r.epoch = row[t].epoch
        /\ r.attempts = row[t].attempts + 1 /\ ~r.dispatchedAt /\ ~r.startedAt
    BY <1>a, <2>k, RetriedRow, RetriedStart
  <2>2. GuardedUpdate(h, t, e, r) /\ Ends(t, e)
    BY <1>10 DEF RescheduleTask, k
  <2> HIDE DEF r
  <2>3. /\ row'[t] = IF Matches(h, t, e) THEN r ELSE row[t]
        /\ \A u \in Tasks : u # t => row'[u] = row[u]
    BY <1>a, <2>1, <2>2, GuardedFacts
  <2>6. IF Matches(h, t, e) THEN Charge(t, e) ELSE UNCHANGED charged
    BY <1>10 DEF RescheduleTask, Owns
  <2> HIDE DEF h
  <2>4. FireOthers(t, e)
    BY <1>10, <2>2, <2>3, <2>6, EndsFacts, ChargeFacts DEF RescheduleTask, FireOthers
  <2>5. Finishes(t, e)
    BY <1>10, <2>1, <2>2, <2>3, <2>6, EndsFacts, ChargeFacts
       DEF RescheduleTask, Finishes, RowSame, NotCounted, AttemptCounted, Current, Matches
  <2> QED
    BY <2>4, <2>5 DEF FireShape
<1>11. CASE WriteRejects(t, e)
  BY <1>11, <1>b, EndsFacts
     DEF WriteRejects, FireShape, FireOthers, Finishes, NotCounted, history
<1> QED
  BY <1>1, <1>2, <1>3, <1>4, <1>5, <1>6, <1>7, <1>8, <1>9, <1>10, <1>11 DEF FireStep

-----------------------------------------------------------------------------
(* The inductive invariants, each local to a row or to a main.             *)

\* A row nobody has fired carries nothing of an earlier attempt.
Clean(t) ==
  /\ row[t].status = "pending" => ~row[t].startedAt
  /\ \A e \in Epochs : fire[t][e].pc \in Unfired =>
       /\ fire[t][e].mark = "none"
       /\ Current(t, e) => ~row[t].startedAt

\* Before a handler of the row ran there is no trace of a dispatch anywhere.
Honest(t) ==
  ~ran[t] => /\ row[t].status # "succeeded" /\ ~row[t].dispatchedAt
             /\ \A e \in Epochs : fire[t][e].mark = "none"
             /\ \A r \in Reapers : ~sweep[r][t].dispatchedAt

\* The epochs charged are those of claims that lost the row.
Accounted(t) ==
  row[t].status # "deleted" =>
    /\ IsFiniteSet(charged[t])
    /\ row[t].attempts = Cardinality(charged[t])
    /\ \A c \in charged[t] : /\ c =< row[t].epoch
                             /\ row[t].status = "running" => c < row[t].epoch

\* A handler whose lease did not lapse is of the row's last claim, which still
\* runs it unless the row is settled.
Exclusive(t) ==
  \A e \in Epochs : (InHandler(t, e) /\ e \notin lapsed[t]) =>
    /\ row[t].status \in Terminal \cup {"deleted"} \/ Current(t, e)
    /\ \A d \in Epochs : d > e => ~Held(t, d)

RowsInv == \A t \in Tasks : Clean(t) /\ Honest(t) /\ Accounted(t) /\ Exclusive(t)

\* A tracked claim is armed; a claim being released is over, and is not the
\* row's next one.  A main that stopped tracks and arms nothing.
MainInv ==
  /\ \A h \in Hosts : \A t \in Tasks : \A e \in Epochs :
       tracked[h][t] = e => fire[t][e].pc = "armed" /\ fire[t][e].host = h
  /\ \A h \in Hosts : \A t \in Tasks : \A e \in Epochs :
       <<t, e>> \in releases[h] =>
         /\ fire[t][e].pc = "over"
         /\ row[t].status # "deleted" => e =< row[t].epoch
  /\ \A h \in Hosts : \A t \in Tasks : phase[h] = "stopped" =>
       /\ tracked[h][t] = 0
       /\ \A e \in Epochs : ~(fire[t][e].pc = "armed" /\ fire[t][e].host = h)

LEMMA ChargedOnce ==
  ASSUME NEW C, NEW e, IsFiniteSet(C), e \notin C
  PROVE  IsFiniteSet(C \cup {e}) /\ Cardinality(C \cup {e}) = Cardinality(C) + 1
BY FS_AddElement

\* What the invariants read of a row its step left alone.
RowKeeps(t) ==
  /\ RowSame(t) /\ NotCounted(t) /\ ran'[t] = ran[t] /\ lapsed[t] \subseteq lapsed'[t]
  /\ \A e \in Epochs :
       \/ fire'[t][e].pc = fire[t][e].pc /\ fire'[t][e].mark = fire[t][e].mark
       \/ fire'[t][e].pc = "over" /\ fire'[t][e].mark = "none"
       \/ /\ fire[t][e].pc = "claimed" /\ fire'[t][e].pc = "armed"
          /\ fire'[t][e].mark = fire[t][e].mark
       \/ /\ fire[t][e].pc = "armed" /\ fire'[t][e].pc = "stranded"
          /\ fire'[t][e].mark = fire[t][e].mark
  /\ \A r \in Reapers : sweep'[r][t].dispatchedAt =>
                           sweep[r][t].dispatchedAt \/ row[t].dispatchedAt

RowInv(t) == Clean(t) /\ Honest(t) /\ Accounted(t) /\ Exclusive(t)

LEMMA RowKeepsInv ==
  ASSUME NEW t \in Tasks, RowInv(t), RowKeeps(t)
  PROVE  RowInv(t)'
<1>1. Clean(t)'
  BY DEF RowInv, Clean, RowKeeps, RowSame, Unfired, Current
<1>2. Honest(t)'
  BY DEF RowInv, Honest, RowKeeps, RowSame
<1>3. Accounted(t)'
  BY DEF RowInv, Accounted, RowKeeps, RowSame, NotCounted
<1>4. Exclusive(t)'
  <2> SUFFICES ASSUME NEW e \in Epochs, InHandler(t, e)', e \notin lapsed'[t]
               PROVE  /\ row'[t].status \in Terminal \cup {"deleted"} \/ Current(t, e)'
                      /\ \A d \in Epochs : d > e => ~Held(t, d)'
    BY DEF Exclusive
  <2>1. InHandler(t, e) /\ e \notin lapsed[t]
    BY DEF RowKeeps, InHandler
  <2>2. /\ row[t].status \in Terminal \cup {"deleted"} \/ Current(t, e)
        /\ \A d \in Epochs : d > e => ~Held(t, d)
    BY <2>1 DEF RowInv, Exclusive
  <2>3. \A d \in Epochs : Held(t, d)' => Held(t, d)
    BY DEF Held, RowKeeps
  <2> QED
    BY <2>2, <2>3 DEF RowKeeps, RowSame, Current
<1> QED
  BY <1>1, <1>2, <1>3, <1>4 DEF RowInv

LEMMA FireStepRows ==
  ASSUME TypeOK, BudgetInv, ReplyInv, RowsInv, NEW t \in Tasks, NEW e \in Epochs,
         FireShape(t, e)
  PROVE  RowsInv'
<1>a. /\ row \in [Tasks -> Row] /\ row[t] \in Row /\ row[t].epoch \in Nat
      /\ row[t].attempts \in Nat /\ Epochs \subseteq Nat /\ charged[t] \subseteq Nat
  BY EpochsNat DEF TypeOK, Row
<1>b. RowInv(t) /\ \A u \in Tasks : RowInv(u)
  BY DEF RowsInv, RowInv
<1>c. ASSUME NEW u \in Tasks, u # t PROVE RowInv(u)'
  <2>1. RowKeeps(u)
    BY <1>c DEF FireShape, FireOthers, RowKeeps, RowSame, NotCounted
  <2> QED
    BY <1>b, <2>1, RowKeepsInv
<1>d. /\ \A d \in Epochs : d # e => fire'[t][d] = fire[t][d]
      /\ sweep' = sweep /\ lapsed' = lapsed
  BY DEF FireShape, FireOthers
<1>1. Clean(t)'
  BY <1>b, <1>d DEF FireShape, RowInv, Clean, Unfired, Current, Starts, Proceeds,
                    MarkLands, Finishes, RowSame
<1>2. Honest(t)'
  BY <1>b, <1>d DEF FireShape, RowInv, Honest, Starts, Proceeds, MarkLands, Finishes,
                    RowSame
<1>3. Accounted(t)'
  <2>1. ASSUME Current(t, e), AttemptCounted(t, e), row'[t].epoch = row[t].epoch,
               row'[t].status # "running"
        PROVE  Accounted(t)'
    <3>1. /\ IsFiniteSet(charged[t]) /\ row[t].attempts = Cardinality(charged[t])
          /\ \A c \in charged[t] : c < e
      BY <1>b, <2>1 DEF RowInv, Accounted, Current
    <3>2. e \notin charged[t]
      BY <1>a, <3>1
    <3>3. /\ IsFiniteSet(charged'[t])
          /\ Cardinality(charged'[t]) = Cardinality(charged[t]) + 1
      BY <2>1, <3>1, <3>2, ChargedOnce DEF AttemptCounted
    <3> QED
      BY <1>a, <2>1, <3>1, <3>3 DEF Accounted, AttemptCounted, Current
  <2>2. ASSUME NotCounted(t), row'[t].epoch = row[t].epoch,
               row'[t].attempts = row[t].attempts,
               \/ row'[t].status = row[t].status
               \/ row[t].status = "running" /\ row'[t].status = "succeeded"
        PROVE  Accounted(t)'
    BY <1>b, <2>2 DEF RowInv, Accounted, NotCounted
  <2>3. CASE Starts(t, e) \/ Proceeds(t, e) \/ MarkLands(t, e)
    BY <2>2, <2>3 DEF Starts, Proceeds, MarkLands, RowSame
  <2>4. CASE Finishes(t, e)
    <3>1. CASE RowSame(t) /\ NotCounted(t)
      BY <2>2, <3>1 DEF RowSame
    <3>2. CASE ~(RowSame(t) /\ NotCounted(t))
      BY <2>1, <2>2, <2>4, <3>2 DEF Finishes, Current
    <3> QED
      BY <3>1, <3>2
  <2> QED
    BY <2>3, <2>4 DEF FireShape
<1>4. Exclusive(t)'
  <2>1. ASSUME NEW d \in Epochs, Held(t, d)' PROVE Held(t, d)
    BY <1>d, <2>1 DEF FireShape, Starts, Proceeds, MarkLands, Finishes, Held
  <2> SUFFICES ASSUME NEW c \in Epochs, InHandler(t, c)', c \notin lapsed[t]
               PROVE  /\ row'[t].status \in Terminal \cup {"deleted"} \/ Current(t, c)'
                      /\ \A d \in Epochs : d > c => ~Held(t, d)
    BY <1>d, <2>1 DEF Exclusive
  <2>2. CASE InHandler(t, c)
    <3>1. /\ row[t].status \in Terminal \cup {"deleted"} \/ Current(t, c)
          /\ \A d \in Epochs : d > c => ~Held(t, d)
      BY <1>b, <2>2 DEF RowInv, Exclusive
    <3>2. CASE row'[t].status = row[t].status /\ row'[t].epoch = row[t].epoch
      BY <3>1, <3>2 DEF Current
    <3>3. CASE Finishes(t, e) /\ Current(t, e)
      <4>1. c # e
        BY <3>3 DEF Finishes, InHandler
      <4> QED
        BY <3>1, <3>3, <4>1 DEF Current, Terminal
    <3> QED
      BY <3>2, <3>3 DEF FireShape, Starts, Proceeds, MarkLands, Finishes, RowSame
  <2>3. CASE ~InHandler(t, c)
    <3>1. c = e /\ Starts(t, e)
      BY <1>d, <2>3 DEF FireShape, Starts, Proceeds, MarkLands, Finishes, InHandler
    <3>2. \A d \in Epochs : Held(t, d) => d =< e
      BY <3>1 DEF ReplyInv, Starts, Current
    <3> QED
      BY <1>a, <3>1, <3>2 DEF Starts, Current
  <2> QED
    BY <2>2, <2>3
<1> QED
  BY <1>c, <1>1, <1>2, <1>3, <1>4 DEF RowsInv, RowInv

\* The row is retired or deleted without having been running, or deleted.
RowRetires(t) ==
  /\ row'[t].status = "deleted" \/ row'[t].status = "missed"
  /\ row'[t].status = "missed" => /\ row[t].status = "pending"
                                 /\ row'[t].epoch = row[t].epoch
                                 /\ row'[t].attempts = row[t].attempts
  /\ row'[t].dispatchedAt => row[t].dispatchedAt
  /\ NotCounted(t) /\ UNCHANGED <<ran, lapsed, fire, sweep>>

LEMMA RowRetiresInv ==
  ASSUME NEW t \in Tasks, RowInv(t), RowRetires(t)
  PROVE  RowInv(t)'
<1>1. Clean(t)'
  BY DEF RowInv, Clean, RowRetires, Unfired, Current
<1>2. Honest(t)'
  BY DEF RowInv, Honest, RowRetires
<1>3. Accounted(t)'
  BY DEF RowInv, Accounted, RowRetires, NotCounted
<1>4. Exclusive(t)'
  BY DEF RowInv, Exclusive, RowRetires, InHandler, Held, Terminal
<1> QED
  BY <1>1, <1>2, <1>3, <1>4 DEF RowInv

-----------------------------------------------------------------------------
(* The steps of a main.                                                    *)

LEMMA ClaimRows ==
  ASSUME TypeOK, RowsInv, NEW h \in Hosts, NEW S \in SUBSET Tasks, ClaimDueTasks(h, S)
  PROVE  RowsInv'
<1>a. /\ row \in [Tasks -> Row] /\ \A u \in Tasks : row[u].epoch \in Nat
      /\ Epochs \subseteq Nat /\ charged \in [Tasks -> SUBSET Nat]
  BY EpochsNat DEF TypeOK, Row
<1> SUFFICES ASSUME NEW u \in Tasks PROVE RowInv(u)'
  BY DEF RowsInv, RowInv
<1>b. RowInv(u) /\ row[u] \in Row /\ row[u].epoch \in Nat
  BY <1>a DEF RowsInv, RowInv
<1>c. UNCHANGED <<sweep, charged, lapsed, ran>>
  BY DEF ClaimDueTasks, history
<1>1. CASE u \notin S
  <2>1. row'[u] = row[u] /\ \A e \in Epochs : fire'[u][e] = fire[u][e]
    BY <1>1 DEF ClaimDueTasks
  <2> QED
    BY <1>b, <1>c, <2>1, RowKeepsInv DEF RowKeeps, RowSame, NotCounted
<1>2. CASE u \in S
  <2>1. /\ row[u].status = "pending"
        /\ row'[u].status = "running" /\ row'[u].epoch = row[u].epoch + 1
        /\ row'[u].attempts = row[u].attempts
        /\ row'[u].startedAt = row[u].startedAt
        /\ row'[u].dispatchedAt = row[u].dispatchedAt
    BY <1>b, <1>2 DEF ClaimDueTasks, Due, Row
  <2>2. \A e \in Epochs :
          IF e = row[u].epoch + 1
            THEN fire'[u][e].pc = "claimed" /\ fire'[u][e].mark = "none"
            ELSE fire'[u][e] = fire[u][e]
    BY <1>2 DEF ClaimDueTasks
  <2>3. Clean(u)'
    BY <1>b, <2>1, <2>2 DEF RowInv, Clean, Current
  <2>4. Honest(u)'
    BY <1>b, <1>c, <2>1, <2>2 DEF RowInv, Honest
  <2>5. Accounted(u)'
    <3>1. /\ IsFiniteSet(charged[u]) /\ row[u].attempts = Cardinality(charged[u])
          /\ \A c \in charged[u] : c =< row[u].epoch
      BY <1>b, <2>1 DEF RowInv, Accounted
    <3> QED
      BY <1>a, <1>b, <1>c, <2>1, <3>1 DEF Accounted
  <2>6. \A e \in Epochs : InHandler(u, e)' => e \in lapsed[u]
    BY <1>b, <2>1, <2>2 DEF RowInv, Exclusive, InHandler, Terminal, Current
  <2>7. Exclusive(u)'
    BY <1>c, <2>6 DEF Exclusive
  <2> QED
    BY <2>3, <2>4, <2>5, <2>7 DEF RowInv
<1> QED
  BY <1>1, <1>2

LEMMA ReleaseRows ==
  ASSUME TypeOK, RowsInv, MainInv, NEW h \in Hosts, NEW t \in Tasks, NEW e \in Epochs,
         ReleaseClaim(h, t, e)
  PROVE  RowsInv' /\ \A u \in Tasks : RowGrows(u)
<1> DEFINE r == [Cleared(row[t]) EXCEPT !.status = "pending"]
<1>a. row \in [Tasks -> Row] /\ row[t] \in Row /\ \A u \in Tasks : RowInv(u)
  BY DEF TypeOK, RowsInv, RowInv
<1>1. /\ r \in Row /\ r.status = "pending" /\ r.epoch = row[t].epoch
      /\ r.attempts = row[t].attempts /\ ~r.startedAt /\ ~r.dispatchedAt
  BY <1>a, ClearedStart
<1>2. GuardedUpdate(h, t, e, r) /\ UNCHANGED <<fire, sweep, charged, lapsed, ran>>
  BY DEF ReleaseClaim, history
<1>3. fire[t][e].pc = "over"
  BY DEF ReleaseClaim, MainInv
<1> HIDE DEF r
<1>4. /\ row'[t] = IF Matches(h, t, e) THEN r ELSE row[t]
      /\ \A u \in Tasks : u # t => row'[u] = row[u]
  BY <1>a, <1>1, <1>2, GuardedFacts
<1>5. ASSUME NEW u \in Tasks, row'[u] = row[u] PROVE RowInv(u)'
  <2>1. RowKeeps(u)
    BY <1>2, <1>5 DEF RowKeeps, RowSame, NotCounted
  <2> QED
    BY <1>a, <2>1, RowKeepsInv
<1>6. ASSUME Matches(h, t, e) PROVE RowInv(t)'
  <2>0. row'[t] = r /\ Current(t, e) /\ RowInv(t)
    BY <1>a, <1>4, <1>6 DEF Matches, Current
  <2>1. Clean(t)'
    BY <1>1, <1>2, <2>0 DEF RowInv, Clean, Current, Unfired
  <2>2. Honest(t)'
    BY <1>1, <1>2, <2>0 DEF RowInv, Honest
  <2>3. Accounted(t)'
    BY <1>1, <1>2, <2>0 DEF RowInv, Accounted, Current
  <2>4. \A c \in Epochs : InHandler(t, c) => c \in lapsed[t]
    BY <1>3, <2>0 DEF RowInv, Exclusive, InHandler, Terminal, Current
  <2>5. Exclusive(t)'
    BY <1>2, <2>4 DEF Exclusive, InHandler
  <2> QED
    BY <2>1, <2>2, <2>3, <2>5 DEF RowInv
<1>7. RowsInv'
  BY <1>4, <1>5, <1>6 DEF RowsInv, RowInv
<1> QED
  BY <1>1, <1>2, <1>7, GuardedGrows

LEMMA HostStepRows ==
  ASSUME TypeOK, RowsInv, ReplyInv, MainInv, NEW h \in Hosts, HostStep(h)
  PROVE  RowsInv'
<1>a. fire \in [Tasks -> [Epochs -> Fire]] /\ \A u \in Tasks : RowInv(u)
  BY DEF TypeOK, RowsInv, RowInv
<1>b. ASSUME UNCHANGED <<row, sweep, charged, lapsed, ran>>,
             \A u \in Tasks : \A e \in Epochs :
               \/ fire'[u][e] = fire[u][e] \/ fire'[u][e] = Blank("over")
               \/ /\ fire[u][e].pc = "claimed"
                  /\ fire'[u][e] = [fire[u][e] EXCEPT !.pc = "armed"]
               \/ /\ fire[u][e].pc = "armed"
                  /\ fire'[u][e] = [fire[u][e] EXCEPT !.pc = "stranded", !.delay = 0]
      PROVE  RowsInv'
  <2>1. ASSUME NEW u \in Tasks, NEW e \in Epochs
        PROVE  \/ fire'[u][e].pc = fire[u][e].pc /\ fire'[u][e].mark = fire[u][e].mark
               \/ fire'[u][e].pc = "over" /\ fire'[u][e].mark = "none"
               \/ /\ fire[u][e].pc = "claimed" /\ fire'[u][e].pc = "armed"
                  /\ fire'[u][e].mark = fire[u][e].mark
               \/ /\ fire[u][e].pc = "armed" /\ fire'[u][e].pc = "stranded"
                  /\ fire'[u][e].mark = fire[u][e].mark
    <3>1. fire[u][e] \in Fire /\ Blank("over").pc = "over" /\ Blank("over").mark = "none"
      BY <1>a DEF Blank
    <3>2. /\ [fire[u][e] EXCEPT !.pc = "armed"].pc = "armed"
          /\ [fire[u][e] EXCEPT !.pc = "armed"].mark = fire[u][e].mark
      BY <3>1 DEF Fire
    <3>3. /\ [fire[u][e] EXCEPT !.pc = "stranded", !.delay = 0].pc = "stranded"
          /\ [fire[u][e] EXCEPT !.pc = "stranded", !.delay = 0].mark = fire[u][e].mark
      BY <3>1 DEF Fire
    <3> QED
      BY <1>b, <3>1, <3>2, <3>3
  <2>2. \A u \in Tasks : RowKeeps(u)
    BY <1>b, <2>1 DEF RowKeeps, RowSame, NotCounted
  <2> QED
    BY <1>a, <2>2, RowKeepsInv DEF RowsInv, RowInv
<1>1. ASSUME NEW batch \in replies[h], ScheduleClaimed(h, batch) PROVE RowsInv'
  <2>1. \A u \in Tasks : \A e \in Epochs :
          fire'[u][e] = IF <<u, e>> \in batch THEN [fire[u][e] EXCEPT !.pc = "armed"]
                                              ELSE fire[u][e]
    BY <1>1 DEF ScheduleClaimed
  <2>2. \A u \in Tasks : \A e \in Epochs :
          <<u, e>> \in batch => fire[u][e].pc = "claimed"
    BY DEF ReplyInv
  <2>3. UNCHANGED <<row, sweep, charged, lapsed, ran>>
    BY <1>1 DEF ScheduleClaimed, history
  <2> QED
    BY <1>b, <2>1, <2>2, <2>3
<1>2. ASSUME NEW batch \in replies[h], HandBackClaims(h, batch) PROVE RowsInv'
  BY <1>2, <1>b DEF HandBackClaims, history
<1>3. ASSUME NEW t \in Tasks, NEW e \in Epochs, ReleaseRejects(h, t, e) PROVE RowsInv'
  BY <1>3, <1>b DEF ReleaseRejects, history
<1>4. CASE Stop(h)
  BY <1>4, <1>b DEF Stop, history
<1>5. CASE Crash(h)
  BY <1>5, <1>b DEF Crash, history
<1>6. CASE Restart(h)
  BY <1>6, <1>b DEF Restart, history
<1> QED
  BY <1>1, <1>2, <1>3, <1>4, <1>5, <1>6, ClaimRows, ReleaseRows DEF HostStep

-----------------------------------------------------------------------------
(* The sweeps, the other writers and the clock.                            *)

\* A sweep's statement that matches takes the row from its claim, and says so.
RowTaken(t) ==
  /\ row[t].status = "running" /\ UNCHANGED <<fire, ran>>
  /\ lapsed'[t] = lapsed[t] \cup {row[t].epoch}
  /\ \A r \in Reapers : sweep'[r][t].dispatchedAt => sweep[r][t].dispatchedAt
  /\ \/ /\ row'[t].status = "succeeded" /\ row'[t].epoch = row[t].epoch
        /\ row'[t].attempts = row[t].attempts /\ NotCounted(t)
        /\ \E r \in Reapers : sweep[r][t].dispatchedAt
     \/ /\ row'[t].status = "failed" /\ row'[t].epoch = row[t].epoch
        /\ row'[t].dispatchedAt = row[t].dispatchedAt
        /\ AttemptCounted(t, row[t].epoch)
     \/ /\ row'[t].status = "pending" /\ row'[t].epoch = row[t].epoch + 1
        /\ ~row'[t].startedAt /\ ~row'[t].dispatchedAt
        /\ AttemptCounted(t, row[t].epoch)

LEMMA RowTakenInv ==
  ASSUME TypeOK, NEW t \in Tasks, RowInv(t), RowTaken(t)
  PROVE  RowInv(t)'
<1>a. row[t].epoch \in Nat /\ charged[t] \subseteq Nat
  BY DEF TypeOK, Row
<1>1. Clean(t)'
  BY DEF RowInv, Clean, RowTaken, Unfired, Current
<1>2. Honest(t)'
  BY DEF RowInv, Honest, RowTaken
<1>3. Accounted(t)'
  <2>1. /\ IsFiniteSet(charged[t]) /\ row[t].attempts = Cardinality(charged[t])
        /\ \A c \in charged[t] : c < row[t].epoch
    BY DEF RowInv, Accounted, RowTaken
  <2>2. CASE AttemptCounted(t, row[t].epoch)
    <3> DEFINE C == charged[t]
               e == row[t].epoch
    <3>1. IsFiniteSet(C) /\ e \notin C
      BY <1>a, <2>1
    <3>0. charged'[t] = C \cup {e}
      BY <2>2 DEF AttemptCounted
    <3> HIDE DEF C, e
    <3>3. IsFiniteSet(C \cup {e}) /\ Cardinality(C \cup {e}) = Cardinality(C) + 1
      BY <3>1, ChargedOnce
    <3>2. /\ IsFiniteSet(charged'[t])
          /\ Cardinality(charged'[t]) = Cardinality(charged[t]) + 1
      BY <3>0, <3>3 DEF C
    <3> QED
      BY <1>a, <2>1, <2>2, <3>2 DEF Accounted, AttemptCounted, RowTaken
  <2>3. CASE NotCounted(t) /\ row'[t].attempts = row[t].attempts
             /\ row'[t].status = "succeeded" /\ row'[t].epoch = row[t].epoch
    BY <1>a, <2>1, <2>3 DEF Accounted, NotCounted
  <2> QED
    BY <2>2, <2>3 DEF RowTaken
<1>4. \A e \in Epochs : InHandler(t, e) => e \in lapsed'[t]
  BY DEF RowInv, Exclusive, RowTaken, Terminal, Current
<1>5. Exclusive(t)'
  BY <1>4 DEF Exclusive, InHandler, RowTaken
<1> QED
  BY <1>1, <1>2, <1>3, <1>5 DEF RowInv

LEMMA SweepFlag ==
  ASSUME TypeOK, NEW q \in Reapers, NEW t \in Tasks,
         sweep' = [sweep EXCEPT ![q][t] = Resolved]
  PROVE  \A u \in Tasks : \A r \in Reapers :
           sweep'[r][u].dispatchedAt => sweep[r][u].dispatchedAt
BY DEF TypeOK, Resolved

\* What a step of the reaper does to a row.
LEMMA ReaperStepShape ==
  ASSUME TypeOK, RowsInv, NEW q \in Reapers, ReaperStep(q), NEW u \in Tasks
  PROVE  (RowKeeps(u) \/ RowTaken(u) \/ RowInv(u)') /\ RowGrows(u)
<1>a. /\ row \in [Tasks -> Row] /\ sweep \in [Reapers -> [Tasks -> Expired]]
      /\ MaxAttempts \in Nat /\ row[u] \in Row /\ RowInv(u)
  BY TaskQueueAssumption DEF TypeOK, RowsInv, RowInv
<1>b. UNCHANGED <<fire, ran>>
  BY DEF ReaperStep, RetireMissedPending, FindExpiredLeases, CompleteExpired,
         DeadLetterExpired, ReclaimExpired, RowErrors, AbortSweep, history
<1>c. ASSUME row'[u] = row[u], charged'[u] = charged[u], lapsed'[u] = lapsed[u],
             \A r \in Reapers : sweep'[r][u].dispatchedAt =>
                                sweep[r][u].dispatchedAt \/ row[u].dispatchedAt
      PROVE  RowKeeps(u) /\ RowGrows(u)
  BY <1>b, <1>c DEF RowKeeps, RowSame, NotCounted, RowGrows
<1>d. ASSUME NEW t \in Tasks, NEW new \in Row, ReaperUpdate(q, t, new),
             IF ReaperMatches(t, sweep[q][t])
               THEN \/ new.status = "succeeded" /\ UNCHANGED charged
                       /\ new.epoch = row[t].epoch /\ new.attempts = row[t].attempts
                       /\ sweep[q][t].dispatchedAt
                    \/ new.status = "failed" /\ Charge(t, sweep[q][t].epoch)
                       /\ new.epoch = row[t].epoch /\ new.attempts = row[t].attempts + 1
                       /\ new.dispatchedAt = row[t].dispatchedAt
                    \/ new.status = "pending" /\ Charge(t, sweep[q][t].epoch)
                       /\ new.epoch = row[t].epoch + 1
                       /\ new.attempts = row[t].attempts + 1
                       /\ ~new.startedAt /\ ~new.dispatchedAt
               ELSE UNCHANGED charged
      PROVE  (RowKeeps(u) \/ RowTaken(u)) /\ RowGrows(u)
  <2>1. /\ \A v \in Tasks : v # t => row'[v] = row[v]
        /\ row'[t] = IF ReaperMatches(t, sweep[q][t]) THEN new ELSE row[t]
    BY <1>d, ReaperUpdateType
  <2>2. \A r \in Reapers : sweep'[r][u].dispatchedAt => sweep[r][u].dispatchedAt
    BY <1>d, SweepFlag DEF ReaperUpdate
  <2>3. IF ReaperMatches(t, sweep[q][t])
          THEN /\ lapsed'[t] = lapsed[t] \cup {row[t].epoch}
               /\ \A v \in Tasks : v # t => lapsed'[v] = lapsed[v]
          ELSE UNCHANGED lapsed
    BY <1>d DEF ReaperUpdate, ReaperMatches, TypeOK
  <2>4. CASE u # t \/ ~ReaperMatches(t, sweep[q][t])
    <3>1. charged'[u] = charged[u]
      BY <1>d, <2>4, ChargeFacts
    <3> QED
      BY <1>c, <2>1, <2>2, <2>3, <2>4, <3>1
  <2>5. CASE u = t /\ ReaperMatches(t, sweep[q][t])
    <3>1. row[t].status = "running" /\ sweep[q][t].epoch = row[t].epoch /\ row'[t] = new
      BY <2>1, <2>5 DEF ReaperMatches, LeaseExpired
    <3>2. Charge(t, sweep[q][t].epoch) => charged'[t] = charged[t] \cup {row[t].epoch}
      BY <3>1, ChargeFacts
    <3>3. RowTaken(t)
      BY <1>b, <1>d, <2>2, <2>3, <2>5, <3>1, <3>2
         DEF RowTaken, NotCounted, AttemptCounted
    <3> QED
      BY <1>d, <2>5, <3>1, <3>3 DEF RowGrows
  <2> QED
    BY <2>4, <2>5
<1>1. ASSUME NEW S \in SUBSET Tasks, RetireMissedPending(q, S)
      PROVE  (RowKeeps(u) \/ RowInv(u)') /\ RowGrows(u)
  <2>1. UNCHANGED <<fire, sweep, charged, lapsed, ran>>
    BY <1>1 DEF RetireMissedPending, history
  <2>2. CASE u \in S
    <3>1. row'[u] = [row[u] EXCEPT !.status = "missed"] /\ row[u].status = "pending"
      BY <1>1, <2>2 DEF RetireMissedPending
    <3>2. /\ row'[u].status = "missed" /\ row'[u].epoch = row[u].epoch
          /\ row'[u].attempts = row[u].attempts
          /\ row'[u].dispatchedAt = row[u].dispatchedAt
      BY <1>a, <3>1 DEF Row
    <3>3. RowRetires(u)
      BY <2>1, <3>1, <3>2 DEF RowRetires, NotCounted
    <3> QED
      BY <1>a, <3>1, <3>2, <3>3, RowRetiresInv DEF RowGrows
  <2>3. CASE u \notin S
    BY <1>1, <1>c, <2>1, <2>3 DEF RetireMissedPending
  <2> QED
    BY <2>2, <2>3
<1>2. ASSUME NEW S \in SUBSET Tasks, FindExpiredLeases(q, S)
      PROVE  RowKeeps(u) /\ RowGrows(u)
  <2>1. \A r \in Reapers : \/ sweep'[r][u] = sweep[r][u] \/ sweep'[r][u] = Resolved
                          \/ sweep'[r][u].dispatchedAt = row[u].dispatchedAt
    BY <1>2, <1>a DEF FindExpiredLeases
  <2>2. ~Resolved.dispatchedAt /\ UNCHANGED <<row, charged, lapsed>>
    BY <1>2 DEF FindExpiredLeases, Resolved, history
  <2> QED
    BY <1>c, <2>1, <2>2
<1>3. ASSUME NEW t \in Tasks, CompleteExpired(q, t)
      PROVE  (RowKeeps(u) \/ RowTaken(u)) /\ RowGrows(u)
  <2> DEFINE new == [row[t] EXCEPT !.status = "succeeded"]
  <2>0. row[t] \in Row
    BY <1>a
  <2>1. /\ new \in Row /\ new.status = "succeeded" /\ new.epoch = row[t].epoch
        /\ new.attempts = row[t].attempts
    BY <2>0, StatusType DEF Row, Statuses, Terminal
  <2>2. ReaperUpdate(q, t, new) /\ sweep[q][t].dispatchedAt /\ UNCHANGED charged
    BY <1>3 DEF CompleteExpired
  <2> HIDE DEF new
  <2> QED
    BY <1>d, <2>1, <2>2
<1>4. ASSUME NEW t \in Tasks, DeadLetterExpired(q, t)
      PROVE  (RowKeeps(u) \/ RowTaken(u)) /\ RowGrows(u)
  <2> DEFINE new == [row[t] EXCEPT !.status = "failed", !.attempts = @ + 1]
  <2>1. /\ new \in Row /\ new.status = "failed" /\ new.epoch = row[t].epoch
        /\ new.attempts = row[t].attempts + 1
        /\ new.dispatchedAt = row[t].dispatchedAt
    BY <1>a, CountedType DEF Row, Statuses, Terminal
  <2>2. /\ ReaperUpdate(q, t, new)
        /\ IF ReaperMatches(t, sweep[q][t]) THEN Charge(t, sweep[q][t].epoch)
                                            ELSE UNCHANGED charged
    BY <1>4 DEF DeadLetterExpired
  <2> HIDE DEF new
  <2> QED
    BY <1>d, <2>1, <2>2
<1>5. ASSUME NEW t \in Tasks, ReclaimExpired(q, t)
      PROVE  (RowKeeps(u) \/ RowTaken(u)) /\ RowGrows(u)
  <2> DEFINE k == Backoff(sweep[q][t].attempts + 1)
             new == [Cleared(row[t]) EXCEPT !.status = "pending", !.attempts = @ + 1,
                       !.epoch = @ + 1, !.runAt = k]
  <2>0. sweep[q][t].attempts + 1 \in 1..MaxAttempts
    BY <1>5, <1>a DEF ReclaimExpired, Expired
  <2>k. k \in Int
    BY <2>0, TaskQueueAssumption
  <2> HIDE DEF k
  <2>1. /\ new \in Row /\ new.status = "pending" /\ new.epoch = row[t].epoch + 1
        /\ new.attempts = row[t].attempts + 1 /\ ~new.dispatchedAt /\ ~new.startedAt
    BY <1>a, <2>k, ReclaimedRow, ReclaimedStart
  <2>2. /\ ReaperUpdate(q, t, new)
        /\ IF ReaperMatches(t, sweep[q][t]) THEN Charge(t, sweep[q][t].epoch)
                                            ELSE UNCHANGED charged
    BY <1>5 DEF ReclaimExpired, k
  <2> HIDE DEF new
  <2> QED
    BY <1>d, <2>1, <2>2
<1>6. ASSUME NEW t \in Tasks, RowErrors(q, t) PROVE RowKeeps(u) /\ RowGrows(u)
  BY <1>6, <1>c, SweepFlag DEF RowErrors, history
<1>7. CASE AbortSweep(q)
  <2>1. \A r \in Reapers : sweep'[r][u] = sweep[r][u] \/ sweep'[r][u] = Resolved
    BY <1>7, <1>a DEF AbortSweep
  <2>2. ~Resolved.dispatchedAt /\ UNCHANGED <<row, charged, lapsed>>
    BY <1>7 DEF AbortSweep, Resolved, history
  <2> QED
    BY <1>c, <2>1, <2>2
<1> QED
  BY <1>1, <1>2, <1>3, <1>4, <1>5, <1>6, <1>7 DEF ReaperStep

LEMMA ReaperStepRows ==
  ASSUME TypeOK, RowsInv, NEW q \in Reapers, ReaperStep(q)
  PROVE  RowsInv' /\ \A u \in Tasks : RowGrows(u)
<1>1. ASSUME NEW u \in Tasks PROVE RowInv(u)' /\ RowGrows(u)
  BY ReaperStepShape, RowKeepsInv, RowTakenInv DEF RowsInv, RowInv
<1> QED
  BY <1>1 DEF RowsInv, RowInv

LEMMA TableStepRows ==
  ASSUME TypeOK, RowsInv, NEW t \in Tasks, TableStep(t)
  PROVE  RowsInv' /\ \A u \in Tasks : RowGrows(u)
<1>a. /\ row \in [Tasks -> Row] /\ row[t] \in Row /\ \A u \in Tasks : RowInv(u)
      /\ UNCHANGED <<fire, sweep, charged, lapsed, ran>>
  BY DEF TypeOK, RowsInv, RowInv, TableStep, UpdateToMissed, UpdateMissedAfter,
         DeletePending, CascadeDelete, DeleteFinished, history
<1>b. ASSUME NEW u \in Tasks, RowSame(u) PROVE RowInv(u)' /\ RowGrows(u)
  <2>1. RowKeeps(u)
    BY <1>a, <1>b DEF RowKeeps, NotCounted
  <2> QED
    BY <1>a, <1>b, <2>1, RowKeepsInv DEF RowGrows, RowSame
<1>1. \A u \in Tasks : u # t => row'[u] = row[u]
  BY TableStepShape
<1>2. RowSame(t) \/ (RowRetires(t) /\ RowGrows(t))
  <2>1. CASE UpdateToMissed(t)
    <3>1. /\ row[t].status = "pending" /\ row'[t].status = "missed"
          /\ row'[t].epoch = row[t].epoch /\ row'[t].attempts = row[t].attempts
          /\ row'[t].dispatchedAt = row[t].dispatchedAt
      BY <1>a, <2>1 DEF UpdateToMissed, SetRow, Row
    <3> QED
      BY <1>a, <3>1 DEF RowRetires, RowGrows, NotCounted
  <2>2. ASSUME NEW grace \in Graces, UpdateMissedAfter(t, grace) PROVE RowSame(t)
    BY <1>a, <2>2 DEF UpdateMissedAfter, SetRow, Row, RowSame
  <2>3. CASE DeletePending(t) \/ CascadeDelete(t) \/ DeleteFinished(t)
    <3>1. row'[t] = Deleted
      BY <1>a, <2>3 DEF DeletePending, CascadeDelete, DeleteFinished, SetRow
    <3>2. row'[t].status = "deleted" /\ ~row'[t].dispatchedAt
      BY <3>1 DEF Deleted
    <3> QED
      BY <1>a, <3>2 DEF RowRetires, RowGrows, NotCounted
  <2> QED
    BY <2>1, <2>2, <2>3 DEF TableStep
<1>3. RowInv(t)' /\ RowGrows(t)
  BY <1>a, <1>b, <1>2, RowRetiresInv
<1>4. ASSUME NEW u \in Tasks, u # t PROVE RowInv(u)' /\ RowGrows(u)
  BY <1>1, <1>4, <1>b DEF RowSame
<1> QED
  BY <1>3, <1>4 DEF RowsInv, RowInv

LEMMA TickRows ==
  ASSUME TypeOK, RowsInv, Tick
  PROVE  RowsInv' /\ \A u \in Tasks : RowGrows(u)
<1>1. UNCHANGED <<sweep, charged, lapsed, ran>>
  BY DEF Tick, history
<1>2. ASSUME NEW u \in Tasks PROVE RowSame(u)
  <2>1. row[u] \in Row
    BY DEF TypeOK
  <2> QED
    BY <2>1 DEF Tick, RowSame, Row
<1>3. \A u \in Tasks : RowKeeps(u)
  BY <1>1, <1>2, TickShape DEF RowKeeps, NotCounted
<1> QED
  BY <1>2, <1>3, RowKeepsInv DEF RowsInv, RowInv, RowGrows, RowSame

-----------------------------------------------------------------------------
(* The bookkeeping of the mains.                                           *)

LEMMA EpochsPositive == 0 \notin Epochs
BY DEF Epochs

\* No claim is armed or disarmed, and none that was over comes back.
MainKeeps(t, e) ==
  /\ fire[t][e].pc = "armed" =>
       fire'[t][e].pc = "armed" /\ fire'[t][e].host = fire[t][e].host
  /\ fire'[t][e].pc = "armed" => fire[t][e].pc = "armed"
  /\ fire[t][e].pc = "over" => fire'[t][e].pc = "over"

LEMMA MainStays ==
  ASSUME TypeOK, MainInv, UNCHANGED <<tracked, phase>>,
         \A h \in Hosts : releases'[h] \subseteq releases[h],
         \A u \in Tasks : RowGrows(u),
         \A u \in Tasks : \A e \in Epochs : MainKeeps(u, e)
  PROVE  MainInv'
<1>a. Epochs \subseteq Nat /\ \A u \in Tasks : row[u].epoch \in Nat
  BY EpochsNat DEF TypeOK, Row
<1>1. ASSUME NEW h \in Hosts, NEW t \in Tasks, NEW e \in Epochs, <<t, e>> \in releases'[h]
      PROVE  /\ fire'[t][e].pc = "over"
             /\ row'[t].status # "deleted" => e =< row'[t].epoch
  <2>1. <<t, e>> \in releases[h]
    BY <1>1
  <2>2. fire[t][e].pc = "over" /\ (row[t].status # "deleted" => e =< row[t].epoch)
    BY <2>1 DEF MainInv
  <2> QED
    BY <1>a, <2>2 DEF MainKeeps, RowGrows
<1> QED
  BY <1>1 DEF MainInv, MainKeeps

LEMMA FireStepMain ==
  ASSUME TypeOK, MainInv, NEW t \in Tasks, NEW e \in Epochs, FireShape(t, e)
  PROVE  MainInv'
<1>a. /\ Epochs \subseteq Nat /\ 0 \notin Epochs
      /\ tracked \in [Hosts -> [Tasks -> Nat]]
  BY EpochsNat, EpochsPositive DEF TypeOK
<1>1. \A u \in Tasks : RowGrows(u)
  <2>1. RowGrows(t)
    BY DEF FireShape, Starts, Proceeds, MarkLands, Finishes, RowSame, RowGrows, Current
  <2> QED
    BY <2>1 DEF FireShape, FireOthers, RowGrows
<1>b. UNCHANGED <<phase, releases>>
  BY DEF FireShape, FireOthers
<1>2. CASE UNCHANGED tracked /\ (fire[t][e].pc = "armed" => fire'[t][e].pc = "armed")
  <2>1. MainKeeps(t, e)
    BY <1>2 DEF FireShape, FireOthers, Starts, Proceeds, MarkLands, Finishes, MainKeeps
  <2>2. \A u \in Tasks : \A d \in Epochs : MainKeeps(u, d)
    <3> SUFFICES ASSUME NEW u \in Tasks, NEW d \in Epochs PROVE MainKeeps(u, d)
      OBVIOUS
    <3>1. CASE <<u, d>> = <<t, e>>
      BY <2>1, <3>1
    <3>2. CASE <<u, d>> # <<t, e>>
      BY <3>2 DEF FireShape, FireOthers, MainKeeps
    <3> QED
      BY <3>1, <3>2
  <2> QED
    BY <1>1, <1>2, <1>b, <2>2, MainStays
<1>3. CASE /\ fire[t][e].pc = "armed"
           /\ tracked' = [tracked EXCEPT ![fire[t][e].host][t] = 0]
           /\ ~(UNCHANGED tracked /\ fire'[t][e].pc = "armed")
  <2>1. \A h \in Hosts : \A u \in Tasks :
          \/ tracked'[h][u] = tracked[h][u] /\ ~(h = fire[t][e].host /\ u = t)
          \/ tracked'[h][u] = 0
    BY <1>3, <1>a
  <2>2. \A u \in Tasks : \A d \in Epochs :
          <<u, d>> # <<t, e>> => fire'[u][d] = fire[u][d]
    BY DEF FireShape, FireOthers
  <2>3. fire'[t][e].pc = "firing" \/ fire'[t][e].pc = "armed"
    BY <1>3 DEF FireShape, Starts, Proceeds, MarkLands, Finishes
  <2>h. fire'[t][e].pc = "armed" => fire'[t][e].host = fire[t][e].host
    BY DEF FireShape, FireOthers
  <2>4. ASSUME NEW h \in Hosts, NEW u \in Tasks, NEW d \in Epochs, tracked'[h][u] = d
        PROVE  fire'[u][d].pc = "armed" /\ fire'[u][d].host = h
    <3>1. tracked[h][u] = d /\ ~(h = fire[t][e].host /\ u = t)
      BY <1>a, <2>1, <2>4
    <3>2. fire[u][d].pc = "armed" /\ fire[u][d].host = h
      BY <3>1 DEF MainInv
    <3>3. <<u, d>> # <<t, e>>
      BY <3>1, <3>2
    <3> QED
      BY <2>2, <3>2, <3>3
  <2>5. ASSUME NEW h \in Hosts, NEW u \in Tasks, NEW d \in Epochs, <<u, d>> \in releases[h]
        PROVE  fire'[u][d].pc = "over" /\ (row[u].status # "deleted" => d =< row[u].epoch)
    <3>1. fire[u][d].pc = "over" /\ (row[u].status # "deleted" => d =< row[u].epoch)
      BY <2>5 DEF MainInv
    <3>2. <<u, d>> # <<t, e>>
      BY <1>3, <3>1
    <3> QED
      BY <2>2, <3>1, <3>2
  <2>6. ASSUME NEW h \in Hosts, NEW u \in Tasks, phase[h] = "stopped"
        PROVE  /\ tracked'[h][u] = 0
               /\ \A d \in Epochs : ~(fire'[u][d].pc = "armed" /\ fire'[u][d].host = h)
    <3>1. /\ tracked[h][u] = 0
          /\ \A d \in Epochs : ~(fire[u][d].pc = "armed" /\ fire[u][d].host = h)
      BY <2>6 DEF MainInv
    <3> QED
      BY <1>3, <2>1, <2>2, <2>h, <3>1
  <2>7. \A u \in Tasks : row'[u].status # "deleted" =>
          /\ row[u].status # "deleted"
          /\ \A d \in Epochs : d =< row[u].epoch => d =< row'[u].epoch
    <3> SUFFICES ASSUME NEW u \in Tasks, row'[u].status # "deleted"
                 PROVE  /\ row[u].status # "deleted"
                        /\ \A d \in Epochs : d =< row[u].epoch => d =< row'[u].epoch
      OBVIOUS
    <3>1. row[u].epoch \in Nat
      BY DEF TypeOK, Row
    <3>2. /\ row[u].status # "deleted"
          /\ row'[u].epoch = row[u].epoch \/ row'[u].epoch = row[u].epoch + 1
      BY <1>1 DEF RowGrows
    <3>3. \A d \in Nat : d =< row[u].epoch => d =< row[u].epoch + 1
      BY <3>1
    <3> QED
      BY <1>a, <3>2, <3>3
  <2> QED
    BY <1>b, <2>4, <2>5, <2>6, <2>7 DEF MainInv
<1> QED
  BY <1>2, <1>3 DEF FireShape, FireOthers

LEMMA HostStepMain ==
  ASSUME TypeOK, RowsInv, ReplyInv, MainInv, NEW h \in Hosts, HostStep(h)
  PROVE  MainInv'
<1>a. /\ Epochs \subseteq Nat /\ 0 \notin Epochs /\ row \in [Tasks -> Row]
      /\ tracked \in [Hosts -> [Tasks -> Nat]]
      /\ releases \in [Hosts -> SUBSET (Tasks \X Epochs)]
      /\ phase \in [Hosts -> {"up", "stopped", "down"}]
      /\ fire \in [Tasks -> [Epochs -> Fire]]
      /\ \A u \in Tasks : row[u].epoch \in Nat
  BY EpochsNat, EpochsPositive DEF TypeOK, Row
<1>b. ASSUME UNCHANGED row PROVE \A u \in Tasks : RowGrows(u)
  BY <1>b DEF RowGrows
<1>1. ASSUME NEW S \in SUBSET Tasks, ClaimDueTasks(h, S) PROVE MainInv'
  <2>1. \A u \in Tasks : \A e \in Epochs :
          IF u \in S /\ e = row[u].epoch + 1 THEN fire'[u][e].pc = "claimed"
                                            ELSE fire'[u][e] = fire[u][e]
    BY <1>1 DEF ClaimDueTasks
  <2>2. \A u \in Tasks : IF u \in S
          THEN /\ row[u].status = "pending" /\ row'[u].status = "running"
               /\ row'[u].epoch = row[u].epoch + 1
          ELSE row'[u] = row[u]
    BY <1>1, <1>a DEF ClaimDueTasks, Due, Row
  <2>3. UNCHANGED <<tracked, phase, releases>>
    BY <1>1 DEF ClaimDueTasks
  <2>4. ASSUME NEW u \in Tasks, NEW e \in Epochs, fire[u][e].pc = "armed"
        PROVE  fire'[u][e] = fire[u][e]
    <3>1. u \in S => e =< row[u].epoch
      BY <2>2, <2>4 DEF ReplyInv, Held
    <3> QED
      BY <1>a, <2>1, <3>1
  <2>5. ASSUME NEW g \in Hosts, NEW u \in Tasks, NEW e \in Epochs, <<u, e>> \in releases[g]
        PROVE  /\ fire'[u][e].pc = "over"
               /\ row'[u].status # "deleted" => e =< row'[u].epoch
    <3>1. fire[u][e].pc = "over" /\ (row[u].status # "deleted" => e =< row[u].epoch)
      BY <2>5 DEF MainInv
    <3>2. e \in Nat /\ row[u].epoch \in Nat
      BY <1>a
    <3>3. CASE u \in S
      <4>1. e =< row[u].epoch /\ e # row[u].epoch + 1
        BY <2>2, <3>1, <3>2, <3>3
      <4>2. fire'[u][e] = fire[u][e] /\ row'[u].epoch = row[u].epoch + 1
        BY <2>1, <2>2, <3>3, <4>1
      <4> QED
        BY <3>1, <3>2, <4>1, <4>2
    <3>4. CASE u \notin S
      BY <2>1, <2>2, <3>1, <3>4
    <3> QED
      BY <3>3, <3>4
  <2>6. \A u \in Tasks : \A e \in Epochs :
          fire'[u][e].pc = "armed" => fire'[u][e] = fire[u][e]
    BY <2>1
  <2> QED
    BY <2>3, <2>4, <2>5, <2>6 DEF MainInv
<1>2. ASSUME NEW batch \in replies[h], ScheduleClaimed(h, batch) PROVE MainInv'
  <2>1. \A u \in Tasks : \A e \in Epochs :
          fire'[u][e] = IF <<u, e>> \in batch THEN [fire[u][e] EXCEPT !.pc = "armed"]
                                              ELSE fire[u][e]
    BY <1>2 DEF ScheduleClaimed
  <2>2. \A u \in Tasks : \A e \in Epochs : <<u, e>> \in batch =>
          /\ fire[u][e].pc = "claimed" /\ fire[u][e].host = h
          /\ fire'[u][e].pc = "armed" /\ fire'[u][e].host = h
    <3> SUFFICES ASSUME NEW u \in Tasks, NEW e \in Epochs, <<u, e>> \in batch
                 PROVE  /\ fire[u][e].pc = "claimed" /\ fire[u][e].host = h
                        /\ fire'[u][e].pc = "armed" /\ fire'[u][e].host = h
      OBVIOUS
    <3>1. fire[u][e] \in Fire /\ fire[u][e].pc = "claimed" /\ fire[u][e].host = h
      BY <1>a DEF ReplyInv
    <3> QED
      BY <2>1, <3>1 DEF Fire
  <2>0. \A u \in Tasks : \A e \in Epochs :
          <<u, e>> \notin batch => fire'[u][e] = fire[u][e]
    BY <2>1
  <2>3. UNCHANGED <<row, phase, releases>> /\ phase[h] = "up"
    BY <1>2 DEF ScheduleClaimed
  <2>4. ASSUME NEW g \in Hosts, NEW u \in Tasks, NEW e \in Epochs, tracked'[g][u] = e
        PROVE  tracked[g][u] = e \/ (g = h /\ <<u, e>> \in batch)
    <3>1. tracked'[g][u] = IF g = h /\ \E d \in Epochs : <<u, d>> \in batch
                             THEN CHOOSE d \in Epochs : <<u, d>> \in batch
                             ELSE tracked[g][u]
      BY <1>2, <1>a DEF ScheduleClaimed
    <3> QED
      BY <2>4, <3>1
  <2>5. \A g \in Hosts : g # h => tracked'[g] = tracked[g]
    BY <1>2, <1>a DEF ScheduleClaimed
  <2>6. \A g \in Hosts : \A u \in Tasks : \A e \in Epochs :
          tracked'[g][u] = e => fire'[u][e].pc = "armed" /\ fire'[u][e].host = g
    <3> SUFFICES ASSUME NEW g \in Hosts, NEW u \in Tasks, NEW e \in Epochs,
                        tracked'[g][u] = e
                 PROVE  fire'[u][e].pc = "armed" /\ fire'[u][e].host = g
      OBVIOUS
    <3>1. CASE g = h /\ <<u, e>> \in batch
      BY <2>2, <3>1
    <3>2. CASE tracked[g][u] = e
      <4>1. fire[u][e].pc = "armed" /\ fire[u][e].host = g
        BY <3>2 DEF MainInv
      <4>2. <<u, e>> \notin batch
        BY <2>2, <4>1
      <4> QED
        BY <2>0, <4>1, <4>2
    <3> QED
      BY <2>4, <3>1, <3>2
  <2>7. \A g \in Hosts : \A u \in Tasks : \A e \in Epochs :
          <<u, e>> \in releases[g] => fire'[u][e].pc = "over"
    BY <2>0, <2>2 DEF MainInv
  <2>8. ASSUME NEW g \in Hosts, NEW u \in Tasks, phase[g] = "stopped"
        PROVE  /\ tracked'[g][u] = 0
               /\ \A e \in Epochs : ~(fire'[u][e].pc = "armed" /\ fire'[u][e].host = g)
    <3>1. g # h
      BY <2>3, <2>8
    <3>2. /\ tracked[g][u] = 0
          /\ \A e \in Epochs : ~(fire[u][e].pc = "armed" /\ fire[u][e].host = g)
      BY <2>8 DEF MainInv
    <3>3. \A e \in Epochs : ~(fire'[u][e].pc = "armed" /\ fire'[u][e].host = g)
      BY <2>0, <2>2, <3>1, <3>2
    <3> QED
      BY <2>5, <3>1, <3>2, <3>3
  <2> QED
    BY <2>3, <2>6, <2>7, <2>8 DEF MainInv
<1>3. ASSUME NEW batch \in replies[h], HandBackClaims(h, batch) PROVE MainInv'
  <2>1. \A u \in Tasks : \A e \in Epochs :
          fire'[u][e] = IF <<u, e>> \in batch THEN Blank("over") ELSE fire[u][e]
    BY <1>3 DEF HandBackClaims
  <2>2. /\ UNCHANGED <<row, phase, tracked>>
        /\ releases'[h] = releases[h] \cup batch
        /\ \A g \in Hosts : g # h => releases'[g] = releases[g]
    BY <1>3, <1>a DEF HandBackClaims
  <2>3. \A u \in Tasks : \A e \in Epochs : <<u, e>> \in batch =>
          /\ fire[u][e].pc = "claimed" /\ fire'[u][e].pc = "over"
          /\ row[u].status # "deleted" => e =< row[u].epoch
    BY <2>1, BlankOver DEF ReplyInv, Held
  <2>4. \A u \in Tasks : \A e \in Epochs : MainKeeps(u, e)
    BY <2>1, <2>3, BlankOver DEF MainKeeps
  <2>5. ASSUME NEW g \in Hosts, NEW u \in Tasks, NEW e \in Epochs, <<u, e>> \in releases'[g]
        PROVE  fire'[u][e].pc = "over" /\ (row[u].status # "deleted" => e =< row[u].epoch)
    <3>1. <<u, e>> \in releases[g] \/ <<u, e>> \in batch
      BY <2>2, <2>5
    <3>2. CASE <<u, e>> \in releases[g]
      BY <2>4, <3>2 DEF MainInv, MainKeeps
    <3> QED
      BY <2>3, <3>1, <3>2
  <2> QED
    BY <2>2, <2>4, <2>5 DEF MainInv, MainKeeps
<1>4. ASSUME NEW t \in Tasks, NEW e \in Epochs,
             ReleaseClaim(h, t, e) \/ ReleaseRejects(h, t, e)
      PROVE  MainInv'
  <2>1. /\ \A g \in Hosts : releases'[g] \subseteq releases[g]
        /\ UNCHANGED <<fire, tracked, phase>>
    BY <1>4, <1>a DEF ReleaseClaim, ReleaseRejects
  <2>2. \A u \in Tasks : RowGrows(u)
    BY <1>4, <1>b, ReleaseRows DEF ReleaseRejects
  <2>3. \A u \in Tasks : \A d \in Epochs : MainKeeps(u, d)
    BY <2>1 DEF MainKeeps
  <2> QED
    BY <2>1, <2>2, <2>3, MainStays
<1>5. CASE Stop(h)
  <2>1. ASSUME NEW u \in Tasks, NEW e \in Epochs
        PROVE  IF fire[u][e].pc = "armed" /\ fire[u][e].host = h
                 THEN /\ fire'[u][e].pc # "armed"
                      /\ tracked[h][u] = e => fire'[u][e].pc = "over"
                 ELSE fire'[u][e] = fire[u][e]
    <3>1. fire[u][e] \in Fire
      BY <1>a
    <3>2. fire'[u][e] = IF OfHost(h, u, e) /\ fire[u][e].pc = "armed"
             THEN IF tracked[h][u] = e
                    THEN Blank("over")
                    ELSE [fire[u][e] EXCEPT !.pc = "stranded", !.delay = 0]
             ELSE fire[u][e]
      BY <1>5 DEF Stop
    <3>3. [fire[u][e] EXCEPT !.pc = "stranded", !.delay = 0].pc = "stranded"
      BY <3>1 DEF Fire
    <3> QED
      BY <3>2, <3>3, BlankOver DEF OfHost
  <2>2. /\ UNCHANGED row
        /\ \A g \in Hosts : g # h => /\ releases'[g] = releases[g]
                                     /\ tracked'[g] = tracked[g] /\ phase'[g] = phase[g]
        /\ \A u \in Tasks : tracked'[h][u] = 0
        /\ \A u \in Tasks : \A e \in Epochs : <<u, e>> \in releases'[h] =>
             <<u, e>> \in releases[h] \/ tracked[h][u] = e
    BY <1>5, <1>a DEF Stop
  <2>3. ASSUME NEW g \in Hosts, NEW u \in Tasks, NEW e \in Epochs, tracked'[g][u] = e
        PROVE  fire'[u][e].pc = "armed" /\ fire'[u][e].host = g
    <3>1. g # h /\ tracked[g][u] = e
      BY <1>a, <2>2, <2>3
    <3> QED
      BY <2>1, <3>1 DEF MainInv
  <2>4. ASSUME NEW g \in Hosts, NEW u \in Tasks, NEW e \in Epochs, <<u, e>> \in releases'[g]
        PROVE  fire'[u][e].pc = "over" /\ (row[u].status # "deleted" => e =< row[u].epoch)
    <3>1. CASE <<u, e>> \in releases[g]
      <4>1. fire[u][e].pc = "over" /\ (row[u].status # "deleted" => e =< row[u].epoch)
        BY <3>1 DEF MainInv
      <4> QED
        BY <2>1, <4>1
    <3>2. CASE <<u, e>> \notin releases[g]
      <4>1. g = h /\ tracked[h][u] = e
        BY <2>2, <2>4, <3>2
      <4>2. fire[u][e].pc = "armed" /\ fire[u][e].host = h
        BY <4>1 DEF MainInv
      <4> QED
        BY <2>1, <4>1, <4>2 DEF ReplyInv, Held
    <3> QED
      BY <3>1, <3>2
  <2>5. ASSUME NEW g \in Hosts, NEW u \in Tasks, phase'[g] = "stopped"
        PROVE  /\ tracked'[g][u] = 0
               /\ \A e \in Epochs : ~(fire'[u][e].pc = "armed" /\ fire'[u][e].host = g)
    <3>1. CASE g = h
      BY <2>1, <2>2, <3>1
    <3>2. CASE g # h
      BY <2>1, <2>2, <2>5, <3>2 DEF MainInv
    <3> QED
      BY <3>1, <3>2
  <2> QED
    BY <2>2, <2>3, <2>4, <2>5 DEF MainInv
<1>6. CASE Crash(h)
  <2>1. \A u \in Tasks : \A e \in Epochs :
          IF OfHost(h, u, e) THEN fire'[u][e] = Blank("over") ELSE fire'[u][e] = fire[u][e]
    BY <1>6 DEF Crash
  <2>2. /\ UNCHANGED row /\ releases'[h] = {} /\ phase'[h] = "down"
        /\ \A g \in Hosts : g # h => /\ releases'[g] = releases[g]
                                     /\ tracked'[g] = tracked[g] /\ phase'[g] = phase[g]
        /\ \A u \in Tasks : tracked'[h][u] = 0
    BY <1>6, <1>a DEF Crash
  <2>3. ASSUME NEW g \in Hosts, NEW u \in Tasks, NEW e \in Epochs, tracked'[g][u] = e
        PROVE  fire'[u][e].pc = "armed" /\ fire'[u][e].host = g
    <3>1. g # h /\ tracked[g][u] = e
      BY <1>a, <2>2, <2>3
    <3> QED
      BY <2>1, <3>1 DEF MainInv, OfHost
  <2>4. ASSUME NEW g \in Hosts, NEW u \in Tasks, NEW e \in Epochs, <<u, e>> \in releases'[g]
        PROVE  fire'[u][e].pc = "over" /\ (row[u].status # "deleted" => e =< row[u].epoch)
    <3>1. <<u, e>> \in releases[g]
      BY <2>2, <2>4
    <3> QED
      BY <2>1, <3>1, BlankOver DEF MainInv
  <2>5. ASSUME NEW g \in Hosts, NEW u \in Tasks, phase'[g] = "stopped"
        PROVE  /\ tracked'[g][u] = 0
               /\ \A e \in Epochs : ~(fire'[u][e].pc = "armed" /\ fire'[u][e].host = g)
    BY <2>1, <2>2, <2>5, BlankOver DEF MainInv
  <2> QED
    BY <2>2, <2>3, <2>4, <2>5 DEF MainInv
<1>7. CASE Restart(h)
  <2>1. /\ UNCHANGED <<row, fire, tracked, releases>>
        /\ \A g \in Hosts : phase'[g] = "stopped" => phase[g] = "stopped"
    BY <1>7, <1>a DEF Restart
  <2> QED
    BY <2>1 DEF MainInv
<1> QED
  BY <1>1, <1>2, <1>3, <1>4, <1>5, <1>6, <1>7 DEF HostStep

\* The other steps touch no claim, no map and no release.
LEMMA OtherStepMain ==
  ASSUME TypeOK, MainInv, UNCHANGED <<tracked, releases, phase>>,
         \A u \in Tasks : RowGrows(u),
         \A u \in Tasks : \A e \in Epochs :
           fire'[u][e].pc = fire[u][e].pc /\ fire'[u][e].host = fire[u][e].host
  PROVE  MainInv'
<1>1. \A u \in Tasks : \A e \in Epochs : MainKeeps(u, e)
  BY DEF MainKeeps
<1> QED
  BY <1>1, MainStays

-----------------------------------------------------------------------------
(* The theorems.                                                           *)

LEMMA ClaimsInit == Init => RowsInv /\ MainInv
<1> SUFFICES ASSUME Init PROVE RowsInv /\ MainInv
  OBVIOUS
<1>1. /\ \A t \in Tasks : \A e \in Epochs :
           fire[t][e].pc = "none" /\ fire[t][e].mark = "none"
      /\ \A h \in Hosts : phase[h] = "up" /\ releases[h] = {}
                         /\ \A t \in Tasks : tracked[h][t] = 0
      /\ \A t \in Tasks : charged[t] = {} /\ \A r \in Reapers : ~sweep[r][t].dispatchedAt
  BY DEF Init, Blank, Resolved
<1>2. \A t \in Tasks : /\ row[t].status = "pending" /\ row[t].attempts = 0
                      /\ ~row[t].startedAt /\ ~row[t].dispatchedAt
  BY DEF Init, Recorded
<1>3. ASSUME NEW t \in Tasks PROVE Clean(t) /\ Honest(t) /\ Accounted(t) /\ Exclusive(t)
  <2>1. Clean(t)
    BY <1>1, <1>2 DEF Clean, Unfired
  <2>2. Honest(t)
    BY <1>1, <1>2 DEF Honest
  <2>3. Accounted(t)
    BY <1>1, <1>2, FS_EmptySet DEF Accounted
  <2>4. Exclusive(t)
    BY <1>1 DEF Exclusive, InHandler
  <2> QED
    BY <2>1, <2>2, <2>3, <2>4
<1>4. MainInv
  BY <1>1, EpochsPositive DEF MainInv
<1> QED
  BY <1>3, <1>4 DEF RowsInv

\* The claims, the rows and the bookkeeping of the mains agree in every
\* reachable state.
THEOREM ClaimsAgree == Spec => [](RowsInv /\ MainInv)
<1>1. TypeOK /\ BudgetInv /\ ReplyInv /\ RowsInv /\ MainInv /\ [Next]_vars
        => RowsInv' /\ MainInv'
  <2> SUFFICES ASSUME TypeOK, BudgetInv, ReplyInv, RowsInv, MainInv, [Next]_vars
               PROVE  RowsInv' /\ MainInv'
    OBVIOUS
  <2>1. CASE UNCHANGED vars
    <3>1. \A u \in Tasks : RowKeeps(u) /\ RowGrows(u)
      BY <2>1 DEF vars, RowKeeps, RowSame, NotCounted, RowGrows
    <3>2. RowsInv'
      BY <3>1, RowKeepsInv DEF RowsInv, RowInv
    <3>3. MainInv'
      BY <2>1, <3>1, OtherStepMain DEF vars
    <3> QED
      BY <3>2, <3>3
  <2>2. ASSUME NEW t \in Tasks, NEW e \in Epochs, FireStep(t, e)
        PROVE  RowsInv' /\ MainInv'
    BY <2>2, FireStepShape, FireStepRows, FireStepMain
  <2>3. ASSUME NEW h \in Hosts, HostStep(h) PROVE RowsInv' /\ MainInv'
    BY <2>3, HostStepRows, HostStepMain
  <2>4. ASSUME NEW r \in Reapers, ReaperStep(r) PROVE RowsInv' /\ MainInv'
    <3>1. UNCHANGED <<fire, tracked, releases, phase>>
      BY <2>4 DEF ReaperStep, RetireMissedPending, FindExpiredLeases, CompleteExpired,
                  DeadLetterExpired, ReclaimExpired, RowErrors, AbortSweep
    <3> QED
      BY <2>4, <3>1, ReaperStepRows, OtherStepMain
  <2>5. ASSUME NEW t \in Tasks, TableStep(t) PROVE RowsInv' /\ MainInv'
    <3>1. UNCHANGED <<fire, tracked, releases, phase>>
      BY <2>5 DEF TableStep, UpdateToMissed, UpdateMissedAfter, DeletePending,
                  CascadeDelete, DeleteFinished
    <3> QED
      BY <2>5, <3>1, TableStepRows, OtherStepMain
  <2>6. CASE Tick
    <3>1. UNCHANGED <<tracked, releases, phase>>
      BY <2>6 DEF Tick
    <3> QED
      BY <2>6, <3>1, TickRows, TickShape, OtherStepMain
  <2> QED
    BY <2>1, <2>2, <2>3, <2>4, <2>5, <2>6 DEF Next
<1> QED
  BY <1>1, ClaimsInit, TypeCorrect, SnapshotsAgree, PTL DEF Spec

\* No handler of an occurrence starts beside a live one unless the reaper took
\* the expired lease of the first over.
THEOREM ExclusiveCorrect == Spec => []HandlersExclusive
<1>1. RowsInv => HandlersExclusive
  BY EpochsNat DEF RowsInv, Exclusive, HandlersExclusive, InHandler, Held
<1> QED
  BY <1>1, ClaimsAgree, PTL

\* An attempt is counted once, by its owner or by one of the sweeps.
THEOREM CountedCorrect == Spec => []AttemptsCountedOnce
<1>1. RowsInv => AttemptsCountedOnce
  BY DEF RowsInv, Accounted, AttemptsCountedOnce
<1> QED
  BY <1>1, ClaimsAgree, PTL

\* No occurrence is recorded succeeded unless a handler of it ran.
THEOREM SuccessCorrect == Spec => []NoPhantomSuccess
<1>1. RowsInv => NoPhantomSuccess
  BY DEF RowsInv, Honest, NoPhantomSuccess
<1> QED
  BY <1>1, ClaimsAgree, PTL

\* The owner of a row it has not fired finds nothing of an earlier attempt.
THEOREM CleanCorrect == Spec => []RedeliveryStartsClean
<1>1. RowsInv /\ BudgetInv => RedeliveryStartsClean
  <2> SUFFICES ASSUME RowsInv, BudgetInv, NEW t \in Tasks, NEW e \in Epochs,
                      fire[t][e].pc \in Unfired, Owns(t, e)
               PROVE  ~row[t].startedAt /\ ~row[t].dispatchedAt
    BY DEF RedeliveryStartsClean, Unfired
  <2>1. Current(t, e) /\ Held(t, e)
    BY DEF Owns, Matches, Current, Held, Unfired
  <2>2. Clean(t) /\ ClaimCurrent(t, e)
    BY DEF RowsInv, BudgetInv, TaskInv
  <2> QED
    BY <2>1, <2>2 DEF Clean, ClaimCurrent, Current
<1> QED
  BY <1>1, ClaimsAgree, SnapshotsAgree, PTL

\* A main that ran stop() holds no timer and tracks no claim, whichever claims
\* resolve later.
THEOREM StoppedCorrect == Spec => []StoppedHostHoldsNothing
<1>1. MainInv => StoppedHostHoldsNothing
  BY DEF MainInv, StoppedHostHoldsNothing, OfHost
<1> QED
  BY <1>1, ClaimsAgree, PTL
=============================================================================
