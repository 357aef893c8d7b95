----------------------------- MODULE TaskQueue -----------------------------
(***************************************************************************)
(* The scheduled_task table and the processes that drive its rows: the     *)
(* executor of every main (claim, timer, fire, handler, outcome), the      *)
(* reaper sweeps, and the statements of the materializer, the provisioner  *)
(* and retention that touch a recorded row.                                *)
(*                                                                         *)
(* A row is one occurrence of a job.  A claim of row t bumps its           *)
(* leaseEpoch, so <<t, e>> names one claim for ever, and fire[t][e] is the *)
(* life of that claim inside the process of the host that made it.  Every  *)
(* statement on a row is one atomic step; everything between two awaits    *)
(* of a process is one step; anything may happen between two of its steps. *)
(*                                                                         *)
(* Time.  Every instant is kept relative to the database clock: runAt = k  *)
(* means "k ticks from now".  Tick moves the clock by one, and an instant  *)
(* is not followed further into the past than a guard can tell apart.      *)
(***************************************************************************)
EXTENDS Integers, FiniteSets

CONSTANTS
  Tasks,        \* recorded occurrences
  Hosts,        \* host ids of the mains
  Reapers,      \* reaper passes in flight, on whichever main they run
  NoHost,       \* claimedBy IS NULL
  NoDeadline,   \* missedAfter IS NULL
  MaxAttempts,  \* maxAttempts of a row
  Lease,        \* leaseMs
  Lookahead,    \* lookaheadMs of the claim
  BatchSize,    \* rows one claim or one sweep takes at most
  Skew,         \* how far an instance clock may run ahead of the database's
  Graces,       \* the misfire graces a policy may set
  Backoff(_),   \* retry delay after the n-th failed attempt
  MaxEpoch,     \* bound: claims and reclaims of one row
  MaxFaults     \* bound: crashes, stops, timed-out passes, failed statements,
                \*        deletions and policy edits in one behaviour

ASSUME TaskQueueAssumption ==
  /\ NoHost \notin Hosts
  /\ NoDeadline \notin Int
  /\ MaxAttempts \in Nat \ {0}
  /\ Lease \in Nat \ {0}
  /\ Lookahead \in Nat
  /\ BatchSize \in Nat \ {0}
  /\ Skew \in Nat
  /\ Graces \subseteq Nat
  /\ MaxEpoch \in Nat
  /\ MaxFaults \in Nat
  /\ \A n \in 1..MaxAttempts : Backoff(n) \in Nat

VARIABLES
  row,      \* the scheduled_task table
  fire,     \* fire[t][e]: the claim of row t at epoch e, in its host's process
  tracked,  \* claimedTaskById of each host: the epoch held for a task id, or 0
  replies,  \* claim statements that committed and have not resolved yet
  releases, \* releaseClaim statements each host has issued, not yet committed
  phase,    \* each host: "up", "stopped" (executor.stop() ran) or "down"
  sweep,    \* rows each reaper read in findExpiredLeases and has to resolve
  faults,   \* disturbances left in this behaviour
  charged,  \* history: epochs whose claim was counted as a failed attempt
  lapsed,   \* history: epochs the reaper took over, their lease expired
  ran       \* history: a handler of the row returned or reported dispatch

vars == <<row, fire, tracked, replies, releases, phase, sweep, faults,
          charged, lapsed, ran>>
history == <<charged, lapsed, ran>>

Epochs == 1..MaxEpoch
Terminal == {"succeeded", "failed", "missed"}
Statuses == {"pending", "running", "deleted"} \cup Terminal

\* The life of one claim: "claimed" while the claim's reply is on its way,
\* "armed" behind a timer, "firing" until beginDispatch answers, "handling" in
\* the handler, "returned" or "threw" until the outcome is written,
\* "stranded" when stop() cancelled its timer without releasing the claim, and
\* "over" once the host holds nothing of it but perhaps a release under way.
FireStates == {"none", "claimed", "armed", "firing", "handling", "returned",
               "threw", "stranded", "over"}

\* dispatchMark: undefined, its write pending, or settled.
Marks == {"none", "writing", "settled"}

Row == [status : Statuses, runAt : Int, attempts : Nat,
        claimedBy : Hosts \cup {NoHost}, lease : Int, epoch : Nat,
        startedAt : BOOLEAN, dispatchedAt : BOOLEAN,
        missedAfter : Int \cup {NoDeadline}]

Fire == [pc : FireStates, host : Hosts \cup {NoHost}, attempts : Nat,
         delay : Int, mark : Marks]

Expired == [epoch : Nat, attempts : Nat, dispatchedAt : BOOLEAN]
Resolved == [epoch |-> 0, attempts |-> 0, dispatchedAt |-> FALSE]

Blank(pc) == [pc |-> pc, host |-> NoHost, attempts |-> 0, delay |-> 0,
              mark |-> "none"]

\* A deleted row: no statement matches it any more.
Deleted == [status |-> "deleted", runAt |-> 0, attempts |-> 0,
            claimedBy |-> NoHost, lease |-> 0, epoch |-> 0,
            startedAt |-> FALSE, dispatchedAt |-> FALSE,
            missedAfter |-> NoDeadline]

\* What the materializer inserts: an unclaimed row due at some instant, with
\* the misfire deadline of its policy, or the null one of a row recorded
\* before deadlines existed.
Recorded(due, deadline) ==
  [status |-> "pending", runAt |-> due, attempts |-> 0, claimedBy |-> NoHost,
   lease |-> 0, epoch |-> 0, startedAt |-> FALSE, dispatchedAt |-> FALSE,
   missedAfter |-> deadline]

Init ==
  /\ row \in [Tasks -> {Recorded(due, deadline) :
                          due \in 0..(Lookahead + 1),
                          deadline \in {NoDeadline} \cup
                                       {d + g : d \in {0, Lookahead + 1}, g \in Graces}}]
  /\ fire = [t \in Tasks |-> [e \in Epochs |-> Blank("none")]]
  /\ tracked = [h \in Hosts |-> [t \in Tasks |-> 0]]
  /\ replies = [h \in Hosts |-> {}]
  /\ releases = [h \in Hosts |-> {}]
  /\ phase = [h \in Hosts |-> "up"]
  /\ sweep = [r \in Reapers |-> [t \in Tasks |-> Resolved]]
  /\ faults = MaxFaults
  /\ charged = [t \in Tasks |-> {}]
  /\ lapsed = [t \in Tasks |-> {}]
  /\ ran = [t \in Tasks |-> FALSE]

\* A disturbance: allowed while the bound lasts.
Fault ==
  /\ faults > 0
  /\ faults' = faults - 1

-----------------------------------------------------------------------------
(* The claim.                                                              *)

\* claimableSql: no deadline, a deadline still ahead, or already attempted.
ClaimableSql(t) ==
  \/ row[t].missedAfter = NoDeadline
  \/ row[t].missedAfter \in Int /\ row[t].missedAfter > 0
  \/ row[t].attempts > 0

Due(t) ==
  /\ row[t].status = "pending"
  /\ row[t].runAt =< Lookahead
  /\ ClaimableSql(t)

\* The claim statement commits for host h and takes the rows S.  Which due
\* rows it takes is open: a row that another statement holds locked is
\* skipped.  A host whose executor stopped can still commit the claim of a
\* pass abandoned at its timeout.
ClaimDueTasks(h, S) ==
  /\ phase[h] # "down"
  /\ IF phase[h] = "up" THEN UNCHANGED faults ELSE Fault
  /\ S # {} /\ Cardinality(S) =< BatchSize
  /\ \A t \in S : Due(t) /\ row[t].epoch < MaxEpoch
  /\ row' = [t \in Tasks |->
       IF t \in S
         THEN [row[t] EXCEPT !.status = "running", !.claimedBy = h,
                             !.lease = Lease, !.epoch = @ + 1]
         ELSE row[t]]
  /\ fire' = [t \in Tasks |-> [e \in Epochs |->
       IF t \in S /\ e = row[t].epoch + 1
         THEN [pc |-> "claimed", host |-> h, attempts |-> row[t].attempts,
               delay |-> row[t].runAt, mark |-> "none"]
         ELSE fire[t][e]]]
  /\ replies' = [replies EXCEPT ![h] = @ \cup {{<<t, row[t].epoch + 1>> : t \in S}}]
  /\ UNCHANGED <<tracked, releases, phase, sweep, history>>

\* Mutant of ScheduleClaimed: a reply that resolves after stop() is scheduled.
ScheduleClaimed_AfterStop(h, batch) ==
  /\ phase[h] # "down"
  /\ batch \in replies[h]
  /\ replies' = [replies EXCEPT ![h] = @ \ {batch}]
  /\ tracked' = [tracked EXCEPT ![h] = [t \in Tasks |->
       IF \E e \in Epochs : <<t, e>> \in batch
         THEN CHOOSE e \in Epochs : <<t, e>> \in batch
         ELSE tracked[h][t]]]
  /\ fire' = [t \in Tasks |-> [e \in Epochs |->
       IF <<t, e>> \in batch THEN [fire[t][e] EXCEPT !.pc = "armed"]
                             ELSE fire[t][e]]]
  /\ UNCHANGED <<row, releases, phase, sweep, faults, history>>

\* The claim's reply resolves in a live pass: every row is tracked and its
\* timer armed, in one synchronous loop.
ScheduleClaimed(h, batch) ==
  /\ phase[h] = "up"
  /\ batch \in replies[h]
  /\ replies' = [replies EXCEPT ![h] = @ \ {batch}]
  /\ tracked' = [tracked EXCEPT ![h] = [t \in Tasks |->
       IF \E e \in Epochs : <<t, e>> \in batch
         THEN CHOOSE e \in Epochs : <<t, e>> \in batch
         ELSE tracked[h][t]]]
  /\ fire' = [t \in Tasks |-> [e \in Epochs |->
       IF <<t, e>> \in batch THEN [fire[t][e] EXCEPT !.pc = "armed"]
                             ELSE fire[t][e]]]
  /\ UNCHANGED <<row, releases, phase, sweep, faults, history>>

\* The reply resolves in an aborted pass, or after stop(): every row is
\* handed back, none is scheduled.
HandBackClaims(h, batch) ==
  /\ batch \in replies[h]
  /\ IF phase[h] = "stopped" THEN UNCHANGED faults ELSE Fault
  /\ replies' = [replies EXCEPT ![h] = @ \ {batch}]
  /\ fire' = [t \in Tasks |-> [e \in Epochs |->
       IF <<t, e>> \in batch THEN Blank("over") ELSE fire[t][e]]]
  /\ releases' = [releases EXCEPT ![h] = @ \cup batch]
  /\ UNCHANGED <<row, tracked, phase, sweep, history>>

-----------------------------------------------------------------------------
(* One fire.  Every write of a claim is guarded on the row still being     *)
(* that claim's.                                                           *)

Matches(h, t, e) ==
  /\ row[t].status = "running"
  /\ row[t].claimedBy = h
  /\ row[t].epoch = e

Owns(t, e) == Matches(fire[t][e].host, t, e)

SetRow(t, r) == row' = [row EXCEPT ![t] = r]

\* Mutant of GuardedUpdate: the write is by id alone.
GuardedUpdate_ById(h, t, e, new) == SetRow(t, new)

\* runGuardedUpdate: the row if it is still that claim's, else no row.
GuardedUpdate(h, t, e, new) ==
  IF Matches(h, t, e) THEN SetRow(t, new) ELSE UNCHANGED row

SetFire(t, e, f) == fire' = [fire EXCEPT ![t][e] = f]

Ends(t, e) == SetFire(t, e, Blank("over"))

\* Mutant of Cleared: the dispatch mutex stays taken.
Cleared_KeepsStart(r) == [r EXCEPT !.claimedBy = NoHost, !.lease = 0,
                                   !.dispatchedAt = FALSE]

Cleared(r) == [r EXCEPT !.claimedBy = NoHost, !.lease = 0,
                        !.startedAt = FALSE, !.dispatchedAt = FALSE]

\* Mutant of TimerFires: the fired claim stays in the map.
TimerFires_KeepsClaim(t, e) ==
  /\ fire[t][e].pc = "armed"
  /\ fire[t][e].delay =< Skew
  /\ SetFire(t, e, [fire[t][e] EXCEPT !.pc = "firing", !.delay = 0])
  /\ UNCHANGED <<row, tracked, replies, releases, phase, sweep, faults, history>>

\* The timer fires: not before runAt on the instance clock, arbitrarily late
\* when the event loop is busy.  It drops whatever the map holds for the id.
TimerFires(t, e) ==
  /\ fire[t][e].pc = "armed"
  /\ fire[t][e].delay =< Skew
  /\ tracked' = [tracked EXCEPT ![fire[t][e].host][t] = 0]
  /\ SetFire(t, e, [fire[t][e] EXCEPT !.pc = "firing", !.delay = 0])
  /\ UNCHANGED <<row, replies, releases, phase, sweep, faults, history>>

\* Mutant of BeginDispatch: the dispatch marker is written with the mutex.
BeginDispatch_Marks(t, e) ==
  /\ fire[t][e].pc = "firing"
  /\ IF Owns(t, e) /\ ~row[t].startedAt
       THEN /\ SetRow(t, [row[t] EXCEPT !.startedAt = TRUE, !.lease = Lease,
                                        !.dispatchedAt = TRUE])
            /\ SetFire(t, e, [fire[t][e] EXCEPT !.pc = "handling"])
       ELSE /\ Ends(t, e)
            /\ UNCHANGED row
  /\ UNCHANGED <<tracked, replies, releases, phase, sweep, faults, history>>

\* The pre-dispatch mutex.  One row affected: the handler starts; none: the
\* fire is skipped.
BeginDispatch(t, e) ==
  /\ fire[t][e].pc = "firing"
  /\ IF Owns(t, e) /\ ~row[t].startedAt
       THEN /\ SetRow(t, [row[t] EXCEPT !.startedAt = TRUE, !.lease = Lease])
            /\ SetFire(t, e, [fire[t][e] EXCEPT !.pc = "handling"])
       ELSE /\ Ends(t, e)
            /\ UNCHANGED row
  /\ UNCHANGED <<tracked, replies, releases, phase, sweep, faults, history>>

\* The handler calls report.dispatched(): the marker's write is started, once.
ReportDispatched(t, e) ==
  /\ fire[t][e].pc = "handling"
  /\ fire[t][e].mark = "none"
  /\ SetFire(t, e, [fire[t][e] EXCEPT !.mark = "writing"])
  /\ ran' = [ran EXCEPT ![t] = TRUE]
  /\ UNCHANGED <<row, tracked, replies, releases, phase, sweep, faults, charged, lapsed>>

\* The marker's write commits.
MarkDispatched(t, e) ==
  /\ fire[t][e].mark = "writing"
  /\ GuardedUpdate(fire[t][e].host, t, e, [row[t] EXCEPT !.dispatchedAt = TRUE])
  /\ SetFire(t, e, [fire[t][e] EXCEPT !.mark = "settled"])
  /\ UNCHANGED <<tracked, replies, releases, phase, sweep, faults, history>>

\* The marker's write fails, is reported and otherwise ignored.
MarkFails(t, e) ==
  /\ fire[t][e].mark = "writing"
  /\ Fault
  /\ SetFire(t, e, [fire[t][e] EXCEPT !.mark = "settled"])
  /\ UNCHANGED <<row, tracked, replies, releases, phase, sweep, history>>

\* The handler returns: the marker is written now if it was not before.
HandlerReturns(t, e) ==
  /\ fire[t][e].pc = "handling"
  /\ SetFire(t, e, [fire[t][e] EXCEPT
       !.pc = "returned", !.mark = IF @ = "none" THEN "writing" ELSE @])
  /\ ran' = [ran EXCEPT ![t] = TRUE]
  /\ UNCHANGED <<row, tracked, replies, releases, phase, sweep, faults, charged, lapsed>>

HandlerThrows(t, e) ==
  /\ fire[t][e].pc = "handling"
  /\ SetFire(t, e, [fire[t][e] EXCEPT !.pc = "threw"])
  /\ UNCHANGED <<row, tracked, replies, releases, phase, sweep, faults, history>>

\* Mutant of NextAttempts: the attempt that just failed is not counted.
NextAttempts_OffByOne(t, e) == fire[t][e].attempts

\* The attempt number a failure of this fire counts as, from the snapshot
\* taken at the claim.
NextAttempts(t, e) == fire[t][e].attempts + 1

Charge(t, e) == charged' = [charged EXCEPT ![t] = @ \cup {e}]

\* completeTask, after a return or after a throw on the last attempt of a
\* handler that had reported its dispatch.
CompleteTask(t, e) ==
  /\ \/ fire[t][e].pc = "returned" /\ fire[t][e].mark = "settled"
     \/ /\ fire[t][e].pc = "threw" /\ fire[t][e].mark = "settled"
        /\ NextAttempts(t, e) >= MaxAttempts
  /\ GuardedUpdate(fire[t][e].host, t, e, [row[t] EXCEPT !.status = "succeeded"])
  /\ Ends(t, e)
  /\ UNCHANGED <<tracked, replies, releases, phase, sweep, faults, history>>

\* failTaskTerminal, after a throw on the last attempt before any dispatch.
FailTaskTerminal(t, e) ==
  /\ fire[t][e].pc = "threw" /\ fire[t][e].mark = "none"
  /\ NextAttempts(t, e) >= MaxAttempts
  /\ GuardedUpdate(fire[t][e].host, t, e, [row[t] EXCEPT !.status = "failed", !.attempts = @ + 1])
  /\ IF Owns(t, e) THEN Charge(t, e) ELSE UNCHANGED charged
  /\ Ends(t, e)
  /\ UNCHANGED <<tracked, replies, releases, phase, sweep, faults, lapsed, ran>>

\* rescheduleTask, after a throw with attempts left, whether or not the
\* handler had reported its dispatch.
RescheduleTask(t, e) ==
  /\ fire[t][e].pc = "threw" /\ fire[t][e].mark # "writing"
  /\ NextAttempts(t, e) < MaxAttempts
  /\ GuardedUpdate(fire[t][e].host, t, e, [Cleared(row[t]) EXCEPT
       !.status = "pending", !.attempts = @ + 1,
       !.runAt = Backoff(NextAttempts(t, e))])
  /\ IF Owns(t, e) THEN Charge(t, e) ELSE UNCHANGED charged
  /\ Ends(t, e)
  /\ UNCHANGED <<tracked, replies, releases, phase, sweep, faults, lapsed, ran>>

\* A statement of the fire rejects: reported, and the row left to the reaper.
WriteRejects(t, e) ==
  /\ fire[t][e].pc \in {"firing", "returned", "threw"}
  /\ fire[t][e].mark # "writing"
  /\ Fault
  /\ Ends(t, e)
  /\ UNCHANGED <<row, tracked, replies, releases, phase, sweep, history>>

\* releaseClaim, of a claim handed back or held at stop().
ReleaseClaim(h, t, e) ==
  /\ <<t, e>> \in releases[h]
  /\ GuardedUpdate(h, t, e, [Cleared(row[t]) EXCEPT !.status = "pending"])
  /\ releases' = [releases EXCEPT ![h] = @ \ {<<t, e>>}]
  /\ UNCHANGED <<fire, tracked, replies, phase, sweep, faults, history>>

\* The release rejects: reported, and the row left to the reaper.
ReleaseRejects(h, t, e) ==
  /\ <<t, e>> \in releases[h]
  /\ Fault
  /\ releases' = [releases EXCEPT ![h] = @ \ {<<t, e>>}]
  /\ UNCHANGED <<row, fire, tracked, replies, phase, sweep, history>>

-----------------------------------------------------------------------------
(* The processes.                                                          *)

OfHost(h, t, e) == fire[t][e].host = h /\ fire[t][e].pc \notin {"none", "over"}

\* executor.stop(): every timer is cancelled, and every claim still in the map
\* is released.
Stop(h) ==
  /\ phase[h] = "up"
  /\ Fault
  /\ phase' = [phase EXCEPT ![h] = "stopped"]
  /\ fire' = [t \in Tasks |-> [e \in Epochs |->
       IF OfHost(h, t, e) /\ fire[t][e].pc = "armed"
         THEN IF tracked[h][t] = e
                THEN Blank("over")
                ELSE [fire[t][e] EXCEPT !.pc = "stranded", !.delay = 0]
         ELSE fire[t][e]]]
  /\ releases' = [releases EXCEPT ![h] =
       @ \cup {c \in Tasks \X Epochs : tracked[h][c[1]] = c[2]}]
  /\ tracked' = [tracked EXCEPT ![h] = [t \in Tasks |-> 0]]
  /\ UNCHANGED <<row, replies, sweep, history>>

\* The process ends, by a crash or by the exit that follows stop(): its
\* memory is gone, its claims are left as the table has them.
Crash(h) ==
  /\ phase[h] # "down"
  /\ IF phase[h] = "up" THEN Fault ELSE UNCHANGED faults
  /\ phase' = [phase EXCEPT ![h] = "down"]
  /\ fire' = [t \in Tasks |-> [e \in Epochs |->
       IF OfHost(h, t, e) THEN Blank("over") ELSE fire[t][e]]]
  /\ tracked' = [tracked EXCEPT ![h] = [t \in Tasks |-> 0]]
  /\ replies' = [replies EXCEPT ![h] = {}]
  /\ releases' = [releases EXCEPT ![h] = {}]
  /\ UNCHANGED <<row, sweep, history>>

\* A new process under the same host id (a container keeps its host name).
Restart(h) ==
  /\ phase[h] = "down"
  /\ phase' = [phase EXCEPT ![h] = "up"]
  /\ UNCHANGED <<row, fire, tracked, replies, releases, sweep, faults, history>>

-----------------------------------------------------------------------------
(* The reaper.  A pass retires stale pending rows, then reads the expired  *)
(* leases, then resolves them one statement each.                          *)

Idle(r) == \A t \in Tasks : sweep[r][t] = Resolved

\* retireMissedPending: pending rows past their deadline, never attempted.
RetireMissedPending(r, S) ==
  /\ Idle(r)
  /\ S # {} /\ Cardinality(S) =< BatchSize
  /\ \A t \in S : /\ row[t].status = "pending"
                  /\ row[t].attempts = 0
                  /\ row[t].missedAfter \in Int /\ row[t].missedAfter =< 0
  /\ row' = [t \in Tasks |->
       IF t \in S THEN [row[t] EXCEPT !.status = "missed"] ELSE row[t]]
  /\ UNCHANGED <<fire, tracked, replies, releases, phase, sweep, faults, history>>

\* Mutant of LeaseExpired: a row whose handler started is left alone.
LeaseExpired_NotStarted(t) ==
  row[t].status = "running" /\ row[t].lease < 0 /\ ~row[t].startedAt

LeaseExpired(t) == row[t].status = "running" /\ row[t].lease < 0

\* findExpiredLeases: a plain read; nothing is locked.
FindExpiredLeases(r, S) ==
  /\ Idle(r)
  /\ S # {} /\ Cardinality(S) =< BatchSize
  /\ \A t \in S : LeaseExpired(t)
  /\ sweep' = [sweep EXCEPT ![r] = [t \in Tasks |->
       IF t \in S THEN [epoch |-> row[t].epoch, attempts |-> row[t].attempts,
                        dispatchedAt |-> row[t].dispatchedAt]
                  ELSE Resolved]]
  /\ UNCHANGED <<row, fire, tracked, replies, releases, phase, faults, history>>

\* Mutants of ReaperMatches: one of the two fences is missing.
ReaperMatches_NoEpoch(t, ref) ==
  LeaseExpired(t) /\ row[t].dispatchedAt = ref.dispatchedAt

ReaperMatches_NoMarker(t, ref) ==
  LeaseExpired(t) /\ row[t].epoch = ref.epoch

\* runReaperUpdate: the row read is still running at the epoch read, its
\* lease is still expired, and the marker is still on the side it was read.
ReaperMatches(t, ref) ==
  /\ LeaseExpired(t)
  /\ row[t].epoch = ref.epoch
  /\ row[t].dispatchedAt = ref.dispatchedAt

ReaperUpdate(r, t, new) ==
  /\ IF ReaperMatches(t, sweep[r][t])
       THEN /\ SetRow(t, new)
            /\ lapsed' = [lapsed EXCEPT ![t] = @ \cup {sweep[r][t].epoch}]
       ELSE UNCHANGED <<row, lapsed>>
  /\ sweep' = [sweep EXCEPT ![r][t] = Resolved]

\* Dispatched before the lease lapsed: completed, whatever the attempts left.
CompleteExpired(r, t) ==
  /\ sweep[r][t] # Resolved
  /\ sweep[r][t].dispatchedAt
  /\ ReaperUpdate(r, t, [row[t] EXCEPT !.status = "succeeded"])
  /\ UNCHANGED <<fire, tracked, replies, releases, phase, faults, charged, ran>>

\* Not dispatched, last attempt.
DeadLetterExpired(r, t) ==
  /\ sweep[r][t] # Resolved
  /\ ~sweep[r][t].dispatchedAt
  /\ sweep[r][t].attempts + 1 >= MaxAttempts
  /\ ReaperUpdate(r, t, [row[t] EXCEPT !.status = "failed", !.attempts = @ + 1])
  /\ IF ReaperMatches(t, sweep[r][t]) THEN Charge(t, sweep[r][t].epoch)
                                      ELSE UNCHANGED charged
  /\ UNCHANGED <<fire, tracked, replies, releases, phase, faults, ran>>

\* Not dispatched, attempts left.
ReclaimExpired(r, t) ==
  /\ sweep[r][t] # Resolved
  /\ ~sweep[r][t].dispatchedAt
  /\ sweep[r][t].attempts + 1 < MaxAttempts
  /\ ReaperMatches(t, sweep[r][t]) => row[t].epoch < MaxEpoch
  /\ ReaperUpdate(r, t, [Cleared(row[t]) EXCEPT
       !.status = "pending", !.attempts = @ + 1, !.epoch = @ + 1,
       !.runAt = Backoff(sweep[r][t].attempts + 1)])
  /\ IF ReaperMatches(t, sweep[r][t]) THEN Charge(t, sweep[r][t].epoch)
                                      ELSE UNCHANGED charged
  /\ UNCHANGED <<fire, tracked, replies, releases, phase, faults, ran>>

\* One row's statement rejects and the row is skipped.
RowErrors(r, t) ==
  /\ sweep[r][t] # Resolved
  /\ Fault
  /\ sweep' = [sweep EXCEPT ![r][t] = Resolved]
  /\ UNCHANGED <<row, fire, tracked, replies, releases, phase, history>>

\* The pass is aborted, or its process ends: the rest is left for later.
AbortSweep(r) ==
  /\ ~Idle(r)
  /\ Fault
  /\ sweep' = [sweep EXCEPT ![r] = [t \in Tasks |-> Resolved]]
  /\ UNCHANGED <<row, fire, tracked, replies, releases, phase, history>>

-----------------------------------------------------------------------------
(* The other writers of the table.                                         *)

\* updateToMissed: a newer catch-up supersedes the job's older pending rows.
UpdateToMissed(t) ==
  /\ row[t].status = "pending"
  /\ Fault
  /\ SetRow(t, [row[t] EXCEPT !.status = "missed"])
  /\ UNCHANGED <<fire, tracked, replies, releases, phase, sweep, history>>

\* updateMissedAfterForJobs: a policy edit re-anchors the deadline of a
\* pending row that has one to the later of its runAt and now.
UpdateMissedAfter(t, grace) ==
  /\ row[t].status = "pending"
  /\ row[t].missedAfter # NoDeadline
  /\ Fault
  /\ SetRow(t, [row[t] EXCEPT !.missedAfter =
                   (IF row[t].runAt > 0 THEN row[t].runAt ELSE 0) + grace])
  /\ UNCHANGED <<fire, tracked, replies, releases, phase, sweep, history>>

\* Mutant of DeletePending: the row is kept under a status of its own.
DeletePending_Cancels(t) ==
  /\ row[t].status = "pending"
  /\ Fault
  /\ SetRow(t, [row[t] EXCEPT !.status = "cancelled"])
  /\ UNCHANGED <<fire, tracked, replies, releases, phase, sweep, history>>

\* deletePendingByJobIds: the rule was edited, its queued rows are withdrawn.
DeletePending(t) ==
  /\ row[t].status = "pending"
  /\ Fault
  /\ SetRow(t, Deleted)
  /\ UNCHANGED <<fire, tracked, replies, releases, phase, sweep, history>>

\* The job is deleted and its rows go with it, whatever their status.
CascadeDelete(t) ==
  /\ row[t].status # "deleted"
  /\ Fault
  /\ SetRow(t, Deleted)
  /\ UNCHANGED <<fire, tracked, replies, releases, phase, sweep, history>>

\* deleteFinishedOlderThan: retention removes a terminal row.
DeleteFinished(t) ==
  /\ row[t].status \in Terminal
  /\ Fault
  /\ SetRow(t, Deleted)
  /\ UNCHANGED <<fire, tracked, replies, releases, phase, sweep, history>>

-----------------------------------------------------------------------------
(* The clock.                                                              *)

Before(k, floor) == IF k > floor THEN k - 1 ELSE k

\* One tick of the database clock, and of the timers armed on the hosts.
Tick ==
  /\ row' = [t \in Tasks |-> [row[t] EXCEPT
       !.runAt = Before(@, 0),
       !.lease = IF row[t].status = "running" THEN Before(@, -1) ELSE @,
       !.missedAfter = IF @ = NoDeadline THEN @ ELSE Before(@, 0)]]
  /\ fire' = [t \in Tasks |-> [e \in Epochs |->
       [fire[t][e] EXCEPT !.delay = Before(@, 0)]]]
  /\ UNCHANGED <<tracked, replies, releases, phase, sweep, faults, history>>

-----------------------------------------------------------------------------
FireStep(t, e) ==
  \/ TimerFires(t, e) \/ BeginDispatch(t, e)
  \/ ReportDispatched(t, e) \/ MarkDispatched(t, e) \/ MarkFails(t, e)
  \/ HandlerReturns(t, e) \/ HandlerThrows(t, e)
  \/ CompleteTask(t, e) \/ FailTaskTerminal(t, e) \/ RescheduleTask(t, e)
  \/ WriteRejects(t, e)

HostStep(h) ==
  \/ \E S \in SUBSET Tasks : ClaimDueTasks(h, S)
  \/ \E batch \in replies[h] : ScheduleClaimed(h, batch) \/ HandBackClaims(h, batch)
  \/ \E t \in Tasks, e \in Epochs : ReleaseClaim(h, t, e) \/ ReleaseRejects(h, t, e)
  \/ Stop(h) \/ Crash(h) \/ Restart(h)

ReaperStep(r) ==
  \/ \E S \in SUBSET Tasks : RetireMissedPending(r, S) \/ FindExpiredLeases(r, S)
  \/ \E t \in Tasks : \/ CompleteExpired(r, t) \/ DeadLetterExpired(r, t)
                      \/ ReclaimExpired(r, t) \/ RowErrors(r, t)
  \/ AbortSweep(r)

TableStep(t) ==
  \/ UpdateToMissed(t)
  \/ \E grace \in Graces : UpdateMissedAfter(t, grace)
  \/ DeletePending(t) \/ CascadeDelete(t) \/ DeleteFinished(t)

Next ==
  \/ \E t \in Tasks, e \in Epochs : FireStep(t, e)
  \/ \E h \in Hosts : HostStep(h)
  \/ \E r \in Reapers : ReaperStep(r)
  \/ \E t \in Tasks : TableStep(t)
  \/ Tick

Spec == Init /\ [][Next]_vars

\* What the scheduling of the code justifies.  The executor and reaper loops
\* of a main that is up tick for ever, so a due row is eventually claimed and
\* an expired lease eventually found; a pass that started runs on.  A process
\* that stopped exits and the supervisor starts a new one.  Nothing is assumed
\* of a handler, a timer or a reply: a claim may stall for ever.
Fairness ==
  /\ WF_vars(Tick)
  /\ \A h \in Hosts :
       /\ WF_vars(phase[h] = "up" /\ \E S \in SUBSET Tasks : ClaimDueTasks(h, S))
       /\ WF_vars(phase[h] = "stopped" /\ Crash(h))
       /\ WF_vars(Restart(h))
  /\ \A r \in Reapers :
       /\ WF_vars(\E S \in SUBSET Tasks : RetireMissedPending(r, S))
       /\ WF_vars(\E S \in SUBSET Tasks : FindExpiredLeases(r, S))
       /\ \A t \in Tasks : WF_vars(\/ CompleteExpired(r, t)
                                   \/ DeadLetterExpired(r, t)
                                   \/ ReclaimExpired(r, t))

FairSpec == Spec /\ Fairness

-----------------------------------------------------------------------------
(* Properties.                                                             *)

\* Every variable has its type.
TypeOK ==
  /\ row \in [Tasks -> Row]
  /\ fire \in [Tasks -> [Epochs -> Fire]]
  /\ tracked \in [Hosts -> [Tasks -> Nat]]
  /\ replies \in [Hosts -> SUBSET SUBSET (Tasks \X Epochs)]
  /\ releases \in [Hosts -> SUBSET (Tasks \X Epochs)]
  /\ phase \in [Hosts -> {"up", "stopped", "down"}]
  /\ sweep \in [Reapers -> [Tasks -> Expired]]
  /\ faults \in Nat
  /\ charged \in [Tasks -> SUBSET Nat]
  /\ lapsed \in [Tasks -> SUBSET Nat]
  /\ ran \in [Tasks -> BOOLEAN]

InHandler(t, e) == fire[t][e].pc \in {"handling", "returned", "threw"}

\* A handler overlaps a later handler of the same occurrence only when the
\* reaper took its expired lease over ("a genuinely stalled-but-alive owner
\* keeps its lease, so no second handler overlaps it"): neither stop(), a
\* handed-back claim nor a failed write can start a second handler beside a
\* live one.
HandlersExclusive ==
  \A t \in Tasks : \A e1, e2 \in Epochs :
    (e1 < e2 /\ InHandler(t, e1) /\ InHandler(t, e2)) => e1 \in lapsed[t]

\* A lost or failed attempt is counted once, though the owner's failure write
\* and the sweeps of several reapers may all act on the same claim.
AttemptsCountedOnce ==
  \A t \in Tasks :
    row[t].status # "deleted" => row[t].attempts = Cardinality(charged[t])

\* The budget is exact: a row fails only when it used maxAttempts, and a row
\* that can still run has attempts left, though both the executor and the
\* reaper decide from a snapshot of the row.
AttemptBudgetExact ==
  \A t \in Tasks :
    /\ row[t].status = "failed" => row[t].attempts = MaxAttempts
    /\ row[t].status \in {"pending", "running"} => row[t].attempts < MaxAttempts

\* An occurrence whose dispatch marker landed is never recorded failed, not
\* even when the marker lands in the middle of a sweep.
DispatchedNeverFails ==
  \A t \in Tasks : row[t].status = "failed" => ~row[t].dispatchedAt

\* An occurrence is recorded succeeded only if some handler of it returned or
\* reported its dispatch.
NoPhantomSuccess ==
  \A t \in Tasks : row[t].status = "succeeded" => ran[t]

\* The owner of a row it has not fired yet finds the dispatch mutex free and
\* no marker of an earlier attempt: no redelivery is shut out or completed by
\* what a previous owner left in the row.
RedeliveryStartsClean ==
  \A t \in Tasks : \A e \in Epochs :
    (fire[t][e].pc \in {"claimed", "armed", "firing"} /\ Owns(t, e))
      => ~row[t].startedAt /\ ~row[t].dispatchedAt

\* After stop() no timer of the host is armed and no claim is tracked, though
\* claims committed before or after it may resolve later.
StoppedHostHoldsNothing ==
  \A h \in Hosts : phase[h] = "stopped" =>
    \A t \in Tasks : /\ tracked[h][t] = 0
                     /\ \A e \in Epochs : ~(fire[t][e].pc = "armed" /\ OfHost(h, t, e))

\* The occurrence as its users see it: one task's status and attempts only
\* move along the documented life cycle.
Abstract == INSTANCE Occurrence WITH
  status <- [t \in Tasks |-> row[t].status],
  attempts <- [t \in Tasks |-> row[t].attempts]
Lifecycle == Abstract!Spec

\* Every recorded occurrence is eventually settled for good: no crash, stop,
\* timed-out pass or lost write leaves a row running or pending for ever.
EventuallySettled ==
  \A t \in Tasks : <>[](row[t].status \in Terminal \cup {"deleted"})

\* What task-handler.ts promises of report.dispatched(): "from this point the
\* occurrence must not be retried even if the rest of `execute` throws".
NotRetriedAfterDispatch ==
  [][\A t \in Tasks : (row[t].status = "running" /\ row[t].dispatchedAt)
                        => row'[t].status # "pending"]_vars

\* What executor.ts promises of stop(): "Cancel scheduled-but-unfired timers
\* and release their claims".
StopReleasesClaims ==
  \A t \in Tasks : \A e \in Epochs : fire[t][e].pc = "stranded" => ~Owns(t, e)
============================================================================
