---------------------------- MODULE Materializer ----------------------------
(***************************************************************************)
(* The scheduled_job clocks and the passes that expand them into rows of   *)
(* scheduled_task: the materializer passes of the mains, the seed pass of  *)
(* an activation, edits of a rule, and the executors and reapers as far as *)
(* they change the status of a row: claims, outcomes and hand-backs.       *)
(*                                                                         *)
(* A materializer pass is one transaction: Claim locks the due jobs and    *)
(* reads the database time, Commit makes all its writes visible at once,   *)
(* Rollback leaves no trace.  Other writers of a job wait for its lock; the*)
(* one reader that does not is an activation whose insert was ignored.     *)
(* Instants are ticks of the database clock.                               *)
(***************************************************************************)
EXTENDS Integers, FiniteSets

CONSTANTS
  Jobs,          \* names of scheduled jobs
  Passes,        \* materializer passes in flight, on whichever main
  Activators,    \* activations in flight, on whichever main
  Never,         \* nextRunAt, lastFiredAt or a catch-up instant IS NULL
  Schedules,     \* the schedules a job may be given
  Policies,      \* the misfire policies a job may be given, with their grace
  Window,        \* windowSeconds: how far ahead a pass records
  Lookahead,     \* lookaheadSeconds: how far ahead of nextRunAt a job is claimed
  ExecLookahead, \* how far ahead of runAt the executor claims a row
  Backoff,       \* how far a retry is pushed out
  MaxPerJob,     \* instants one pass takes of one job at most
  BatchSize,     \* jobs one pass claims at most
  PlanRetry,     \* planRetrySeconds
  MaxTime,       \* bound: the clock
  MaxFaults      \* bound: rolled back passes, plan errors, edits and removals

Kinds == {"cron", "interval", "one_off"}

\* cron: the instants equal to phase modulo every.  interval: one every `every`
\* ticks from the first.  one_off: the instant phase.
Schedule == [kind : Kinds, every : Nat \ {0}, phase : Nat]

Policy == [misfire : {"coalesce", "skip"}, grace : Nat \ {0}]

ASSUME MaterializerAssumption ==
  /\ Never \notin Int /\ Never \notin Schedules
  /\ Schedules \subseteq Schedule
  /\ \A s \in Schedules : s.kind = "cron" => s.phase < s.every
  /\ Policies \subseteq Policy
  /\ Window \in Nat /\ Lookahead \in Nat /\ ExecLookahead \in Nat
  /\ MaxPerJob \in Nat \ {0} /\ BatchSize \in Nat \ {0} /\ PlanRetry \in Nat \ {0}
  /\ Backoff \in Nat
  /\ MaxTime \in Nat /\ MaxFaults \in Nat

VARIABLES
  now,        \* the database clock
  job,        \* scheduled_job: a Job, or Absent
  rows,       \* scheduled_task: the occurrences recorded for each job
  pass,       \* each pass: the jobs it holds locked, and the time it read
  activation, \* each activation: what it does, and the job it read
  faults,     \* disturbances left in this behaviour
  origin,     \* history: first instant of a job's definition
  dropped,    \* history: instants a misfire policy discarded
  caughtUp,   \* history: instant of the latest catch-up run, or Never
  passedOver, \* history: instants in flight when an edit or a catch-up came by
  drifted     \* history: jobs whose clock need not be a fire of their definition

history == <<origin, dropped, caughtUp, passedOver, drifted>>
vars == <<now, job, rows, pass, activation, faults, history>>

Absent == [schedule |-> Never, policy |-> Never, next |-> Never, last |-> Never]

Job == [schedule : Schedules, policy : Policies, next : Int \cup {Never},
        last : Int \cup {Never}]

\* A run: pending, taken (claimed: running), done (succeeded or failed) or missed.
\* attempted: its attempts are not 0.
Occurrence == [at : Int, runAt : Int, missedAfter : Int, attempted : BOOLEAN,
               status : {"pending", "taken", "done", "missed"}]

Idle == [at |-> Never, jobs |-> {}]
NoActivation == [pc |-> "idle", name |-> Never, at |-> Never, read |-> Absent]

Init ==
  /\ now = 0
  /\ job = [j \in Jobs |-> Absent]
  /\ rows = [j \in Jobs |-> {}]
  /\ pass = [p \in Passes |-> Idle]
  /\ activation = [a \in Activators |-> NoActivation]
  /\ faults = MaxFaults
  /\ origin = [j \in Jobs |-> Never]
  /\ dropped = [j \in Jobs |-> {}]
  /\ caughtUp = [j \in Jobs |-> Never]
  /\ passedOver = [j \in Jobs |-> {}]
  /\ drifted = {}

Fault ==
  /\ faults > 0
  /\ faults' = faults - 1

Least(S) == CHOOSE i \in S : \A k \in S : i =< k
Greatest(S) == CHOOSE i \in S : \A k \in S : k =< i

-----------------------------------------------------------------------------
(* The plan of one job: pure functions of the job and the time.            *)

\* The instants of a schedule in first..until, walking from `first`, which the
\* walk yields whatever it is.
OccurrencesFrom(s, first, until) ==
  {i \in first..until :
     \/ i = first
     \/ s.kind = "cron" /\ i % s.every = s.phase
     \/ s.kind = "interval" /\ (i - first) % s.every = 0}

\* The first instant of a fresh definition, after the time it is made.
ComputeFirstRunAt(s, at) ==
  CASE s.kind = "cron"     -> Least({i \in (at + 1)..(at + s.every) : i % s.every = s.phase})
    [] s.kind = "interval" -> at + s.every
    [] s.kind = "one_off"  -> IF at < s.phase THEN s.phase ELSE Never

\* Mutant of ApplyMisfirePolicy: coalesce keeps the oldest missed instant.
ApplyMisfirePolicy_Oldest(due, at, policy, truncated) ==
  LET behind == {i \in due : i =< at}
      ahead  == due \ behind
  IN  IF behind = {} \/ Least(behind) > at - policy.grace
        THEN [occurrences |-> due, catchUp |-> Never]
      ELSE IF policy.misfire = "skip" \/ (truncated /\ ahead = {})
        THEN [occurrences |-> ahead, catchUp |-> Never]
      ELSE [occurrences |-> {Least(behind)} \cup ahead, catchUp |-> Least(behind)]

\* What the policy keeps of the instants a walk took, and the catch-up run.
ApplyMisfirePolicy(due, at, policy, truncated) ==
  LET behind == {i \in due : i =< at}
      ahead  == due \ behind
  IN  IF behind = {} \/ Least(behind) > at - policy.grace
        THEN [occurrences |-> due, catchUp |-> Never]
      ELSE IF policy.misfire = "skip" \/ (truncated /\ ahead = {})
        THEN [occurrences |-> ahead, catchUp |-> Never]
      ELSE [occurrences |-> {Greatest(behind)} \cup ahead, catchUp |-> Greatest(behind)]

\* Mutant of PlanOccurrences: the walk resumes one instant too late.
PlanOccurrences_SkipsOne(b, at) ==
  LET windowEnd == at + Window
      inWindow  == OccurrencesFrom(b.schedule, b.next, windowEnd)
      due       == {i \in inWindow : Cardinality({k \in inWindow : k < i}) < MaxPerJob}
      rest      == OccurrencesFrom(b.schedule, b.next,
                     (IF b.next > windowEnd THEN b.next ELSE windowEnd) + b.schedule.every)
                     \ due
      left      == IF rest = {} THEN rest ELSE rest \ {Least(rest)}
      kept      == ApplyMisfirePolicy(due, at, b.policy, inWindow # due)
  IN  [occurrences |-> kept.occurrences, catchUp |-> kept.catchUp,
       dropped |-> due \ kept.occurrences,
       next |-> IF left = {} THEN Never ELSE Least(left),
       last |-> IF due = {} THEN b.last ELSE Greatest(due)]

\* planOccurrences of a job with a live clock: the walk takes at most MaxPerJob
\* instants up to the end of the window, the clock moves to the next one left.
PlanOccurrences(b, at) ==
  LET windowEnd == at + Window
      inWindow  == OccurrencesFrom(b.schedule, b.next, windowEnd)
      due       == {i \in inWindow : Cardinality({k \in inWindow : k < i}) < MaxPerJob}
      left      == OccurrencesFrom(b.schedule, b.next,
                     (IF b.next > windowEnd THEN b.next ELSE windowEnd) + b.schedule.every)
                     \ due
      kept      == ApplyMisfirePolicy(due, at, b.policy, inWindow # due)
  IN  [occurrences |-> kept.occurrences, catchUp |-> kept.catchUp,
       dropped |-> due \ kept.occurrences,
       next |-> IF left = {} THEN Never ELSE Least(left),
       last |-> IF due = {} THEN b.last ELSE Greatest(due)]

\* A job whose schedule cannot be planned: nothing is recorded and the clock is
\* pushed out.
Deferred(b, at) ==
  [occurrences |-> {}, catchUp |-> Never, dropped |-> {},
   next |-> at + PlanRetry, last |-> b.last]

-----------------------------------------------------------------------------
(* The writes of a pass.                                                   *)

\* A catch-up run is due at once, the others at their own instant.
NewOccurrence(i, plan, at, grace) ==
  LET runAt == IF i = plan.catchUp THEN at ELSE i
  IN  [at |-> i, runAt |-> runAt, attempted |-> FALSE, status |-> "pending",
       missedAfter |-> (IF runAt > at THEN runAt ELSE at) + grace]

\* Mutant of RecordOccurrences: no conflict is looked for.
RecordOccurrences_Twice(queued, plan, at, grace) ==
  queued \cup {NewOccurrence(i, plan, at, grace) : i \in plan.occurrences}

\* Instants already recorded, in whatever state, are skipped.
RecordOccurrences(queued, plan, at, grace) ==
  queued \cup {NewOccurrence(i, plan, at, grace) :
                 i \in plan.occurrences \ {o.at : o \in queued}}

\* Mutant of RetireSuperseded: the older pending rows stay queued.
RetireSuperseded_Keeps(queued, catchUp) == queued

\* Mutant of RetireSuperseded: they are retired under a status of their own.
RetireSuperseded_Renames(queued, catchUp) ==
  IF catchUp = Never THEN queued
  ELSE {IF o.status = "pending" /\ o.at < catchUp
          THEN [o EXCEPT !.status = "superseded"] ELSE o : o \in queued}

\* The pending rows older than the catch-up run give way to it.
RetireSuperseded(queued, catchUp) ==
  IF catchUp = Never THEN queued
  ELSE {IF o.status = "pending" /\ o.at < catchUp
          THEN [o EXCEPT !.status = "missed"] ELSE o : o \in queued}

\* Everything a pass that planned `b` writes: its rows, then the clock.
Written(queued, b, plan, at) ==
  RetireSuperseded(RecordOccurrences(queued, plan, at, b.policy.grace), plan.catchUp)

\* The instants of claimed rows that a catch-up run overtakes: it retires pending
\* rows only.
InFlight(queued) == {o.at : o \in {n \in queued : n.status = "taken"}}
Overtaken(queued, catchUp) ==
  IF catchUp = Never THEN {} ELSE {i \in InFlight(queued) : i < catchUp}

Advanced(b, plan) == [b EXCEPT !.next = plan.next, !.last = plan.last]

Locked(j) == \E p \in Passes : j \in pass[p].jobs

DueJob(j) ==
  /\ job[j] # Absent
  /\ job[j].next # Never
  /\ job[j].next =< now + Lookahead

\* claimDue: the oldest due jobs that no other pass holds.
Claim(p, S) ==
  /\ pass[p] = Idle
  /\ S # {}
  /\ \A j \in S : DueJob(j) /\ ~Locked(j)
  /\ Cardinality(S) =< BatchSize
  /\ \A k \in Jobs \ S : (DueJob(k) /\ ~Locked(k)) =>
       /\ Cardinality(S) = BatchSize
       /\ \A j \in S : job[j].next =< job[k].next
  /\ pass' = [pass EXCEPT ![p] = [at |-> now, jobs |-> S]]
  /\ UNCHANGED <<now, job, rows, activation, faults, history>>

\* The pass records, retires, advances and commits.  The jobs in `failing`
\* cannot be planned and are deferred; the others are not held up by them.
Commit(p, failing) ==
  LET at == pass[p].at
      plan == [j \in pass[p].jobs |->
                 IF j \in failing THEN Deferred(job[j], at)
                                  ELSE PlanOccurrences(job[j], at)]
  IN  /\ pass[p] # Idle
      /\ failing \subseteq pass[p].jobs
      /\ IF failing = {} THEN UNCHANGED faults ELSE Fault
      /\ rows' = [j \in Jobs |-> IF j \in pass[p].jobs
                    THEN Written(rows[j], job[j], plan[j], at) ELSE rows[j]]
      /\ job' = [j \in Jobs |-> IF j \in pass[p].jobs
                    THEN Advanced(job[j], plan[j]) ELSE job[j]]
      /\ dropped' = [j \in Jobs |-> IF j \in pass[p].jobs
                       THEN dropped[j] \cup plan[j].dropped ELSE dropped[j]]
      /\ caughtUp' = [j \in Jobs |-> IF j \in pass[p].jobs /\ plan[j].catchUp # Never
                        THEN plan[j].catchUp ELSE caughtUp[j]]
      /\ passedOver' = [j \in Jobs |-> IF j \in pass[p].jobs
                          THEN passedOver[j] \cup Overtaken(rows[j], plan[j].catchUp)
                          ELSE passedOver[j]]
      /\ drifted' = drifted \cup failing
      /\ pass' = [pass EXCEPT ![p] = Idle]
      /\ UNCHANGED <<now, activation, origin>>

\* The pass is aborted, or its process ends: the transaction is undone.
Rollback(p) ==
  /\ pass[p] # Idle
  /\ Fault
  /\ pass' = [pass EXCEPT ![p] = Idle]
  /\ UNCHANGED <<now, job, rows, activation, history>>

-----------------------------------------------------------------------------
(* Provisioning.                                                           *)

Seeding(j) == \E a \in Activators : activation[a].pc = "seeding" /\ activation[a].name = j

\* A fresh definition, its first window already planned if it has a clock.  An
\* activation that has read the job before will plan what it read.
Define(j, s, policy, queued) ==
  LET first == ComputeFirstRunAt(s, now)
      fresh == [schedule |-> s, policy |-> policy, next |-> first, last |-> job[j].last]
      plan  == PlanOccurrences(fresh, now)
  IN  /\ job' = [job EXCEPT ![j] = IF first = Never THEN fresh ELSE Advanced(fresh, plan)]
      /\ rows' = [rows EXCEPT ![j] = IF first = Never THEN queued
                                     ELSE Written(queued, fresh, plan, now)]
      /\ origin' = [origin EXCEPT ![j] = first]
      /\ dropped' = [dropped EXCEPT ![j] = {}]
      /\ caughtUp' = [caughtUp EXCEPT ![j] = Never]
      /\ passedOver' = [passedOver EXCEPT ![j] = @ \cup InFlight(queued)]
      /\ drifted' = IF Seeding(j) THEN drifted \cup {j} ELSE drifted \ {j}

\* An activation looks for the node's job and finds none.
FindExisting(a, j) ==
  /\ activation[a].pc = "idle"
  /\ job[j] = Absent
  /\ activation' = [activation EXCEPT ![a] =
                      [NoActivation EXCEPT !.pc = "inserting", !.name = j]]
  /\ UNCHANGED <<now, job, rows, pass, faults, history>>

\* Its insert takes: the job and its first window of rows commit together.
InsertMany(a, s, policy) ==
  LET j == activation[a].name
  IN  /\ activation[a].pc = "inserting"
      /\ job[j] = Absent
      /\ Define(j, s, policy, {})
      /\ activation' = [activation EXCEPT ![a] = NoActivation]
      /\ UNCHANGED <<now, pass, faults>>

\* Its insert was ignored: another activation's job has the name.  The seed pass
\* reads the time and that job, without a lock.
SeedRead(a) ==
  LET j == activation[a].name
  IN  /\ activation[a].pc = "inserting"
      /\ job[j] # Absent
      /\ activation' = [activation EXCEPT ![a] =
           IF job[j].next = Never THEN NoActivation
           ELSE [pc |-> "seeding", name |-> j, at |-> now, read |-> job[j]]]
      /\ UNCHANGED <<now, job, rows, pass, faults, history>>

\* The seed pass plans from what it read, and commits once no pass holds the
\* job.  If the job has changed since, its clock may go back behind a catch-up
\* run, which then stands in for nothing any more.
SeedCommit(a) ==
  LET j    == activation[a].name
      plan == PlanOccurrences(activation[a].read, activation[a].at)
  IN  /\ activation[a].pc = "seeding"
      /\ ~Locked(j)
      /\ rows' = [rows EXCEPT ![j] =
           Written(@, activation[a].read, plan, activation[a].at)]
      /\ job' = [job EXCEPT ![j] = Advanced(@, plan)]
      /\ dropped' = [dropped EXCEPT ![j] = @ \cup plan.dropped]
      /\ caughtUp' = [caughtUp EXCEPT ![j] =
           IF plan.catchUp = Never /\ job[j].next = activation[a].read.next
             THEN @ ELSE plan.catchUp]
      /\ passedOver' = [passedOver EXCEPT ![j] = @ \cup Overtaken(rows[j], plan.catchUp)]
      /\ activation' = [activation EXCEPT ![a] = NoActivation]
      /\ UNCHANGED <<now, pass, faults, origin, drifted>>

\* holdsDefinition fails: another schedule, or a clock no longer as live.
Differs(j, s) ==
  \/ s # job[j].schedule
  \/ (job[j].next = Never) # (ComputeFirstRunAt(s, now) = Never)

\* Mutant of Redefine: the rows queued under the old definition stay.
Redefine_KeepsQueue(j, s, policy) ==
  /\ job[j] # Absent /\ ~Locked(j)
  /\ Differs(j, s)
  /\ Fault
  /\ Define(j, s, policy, rows[j])
  /\ UNCHANGED <<now, pass, activation>>

\* The rule was edited: rewritten in place, its pending rows withdrawn.  Claimed
\* rows stay.
Redefine(j, s, policy) ==
  /\ job[j] # Absent /\ ~Locked(j)
  /\ Differs(j, s)
  /\ Fault
  /\ Define(j, s, policy, {o \in rows[j] : o.status # "pending"})
  /\ UNCHANGED <<now, pass, activation>>

\* The policy or the grace changed: queued rows get a new deadline.
UpdateMisfirePolicy(j, policy) ==
  /\ job[j] # Absent /\ ~Locked(j)
  /\ policy # job[j].policy
  /\ Fault
  /\ job' = [job EXCEPT ![j].policy = policy]
  /\ rows' = [rows EXCEPT ![j] =
       {IF o.status = "pending"
          THEN [o EXCEPT !.missedAfter = (IF o.runAt > now THEN o.runAt ELSE now) + policy.grace]
          ELSE o : o \in @}]
  /\ UNCHANGED <<now, pass, activation, history>>

\* The node is gone: its job is deleted and its rows cascade.  A seed pass that
\* had read the job fails on its foreign key, and its transaction is undone.
DeleteJob(j) ==
  /\ job[j] # Absent /\ ~Locked(j)
  /\ Fault
  /\ job' = [job EXCEPT ![j] = Absent]
  /\ rows' = [rows EXCEPT ![j] = {}]
  /\ origin' = [origin EXCEPT ![j] = Never]
  /\ dropped' = [dropped EXCEPT ![j] = {}]
  /\ caughtUp' = [caughtUp EXCEPT ![j] = Never]
  /\ passedOver' = [passedOver EXCEPT ![j] = {}]
  /\ drifted' = drifted \ {j}
  /\ activation' = [a \in Activators |->
       IF activation[a].pc = "seeding" /\ activation[a].name = j
         THEN NoActivation ELSE activation[a]]
  /\ UNCHANGED <<now, pass>>

-----------------------------------------------------------------------------
(* The executors and reapers, as far as they change the status of a row.   *)

Restamp(j, o, n) ==
  /\ rows' = [rows EXCEPT ![j] = (@ \ {o}) \cup {n}]
  /\ UNCHANGED <<now, job, pass, activation, faults, history>>

\* claimDueTasks: a row past its deadline is left alone, unless it was attempted.
Take(j, o) ==
  /\ o.status = "pending"
  /\ o.runAt =< now + ExecLookahead
  /\ o.missedAfter > now \/ o.attempted
  /\ Restamp(j, o, [o EXCEPT !.status = "taken"])

\* The run has succeeded, or failed for the last time.
Settle(j, o) ==
  /\ o.status = "taken"
  /\ Restamp(j, o, [o EXCEPT !.status = "done"])

\* releaseClaim: the claim is handed back as it was.
Release(j, o) ==
  /\ o.status = "taken"
  /\ Restamp(j, o, [o EXCEPT !.status = "pending"])

\* rescheduleTask after a failure, reclaimExpired after a lost lease.
Retry(j, o) ==
  /\ o.status = "taken"
  /\ Restamp(j, o, [o EXCEPT !.status = "pending", !.attempted = TRUE,
                             !.runAt = now + Backoff])

\* retireMissedPending: a row that was attempted is left alone.
RetireMissed(j, o) ==
  /\ o.status = "pending"
  /\ o.missedAfter =< now
  /\ ~o.attempted
  /\ Restamp(j, o, [o EXCEPT !.status = "missed"])

Tick ==
  /\ now < MaxTime
  /\ now' = now + 1
  /\ UNCHANGED <<job, rows, pass, activation, faults, history>>

Next ==
  \/ \E p \in Passes :
       \/ \E S \in SUBSET Jobs : Claim(p, S) \/ Commit(p, S)
       \/ Rollback(p)
  \/ \E a \in Activators :
       \/ \E j \in Jobs : FindExisting(a, j)
       \/ \E s \in Schedules, policy \in Policies : InsertMany(a, s, policy)
       \/ SeedRead(a) \/ SeedCommit(a)
  \/ \E j \in Jobs :
       \/ \E s \in Schedules, policy \in Policies : Redefine(j, s, policy)
       \/ \E policy \in Policies : UpdateMisfirePolicy(j, policy)
       \/ DeleteJob(j)
       \/ \E o \in rows[j] :
            Take(j, o) \/ Settle(j, o) \/ Release(j, o) \/ Retry(j, o) \/ RetireMissed(j, o)
  \/ Tick

Spec == Init /\ [][Next]_vars

-----------------------------------------------------------------------------
(* Properties.                                                             *)

\* Every variable has its type.
TypeOK ==
  /\ now \in Nat
  /\ job \in [Jobs -> Job \cup {Absent}]
  /\ \A j \in Jobs : rows[j] \subseteq Occurrence
  /\ pass \in [Passes -> {Idle} \cup [at : Nat, jobs : SUBSET Jobs]]
  /\ activation \in [Activators ->
       [pc : {"idle", "inserting", "seeding"}, name : Jobs \cup {Never},
        at : Nat \cup {Never}, read : Job \cup {Absent}]]
  /\ faults \in Nat
  /\ passedOver \in [Jobs -> SUBSET Int] /\ drifted \subseteq Jobs

\* The instants a job's definition says it fires at, up to a given one.
Fires(j, until) ==
  IF origin[j] = Never THEN {}
  ELSE OccurrencesFrom(job[j].schedule, origin[j], until)

\* The clock moves past no instant unaccounted: every fire the clock has left
\* behind is recorded, or a misfire policy discarded it, whatever passes,
\* activations and edits ran concurrently, whichever were rolled back and
\* whichever other jobs could not be planned.
EveryFireAccounted ==
  \A j \in Jobs \ drifted : job[j] # Absent =>
    LET until == IF job[j].next = Never THEN origin[j] ELSE job[j].next - 1
    IN  \A i \in Fires(j, until) : i \in dropped[j] \/ \E o \in rows[j] : o.at = i

\* Every row waiting to run is a fire of its job's present definition: no pass
\* records an instant the schedule does not have ("`first` ... must be a real
\* fire, not an arbitrary lower bound", next-run.ts).
PendingAreFires ==
  \A j \in Jobs : \A o \in rows[j] : o.status = "pending" => o.at \in Fires(j, o.at)

\* An edit leaves nothing of the old definition queued, and no pass records an
\* instant the definition does not have.  What may still come back is a row that
\* was claimed when the edit came, handed back by its executor or a reaper; and a
\* job drifts off its definition once it was deferred, or once it was edited under
\* an activation that had read it.
EditsWithdraw ==
  \A j \in Jobs \ drifted : \A o \in rows[j] :
    o.status = "pending" => o.at \in Fires(j, o.at) \cup passedOver[j]

\* A settled occurrence is never queued again, and a claimed one only by the
\* executor or the reaper that hands it back, by no step that touches its job: a
\* pass that plans from a clock that moved back records nothing twice.
NoRerun ==
  [][\A j \in Jobs : \A o \in rows[j] :
       o.status \in {"done", "missed"} \/ (o.status = "taken" /\ job'[j] # job[j]) =>
         \A n \in rows'[j] : n.at = o.at => n.status # "pending"]_vars

\* Once a catch-up run stands in for a backlog nothing older is left to run, but
\* what was in flight when it was recorded and is handed back ("one already claimed
\* is in-flight work someone owns", transaction.ts).  It stands in until the job is
\* edited, or a late seed moves the clock back.
SupersededRetired ==
  \A j \in Jobs : caughtUp[j] # Never =>
    \A o \in rows[j] :
      o.status = "pending" /\ o.at < caughtUp[j] => o.at \in passedOver[j]

\* coalesce: "run the most recent one and drop the rest".  When the clock has
\* left a backlog behind, a run newer than everything discarded was recorded.
BacklogCovered ==
  \A j \in Jobs :
    (/\ job[j] # Absent /\ job[j].policy.misfire = "coalesce"
     /\ dropped[j] # {}
     /\ job[j].next = Never \/ job[j].next > now)
      => \E o \in rows[j] : \A i \in dropped[j] : o.at > i
=============================================================================
