------------------------- MODULE ExecutionLifecycle -------------------------
(***************************************************************************)
(* Executions of one main process in regular mode: the concurrency queue,  *)
(* the registry of active executions, the claim of a waiting or enqueued   *)
(* row, the timers of the wait tracker, the stop of an execution by a user,*)
(* shutdown, crash and the recovery of what was enqueued.                  *)
(*                                                                         *)
(* A call is one WorkflowRunner.run in flight.  A step is what the process *)
(* does between two awaits, or one statement of the database.  Executions  *)
(* are numbered in the order in which their rows are created.              *)
(***************************************************************************)
EXTENDS Integers, SequencesExt

CONSTANTS
  Limit,         \* productionLimit
  MaxExecutions, \* bound: rows of execution_entity
  MaxCalls,      \* bound: calls of run in flight
  MaxWaits,      \* bound: times an execution goes to wait
  Waiters,       \* bound: the executions that may go to wait
  MaxFaults      \* bound: stops, timeouts, shutdowns, crashes, requests to resume,
                 \* failed statements and rejected runs

ASSUME ExecutionAssumption ==
  /\ Limit \in Nat \ {0}
  /\ MaxExecutions \in Nat \ {0} /\ MaxCalls \in Nat \ {0}
  /\ MaxWaits \in Nat /\ MaxFaults \in Nat

Executions == 1..MaxExecutions
Calls == 1..MaxCalls

VARIABLES
  row,       \* execution_entity: status, and how often the execution waited
  call,      \* each call of run
  capacity,  \* ConcurrencyQueue.capacity
  queue,     \* ConcurrencyQueue.queue: the calls throttled, oldest first
  enabled,   \* ConcurrencyControlService.isEnabled
  active,    \* ActiveExecutions.activeExecutions
  timer,     \* WaitTracker.waitingExecutions: those a timer is set for
  listed,    \* rows a poll of the wait tracker read and has not handled
  toRecover, \* enqueued rows the recovery at startup has still to run
  booted,    \* whether that recovery has read the rows
  unstartable, \* executions it could not run and has still to mark as crashed
  early,     \* history: those it read although a call of this process had them
  refused,   \* history: those with a failed write, left to the next process
  stop,      \* a stop by a user in progress
  lost,      \* slots whose reservation nobody can release any more
  removed,   \* history: queued executions taken out of the queue by a stop
  faults     \* disturbances left in this behaviour

vars == <<row, call, capacity, queue, enabled, active, timer, listed, toRecover,
          booted, unstartable, early, refused, stop, lost, removed, faults>>
slots == <<capacity, queue, enabled, lost, removed>>
tracker == <<timer, listed>>
recovery == <<toRecover, booted, unstartable, early, refused>>

Ended == {"success", "error", "canceled", "crashed"}
Status == {"absent", "new", "running", "waiting"} \cup Ended
Stoppable == {"new", "waiting", "running"}

\* Where a call is.  cancelling: its run was told to stop.  stray: its run goes
\* on although the registry does not know it.  aborted, failed: its run threw,
\* before or after it started, and its end is still to be saved.  stuck: it was
\* rejected, and its entry stays.
Places == {"idle", "created", "queued", "admitted", "claimed", "marked",
           "registered", "starting", "executing", "parking", "saved",
           "cancelling", "stray", "aborted", "failed", "stuck"}
Running == {"marked", "registered", "starting", "executing", "parking",
            "cancelling", "stray", "aborted", "failed"}

\* expect: the status to claim, or "none" for a row of its own.  waits: the wait
\* whose data the call loaded.  held: a reservation of capacity it must release.
Call == [pc : Places, exec : 0..MaxExecutions, expect : {"none", "new", "waiting"},
         waits : Nat, held : BOOLEAN]
Idle == [pc |-> "idle", exec |-> 0, expect |-> "none", waits |-> 0, held |-> FALSE]

\* call: the call whose postExecutePromise is pending.  run: the call whose
\* WorkflowExecute is attached.
NoEntry == [call |-> 0, run |-> 0, status |-> "none"]
NoStop == [pc |-> "idle", exec |-> 0]

Init ==
  /\ row = [e \in Executions |-> [status |-> "absent", waits |-> 0]]
  /\ call = [c \in Calls |-> Idle]
  /\ capacity = Limit /\ queue = <<>> /\ enabled = TRUE
  /\ active = [e \in Executions |-> NoEntry]
  /\ timer = {} /\ listed = {} /\ toRecover = {} /\ booted = FALSE
  /\ unstartable = {} /\ early = {} /\ refused = {}
  /\ stop = NoStop /\ lost = 0 /\ removed = 0
  /\ faults = MaxFaults

Fault ==
  /\ faults > 0
  /\ faults' = faults - 1

Free(c) == call[c] = Idle /\ \A d \in Calls : d < c => call[d] # Idle

SetStatus(e, s) == row' = [row EXCEPT ![e].status = s]
Goto(c, place) == call' = [call EXCEPT ![c].pc = place]

-----------------------------------------------------------------------------
(* The concurrency queue.                                                  *)

\* A slot is given back: it goes to the oldest throttled call.  `calls` and `q`
\* are the calls and the queue as the step that gives it back leaves them.
GiveBack(calls, q) ==
  IF ~enabled
    THEN call' = calls /\ queue' = q /\ UNCHANGED capacity
  ELSE /\ capacity' = capacity + 1
       /\ call' = IF q = <<>> THEN calls
                  ELSE [calls EXCEPT ![Head(q)].pc = "admitted", ![Head(q)].held = TRUE]
       /\ queue' = IF q = <<>> THEN q ELSE Tail(q)

\* ConcurrencyCapacityReservation.release of call c, once.  `calls` is what else
\* the step does to the calls.
Release(calls, c) ==
  IF c = 0 \/ ~call[c].held THEN call' = calls /\ UNCHANGED <<capacity, queue>>
  ELSE GiveBack([calls EXCEPT ![c].held = FALSE], queue)

\* Mutant of Enqueue: the capacity is compared before it is taken.
Enqueue_Late(c) ==
  /\ capacity' = capacity - 1
  /\ IF capacity < 0
       THEN Goto(c, "queued") /\ queue' = Append(queue, c)
       ELSE /\ call' = [call EXCEPT ![c].pc = "admitted", ![c].held = TRUE]
            /\ UNCHANGED queue

\* Mutant of Enqueue: the last slot is never given out.
Enqueue_Early(c) ==
  /\ capacity' = capacity - 1
  /\ IF capacity =< 1
       THEN Goto(c, "queued") /\ queue' = Append(queue, c)
       ELSE /\ call' = [call EXCEPT ![c].pc = "admitted", ![c].held = TRUE]
            /\ UNCHANGED queue

Enqueue(c) ==
  /\ capacity' = capacity - 1
  /\ IF capacity =< 0
       THEN Goto(c, "queued") /\ queue' = Append(queue, c)
       ELSE /\ call' = [call EXCEPT ![c].pc = "admitted", ![c].held = TRUE]
            /\ UNCHANGED queue

\* throttle: queue or pass.  Once disabled everybody passes.
Reserve(c) ==
  /\ call[c].pc = "created"
  /\ IF enabled THEN Enqueue(c) ELSE Goto(c, "admitted") /\ UNCHANGED <<capacity, queue>>
  /\ UNCHANGED <<row, enabled, active, tracker, recovery, stop, lost, removed, faults>>

-----------------------------------------------------------------------------
(* The registry of active executions.                                      *)

\* A call is over.  A reservation it still holds is never released.
Over(calls, c) == [calls EXCEPT ![c] = Idle]
CountLost(calls, c) == lost' = IF calls[c].held THEN lost + 1 ELSE lost

\* The postExecutePromise of the entry of e settles: its reservation is released
\* and the entry goes, unless the execution waits.
Settle(e, calls) ==
  LET c == active[e].call
  IN  /\ active' = [active EXCEPT ![e] =
           IF @.status = "waiting" THEN [@ EXCEPT !.call = 0, !.run = 0] ELSE NoEntry]
      /\ Release(IF c # 0 /\ call[c].pc = "stuck" THEN Over(calls, c) ELSE calls, c)

\* stopExecution: a waiting entry just goes; otherwise the run is told to stop
\* and the promise is rejected.
StopEntry(e) ==
  LET run == active[e].run
      told == IF run # 0 /\ call[run].pc \in {"executing", "parking", "saved"}
                THEN [call EXCEPT ![run].pc = "cancelling"] ELSE call
  IN  CASE active[e] = NoEntry ->
             UNCHANGED <<active, call, capacity, queue>>
        [] active[e].status = "waiting" ->
             active' = [active EXCEPT ![e] = NoEntry] /\ UNCHANGED <<call, capacity, queue>>
        [] OTHER -> Settle(e, told)

-----------------------------------------------------------------------------
(* add: from the row to the registry.                                      *)

\* A call of run as it begins: it has reserved nothing.
Begun(e, expect, waits) ==
  [pc |-> "created", exec |-> e, expect |-> expect, waits |-> waits, held |-> FALSE]

\* A new execution: its row is created before capacity is asked for.
Create(c, e) ==
  /\ Free(c)
  /\ row[e].status = "absent"
  /\ \A d \in Executions : d < e => row[d].status # "absent"
  /\ SetStatus(e, "new")
  /\ call' = [call EXCEPT ![c] = Begun(e, "none", 0)]
  /\ UNCHANGED <<slots, active, tracker, recovery, stop, faults>>

\* A call takes over the row of an existing execution, whose data it has loaded.
TakeOver(c, e, status, waits) ==
  /\ Free(c)
  /\ call' = [call EXCEPT ![c] = Begun(e, status, waits)]

\* Mutant of Claim: a claim that fails keeps its reservation.
Claim_KeepsSlot(c) ==
  LET e == call[c].exec
  IN  /\ call[c].pc = "admitted" /\ call[c].expect # "none"
      /\ IF row[e].status = call[c].expect
           THEN /\ SetStatus(e, "running")
                /\ Goto(c, IF call[c].expect = "new" THEN "claimed" ELSE "marked")
                /\ UNCHANGED <<capacity, queue>>
           ELSE /\ call' = Over(call, c)
                /\ UNCHANGED <<row, capacity, queue>>
      /\ UNCHANGED <<enabled, active, tracker, recovery, stop, lost, removed, faults>>

\* Mutant of Claim: the row is taken whatever its status.
Claim_Anyway(c) ==
  LET e == call[c].exec
  IN  /\ call[c].pc = "admitted" /\ call[c].expect # "none"
      /\ SetStatus(e, "running")
      /\ Goto(c, IF call[c].expect = "new" THEN "claimed" ELSE "marked")
      /\ UNCHANGED <<slots, active, tracker, recovery, stop, faults>>

\* The compare-and-swap of the row; a call that loses it gives its slot back.
Claim(c) ==
  LET e == call[c].exec
  IN  /\ call[c].pc = "admitted" /\ call[c].expect # "none"
      /\ IF row[e].status = call[c].expect
           THEN /\ SetStatus(e, "running")
                /\ Goto(c, IF call[c].expect = "new" THEN "claimed" ELSE "marked")
                /\ UNCHANGED <<capacity, queue>>
           ELSE /\ Release(Over(call, c), c)
                /\ UNCHANGED row
      /\ UNCHANGED <<enabled, active, tracker, recovery, stop, lost, removed, faults>>

\* setRunning: unconditional, so also over a status a stop has written.
MarkStarted(c) ==
  /\ \/ call[c].pc = "admitted" /\ call[c].expect = "none"
     \/ call[c].pc = "claimed"
  /\ SetStatus(call[c].exec, "running")
  /\ Goto(c, "marked")
  /\ UNCHANGED <<slots, active, tracker, recovery, stop, faults>>

\* What is unstartable once the run of call c was rejected.
Rejected(c) ==
  IF call[c].expect = "new" THEN unstartable \cup {call[c].exec} ELSE unstartable

\* The claim or setRunning fails, so the row stays as it is: the slot is given
\* back and the run rejected.
WriteFails(c) ==
  /\ \/ call[c].pc = "admitted"
     \/ call[c].pc = "claimed"
  /\ Fault
  /\ Release(Over(call, c), c)
  /\ IF call[c].expect = "new" THEN UNCHANGED refused ELSE refused' = refused \cup {call[c].exec}
  /\ unstartable' = Rejected(c)
  /\ UNCHANGED <<row, enabled, active, tracker, toRecover, booted, early, stop, lost, removed>>

Register(c) ==
  /\ call[c].pc = "marked"
  /\ active' = [active EXCEPT ![call[c].exec] =
                  [call |-> c, run |-> 0, status |-> "running"]]
  /\ Goto(c, "registered")
  /\ UNCHANGED <<row, slots, tracker, recovery, stop, faults>>

-----------------------------------------------------------------------------
(* runMainProcess.                                                         *)

\* setRunning again, right before the run starts.
MarkRunning(c) ==
  /\ call[c].pc = "registered"
  /\ SetStatus(call[c].exec, "running")
  /\ Goto(c, "starting")
  /\ UNCHANGED <<slots, active, tracker, recovery, stop, faults>>

\* What comes before the run is rejected outside of the try, or in failExecution:
\* neither is the promise settled nor the entry removed.  With the entry gone, as
\* its promise of a response cannot be attached.
Stick(c) ==
  LET e == call[c].exec
  IN  /\ \/ call[c].pc \in {"registered", "starting"} /\ Fault
         \/ call[c].pc = "registered" /\ active[e] = NoEntry /\ UNCHANGED faults
      /\ IF active[e].call = c
           THEN Goto(c, "stuck") /\ UNCHANGED lost
           ELSE call' = Over(call, c) /\ CountLost(call, c)
      /\ unstartable' = Rejected(c)
      /\ UNCHANGED <<row, capacity, queue, enabled, removed, active, tracker, toRecover,
                     booted, early, refused, stop>>

\* The run starts, and only then is it attached to its entry: with the entry
\* gone it is out of control, and nothing will be done when it ends.
Launch(c) ==
  LET e == call[c].exec
  IN  /\ call[c].pc = "starting"
      /\ IF active[e] = NoEntry
           THEN /\ Goto(c, "stray")
                /\ unstartable' = Rejected(c)
                /\ UNCHANGED active
           ELSE /\ Goto(c, "executing")
                /\ active' = [active EXCEPT ![e].run = c]
                /\ UNCHANGED unstartable
      /\ UNCHANGED <<row, slots, tracker, toRecover, booted, early, refused, stop, faults>>

\* putExecutionToWait: the entry waits from now on, the row once the run ended.
PutToWait(c) ==
  LET e == call[c].exec
  IN  /\ call[c].pc = "executing"
      /\ e \in Waiters /\ row[e].waits < MaxWaits
      /\ active[e] # NoEntry
      /\ active' = [active EXCEPT ![e].status = "waiting"]
      /\ Goto(c, "parking")
      /\ UNCHANGED <<row, slots, tracker, recovery, stop, faults>>

\* How a run may end.  A call that fails before its run starts ends in error.
Outcomes(place) ==
  CASE place \in {"registered", "starting"} -> {"error"}
    [] place \in {"executing", "stray"} -> {"success", "error"}
    [] place = "parking" -> {"waiting", "error"}
    [] OTHER -> {}

\* Mutant of Saved: the row is written whatever its status.
Saved_Anyway(e, s) ==
  row' = [row EXCEPT ![e].status = s, ![e].waits = IF s = "waiting" THEN @ + 1 ELSE @]

\* The save of an ended run, with requireNotCanceled.
Saved(e, s) ==
  IF row[e].status = "canceled" THEN UNCHANGED row
  ELSE row' = [row EXCEPT ![e].status = s, ![e].waits = IF s = "waiting" THEN @ + 1 ELSE @]

Save(c, s) ==
  /\ s \in Outcomes(call[c].pc)
  /\ Saved(call[c].exec, s)
  /\ IF call[c].pc = "stray"
       THEN call' = Over(call, c) /\ CountLost(call, c)
       ELSE Goto(c, "saved") /\ UNCHANGED lost
  /\ UNCHANGED <<capacity, queue, enabled, removed, active, tracker, recovery, stop, faults>>

\* processError of a run that threw: whatever entry the execution has now is
\* settled first.
ProcessError(c) ==
  LET e == call[c].exec
      thrown == [call EXCEPT ![c].pc = IF @ = "starting" THEN "aborted" ELSE "failed"]
  IN  /\ call[c].pc \in {"starting", "executing", "parking"}
      /\ Fault
      /\ IF active[e] = NoEntry
           THEN call' = thrown /\ UNCHANGED <<active, capacity, queue>>
           ELSE Settle(e, thrown)
      /\ UNCHANGED <<row, enabled, lost, removed, tracker, recovery, stop>>

\* And the error is saved next.  The call of a run that never started is rejected.
SaveFailed(c) ==
  /\ call[c].pc \in {"aborted", "failed"}
  /\ Saved(call[c].exec, "error")
  /\ call' = Over(call, c) /\ CountLost(call, c)
  /\ unstartable' = IF call[c].pc = "aborted" THEN Rejected(c) ELSE unstartable
  /\ UNCHANGED <<capacity, queue, enabled, removed, active, tracker, toRecover, booted,
                 early, refused, stop, faults>>

\* finalizeExecution: whatever entry the execution has now is settled, also one
\* of a later call.
Finalize(c) ==
  LET e == call[c].exec
  IN  /\ call[c].pc = "saved"
      /\ IF active[e] = NoEntry
           THEN /\ call' = Over(call, c) /\ CountLost(call, c)
                /\ UNCHANGED <<active, capacity, queue>>
         ELSE /\ Settle(e, Over(call, c))
              /\ IF active[e].call = c THEN UNCHANGED lost ELSE CountLost(call, c)
      /\ UNCHANGED <<row, enabled, removed, tracker, recovery, stop, faults>>

\* A run that was told to stop saves itself as canceled.
EndCancelled(c) ==
  /\ call[c].pc = "cancelling"
  /\ Saved(call[c].exec, "canceled")
  /\ call' = Over(call, c) /\ CountLost(call, c)
  /\ UNCHANGED <<capacity, queue, enabled, removed, active, tracker, recovery, stop, faults>>

\* The timeout of an execution, cleared when its run has ended, not if it threw.
Timeout(c) ==
  /\ call[c].pc \in {"executing", "parking", "saved", "failed"}
  /\ Fault
  /\ StopEntry(call[c].exec)
  /\ UNCHANGED <<row, enabled, lost, removed, tracker, recovery, stop>>

-----------------------------------------------------------------------------
(* Waiting executions.                                                     *)

\* A webhook, a form or a chat message resumes the execution it finds waiting.
Resume(c, e) ==
  /\ row[e].status = "waiting"
  /\ Fault
  /\ TakeOver(c, e, "waiting", row[e].waits)
  /\ UNCHANGED <<row, slots, active, tracker, recovery, stop>>

\* getWaitingExecutions reads the rows that wait no longer than 70 seconds more.
PollRead(S) ==
  /\ enabled /\ listed = {} /\ S # {}
  /\ \A e \in S : row[e].status = "waiting"
  /\ listed' = S
  /\ UNCHANGED <<row, call, slots, active, timer, recovery, stop, faults>>

\* And sets a timer for each that has none.
PollSet ==
  /\ listed # {}
  /\ timer' = timer \cup listed
  /\ listed' = {}
  /\ UNCHANGED <<row, call, slots, active, recovery, stop, faults>>

\* A timer fires and the data of the execution is loaded.  A finished execution
\* is refused here, any other that does not wait by the claim.
TimerFires(c, e) ==
  /\ e \in timer
  /\ timer' = timer \ {e}
  /\ IF row[e].status = "success" THEN UNCHANGED call
     ELSE TakeOver(c, e, "waiting", row[e].waits)
  /\ UNCHANGED <<row, slots, active, listed, recovery, stop, faults>>

-----------------------------------------------------------------------------
(* ExecutionService.stop.                                                  *)

StopRead(e) ==
  /\ stop = NoStop
  /\ row[e].status \in Stoppable
  /\ Fault
  /\ stop' = [pc |-> "read", exec |-> e]
  /\ UNCHANGED <<row, call, slots, active, tracker, recovery>>

\* The place in the queue of the first call of e, if there is one.
FirstOf(e) ==
  {i \in 1..Len(queue) : /\ call[queue[i]].exec = e
                         /\ \A j \in 1..(i - 1) : call[queue[j]].exec # e}

\* Mutant of RemoveQueued: the capacity stays taken.
RemoveQueued_KeepsCapacity(e) ==
  \E i \in FirstOf(e) :
    /\ call' = Over(call, queue[i])
    /\ queue' = RemoveAt(queue, i)
    /\ removed' = removed + 1
    /\ UNCHANGED <<capacity, active, timer>>

\* ConcurrencyQueue.remove of the first queued call of e: the capacity it took
\* is given back, and the next in the queue is let through.  The promise of the
\* call removed never resolves.
RemoveQueued(e) ==
  \E i \in FirstOf(e) :
    /\ GiveBack(Over(call, queue[i]), RemoveAt(queue, i))
    /\ removed' = removed + 1
    /\ UNCHANGED <<active, timer>>

\* stopInRegularMode, up to its write.
StopInProcess ==
  LET e == stop.exec
  IN  /\ stop.pc = "read"
      /\ IF enabled /\ FirstOf(e) # {}
           THEN RemoveQueued(e)
           ELSE /\ StopEntry(e)
                /\ timer' = timer \ {e}
                /\ UNCHANGED removed
      /\ stop' = [stop EXCEPT !.pc = "acted"]
      /\ UNCHANGED <<row, enabled, lost, listed, recovery, faults>>

\* Mutant of StopWrite: the status has another spelling.
StopWrite_Spelling ==
  /\ stop.pc = "acted"
  /\ SetStatus(stop.exec, "cancelled")
  /\ stop' = NoStop
  /\ UNCHANGED <<call, slots, active, tracker, recovery, faults>>

\* stopBeforeRun or stopDuringRun: unconditional, so also over a final status.
\* The statement may fail.
StopWrite ==
  /\ stop.pc = "acted"
  /\ \/ SetStatus(stop.exec, "canceled") /\ UNCHANGED refused
     \/ refused' = refused \cup {stop.exec} /\ UNCHANGED row
  /\ stop' = NoStop
  /\ UNCHANGED <<call, slots, active, tracker, toRecover, booted, unstartable, early, faults>>

-----------------------------------------------------------------------------
(* Shutdown, crash and start.                                              *)

\* The timers are cleared, throttled executions stay where they are, waiting
\* ones are dropped from the registry.
Shutdown ==
  /\ enabled
  /\ Fault
  /\ enabled' = FALSE
  /\ timer' = {}
  /\ active' = [e \in Executions |->
                  IF active[e].status = "waiting" THEN NoEntry ELSE active[e]]
  /\ UNCHANGED <<row, call, capacity, queue, lost, removed, listed, recovery, stop>>

\* What the recovery of crashed executions may mark: of the rows left running or
\* waiting those the event log has not ended and tells enough of; and with one of
\* these also rows that are new, where a workflow is deactivated.
Crashable ==
  {S \in SUBSET {e \in Executions : row[e].status \in Stoppable} :
     S = {} \/ \E e \in S : row[e].status # "new"}

\* Mutant of Reboot: the enqueued executions are taken to be recovered.
Reboot_NoRecovery ==
  /\ \E S \in Crashable :
       row' = [e \in Executions |->
         IF e \in S THEN [row[e] EXCEPT !.status = "crashed"] ELSE row[e]]
  /\ call' = [c \in Calls |-> Idle]
  /\ capacity' = Limit /\ queue' = <<>> /\ enabled' = TRUE
  /\ active' = [e \in Executions |-> NoEntry]
  /\ timer' = {} /\ listed' = {} /\ toRecover' = {} /\ booted' = TRUE
  /\ unstartable' = {} /\ early' = {} /\ refused' = {}
  /\ stop' = NoStop /\ lost' = 0 /\ removed' = 0

\* A new process: its memory is empty, and crashed executions are recovered.
Reboot ==
  /\ \E S \in Crashable :
       row' = [e \in Executions |->
         IF e \in S THEN [row[e] EXCEPT !.status = "crashed"] ELSE row[e]]
  /\ call' = [c \in Calls |-> Idle]
  /\ capacity' = Limit /\ queue' = <<>> /\ enabled' = TRUE
  /\ active' = [e \in Executions |-> NoEntry]
  /\ timer' = {} /\ listed' = {} /\ toRecover' = {} /\ booted' = FALSE
  /\ unstartable' = {} /\ early' = {} /\ refused' = {}
  /\ stop' = NoStop /\ lost' = 0 /\ removed' = 0

\* The process ends at any moment.
Crash == Fault /\ Reboot

\* A shutdown waits for the registry to be empty.
Exit ==
  /\ ~enabled
  /\ \A e \in Executions : active[e] = NoEntry
  /\ Reboot
  /\ UNCHANGED faults

\* recoverEnqueuedExecutions reads the rows to run, with the server started.
RecoveryRead ==
  /\ ~booted
  /\ booted' = TRUE
  /\ toRecover' = {e \in Executions : row[e].status = "new"}
  /\ early' = {e \in toRecover' : \E c \in Calls : call[c].exec = e}
  /\ UNCHANGED <<row, call, slots, active, tracker, unstartable, refused, stop, faults>>

\* The next of them, unless the one before is still to be marked as crashed.
NextToRecover(e) ==
  /\ e \in toRecover /\ e \notin unstartable
  /\ \A d \in toRecover : e =< d

\* They are run one after the other, none waits for another to get its slot.
Recover(c, e) ==
  /\ NextToRecover(e)
  /\ toRecover' = toRecover \ {e}
  /\ TakeOver(c, e, "new", 0)
  /\ UNCHANGED <<row, slots, active, tracker, booted, unstartable, early, refused, stop, faults>>

\* The project of its workflow is not found.
RecoverFails(e) ==
  /\ NextToRecover(e)
  /\ Fault
  /\ unstartable' = unstartable \cup {e}
  /\ UNCHANGED <<row, call, slots, active, tracker, toRecover, booted, early, refused, stop>>

\* crashUnstartableExecution, of a row that has not ended.  Its statement may fail,
\* which ends the process if the recovery waits for it.
CrashUnstartable(e) ==
  /\ e \in unstartable
  /\ \/ /\ row' = [row EXCEPT ![e].status = IF @ \in {"new", "running"} THEN "crashed" ELSE @]
        /\ UNCHANGED refused
     \/ /\ e \notin toRecover
        /\ refused' = refused \cup {e}
        /\ UNCHANGED row
  /\ unstartable' = unstartable \ {e}
  /\ toRecover' = toRecover \ {e}
  /\ UNCHANGED <<call, slots, active, tracker, booted, early, stop, faults>>

-----------------------------------------------------------------------------
\* What the process does of its own for a call in flight.
Advance(c) ==
  \/ Reserve(c)
  \/ Claim(c)
  \/ MarkStarted(c)
  \/ Register(c)
  \/ MarkRunning(c)
  \/ Launch(c)
  \/ PutToWait(c)
  \/ \E s \in Ended \cup {"waiting"} : Save(c, s)
  \/ SaveFailed(c)
  \/ Finalize(c)
  \/ EndCancelled(c)

\* What may go wrong with it.
Disturbed(c) ==
  \/ WriteFails(c)
  \/ Stick(c)
  \/ ProcessError(c)
  \/ Timeout(c)

Next ==
  \/ \E c \in Calls : Advance(c) \/ Disturbed(c)
  \/ \E c \in Calls, e \in Executions :
       Create(c, e) \/ Resume(c, e) \/ TimerFires(c, e) \/ Recover(c, e)
  \/ \E S \in SUBSET Executions : PollRead(S)
  \/ PollSet
  \/ \E e \in Executions : StopRead(e) \/ RecoverFails(e) \/ CrashUnstartable(e)
  \/ StopInProcess
  \/ StopWrite
  \/ Shutdown
  \/ Crash
  \/ Exit
  \/ RecoveryRead

Spec == Init /\ [][Next]_vars

\* A call in flight goes on, and its run ends or goes to wait.  Nothing is assumed
\* of users, webhooks, timers, polls and the recovery.
Fairness == \A c \in Calls : WF_vars(Advance(c))

FairSpec == Spec /\ Fairness

-----------------------------------------------------------------------------
(* Properties.                                                             *)

Held == {c \in Calls : call[c].held}
Taken == Cardinality(Held) + lost

\* Every variable has its type.
TypeOK ==
  /\ row \in [Executions -> [status : Status, waits : Nat]]
  /\ call \in [Calls -> Call]
  /\ capacity \in Int /\ lost \in Nat /\ removed \in Nat /\ faults \in Nat
  /\ queue \in Seq(Calls)
  /\ enabled \in BOOLEAN /\ booted \in BOOLEAN
  /\ active \in [Executions -> [call : 0..MaxCalls, run : 0..MaxCalls,
                                status : {"none", "running", "waiting"}]]
  /\ timer \subseteq Executions /\ listed \subseteq Executions
  /\ toRecover \subseteq Executions /\ unstartable \subseteq Executions
  /\ early \subseteq Executions /\ refused \subseteq Executions
  /\ stop \in [pc : {"idle", "read", "acted"}, exec : 0..MaxExecutions]

\* The capacity counts the slots taken and the calls queued, whatever order
\* releases, removals and failed claims come in: each slot is given back once.
SlotsAccounted ==
  enabled => capacity = Limit - Taken - Len(queue)

\* Nobody is throttled while a slot is free.
QueueOnlyWhenFull ==
  enabled /\ queue # <<>> => Taken >= Limit

\* The limit is passed only where a stop took an execution out of the queue, and
\* by no more than that.
OversubscribedByRemovals ==
  enabled => Taken =< Limit + removed

\* An execution is run by at most one call, whoever resumes or recovers it: but for
\* those the recovery reads although a call of this process has them already.
OneRunner ==
  \A c, d \in Calls :
    /\ call[c].pc \in Running /\ call[d].pc \in Running
    /\ call[c].exec = call[d].exec
    /\ call[c].exec \notin early
    => c = d

\* A row that has not started belongs to a call, to the recovery still to come or
\* under way, or to the stop that took it out of the queue; or a write of it failed.
NewRowsOwned ==
  \A e \in Executions : row[e].status = "new" =>
    \/ ~booted \/ e \in toRecover \/ e \in unstartable
    \/ \E c \in Calls : call[c].exec = e
    \/ stop.pc = "acted" /\ stop.exec = e
    \/ e \in refused

\* An ended execution changes its status only if a stop cancels it, if a start
\* under way, which does not look at the row, marks it running, or if a run out of
\* control ends after its execution was marked as crashed; what a run saves never
\* replaces the cancellation.
EndedStaysEnded ==
  [][\A e \in Executions \ early :
       row[e].status \in Ended /\ row'[e].status # row[e].status =>
         \/ row'[e].status = "canceled"
         \/ /\ row[e].status = "canceled" /\ row'[e].status = "running"
            /\ \E c \in Calls : call[c].exec = e /\
                 call[c].pc \in {"admitted", "claimed", "registered"}
         \/ /\ row[e].status = "crashed"
            /\ \E c \in Calls : call[c].exec = e /\ call[c].pc = "stray"]_vars

\* A throttled call gets its slot, unless slots are lost or kept by a call that was
\* rejected, or the process goes down.
QueueDrains ==
  \A c \in Calls :
    call[c].pc = "queued" ~>
      \/ call[c].pc # "queued" \/ ~enabled
      \/ lost > 0 \/ \E d \in Calls : call[d].pc = "stuck"

\* "Recovers executions left in the new (enqueued) status by a shutdown": none that
\* this process has created and has a call for.
RecoveryRunsLeftOvers ==
  [][\A c, d \in Calls :
       call[c] = Idle /\ call'[c].expect = "new" => call[d].exec # call'[c].exec]_vars

\* "The takeover is a compare-and-swap: if the row moved on, another process
\* already claimed it": what a call resumes is the wait whose data it loaded.
ResumesItsWait ==
  [][\A c \in Calls :
       call[c].expect = "waiting" /\ call[c].pc = "admitted" /\ call'[c].pc = "marked" =>
         call[c].waits = row[call[c].exec].waits]_vars
=============================================================================
