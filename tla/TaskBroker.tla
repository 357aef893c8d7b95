----------------------------- MODULE TaskBroker -----------------------------
(***************************************************************************)
(* The task broker of a main process, the requester in that process that   *)
(* wants code to be run, and the task runners that run it, each at the far *)
(* end of a WebSocket.  A runner offers its free slots; the broker matches *)
(* requests with offers, waits for the runner to accept, and sends it the  *)
(* settings; any of them may time out, and a runner may go away.           *)
(*                                                                         *)
(* A step is what one process does before its event loop turns: the local  *)
(* requester answers the broker within the step that asks it.  A task has  *)
(* the name of the offer it came from.  Names are used again once nothing  *)
(* mentions them, and so is the name of a runner that went away.           *)
(***************************************************************************)
EXTENDS Integers, FiniteSets, SequencesExt

CONSTANTS
  NumRequests,       \* bound: calls of startTask
  Runners,           \* bound: runner processes at one time
  Launchers,         \* those of them that may defer what they accept
  NumOffers,         \* bound: names of offers of one runner
  MaxConcurrency,    \* slots of a runner
  MaxRefreshes,      \* MAX_REQUEST_TIMEOUT_REFRESHES
  MaxAcceptTimeouts, \* MAX_CONSECUTIVE_ACCEPT_TIMEOUTS
  Internal,          \* whether the mode is internal: the main process owns the runners
  MaxFaults          \* bound: crashes, lost connections, cancellations, stops

ASSUME BrokerAssumption ==
  /\ NumRequests \in Nat \ {0} /\ NumOffers \in Nat \ {0}
  /\ Launchers \subseteq Runners
  /\ MaxConcurrency \in Nat \ {0} /\ MaxAcceptTimeouts \in Nat \ {0}
  /\ MaxRefreshes \in Nat /\ MaxFaults \in Nat
  /\ Internal \in BOOLEAN

Requests == 1..NumRequests
Offers == Runners \X (1..NumOffers)
RunnerOf(o) == o[1]

VARIABLES
  result,    \* TaskRequester: what became of each call of startTask
  pending,   \* TaskBroker.pendingTaskRequests
  matched,   \* those of them with acceptInProgress
  refreshes, \* timeoutRefreshes of each request
  offers,    \* TaskBroker.pendingTaskOffers
  accepting, \* TaskBroker.runnerAcceptRejects: the request of each
  tasks,     \* TaskBroker.tasks: the request of each
  failures,  \* TaskBroker.consecutiveAcceptTimeouts
  phase,     \* whether the broker serves, drains or has closed its connections
  link,      \* knownRunners and runnerConnections
  mode,      \* what each runner process is doing
  atRunner,  \* TaskRunner.openOffers and runningTasks
  toRunner,  \* messages on their way to each runner
  toBroker,  \* and from each runner
  begun,     \* history: how often the code of each request began to run
  faults     \* disturbances left in this behaviour

vars == <<result, pending, matched, refreshes, offers, accepting, tasks, failures,
          phase, link, mode, atRunner, toRunner, toBroker, begun, faults>>
requests == <<result, pending, matched, refreshes>>
broker == <<requests, offers, accepting, tasks, failures, phase>>

\* closing: the socket is no longer OPEN, frames it buffered still arrive.
\* removed: out of runnerConnections, to be deregistered.
Links == {"off", "open", "closing", "removed"}
Modes == {"gone", "new", "offering", "draining", "stopping"}
\* aborting, overdue: the code was told to abort, by a cancellation or a timeout.
Places == {"none", "open", "waiting", "running", "aborting", "overdue"}
Held == {"waiting", "running", "aborting", "overdue"}
Results == {"idle", "queued", "tasked", "returned", "failed", "expired", "cancelled"}

\* request: for the settings, the request whose code they carry.
Message(kind, o) == [kind |-> kind, offer |-> o, request |-> 0]
Settings(o, q) == [kind |-> "settings", offer |-> o, request |-> q]
Notice(kind) == [kind |-> kind, offer |-> <<>>, request |-> 0]

Init ==
  /\ result = [q \in Requests |-> "idle"]
  /\ pending = <<>> /\ matched = {}
  /\ refreshes = [q \in Requests |-> 0]
  /\ offers = <<>>
  /\ accepting = [o \in Offers |-> 0]
  /\ tasks = [o \in Offers |-> 0]
  /\ failures = [r \in Runners |-> 0]
  /\ phase = "serving"
  /\ link = [r \in Runners |-> "off"] /\ mode = [r \in Runners |-> "gone"]
  /\ atRunner = [o \in Offers |-> "none"]
  /\ toRunner = [r \in Runners |-> <<>>] /\ toBroker = [r \in Runners |-> <<>>]
  /\ begun = [q \in Requests |-> 0]
  /\ faults = MaxFaults

Fault ==
  /\ faults > 0
  /\ faults' = faults - 1

\* The members of S in a sequence, in its order.
Nth(I, n) == CHOOSE i \in I : Cardinality({k \in I : k =< i}) = n
Only(s, S) ==
  LET I == {i \in DOMAIN s : s[i] \in S}
  IN  [n \in 1..Cardinality(I) |-> s[Nth(I, n)]]
Without(s, x) == Only(s, Range(s) \ {x})
OffersOf(rs) == {o \in Offers : RunnerOf(o) \in rs}

\* What is sent to a runner arrives unless its connection is not open.
Listening(r) == link[r] = "open" /\ mode[r] # "gone"
Tell(channels, r, m) ==
  IF Listening(r) THEN [channels EXCEPT ![r] = Append(@, m)] ELSE channels

-----------------------------------------------------------------------------
(* Matching.                                                               *)

\* settleTasks, with what the step that calls it made of the state: requests
\* not matched get the offers of reachable runners, oldest first; offers of
\* runners registered but not reachable are discarded.
Settle(queue, inProgress, pool, accepts, channels, reachable) ==
  LET usable == Only(pool, OffersOf(reachable))
      free == Only(queue, Requests \ inProgress)
      n == IF Len(usable) < Len(free) THEN Len(usable) ELSE Len(free)
      taken == SubSeq(usable, 1, n)
      Taken(r) == Only(taken, OffersOf({r}))
  IN  /\ pending' = queue
      /\ matched' = inProgress \cup {free[i] : i \in 1..n}
      /\ offers' = SubSeq(usable, n + 1, Len(usable))
      /\ accepting' = [o \in Offers |->
           IF Contains(taken, o) THEN free[CHOOSE i \in 1..n : taken[i] = o]
           ELSE accepts[o]]
      /\ toRunner' = [r \in Runners |->
           IF mode[r] = "gone" THEN channels[r]
           ELSE channels[r] \o [i \in 1..Len(Taken(r)) |-> Message("accept", Taken(r)[i])]]

Reachable == {r \in Runners : link[r] = "open"}

\* Mutant of Refresh: the refreshes of a request have no end.
Refresh_Again(q) ==
  refreshes' = IF Contains(pending, q)
                 THEN [refreshes EXCEPT ![q] = (@ + 1) % (MaxRefreshes + 1)]
                 ELSE refreshes

\* Mutant of Refresh: the cap is compared too late.
Refresh_OneMore(q) ==
  refreshes' = IF Contains(pending, q) /\ refreshes[q] =< MaxRefreshes
                 THEN [refreshes EXCEPT ![q] = @ + 1]
                 ELSE refreshes

\* refreshRequestTimeout: a request still pending gets a new timer, so often.
Refresh(q) ==
  refreshes' = IF Contains(pending, q) /\ refreshes[q] < MaxRefreshes
                 THEN [refreshes EXCEPT ![q] = @ + 1]
                 ELSE refreshes

\* Whether the report of an unresponsive runner is heeded: once the process stops,
\* the broker has taken its listener off, and no runner process is restarted.
Heeded == phase = "serving"

\* removeConnection up to its await: nothing more is sent to these runners and
\* nothing they sent is read.  In internal mode the report that comes with it
\* kills the process.
Disconnect(rs) ==
  /\ link' = [r \in Runners |-> IF r \in rs THEN "removed" ELSE link[r]]
  /\ toBroker' = [r \in Runners |-> IF r \in rs THEN <<>> ELSE toBroker[r]]

\* startTask sends its request.
Request(q) ==
  /\ result[q] = "idle"
  /\ \A p \in 1..(q - 1) : result[p] # "idle"
  /\ IF phase = "serving"
       THEN /\ result' = [result EXCEPT ![q] = "queued"]
            /\ Settle(Append(pending, q), matched, offers, accepting, toRunner, Reachable)
       ELSE /\ result' = [result EXCEPT ![q] = "expired"]
            /\ UNCHANGED <<pending, matched, offers, accepting, toRunner>>
  /\ UNCHANGED <<refreshes, tasks, failures, phase, link, mode, atRunner, toBroker,
                 begun, faults>>

Silent(r) ==
  \A o \in Offers : RunnerOf(o) = r =>
       ~Contains(offers, o) /\ tasks[o] = 0 /\ accepting[o] = 0

\* handleRequestTimeout: the runners that show no sign of life are reported, the
\* request is out of the queue also while an acceptance is in progress.
RequestTimeout(q) ==
  /\ Contains(pending, q)
  /\ Disconnect({r \in Reachable : Heeded /\ Silent(r)})
  /\ pending' = Without(pending, q)
  /\ matched' = matched \ {q}
  /\ result' = [result EXCEPT ![q] = "expired"]
  /\ UNCHANGED <<refreshes, offers, accepting, tasks, failures, phase, mode, atRunner,
                 toRunner, begun, faults>>

\* expireTasks, of one offer whose validity ended, at the latest when the code
\* next looks at the offers.
OfferExpires(o) ==
  /\ Contains(offers, o)
  /\ offers' = Without(offers, o)
  /\ UNCHANGED <<requests, accepting, tasks, failures, phase, link, mode, atRunner,
                 toRunner, toBroker, begun, faults>>

\* Mutant of CancelAtRunner: the runner is not told.
CancelAtRunner_Untold(o) == toRunner

\* What is sent when the task of this offer is no longer wanted.
CancelAtRunner(o) == Tell(toRunner, RunnerOf(o), Message("cancel", o))

\* Mutant of GivenUp: the callbacks of the acceptance stay registered.
GivenUp_Keeps(o) == accepting

\* An acceptance whose runner did not answer in time is forgotten, so that a
\* late answer finds nothing.
GivenUp(o) == [accepting EXCEPT ![o] = 0]

\* The runner has not answered in time: it is told to drop the task, its other
\* offers are not trusted, and it is reported if this was not the first time.
AcceptTimeout(o) ==
  LET q == accepting[o]
      r == RunnerOf(o)
      reported == failures[r] + 1 >= MaxAcceptTimeouts
      gone == reported /\ Heeded
  IN  /\ q # 0
      /\ Refresh(q)
      /\ failures' = [failures EXCEPT ![r] = IF reported THEN 0 ELSE @ + 1]
      /\ Disconnect(IF gone THEN {r} \cap {s \in Runners : link[s] \in {"open", "closing"}}
                    ELSE {})
      /\ Settle(pending, matched \ {q},
                Only(offers, OffersOf(Runners \ {r})),
                GivenUp(o), CancelAtRunner(o),
                IF gone THEN Reachable \ {r} ELSE Reachable)
      /\ UNCHANGED <<result, tasks, phase, mode, atRunner, begun, faults>>

-----------------------------------------------------------------------------
(* Messages from a runner.                                                 *)

\* A message of this kind is the next the broker reads from r.
Receives(r, kind) ==
  /\ link[r] \in {"open", "closing"}
  /\ toBroker[r] # <<>> /\ Head(toBroker[r]).kind = kind
  /\ toBroker' = [toBroker EXCEPT ![r] = Tail(@)]
Named(r) == Head(toBroker[r]).offer

TaskOffered(r) ==
  /\ Receives(r, "offer")
  /\ Settle(pending, matched, Append(offers, Named(r)), accepting, toRunner, Reachable)
  /\ UNCHANGED <<result, refreshes, tasks, failures, phase, link, mode, atRunner,
                 begun, faults>>

\* Mutant of Accepted: the request may have expired meanwhile.
Accepted_Expired(o, q) ==
  LET r == RunnerOf(o)
  IN  /\ pending' = Without(pending, q)
      /\ matched' = matched \ {q}
      /\ tasks' = [tasks EXCEPT ![o] = q]
      /\ toRunner' = Tell(toRunner, r, Settings(o, q))
      /\ UNCHANGED result

\* The rest of acceptOffer, once the runner accepted: the task of an expired
\* request is cancelled, of any other the requester gives the settings, unless
\* the runner is out of reach by now.
Accepted(o, q) ==
  LET r == RunnerOf(o)
  IN  IF ~Contains(pending, q)
        THEN /\ toRunner' = CancelAtRunner(o)
             /\ UNCHANGED <<result, pending, matched, tasks>>
      ELSE /\ pending' = Without(pending, q)
           /\ matched' = matched \ {q}
           /\ IF link[r] = "open"
                THEN /\ tasks' = [tasks EXCEPT ![o] = q]
                     /\ result' = [result EXCEPT ![q] = "tasked"]
                     /\ toRunner' = Tell(toRunner, r, Settings(o, q))
              ELSE /\ result' = [result EXCEPT ![q] = "failed"]
                   /\ UNCHANGED <<tasks, toRunner>>

\* handleRunnerAccept, of an acceptance still in progress or of one given up.
RunnerAccept(r) ==
  LET o == Named(r)
  IN  /\ Receives(r, "accepted")
      /\ IF accepting[o] = 0
           THEN UNCHANGED <<result, pending, matched, accepting, tasks, failures, toRunner>>
         ELSE /\ failures' = [failures EXCEPT ![r] = 0]
              /\ accepting' = [accepting EXCEPT ![o] = 0]
              /\ Accepted(o, accepting[o])
      /\ UNCHANGED <<refreshes, offers, phase, link, mode, atRunner, begun, faults>>

\* handleRunnerReject: the request is matched again at once.
RunnerReject(r) ==
  LET o == Named(r)
  IN  /\ Receives(r, "rejected")
      /\ IF accepting[o] = 0
           THEN UNCHANGED <<pending, matched, offers, accepting, failures, toRunner>>
         ELSE /\ failures' = [failures EXCEPT ![r] = 0]
              /\ Settle(pending, matched \ {accepting[o]}, offers,
                        [accepting EXCEPT ![o] = 0], toRunner, Reachable)
      /\ UNCHANGED <<result, refreshes, tasks, phase, link, mode, atRunner, begun, faults>>

\* handleRunnerDeferred: the request waits for the next offer that arrives.
RunnerDeferred(r) ==
  LET o == Named(r)
  IN  /\ Receives(r, "deferred")
      /\ IF accepting[o] = 0 THEN UNCHANGED <<matched, refreshes, accepting, failures>>
         ELSE /\ failures' = [failures EXCEPT ![r] = 0]
              /\ accepting' = [accepting EXCEPT ![o] = 0]
              /\ matched' = matched \ {accepting[o]}
              /\ Refresh(accepting[o])
      /\ UNCHANGED <<result, pending, offers, tasks, phase, link, mode, atRunner,
                     toRunner, begun, faults>>

\* taskDoneHandler and taskErrorHandler, of a task still tracked.
TaskResult(r) ==
  LET o == Named(r)
  IN  /\ Receives(r, "result")
      /\ IF tasks[o] = 0 THEN UNCHANGED <<result, tasks>>
         ELSE /\ tasks' = [tasks EXCEPT ![o] = 0]
              /\ result' = [result EXCEPT ![tasks[o]] = "returned"]
      /\ UNCHANGED <<pending, matched, refreshes, offers, accepting, failures, phase,
                     link, mode, atRunner, toRunner, begun, faults>>

-----------------------------------------------------------------------------
(* Tasks in flight.                                                        *)

\* What the exit of a runner process leaves: its memory and what was on its
\* way to it are gone, what it sent is still on its way.
Dies(r) ==
  /\ mode' = [mode EXCEPT ![r] = "gone"]
  /\ atRunner' = [o \in Offers |-> IF RunnerOf(o) = r THEN "none" ELSE atRunner[o]]
  /\ toRunner' = [toRunner EXCEPT ![r] = <<>>]

\* Mutant of TaskTimeout: the task stays in the map, where a late answer finds it.
TaskTimeout_Kept(o) ==
  /\ tasks[o] # 0
  /\ toRunner' = CancelAtRunner(o)
  /\ result' = [result EXCEPT ![tasks[o]] = "failed"]
  /\ UNCHANGED <<pending, matched, refreshes, offers, accepting, tasks, failures, phase,
                 link, mode, atRunner, toBroker, begun, faults>>

\* handleTaskTimeout: the runner is restarted or told to abort, and the caller
\* gets the error whatever the runner does.  A main process that stops does not
\* restart its runners but has told them to exit: the model lets them exit here.
TaskTimeout(o) ==
  /\ tasks[o] # 0
  /\ IF Internal THEN Dies(RunnerOf(o))
     ELSE toRunner' = CancelAtRunner(o) /\ UNCHANGED <<mode, atRunner>>
  /\ tasks' = [tasks EXCEPT ![o] = 0]
  /\ result' = [result EXCEPT ![tasks[o]] = "failed"]
  /\ UNCHANGED <<pending, matched, refreshes, offers, accepting, failures, phase, link,
                 toBroker, begun, faults>>

\* cancelTasks of an execution that is stopped: of its tasks, not its requests.
Cancel(o) ==
  /\ tasks[o] # 0
  /\ Fault
  /\ tasks' = [tasks EXCEPT ![o] = 0]
  /\ result' = [result EXCEPT ![tasks[o]] = "cancelled"]
  /\ toRunner' = CancelAtRunner(o)
  /\ UNCHANGED <<pending, matched, refreshes, offers, accepting, failures, phase, link,
                 mode, atRunner, toBroker, begun>>

\* Mutant of Failed: the callers of the tasks are not told.
Failed_Silently(os) ==
  /\ tasks' = [o \in Offers |-> IF o \in os THEN 0 ELSE tasks[o]]
  /\ UNCHANGED result

\* failTasks.
Failed(os) ==
  /\ tasks' = [o \in Offers |-> IF o \in os THEN 0 ELSE tasks[o]]
  /\ result' = [q \in Requests |->
       IF \E o \in os : tasks[o] = q THEN "failed" ELSE result[q]]

\* deregisterRunner, once the analysis of the disconnect is done.
Deregister(r) ==
  LET mine == {o \in Offers : RunnerOf(o) = r}
  IN  /\ link[r] = "removed"
      /\ link' = [link EXCEPT ![r] = "off"]
      /\ failures' = [failures EXCEPT ![r] = 0]
      /\ Failed(mine)
      /\ LET left == Only(offers, OffersOf(Runners \ {r}))
         IN  IF \A o \in mine : accepting[o] = 0
               THEN offers' = left /\ UNCHANGED <<pending, matched, accepting, toRunner>>
               ELSE Settle(pending, matched \ {accepting[o] : o \in mine}, left,
                           [o \in Offers |-> IF o \in mine THEN 0 ELSE accepting[o]],
                           toRunner, Reachable)
      /\ UNCHANGED <<refreshes, phase, mode, atRunner, toBroker, begun, faults>>

-----------------------------------------------------------------------------
(* Connections.                                                            *)

\* A new process connects and is registered.
Connect(r) ==
  /\ link[r] = "off" /\ mode[r] = "gone" /\ phase # "stopped"
  /\ link' = [link EXCEPT ![r] = "open"]
  /\ mode' = [mode EXCEPT ![r] = "new"]
  /\ toRunner' = [toRunner EXCEPT ![r] = <<Notice("registered")>>]
  /\ UNCHANGED <<broker, atRunner, toBroker, begun, faults>>

\* The socket of a process that exited leaves OPEN.
SocketCloses(r) ==
  /\ link[r] = "open" /\ mode[r] = "gone"
  /\ link' = [link EXCEPT ![r] = "closing"]
  /\ UNCHANGED <<broker, mode, atRunner, toRunner, toBroker, begun, faults>>

\* The socket is closed, or the heartbeat finds no sign of life, of a process
\* that exited or, as a fault, of one that did not answer.
ConnectionLost(r) ==
  /\ \/ link[r] = "closing" /\ UNCHANGED faults
     \/ link[r] = "open" /\ mode[r] = "gone" /\ UNCHANGED faults
     \/ link[r] = "open" /\ mode[r] # "gone" /\ Fault
  /\ Disconnect({r})
  /\ UNCHANGED <<broker, mode, atRunner, toRunner, begun>>

\* stopConnectedRunners begins: no request is taken any more.
StartDraining ==
  /\ phase = "serving"
  /\ Fault
  /\ phase' = "draining"
  /\ toRunner' = [r \in Runners |->
       IF Listening(r) THEN Append(toRunner[r], Notice("drain")) ELSE toRunner[r]]
  /\ UNCHANGED <<requests, offers, accepting, tasks, failures, link, mode, atRunner,
                 toBroker, begun>>

\* And ends, with no task tracked or after its timeout.
CloseConnections ==
  /\ phase = "draining"
  /\ phase' = "stopped"
  /\ Disconnect({r \in Runners : link[r] \in {"open", "closing"}})
  /\ UNCHANGED <<requests, offers, accepting, tasks, failures, mode, atRunner, toRunner,
                 begun, faults>>

-----------------------------------------------------------------------------
(* The task runner.                                                        *)

At(r, places) == {o \in Offers : RunnerOf(o) = r /\ atRunner[o] \in places}

\* A name for an offer: nothing mentions it.
Fresh(o) ==
  /\ atRunner[o] = "none" /\ ~Contains(offers, o) /\ accepting[o] = 0 /\ tasks[o] = 0
  /\ \A i \in DOMAIN toRunner[RunnerOf(o)] : toRunner[RunnerOf(o)][i].offer # o
  /\ \A i \in DOMAIN toBroker[RunnerOf(o)] : toBroker[RunnerOf(o)][i].offer # o

\* Mutant of OffersToSend: open offers do not count.
OffersToSend_Running(busy, open) == MaxConcurrency - busy

\* How many offers the runner lacks with so many tasks and open offers.
OffersToSend(busy, open) == MaxConcurrency - (busy + open)

\* sendOffers, after the step made `at` of the runner's tasks and sent `sent`:
\* stale offers are deleted, and free slots offered as names are left.
SendOffers(r, at, sent, stale) ==
  LET mine == {o \in Offers : RunnerOf(o) = r}
      busy == {o \in mine : at[o] \in Held}
      open == {o \in mine : at[o] = "open"} \ stale
      n == IF mode[r] = "offering" THEN OffersToSend(Cardinality(busy), Cardinality(open)) ELSE 0
      names == {o \in mine : Fresh(o)}
      new == {o \in names : Cardinality({p \in names : p[2] < o[2]}) < n}
      order == Only([i \in 1..NumOffers |-> <<r, i>>], new)
  IN  /\ atRunner' = [o \in Offers |-> IF o \in new THEN "open"
                                      ELSE IF o \in stale THEN "none" ELSE at[o]]
      /\ toBroker' = IF link[r] # "open" THEN toBroker
           ELSE [toBroker EXCEPT ![r] =
                   @ \o sent \o [i \in 1..Len(order) |-> Message("offer", order[i])]]

Says(r, m) ==
  toBroker' = IF link[r] = "open" THEN [toBroker EXCEPT ![r] = Append(@, m)] ELSE toBroker

\* The timer of the offers.
OfferSlots(r) ==
  /\ mode[r] = "offering"
  /\ \E stale \in SUBSET At(r, {"open"}) : SendOffers(r, atRunner, <<>>, stale)
  /\ UNCHANGED <<broker, link, mode, toRunner, begun, faults>>

\* finishTask of the task of o, after the answer to the broker, if any.
FinishTask(o, sent) ==
  \E stale \in SUBSET At(RunnerOf(o), {"open"}) :
    SendOffers(RunnerOf(o), [atRunner EXCEPT ![o] = "none"], sent, stale)

\* A message of this kind is the next that r reads.
Reads(r, kind) ==
  /\ mode[r] # "gone"
  /\ toRunner[r] # <<>> /\ Head(toRunner[r]).kind = kind
  /\ toRunner' = [toRunner EXCEPT ![r] = Tail(@)]
Meant(r) == Head(toRunner[r]).offer

RunnerRegistered(r) ==
  /\ Reads(r, "registered")
  /\ mode' = [mode EXCEPT ![r] = IF @ = "new" THEN "offering" ELSE @]
  /\ UNCHANGED <<broker, link, atRunner, toBroker, begun, faults>>

\* offerAccepted: refused by a runner that drains or has no slot, and if the
\* offer is no longer open.
OfferAccepted(r) ==
  LET o == Meant(r)
      full == Cardinality(At(r, Held)) >= MaxConcurrency
      draining == mode[r] \in {"draining", "stopping"}
  IN  /\ Reads(r, "accept")
      /\ IF draining \/ full \/ atRunner[o] # "open"
           THEN /\ Says(r, Message("rejected", o))
                /\ atRunner' = IF draining \/ ~full THEN atRunner
                               ELSE [atRunner EXCEPT ![o] = "none"]
           ELSE /\ Says(r, Message("accepted", o))
                /\ atRunner' = [atRunner EXCEPT ![o] = "waiting"]
      /\ UNCHANGED <<broker, link, mode, begun, faults>>

\* A launcher, not part of this repository, defers the task of an offer it made
\* for a runner it has yet to start.
OfferDeferred(r) ==
  /\ Reads(r, "accept")
  /\ r \in Launchers
  /\ Says(r, Message("deferred", Meant(r)))
  /\ atRunner' = [atRunner EXCEPT ![Meant(r)] = "none"]
  /\ UNCHANGED <<broker, link, mode, begun, faults>>

ReceivedSettings(r) ==
  LET m == Head(toRunner[r])
  IN  /\ Reads(r, "settings")
      /\ IF atRunner[m.offer] = "waiting"
           THEN /\ atRunner' = [atRunner EXCEPT ![m.offer] = "running"]
                /\ begun' = [begun EXCEPT ![m.request] = @ + 1]
           ELSE UNCHANGED <<atRunner, begun>>
      /\ UNCHANGED <<broker, link, mode, toBroker, faults>>

\* taskCancelled: a task without settings is finished, a running one aborted.
TaskCancelled(r) ==
  LET o == Meant(r)
  IN  /\ Reads(r, "cancel")
      /\ IF atRunner[o] = "waiting" THEN FinishTask(o, <<>>)
         ELSE /\ atRunner' = IF atRunner[o] = "running"
                             THEN [atRunner EXCEPT ![o] = "aborting"] ELSE atRunner
              /\ UNCHANGED toBroker
      /\ UNCHANGED <<broker, link, mode, begun, faults>>

BrokerDrains(r) ==
  /\ Reads(r, "drain")
  /\ mode' = [mode EXCEPT ![r] = IF @ = "stopping" THEN @ ELSE "draining"]
  /\ UNCHANGED <<broker, link, atRunner, toBroker, begun, faults>>

\* taskExecutionSucceeded or taskExecutionFailed: a cancelled task has no answer.
TaskFinishes(o) ==
  /\ atRunner[o] \in {"running", "aborting", "overdue"}
  /\ FinishTask(o, IF atRunner[o] = "aborting" THEN <<>> ELSE <<Message("result", o)>>)
  /\ UNCHANGED <<broker, link, mode, toRunner, begun, faults>>

\* taskTimedOut, the runner's own timer of a task.
TaskTimedOut(o) ==
  /\ \/ atRunner[o] = "waiting" /\ FinishTask(o, <<Message("result", o)>>)
     \/ /\ atRunner[o] = "running"
        /\ atRunner' = [atRunner EXCEPT ![o] = "overdue"]
        /\ UNCHANGED toBroker
  /\ UNCHANGED <<broker, link, mode, toRunner, begun, faults>>

\* stop commits to draining: no open offer is kept.
RunnerStops(r) ==
  /\ mode[r] \in {"offering", "draining"}
  /\ Fault
  /\ mode' = [mode EXCEPT ![r] = "stopping"]
  /\ atRunner' = [o \in Offers |->
       IF RunnerOf(o) = r /\ atRunner[o] = "open" THEN "none" ELSE atRunner[o]]
  /\ UNCHANGED <<broker, link, toRunner, toBroker, begun>>

\* And closes the connection with its tasks done, or its time over.
RunnerCloses(r) ==
  /\ mode[r] = "stopping" /\ link[r] = "open"
  /\ Dies(r)
  /\ link' = [link EXCEPT ![r] = "closing"]
  /\ UNCHANGED <<broker, toBroker, begun, faults>>

RunnerCrashes(r) ==
  /\ mode[r] # "gone"
  /\ Fault
  /\ Dies(r)
  /\ UNCHANGED <<broker, link, toBroker, begun>>

\* A runner whose connection was closed exits, if it was not killed before.
RunnerExits(r) ==
  /\ mode[r] # "gone" /\ link[r] # "open"
  /\ Dies(r)
  /\ UNCHANGED <<broker, link, toBroker, begun, faults>>

-----------------------------------------------------------------------------
BrokerReads(r) ==
  \/ TaskOffered(r)
  \/ RunnerAccept(r)
  \/ RunnerReject(r)
  \/ RunnerDeferred(r)
  \/ TaskResult(r)

Connections(r) ==
  \/ Connect(r)
  \/ SocketCloses(r)
  \/ ConnectionLost(r)
  \/ Deregister(r)

RunnerSteps(r) ==
  \/ OfferSlots(r)
  \/ RunnerRegistered(r)
  \/ OfferAccepted(r)
  \/ OfferDeferred(r)
  \/ ReceivedSettings(r)
  \/ TaskCancelled(r)
  \/ BrokerDrains(r)
  \/ RunnerStops(r)
  \/ RunnerCloses(r)
  \/ RunnerCrashes(r)
  \/ RunnerExits(r)

Next ==
  \/ \E q \in Requests : Request(q) \/ RequestTimeout(q)
  \/ \E r \in Runners : BrokerReads(r) \/ Connections(r) \/ RunnerSteps(r)
  \/ \E o \in Offers :
       \/ OfferExpires(o) \/ AcceptTimeout(o) \/ TaskTimeout(o) \/ Cancel(o)
       \/ TaskFinishes(o) \/ TaskTimedOut(o)
  \/ StartDraining
  \/ CloseConnections

Spec == Init /\ [][Next]_vars

\* The timers of the main process go off; a timer that was started again is
\* another timer.  Nothing is assumed of runners, connections and messages.
Fairness ==
  /\ \A q \in Requests, n \in 0..MaxRefreshes :
       WF_vars(refreshes[q] = n /\ RequestTimeout(q))
  /\ \A o \in Offers : WF_vars(TaskTimeout(o))

FairSpec == Spec /\ Fairness

-----------------------------------------------------------------------------
(* Properties.                                                             *)

\* Every variable has its type.
TypeOK ==
  /\ result \in [Requests -> Results]
  /\ pending \in Seq(Requests) /\ matched \subseteq Requests
  /\ refreshes \in [Requests -> 0..MaxRefreshes]
  /\ offers \in Seq(Offers)
  /\ accepting \in [Offers -> 0..NumRequests] /\ tasks \in [Offers -> 0..NumRequests]
  /\ failures \in [Runners -> 0..(MaxAcceptTimeouts - 1)]
  /\ phase \in {"serving", "draining", "stopped"}
  /\ link \in [Runners -> Links] /\ mode \in [Runners -> Modes]
  /\ atRunner \in [Offers -> Places]
  /\ begun \in [Requests -> Nat] /\ faults \in Nat

\* A runner never has more tasks and offers out than it has slots, however
\* acceptances, refusals and stale offers cross.
SlotsRespected ==
  \A r \in Runners : Cardinality(At(r, Held \cup {"open"})) =< MaxConcurrency

\* Nobody is forgotten: a caller that waits has its request in the queue or
\* exactly one task that is tracked, and no task is tracked for anybody else.
CallersTracked ==
  \A q \in Requests :
    /\ result[q] = "queued" <=> Contains(pending, q)
    /\ Cardinality({o \in Offers : tasks[o] = q}) = IF result[q] = "tasked" THEN 1 ELSE 0

\* A request marked as being accepted is so by exactly one runner; one that is
\* not can be matched, and no acceptance for it is left to come in.
OneAcceptance ==
  \A i \in DOMAIN pending :
    Cardinality({o \in Offers : accepting[o] = pending[i]}) =
      IF pending[i] \in matched THEN 1 ELSE 0

\* A slot of a connected runner is held only by a task the broker knows, or has
\* told the runner to drop.
SlotsOwned ==
  \A o \in Offers :
    atRunner[o] \in {"waiting", "running"} /\ link[RunnerOf(o)] = "open" =>
      \/ accepting[o] # 0 \/ tasks[o] # 0
      \/ Contains(toRunner[RunnerOf(o)], Message("cancel", o))

\* The code of a request begins to run once, and never if the caller was told
\* that no runner took it.
RunsAtMostOnce ==
  \A q \in Requests :
    begun[q] =< IF result[q] \in {"queued", "expired"} THEN 0 ELSE 1

\* Every call of startTask returns, even if every runner is deaf.
CallsReturn ==
  \A q \in Requests :
    result[q] \in {"queued", "tasked"} ~> result[q] \notin {"queued", "tasked"}

\* A call of startTask as its caller sees it, without runners and messages: it is settled
\* once and for all, and its code begins once at most, after a runner took it, perhaps
\* behind the back of a caller that got an error, never after the answer.
Abstract == INSTANCE CodeCall
CallLifecycle == Abstract!Spec
=============================================================================
