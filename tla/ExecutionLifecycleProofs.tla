---------------------- MODULE ExecutionLifecycleProofs ----------------------
(***************************************************************************)
(* Theorems about ExecutionLifecycle, for every limit and any numbers of   *)
(* executions, calls, waits and faults: types, who runs an execution, who  *)
(* owns a row that is new, and what an ended execution may become.         *)
(***************************************************************************)
EXTENDS ExecutionLifecycle, SequenceTheorems, FiniteSetTheorems, TLAPS

-----------------------------------------------------------------------------
(* The invariants.                                                         *)

\* Where a call has its row still to take.
Early == {"created", "queued", "admitted"}

\* The call creates the row of its own.
Fresh(c) == call[c].pc \in Early /\ call[c].expect = "none"

\* The call is or will be one that runs its execution, which it owns unless the
\* recovery read that execution too.
Pursues(c) == call[c].pc \in Running \cup {"claimed"} \/ Fresh(c)
Owns(c) == Pursues(c) /\ call[c].exec \notin early

\* A call in flight has an execution, and one not let through holds no slot.
Sound(k) ==
  /\ k.pc = "idle" => k = Idle
  /\ k.pc # "idle" => k.exec \in Executions
  /\ k.held => k.pc \notin {"idle", "created", "queued"}

CallsSound == \A c \in Calls : Sound(call[c])

\* A queue names each of its calls once, and they are throttled.
QueueOf(calls, q) ==
  /\ \A i \in 1..Len(q) : calls[q[i]].pc = "queued"
  /\ \A i, j \in 1..Len(q) : q[i] = q[j] => i = j

\* The run of an entry is a call of its execution that has started and whose
\* end is not handled yet.
Attached == {"executing", "parking", "saved"}

RunSound(e) ==
  active[e].run # 0 =>
    /\ call[active[e].run].exec = e
    /\ call[active[e].run].pc \in Attached

Shape ==
  /\ TypeOK
  /\ CallsSound
  /\ QueueOf(call, queue)
  /\ \A e \in Executions : RunSound(e)
  /\ stop.pc # "idle" => stop.exec \in Executions

\* A row that somebody has in hand exists, and has started if it was found
\* waiting or is past its claim.
Started(e) == row[e].status \notin {"absent", "new"}

KnownCall(c) ==
  /\ call[c].pc # "idle" => row[call[c].exec].status # "absent"
  /\ call[c].pc \notin Early \cup {"idle"} => Started(call[c].exec)
  /\ call[c].expect = "waiting" => Started(call[c].exec)

RowsKnown ==
  /\ \A c \in Calls : KnownCall(c)
  /\ \A e \in timer \cup listed : Started(e)
  /\ \A e \in toRecover \cup unstartable : row[e].status # "absent"

\* An execution has one owner.
OneOwner ==
  \A c, d \in Calls : Owns(c) /\ Owns(d) /\ call[c].exec = call[d].exec => c = d

\* What the row of an execution can be while it has an owner.
OwnerStatus(c) ==
  CASE call[c].pc \in Early -> {"new", "running", "canceled"}
    [] call[c].pc = "cancelling" -> {"running", "canceled", "success", "error"}
    [] call[c].pc = "stray" -> {"running", "canceled", "crashed"}
    [] OTHER -> {"running", "canceled"}

OwnersAgree == \A c \in Calls : Owns(c) => row[call[c].exec].status \in OwnerStatus(c)

\* A call of the recovery whose run has not started, or is out of control.
Start == Early \cup {"claimed", "marked", "registered", "starting", "aborted",
                     "stray", "stuck"}
First(c) == call[c].expect = "new" /\ call[c].pc \in Start

\* An execution the recovery has in hand.
Recovering(e) ==
  e \in toRecover \cup unstartable \/ \E c \in Calls : call[c].exec = e /\ First(c)

\* Nobody but the recovery has it, and what it could not run it has let go.
Alone(e) ==
  /\ e \notin timer \cup listed /\ row[e].status # "waiting"
  /\ \A c, d \in Calls : call[c].exec = e /\ call[d].exec = e => c = d
  /\ \A c \in Calls : call[c].exec = e =>
       First(c) /\ e \notin toRecover /\
       (e \in unstartable => call[c].pc \in {"stray", "stuck"})

\* The recovery has nothing to do with executions that were in hand already.
RecoveryApart ==
  /\ \A e \in Executions \ early : Recovering(e) => Alone(e)
  /\ ~booted => /\ early = {} /\ toRecover = {} /\ unstartable = {}
                /\ \A c \in Calls : call[c].expect # "new"

\* A run that ended and is still attached to an entry that does not wait has
\* written a final status, and nobody else is about to run its execution.
EndedRuns ==
  \A e \in Executions \ early : active[e].run # 0 =>
    /\ call[active[e].run].pc = "parking" => active[e].status = "waiting"
    /\ call[active[e].run].pc = "saved" /\ active[e].status # "waiting" =>
         /\ row[e].status \in {"success", "error", "canceled"}
         /\ \A d \in Calls : Owns(d) => call[d].exec # e

Ownership == OneOwner /\ OwnersAgree /\ RecoveryApart /\ EndedRuns

-----------------------------------------------------------------------------
(* The calls and the queue.                                                *)

\* What becomes of a call that a step lets go on, or only of its slot.
Passed(k, k2) ==
  /\ k2 \in Call /\ k2.exec = k.exec /\ k2.expect = k.expect /\ k2.waits = k.waits
  /\ \/ k2.pc = k.pc /\ (k2.held => k.held)
     \/ k.pc = "queued" /\ k2.pc = "admitted"

\* The call of no run is a call, and only it has its fields.
LEMMA IdleFacts ==
  /\ Idle \in Call /\ Idle.pc = "idle" /\ Idle.exec = 0 /\ Idle.expect = "none"
  /\ ~Idle.held
  /\ \A k \in Call : Passed(Idle, k) => k = Idle
BY ExecutionAssumption DEF Idle, Call, Places, Passed

\* A removal leaves the others in the queue, in their order.
LEMMA RemoveFacts ==
  ASSUME NEW S, NEW s \in Seq(S), NEW i \in 1..Len(s)
  PROVE  /\ RemoveAt(s, i) \in Seq(S) /\ Len(RemoveAt(s, i)) = Len(s) - 1
         /\ \A j \in 1..(Len(s) - 1) :
              RemoveAt(s, i)[j] = IF j < i THEN s[j] ELSE s[j + 1]
<1> DEFINE a == SubSeq(s, 1, i - 1)
           b == SubSeq(s, i + 1, Len(s))
<1>1. Len(s) \in Nat /\ \A j \in 1..Len(s) : s[j] \in S
  BY ElementOfSeq, LenProperties
<1>2. /\ a \in Seq(S) /\ Len(a) = i - 1 /\ \A j \in 1..(i - 1) : a[j] = s[j]
  <2>1. \A j \in 1..(i - 1) : s[j] \in S
    BY <1>1
  <2>2. /\ a \in Seq(S) /\ Len(a) = IF 1 <= i - 1 THEN i - 1 - 1 + 1 ELSE 0
        /\ \A j \in 1..(i - 1 - 1 + 1) : a[j] = s[1 + j - 1]
    BY <1>1, <2>1, SubSeqProperties
  <2> QED
    BY <1>1, <2>2
<1>3. /\ b \in Seq(S) /\ Len(b) = Len(s) - i
      /\ \A j \in 1..(Len(s) - i) : b[j] = s[j + i]
  <2>1. \A j \in (i + 1)..Len(s) : s[j] \in S
    BY <1>1
  <2>2. /\ b \in Seq(S) /\ Len(b) = IF i + 1 <= Len(s) THEN Len(s) - (i + 1) + 1 ELSE 0
        /\ \A j \in 1..(Len(s) - (i + 1) + 1) : b[j] = s[i + 1 + j - 1]
    BY <1>1, <2>1, SubSeqProperties
  <2> QED
    BY <1>1, <2>2
<1>4. /\ a \o b \in Seq(S) /\ Len(a \o b) = Len(a) + Len(b)
      /\ \A j \in 1..(Len(a) + Len(b)) :
           (a \o b)[j] = IF j <= Len(a) THEN a[j] ELSE b[j - Len(a)]
  BY <1>2, <1>3, ConcatProperties
<1>5. RemoveAt(s, i) = a \o b
  BY DEF RemoveAt
<1> DEFINE r == RemoveAt(s, i)
<1> HIDE DEF a, b
<1>6. r \in Seq(S) /\ Len(r) = Len(s) - 1
  BY <1>1, <1>2, <1>3, <1>4, <1>5
<1>7. ASSUME NEW j \in 1..(Len(s) - 1)
      PROVE  r[j] = IF j < i THEN s[j] ELSE s[j + 1]
  <2>1. CASE j < i
    BY <1>1, <1>2, <1>3, <1>4, <1>5, <2>1
  <2>2. CASE ~(j < i)
    <3>1. r[j] = b[j - (i - 1)]
      BY <1>1, <1>2, <1>3, <1>4, <1>5, <2>2
    <3>2. j - (i - 1) \in 1..(Len(s) - i) /\ j - (i - 1) + i = j + 1
      BY <1>1, <2>2
    <3> QED
      BY <1>3, <2>2, <3>1, <3>2
  <2> QED
    BY <2>1, <2>2
<1> QED
  BY <1>6, <1>7

\* What is left of a sound queue without one of its calls, or with its head
\* let through, is sound.
LEMMA RemovedQueue ==
  ASSUME NEW calls \in [Calls -> Call], NEW q \in Seq(Calls), QueueOf(calls, q),
         NEW i \in 1..Len(q), NEW calls2,
         \A d \in Calls : d # q[i] => calls2[d].pc = calls[d].pc
  PROVE  QueueOf(calls2, RemoveAt(q, i))
<1>1. /\ Len(q) \in Nat /\ \A j \in 1..Len(q) : q[j] \in Calls
      /\ Len(RemoveAt(q, i)) = Len(q) - 1
      /\ \A j \in 1..(Len(q) - 1) :
           RemoveAt(q, i)[j] = IF j < i THEN q[j] ELSE q[j + 1]
  BY RemoveFacts, ElementOfSeq, LenProperties
<1> DEFINE r == RemoveAt(q, i)
           at(j) == IF j < i THEN j ELSE j + 1
<1>2. \A j \in 1..Len(r) : at(j) \in 1..Len(q) /\ at(j) # i /\ r[j] = q[at(j)]
  BY <1>1
<1>3. \A j, k \in 1..Len(r) : at(j) = at(k) => j = k
  BY <1>1
<1> HIDE DEF r, at
<1>4. \A j \in 1..Len(r) : r[j] \in Calls /\ r[j] # q[i] /\ calls[r[j]].pc = "queued"
  BY <1>1, <1>2 DEF QueueOf
<1>5. \A j, k \in 1..Len(r) : r[j] = r[k] => j = k
  BY <1>2, <1>3 DEF QueueOf
<1>6. QueueOf(calls2, r)
  BY <1>4, <1>5 DEF QueueOf
<1> QED
  BY <1>6 DEF r

\* The head of a sound queue is throttled, and what follows it is sound.
LEMMA HeadQueue ==
  ASSUME NEW calls \in [Calls -> Call], NEW q \in Seq(Calls), QueueOf(calls, q), q # <<>>,
         NEW calls2,
         \A d \in Calls : d # Head(q) => calls2[d].pc = calls[d].pc
  PROVE  /\ Head(q) \in Calls /\ calls[Head(q)].pc = "queued"
         /\ Tail(q) \in Seq(Calls) /\ QueueOf(calls2, Tail(q))
<1>1. /\ Len(q) \in Nat /\ Len(q) > 0 /\ \A j \in 1..Len(q) : q[j] \in Calls
      /\ Tail(q) \in Seq(Calls) /\ Len(Tail(q)) = Len(q) - 1
      /\ \A j \in 1..Len(Tail(q)) : Tail(q)[j] = q[j + 1]
  BY ElementOfSeq, LenProperties, HeadTailProperties, EmptySeq
<1>2. Head(q) = q[1]
  BY <1>1
<1> DEFINE r == Tail(q)
<1>3. \A j \in 1..Len(r) : j + 1 \in 1..Len(q) /\ j + 1 # 1 /\ r[j] = q[j + 1]
  BY <1>1
<1>4. 1 \in 1..Len(q) /\ \A j, k \in 1..Len(r) : j + 1 = k + 1 => j = k
  BY <1>1
<1>5. r \in Seq(Calls)
  BY <1>1
<1> HIDE DEF r
<1>6. \A j \in 1..Len(r) : r[j] \in Calls /\ r[j] # q[1] /\ calls[r[j]].pc = "queued"
  BY <1>1, <1>3, <1>4 DEF QueueOf
<1>7. \A j, k \in 1..Len(r) : r[j] = r[k] => j = k
  BY <1>3, <1>4 DEF QueueOf
<1>8. QueueOf(calls2, r)
  BY <1>2, <1>6, <1>7 DEF QueueOf
<1>9. Head(q) \in Calls /\ calls[Head(q)].pc = "queued"
  BY <1>1, <1>2, <1>4 DEF QueueOf
<1> QED
  BY <1>5, <1>8, <1>9 DEF r

\* A sound queue stays sound when a call joins it.
LEMMA AppendedQueue ==
  ASSUME NEW calls \in [Calls -> Call], NEW q \in Seq(Calls), QueueOf(calls, q),
         NEW c \in Calls, calls[c].pc # "queued", NEW calls2, calls2[c].pc = "queued",
         \A d \in Calls : d # c => calls2[d].pc = calls[d].pc
  PROVE  Append(q, c) \in Seq(Calls) /\ QueueOf(calls2, Append(q, c))
<1>1. Len(q) \in Nat /\ \A j \in 1..Len(q) : q[j] \in Calls
  BY ElementOfSeq, LenProperties
<1>2. /\ Append(q, c) \in Seq(Calls) /\ Len(Append(q, c)) = Len(q) + 1
      /\ \A j \in 1..Len(q) : Append(q, c)[j] = q[j]
      /\ Append(q, c)[Len(q) + 1] = c
  BY <1>1
<1> QED
  BY <1>1, <1>2 DEF QueueOf

\* A queue is as sound as the calls it names.
LEMMA KeptQueue ==
  ASSUME NEW calls, NEW q \in Seq(Calls), QueueOf(calls, q), NEW calls2,
         \A d \in Calls : calls[d].pc = "queued" => calls2[d].pc = "queued"
  PROVE  QueueOf(calls2, q)
BY ElementOfSeq DEF QueueOf

\* A slot given back lets the oldest throttled call through, or nobody.
LEMMA GiveBackFacts ==
  ASSUME capacity \in Int, NEW calls \in [Calls -> Call], NEW q \in Seq(Calls),
         QueueOf(calls, q), GiveBack(calls, q)
  PROVE  /\ call' \in [Calls -> Call] /\ queue' \in Seq(Calls) /\ capacity' \in Int
         /\ QueueOf(call', queue')
         /\ \A d \in Calls : Passed(calls[d], call'[d])
<1>0. \A d \in Calls : Passed(calls[d], calls[d])
  BY DEF Passed
<1>1. CASE ~enabled \/ q = <<>>
  BY <1>0, <1>1 DEF GiveBack
<1>2. CASE enabled /\ q # <<>>
  <2> DEFINE h == Head(q)
  <2>1. /\ call' = [calls EXCEPT ![h].pc = "admitted", ![h].held = TRUE]
        /\ queue' = Tail(q) /\ capacity' \in Int
    BY <1>2 DEF GiveBack
  <2>2. h \in Calls /\ calls[h].pc = "queued"
    BY <1>2, HeadQueue
  <2>3. /\ call' \in [Calls -> Call] /\ \A d \in Calls : d # h => call'[d] = calls[d]
        /\ call'[h] = [calls[h] EXCEPT !.pc = "admitted", !.held = TRUE]
    <3> DEFINE through == [calls[h] EXCEPT !.pc = "admitted", !.held = TRUE]
    <3>1. through \in Call
      BY <2>2 DEF Call, Places
    <3>2. call' = [calls EXCEPT ![h] = through]
      BY <2>1, <2>2 DEF Call
    <3> HIDE DEF through, h
    <3>3. /\ call' \in [Calls -> Call] /\ \A d \in Calls : d # h => call'[d] = calls[d]
          /\ call'[h] = through
      BY <2>2, <3>1, <3>2
    <3> QED
      BY <3>3 DEF through, h
  <2>4. Passed(calls[h], call'[h])
    BY <2>2, <2>3 DEF Passed, Call
  <2>5. queue' \in Seq(Calls) /\ QueueOf(call', queue')
    <3>1. \A d \in Calls : d # Head(q) => call'[d].pc = calls[d].pc
      BY <2>3
    <3>2. Tail(q) \in Seq(Calls) /\ QueueOf(call', Tail(q))
      BY <1>2, <3>1, HeadQueue
    <3> QED
      BY <2>1, <3>2
  <2> QED
    BY <1>0, <2>1, <2>3, <2>4, <2>5
<1> QED
  BY <1>1, <1>2

\* release: a slot given back lets one throttled call through, or nobody.
LEMMA ReleaseFacts ==
  ASSUME TypeOK, NEW calls \in [Calls -> Call], QueueOf(calls, queue),
         NEW c \in 0..MaxCalls, Release(calls, c)
  PROVE  /\ call' \in [Calls -> Call] /\ queue' \in Seq(Calls) /\ capacity' \in Int
         /\ QueueOf(call', queue')
         /\ \A d \in Calls : Passed(calls[d], call'[d])
<1>0. \A d \in Calls : Passed(calls[d], calls[d])
  BY DEF Passed
<1>1. CASE c = 0 \/ ~call[c].held
  BY <1>0, <1>1 DEF Release, TypeOK
<1>2. CASE c # 0 /\ call[c].held
  <2> DEFINE freed == [calls EXCEPT ![c].held = FALSE]
  <2>0. c \in Calls
    BY <1>2, ExecutionAssumption DEF Calls
  <2>1. /\ freed \in [Calls -> Call]
        /\ freed[c] = [calls[c] EXCEPT !.held = FALSE]
        /\ \A d \in Calls : d # c => freed[d] = calls[d]
    BY <2>0 DEF Call
  <2>2. /\ freed[c] \in Call /\ freed[c].pc = calls[c].pc /\ freed[c].exec = calls[c].exec
        /\ freed[c].expect = calls[c].expect /\ freed[c].waits = calls[c].waits
        /\ ~freed[c].held
    BY <2>0, <2>1 DEF Call
  <2>3. GiveBack(freed, queue)
    BY <1>2 DEF Release
  <2> HIDE DEF freed
  <2>4. QueueOf(freed, queue)
    <3>1. \A d \in Calls : calls[d].pc = "queued" => freed[d].pc = "queued"
      BY <2>1, <2>2
    <3>2. queue \in Seq(Calls)
      BY DEF TypeOK
    <3> QED
      BY <3>1, <3>2, KeptQueue
  <2>5. /\ call' \in [Calls -> Call] /\ queue' \in Seq(Calls) /\ capacity' \in Int
        /\ QueueOf(call', queue')
        /\ \A d \in Calls : Passed(freed[d], call'[d])
    BY <2>1, <2>3, <2>4, GiveBackFacts DEF TypeOK
  <2>6. ASSUME NEW d \in Calls PROVE Passed(calls[d], call'[d])
    <3>1. Passed(freed[d], call'[d])
      BY <2>5
    <3>2. CASE d = c
      BY <2>2, <3>1, <3>2 DEF Passed
    <3>3. CASE d # c
      BY <2>1, <3>1, <3>3
    <3> QED
      BY <3>2, <3>3
  <2> QED
    BY <2>5, <2>6
<1> QED
  BY <1>1, <1>2

-----------------------------------------------------------------------------
(* What a step does, in the terms of the invariants.                       *)

Same(d) == call'[d].exec = call[d].exec /\ call'[d].expect = call[d].expect

\* A call that ends here is past its start, has lost its claim, is taken out of
\* the queue by a stop, or has failed to write its row.
Left(d) ==
  /\ call'[d] = Idle
  /\ \/ call[d].pc \notin Early
     \/ call[d].expect # "none" /\ row[call[d].exec].status # call[d].expect
     \/ stop'.pc = "acted" /\ stop'.exec = call[d].exec
     \/ call[d].exec \in refused' \cup unstartable'

Stays(d) ==
  /\ Same(d)
  /\ \/ call'[d].pc = call[d].pc
     \/ call[d].pc \in Early /\ call'[d].pc \in Early

\* A call that is rejected before its run starts.
Sticks(d) ==
  Same(d) /\ call[d].pc \in {"registered", "starting"} /\ call'[d].pc = "stuck"

Rests(d) == Left(d) \/ Stays(d) \/ Sticks(d)

RowSame == \A e \in Executions : row'[e].status = row[e].status
RowOnly(e) == \A f \in Executions : f # e => row'[f].status = row[f].status
EntriesDrop == \A e \in Executions : active'[e] = active[e] \/ active'[e].run = 0

TimersFrame ==
  \A e \in timer' \cup listed' : e \in timer \cup listed \/ row[e].status = "waiting"

Frame == TimersFrame /\ (stop.pc = "acted" => stop' = stop)

\* The recovery goes no further, but for what it cannot run.
Tends ==
  /\ UNCHANGED <<toRecover, booted, early>>
  /\ refused \subseteq refused' /\ unstartable \subseteq unstartable'
  /\ \A e \in unstartable' :
       \/ e \in unstartable \cup toRecover
       \/ \E c \in Calls :
            /\ call[c].exec = e /\ First(c)
            /\ call'[c] = Idle \/ call'[c].pc \in {"stray", "stuck"}

\* Nobody's run goes further.
Quiet ==
  /\ Frame /\ Tends
  /\ RowSame /\ EntriesDrop
  /\ \A d \in Calls : Rests(d)

\* Call c takes its execution over, or goes on with it.
Proceeds(c) ==
  LET e == call[c].exec
  IN  /\ Frame /\ Tends
      /\ Same(c) /\ call'[c].pc \in (Running \cup {"claimed"}) \ {"cancelling"}
      /\ call'[c].pc \in Start => call[c].pc \in Start
      /\ \A d \in Calls : d # c => Rests(d)
      /\ RowOnly(e)
      /\ \/ /\ row'[e].status = "running"
            /\ call[c].pc \in {"admitted", "claimed", "registered"}
            /\ Pursues(c) \/ (call[c].expect # "none" /\ row[e].status = call[c].expect)
         \/ /\ row'[e].status = row[e].status
            /\ call[c].pc \in Running \ {"cancelling", "stray"}
      /\ \A f \in Executions :
           \/ active'[f] = active[f] \/ active'[f].run = 0
           \/ f = e /\ active'[e].run = c /\ call'[c].pc = "executing"
           \/ f = e /\ active'[e].run = active[e].run /\ active'[e].status = "waiting"
      /\ call'[c].pc = "parking" => active'[e].status = "waiting"

\* The run of c ends, or its start fails, and the row is written.
Finishes(c) ==
  LET e == call[c].exec
  IN  /\ Frame /\ Tends /\ UNCHANGED active
      /\ call[c].pc \in {"registered", "starting", "executing", "parking",
                         "cancelling", "stray", "aborted", "failed"}
      /\ Left(c) \/ (Same(c) /\ call[c].pc # "stray" /\ call'[c].pc = "saved")
      /\ \A d \in Calls : d # c => Rests(d)
      /\ RowOnly(e)
      /\ row'[e].status \in {"success", "error", "waiting", "canceled"}
      /\ row[e].status = "canceled" => row'[e].status = "canceled"
      /\ call[c].pc = "cancelling" => row'[e].status = "canceled"
      /\ call[c].pc # "parking" => row'[e].status # "waiting"

\* The run c is told to stop, and its entry goes.
ToldToStop(c) ==
  LET e == call[c].exec
  IN  /\ call[c].pc \in Attached /\ Same(c) /\ call'[c].pc = "cancelling"
      /\ active[e].run = c /\ active[e].status # "waiting" /\ active'[e].run = 0
      /\ \A d \in Calls : d # c => Rests(d)

Told(c) ==
  /\ Frame /\ Tends
  /\ RowSame /\ EntriesDrop
  /\ ToldToStop(c)

\* A call begins, for a new execution or for one that waits or is enqueued.
Begins(c, e) ==
  /\ Frame /\ UNCHANGED <<active, booted, unstartable, early, refused>>
  /\ call[c].pc = "idle" /\ call'[c].pc = "created" /\ call'[c].exec = e
  /\ \A d \in Calls : d # c => call'[d] = call[d]
  /\ RowOnly(e)
  /\ \/ /\ call'[c].expect = "none"
        /\ row[e].status = "absent" /\ row'[e].status = "new"
        /\ UNCHANGED toRecover
     \/ /\ call'[c].expect = "waiting" /\ (e \in timer \/ row[e].status = "waiting")
        /\ row'[e].status = row[e].status
        /\ UNCHANGED toRecover
     \/ /\ call'[c].expect = "new" /\ e \notin unstartable
        /\ e \in toRecover /\ toRecover' = toRecover \ {e}
        /\ row'[e].status = row[e].status

\* A call that is let through, or only gives back its slot, stays sound.
LEMMA PassedSound ==
  ASSUME NEW k \in Call, Sound(k), NEW k2, Passed(k, k2)
  PROVE  Sound(k2)
<1>1. CASE k.pc = "idle"
  <2>1. k = Idle
    BY <1>1 DEF Sound
  <2>2. Passed(Idle, k2) /\ k2 \in Call
    BY <2>1 DEF Passed
  <2>3. k2 = Idle
    BY <2>2, IdleFacts
  <2> QED
    BY <2>3, IdleFacts DEF Sound
<1>2. CASE k.pc # "idle"
  BY <1>2 DEF Sound, Passed
<1> QED
  BY <1>1, <1>2

\* Being let through does not move a run.
LEMMA PassedRests ==
  ASSUME NEW d \in Calls, Passed(call[d], call'[d])
  PROVE  Stays(d)
BY DEF Passed, Stays, Same, Early

\* A call that moves changes its place alone.
LEMMA GotoFacts ==
  ASSUME TypeOK, NEW c \in Calls, NEW place \in Places, Goto(c, place)
  PROVE  /\ call' \in [Calls -> Call] /\ call'[c].pc = place
         /\ Same(c) /\ call'[c].waits = call[c].waits
         /\ call'[c].held = call[c].held
         /\ \A d \in Calls : d # c => call'[d] = call[d]
<1>1. call \in [Calls -> Call]
  BY DEF TypeOK
<1>2. /\ call' \in [Calls -> Call] /\ \A d \in Calls : d # c => call'[d] = call[d]
      /\ call'[c] = [call[c] EXCEPT !.pc = place]
  BY <1>1 DEF Goto, Call
<1> QED
  BY <1>1, <1>2 DEF Same, Call

\* A call that is over is idle, and the others are as they were.
LEMMA OverFacts ==
  ASSUME NEW calls \in [Calls -> Call], NEW c \in Calls
  PROVE  /\ Over(calls, c) \in [Calls -> Call] /\ Over(calls, c)[c] = Idle
         /\ \A d \in Calls : d # c => Over(calls, c)[d] = calls[d]
BY IdleFacts DEF Over

\* An unconditional write changes the status of its row alone.
LEMMA SetStatusFacts ==
  ASSUME TypeOK, NEW e \in Executions, NEW s \in Status, SetStatus(e, s)
  PROVE  /\ row' \in [Executions -> [status : Status, waits : Nat]]
         /\ row'[e].status = s /\ RowOnly(e)
BY DEF TypeOK, SetStatus, RowOnly

\* The save of a run leaves a cancelled row cancelled.
LEMMA SavedFacts ==
  ASSUME TypeOK, NEW e \in Executions, NEW s \in Ended \cup {"waiting"}, Saved(e, s)
  PROVE  /\ row' \in [Executions -> [status : Status, waits : Nat]]
         /\ row'[e].status = IF row[e].status = "canceled" THEN "canceled" ELSE s
         /\ RowOnly(e)
<1>1. CASE row[e].status = "canceled"
  BY <1>1 DEF Saved, TypeOK, RowOnly
<1>2. CASE row[e].status # "canceled"
  <2> DEFINE w == IF s = "waiting" THEN row[e].waits + 1 ELSE row[e].waits
  <2>1. row \in [Executions -> [status : Status, waits : Nat]] /\ s \in Status
    BY DEF TypeOK, Status
  <2>2. w \in Nat
    BY <2>1
  <2>3. row' = [row EXCEPT ![e].status = s, ![e].waits = w]
    BY <1>2, <2>1 DEF Saved
  <2> HIDE DEF w
  <2> QED
    BY <1>2, <2>1, <2>2, <2>3 DEF RowOnly
<1> QED
  BY <1>1, <1>2

\* A step that keeps every entry or drops its run, and leaves the calls behind
\* the entries it keeps where they may be, keeps the entries sound.
LEMMA RunsKept ==
  ASSUME Shape,
         \A e \in Executions : active'[e].run = 0 \/ active'[e].run = active[e].run,
         \A d \in Calls : call[d].pc \in Attached /\ active'[call[d].exec].run = d =>
           Same(d) /\ call'[d].pc \in Attached
  PROVE  \A e \in Executions : RunSound(e)'
<1> SUFFICES ASSUME NEW e \in Executions, active'[e].run # 0
             PROVE  /\ call'[active'[e].run].exec = e
                    /\ call'[active'[e].run].pc \in Attached
  BY DEF RunSound, Attached
<1> DEFINE d == active'[e].run
<1>1. d = active[e].run /\ call[d].exec = e /\ call[d].pc \in Attached
  BY DEF Shape, RunSound
<1>2. d \in Calls
  BY <1>1, ExecutionAssumption DEF Shape, TypeOK, Calls
<1> QED
  BY <1>1, <1>2 DEF Same

-----------------------------------------------------------------------------
(* What each action does.  Each lemma also shows that the action keeps the  *)
(* shape of the state.                                                     *)

\* Once a slot was released over `calls`, the state has its shape again.
LEMMA ReleaseShape ==
  ASSUME Shape, NEW calls \in [Calls -> Call], NEW c \in 0..MaxCalls,
         Release(calls, c), \A d \in Calls : Sound(calls[d]), QueueOf(calls, queue)
  PROVE  /\ call' \in [Calls -> Call] /\ queue' \in Seq(Calls) /\ capacity' \in Int
         /\ QueueOf(call, queue)'
         /\ CallsSound'
         /\ \A d \in Calls : Passed(calls[d], call'[d])
<1>1. /\ call' \in [Calls -> Call] /\ queue' \in Seq(Calls) /\ capacity' \in Int
      /\ QueueOf(call', queue')
      /\ \A d \in Calls : Passed(calls[d], call'[d])
  BY ReleaseFacts DEF Shape
<1>2. \A d \in Calls : Sound(call'[d])
  BY <1>1, PassedSound
<1> QED
  BY <1>1, <1>2 DEF CallsSound, QueueOf

\* What is left when call c, which is not throttled, is over.
LEMMA OverShape ==
  ASSUME Shape, NEW c \in Calls, call[c].pc # "queued"
  PROVE  /\ Over(call, c) \in [Calls -> Call]
         /\ \A d \in Calls : Sound(Over(call, c)[d])
         /\ QueueOf(Over(call, c), queue)
         /\ Over(call, c)[c] = Idle /\ \A d \in Calls : d # c => Over(call, c)[d] = call[d]
<1>1. /\ Over(call, c) \in [Calls -> Call] /\ Over(call, c)[c] = Idle
      /\ \A d \in Calls : d # c => Over(call, c)[d] = call[d]
  BY OverFacts DEF Shape, TypeOK
<1>2. Sound(Idle)
  BY IdleFacts DEF Sound
<1>3. \A d \in Calls : call[d].pc = "queued" => Over(call, c)[d].pc = "queued"
  BY <1>1
<1>4. QueueOf(Over(call, c), queue)
  BY <1>3, KeptQueue DEF Shape, TypeOK
<1> QED
  BY <1>1, <1>2, <1>4 DEF Shape, CallsSound

\* The same for a call that goes to a later place without being throttled.
LEMMA GotoShape ==
  ASSUME Shape, NEW c \in Calls, NEW place \in Places, Goto(c, place),
         call[c].pc \notin {"idle", "created", "queued"}, UNCHANGED queue,
         place \notin {"idle", "created", "queued"}
  PROVE  /\ call' \in [Calls -> Call] /\ CallsSound' /\ QueueOf(call, queue)'
         /\ Same(c) /\ call'[c].pc = place
         /\ \A d \in Calls : d # c => call'[d] = call[d] /\ Rests(d)
<1>1. /\ call' \in [Calls -> Call] /\ call'[c].pc = place /\ Same(c)
      /\ call'[c].held = call[c].held
      /\ \A d \in Calls : d # c => call'[d] = call[d]
  BY GotoFacts DEF Shape
<1>2. Sound(call'[c])
  BY <1>1 DEF Shape, CallsSound, Sound, Same
<1>3. \A d \in Calls : Sound(call'[d])
  BY <1>1, <1>2 DEF Shape, CallsSound
<1>4. \A d \in Calls : call[d].pc = "queued" => call'[d].pc = "queued"
  BY <1>1
<1>5. QueueOf(call', queue)
  BY <1>4, KeptQueue DEF Shape, TypeOK
<1>6. \A d \in Calls : d # c => Rests(d)
  BY <1>1 DEF Rests, Stays, Same
<1> QED
  BY <1>1, <1>3, <1>5, <1>6 DEF CallsSound, QueueOf

\* One lemma for each action: it keeps the shape, and is a step of one of the
\* kinds above.
LEMMA ReserveStep ==
  ASSUME Shape, NEW c \in Calls, Reserve(c)
  PROVE  Shape' /\ Quiet
<1>0. TypeOK /\ call \in [Calls -> Call] /\ queue \in Seq(Calls) /\ capacity \in Int
  BY DEF Shape, TypeOK
<1>1. call[c].pc = "created"
  BY DEF Reserve
<1>2. /\ UNCHANGED <<row, enabled, active, timer, listed, toRecover, booted,
                     unstartable, early, refused, stop, lost, removed, faults>>
      /\ capacity' \in Int
  BY <1>0 DEF Reserve, Enqueue, tracker, recovery
<1>3. /\ call' \in [Calls -> Call] /\ \A d \in Calls : d # c => call'[d] = call[d]
      /\ Same(c)
      /\ \/ call'[c].pc = "queued" /\ queue' = Append(queue, c) /\ call'[c].held = call[c].held
         \/ call'[c].pc = "admitted" /\ queue' = queue
  <2>1. CASE enabled /\ capacity > 0
    <3>1. call' = [call EXCEPT ![c].pc = "admitted", ![c].held = TRUE] /\ queue' = queue
      BY <1>0, <2>1 DEF Reserve, Enqueue
    <3> QED
      BY <1>0, <3>1 DEF Call, Places, Same
  <2>2. CASE enabled /\ ~(capacity > 0)
    <3>1. Goto(c, "queued") /\ queue' = Append(queue, c)
      BY <1>0, <2>2 DEF Reserve, Enqueue
    <3> QED
      BY <1>0, <3>1, GotoFacts DEF Places
  <2>3. CASE ~enabled
    <3>1. Goto(c, "admitted") /\ queue' = queue
      BY <2>3 DEF Reserve
    <3> QED
      BY <1>0, <3>1, GotoFacts DEF Places
  <2> QED
    BY <1>0, <2>1, <2>2, <2>3
<1>4. queue' \in Seq(Calls) /\ QueueOf(call', queue')
  <2>1. CASE call'[c].pc = "queued" /\ queue' = Append(queue, c)
    BY <1>0, <1>1, <1>3, <2>1, AppendedQueue DEF Shape
  <2>2. CASE queue' = queue
    <3>1. \A d \in Calls : call[d].pc = "queued" => call'[d].pc = "queued"
      BY <1>1, <1>3
    <3> QED
      BY <1>0, <2>2, <3>1, KeptQueue DEF Shape
  <2> QED
    BY <1>3, <2>1, <2>2
<1>5. CallsSound'
  BY <1>1, <1>3 DEF Shape, CallsSound, Sound, Same
<1>6. \A d \in Calls : Rests(d)
  BY <1>1, <1>3 DEF Rests, Stays, Same, Early
<1>7. \A e \in Executions : RunSound(e)'
  <2>1. \A d \in Calls : call[d].pc \in Attached => Same(d) /\ call'[d].pc \in Attached
    BY <1>1, <1>3 DEF Same, Attached
  <2> QED
    BY <1>2, <2>1, RunsKept
<1>8. TypeOK'
  BY <1>2, <1>3, <1>4 DEF Shape, TypeOK
<1> QED
  BY <1>2, <1>4, <1>5, <1>6, <1>7, <1>8
     DEF Shape, Quiet, Frame, TimersFrame, Tends, RowSame, EntriesDrop, QueueOf

\* After a step that leaves the registry alone or drops entries, and the runs
\* in it where they are, what remains to show is Shape.
LEMMA ShapeKept ==
  ASSUME Shape, TypeOK', CallsSound', QueueOf(call, queue)',
         \A e \in Executions : RunSound(e)', UNCHANGED stop
  PROVE  Shape'
BY DEF Shape

\* Call c ends and releases its own slot.
LEMMA OverReleased ==
  ASSUME Shape, NEW c \in Calls, call[c].pc # "queued", Release(Over(call, c), c)
  PROVE  /\ call' \in [Calls -> Call] /\ queue' \in Seq(Calls) /\ capacity' \in Int
         /\ QueueOf(call, queue)' /\ CallsSound'
         /\ call'[c] = Idle /\ \A d \in Calls : d # c => Stays(d)
<1>1. /\ Over(call, c) \in [Calls -> Call]
      /\ \A d \in Calls : Sound(Over(call, c)[d])
      /\ QueueOf(Over(call, c), queue)
      /\ Over(call, c)[c] = Idle /\ \A d \in Calls : d # c => Over(call, c)[d] = call[d]
  BY OverShape
<1>2. c \in 0..MaxCalls
  BY ExecutionAssumption DEF Calls
<1>3. /\ call' \in [Calls -> Call] /\ queue' \in Seq(Calls) /\ capacity' \in Int
      /\ QueueOf(call, queue)' /\ CallsSound'
      /\ \A d \in Calls : Passed(Over(call, c)[d], call'[d])
  BY <1>1, <1>2, ReleaseShape
<1>4. call'[c] = Idle
  BY <1>1, <1>3, IdleFacts
<1>5. \A d \in Calls : d # c => Stays(d)
  BY <1>1, <1>3, PassedRests
<1> QED
  BY <1>3, <1>4, <1>5

LEMMA ClaimStep ==
  ASSUME Shape, NEW c \in Calls, Claim(c)
  PROVE  Shape' /\ (Quiet \/ Proceeds(c))
<1> DEFINE e == call[c].exec
<1>1. call[c].pc = "admitted" /\ call[c].expect # "none" /\ e \in Executions
  BY DEF Claim, Shape, CallsSound, Sound
<1>2. UNCHANGED <<enabled, active, timer, listed, toRecover, booted, unstartable,
                  early, refused, stop, lost, removed, faults>>
  BY DEF Claim, tracker, recovery
<1>3. CASE row[e].status = call[c].expect
  <2> DEFINE place == IF call[c].expect = "new" THEN "claimed" ELSE "marked"
  <2>1. SetStatus(e, "running") /\ Goto(c, place) /\ UNCHANGED <<capacity, queue>>
    BY <1>3 DEF Claim
  <2>2. place \in Places /\ place \in {"claimed", "marked"}
    BY DEF Places
  <2> HIDE DEF place
  <2>3. /\ call' \in [Calls -> Call] /\ CallsSound' /\ QueueOf(call, queue)'
        /\ Same(c) /\ call'[c].pc = place
        /\ \A d \in Calls : d # c => call'[d] = call[d] /\ Rests(d)
    BY <1>1, <2>1, <2>2, GotoShape
  <2>4. /\ row' \in [Executions -> [status : Status, waits : Nat]]
        /\ row'[e].status = "running" /\ RowOnly(e)
    BY <1>1, <2>1, SetStatusFacts DEF Shape, Status
  <2>5. \A f \in Executions : RunSound(f)'
    <3>1. \A d \in Calls : call[d].pc \in Attached => Same(d) /\ call'[d].pc \in Attached
      BY <1>1, <2>3 DEF Same, Attached
    <3> QED
      BY <1>2, <3>1, RunsKept
  <2>6. TypeOK'
    BY <1>2, <2>1, <2>3, <2>4 DEF Shape, TypeOK
  <2>7. call'[c].pc \in Running \cup {"claimed"} /\ call[c].pc \in Start
        /\ call'[c].pc \notin {"cancelling", "parking", "executing"}
    BY <1>1, <2>2, <2>3 DEF Running, Start, Early
  <2>8. Proceeds(c)
    BY <1>1, <1>2, <1>3, <2>3, <2>4, <2>7 DEF Proceeds, Frame, TimersFrame, Tends, recovery
  <2> QED
    BY <1>2, <2>3, <2>5, <2>6, <2>8, ShapeKept
<1>4. CASE row[e].status # call[c].expect
  <2>1. Release(Over(call, c), c) /\ row' = row
    BY <1>4 DEF Claim
  <2>2. /\ call' \in [Calls -> Call] /\ queue' \in Seq(Calls) /\ capacity' \in Int
        /\ QueueOf(call, queue)' /\ CallsSound'
        /\ call'[c] = Idle /\ \A d \in Calls : d # c => Stays(d)
    BY <1>1, <2>1, OverReleased
  <2>3. \A d \in Calls : Rests(d)
    BY <1>1, <1>4, <2>2 DEF Rests, Left
  <2>4. \A f \in Executions : RunSound(f)'
    <3>1. \A d \in Calls : call[d].pc \in Attached => Same(d) /\ call'[d].pc \in Attached
      BY <1>1, <2>2 DEF Stays, Attached, Early
    <3> QED
      BY <1>2, <3>1, RunsKept
  <2>5. TypeOK'
    BY <1>2, <2>1, <2>2 DEF Shape, TypeOK
  <2>6. Quiet
    BY <1>2, <2>1, <2>3 DEF Quiet, Frame, TimersFrame, Tends, RowSame, EntriesDrop, recovery
  <2> QED
    BY <1>2, <2>2, <2>4, <2>5, <2>6, ShapeKept
<1> QED
  BY <1>3, <1>4

LEMMA MarkStartedStep ==
  ASSUME Shape, NEW c \in Calls, MarkStarted(c)
  PROVE  Shape' /\ Proceeds(c)
<1> DEFINE e == call[c].exec
<1>1. /\ (call[c].pc = "admitted" /\ call[c].expect = "none") \/ call[c].pc = "claimed"
      /\ e \in Executions
  BY DEF MarkStarted, Shape, CallsSound, Sound
<1>2. /\ UNCHANGED <<capacity, queue, enabled, active, timer, listed, toRecover,
                     booted, unstartable, early, refused, stop, lost, removed,
                     faults>>
      /\ SetStatus(e, "running") /\ Goto(c, "marked")
  BY DEF MarkStarted, slots, tracker, recovery
<1>3. /\ call' \in [Calls -> Call] /\ CallsSound' /\ QueueOf(call, queue)'
      /\ Same(c) /\ call'[c].pc = "marked"
      /\ \A d \in Calls : d # c => call'[d] = call[d] /\ Rests(d)
  BY <1>1, <1>2, GotoShape DEF Places
<1>4. /\ row' \in [Executions -> [status : Status, waits : Nat]]
      /\ row'[e].status = "running" /\ RowOnly(e)
  BY <1>1, <1>2, SetStatusFacts DEF Shape, Status
<1>5. \A f \in Executions : RunSound(f)'
  <2>1. \A d \in Calls : call[d].pc \in Attached => Same(d) /\ call'[d].pc \in Attached
    BY <1>1, <1>3 DEF Same, Attached
  <2> QED
    BY <1>2, <2>1, RunsKept
<1>6. TypeOK'
  BY <1>2, <1>3, <1>4 DEF Shape, TypeOK
<1>7. Pursues(c) /\ call[c].pc \in Start
  BY <1>1 DEF Pursues, Fresh, Start, Early
<1>8. Proceeds(c)
  BY <1>1, <1>2, <1>3, <1>4, <1>7 DEF Proceeds, Frame, TimersFrame, Tends, recovery, Running
<1> QED
  BY <1>2, <1>3, <1>5, <1>6, <1>8, ShapeKept

LEMMA RegisterStep ==
  ASSUME Shape, NEW c \in Calls, Register(c)
  PROVE  Shape' /\ Proceeds(c)
<1> DEFINE e == call[c].exec
           entry == [call |-> c, run |-> 0, status |-> "running"]
<1>1. call[c].pc = "marked" /\ e \in Executions
  BY DEF Register, Shape, CallsSound, Sound
<1>2. /\ UNCHANGED <<row, capacity, queue, enabled, timer, listed, toRecover, booted,
                     unstartable, early, refused, stop, lost, removed, faults>>
      /\ active' = [active EXCEPT ![e] = entry] /\ Goto(c, "registered")
  BY DEF Register, slots, tracker, recovery
<1>3. /\ call' \in [Calls -> Call] /\ CallsSound' /\ QueueOf(call, queue)'
      /\ Same(c) /\ call'[c].pc = "registered"
      /\ \A d \in Calls : d # c => call'[d] = call[d] /\ Rests(d)
  BY <1>1, <1>2, GotoShape DEF Places
<1>4. /\ active' \in [Executions -> [call : 0..MaxCalls, run : 0..MaxCalls,
                                     status : {"none", "running", "waiting"}]]
      /\ EntriesDrop
  <2>1. c \in 0..MaxCalls /\ 0 \in 0..MaxCalls
    BY ExecutionAssumption DEF Calls
  <2> QED
    BY <1>1, <1>2, <2>1 DEF Shape, TypeOK, EntriesDrop
<1>5. \A f \in Executions : RunSound(f)'
  <2>1. \A d \in Calls : call[d].pc \in Attached => Same(d) /\ call'[d].pc \in Attached
    BY <1>1, <1>3 DEF Same, Attached
  <2>2. \A f \in Executions : active'[f].run = 0 \/ active'[f].run = active[f].run
    BY <1>4 DEF EntriesDrop
  <2> QED
    BY <2>1, <2>2, RunsKept
<1>6. TypeOK'
  BY <1>2, <1>3, <1>4 DEF Shape, TypeOK
<1>7. Proceeds(c)
  BY <1>1, <1>2, <1>3, <1>4
     DEF Proceeds, Frame, TimersFrame, Tends, recovery, Running, Start, RowOnly, EntriesDrop
<1> QED
  BY <1>2, <1>3, <1>5, <1>6, <1>7, ShapeKept

LEMMA MarkRunningStep ==
  ASSUME Shape, NEW c \in Calls, MarkRunning(c)
  PROVE  Shape' /\ Proceeds(c)
<1> DEFINE e == call[c].exec
<1>1. call[c].pc = "registered" /\ e \in Executions
  BY DEF MarkRunning, Shape, CallsSound, Sound
<1>2. /\ UNCHANGED <<capacity, queue, enabled, active, timer, listed, toRecover,
                     booted, unstartable, early, refused, stop, lost, removed,
                     faults>>
      /\ SetStatus(e, "running") /\ Goto(c, "starting")
  BY DEF MarkRunning, slots, tracker, recovery
<1>3. /\ call' \in [Calls -> Call] /\ CallsSound' /\ QueueOf(call, queue)'
      /\ Same(c) /\ call'[c].pc = "starting"
      /\ \A d \in Calls : d # c => call'[d] = call[d] /\ Rests(d)
  BY <1>1, <1>2, GotoShape DEF Places
<1>4. /\ row' \in [Executions -> [status : Status, waits : Nat]]
      /\ row'[e].status = "running" /\ RowOnly(e)
  BY <1>1, <1>2, SetStatusFacts DEF Shape, Status
<1>5. \A f \in Executions : RunSound(f)'
  <2>1. \A d \in Calls : call[d].pc \in Attached => Same(d) /\ call'[d].pc \in Attached
    BY <1>1, <1>3 DEF Same, Attached
  <2> QED
    BY <1>2, <2>1, RunsKept
<1>6. TypeOK'
  BY <1>2, <1>3, <1>4 DEF Shape, TypeOK
<1>7. Pursues(c) /\ call[c].pc \in Start
  BY <1>1 DEF Pursues, Running, Start
<1>8. Proceeds(c)
  BY <1>1, <1>2, <1>3, <1>4, <1>7 DEF Proceeds, Frame, TimersFrame, Tends, recovery, Running
<1> QED
  BY <1>2, <1>3, <1>5, <1>6, <1>8, ShapeKept

\* What a rejected call adds to the executions that could not be run.
LEMMA RejectedFacts ==
  ASSUME NEW c \in Calls
  PROVE  /\ unstartable \subseteq Rejected(c)
         /\ \A e \in Rejected(c) :
              e \in unstartable \/ (e = call[c].exec /\ call[c].expect = "new")
         /\ call[c].expect = "new" => call[c].exec \in Rejected(c)
         /\ call[c].pc \in Start => \A e \in Rejected(c) :
              e \in unstartable \/ (e = call[c].exec /\ First(c))
BY DEF Rejected, First

LEMMA LaunchStep ==
  ASSUME Shape, NEW c \in Calls, Launch(c)
  PROVE  Shape' /\ Proceeds(c)
<1> DEFINE e == call[c].exec
           place == IF active[e] = NoEntry THEN "stray" ELSE "executing"
<1>1. call[c].pc = "starting" /\ e \in Executions
  BY DEF Launch, Shape, CallsSound, Sound
<1>2. /\ UNCHANGED <<row, capacity, queue, enabled, timer, listed, toRecover, booted,
                     early, refused, stop, lost, removed, faults>>
      /\ Goto(c, place)
      /\ unstartable' = unstartable \/ (place = "stray" /\ unstartable' = Rejected(c))
  BY DEF Launch, slots, tracker
<1>3. place \in {"stray", "executing"} /\ (active[e] # NoEntry => place = "executing")
  OBVIOUS
<1> HIDE DEF place
<1>4. /\ active' \in [Executions -> [call : 0..MaxCalls, run : 0..MaxCalls,
                                     status : {"none", "running", "waiting"}]]
      /\ \A f \in Executions : f # e => active'[f] = active[f]
      /\ active'[e] = active[e] \/ (active'[e].run = c /\ place = "executing")
  <2>1. c \in 0..MaxCalls
    BY ExecutionAssumption DEF Calls
  <2>0. active \in [Executions -> [call : 0..MaxCalls, run : 0..MaxCalls,
                                   status : {"none", "running", "waiting"}]]
    BY DEF Shape, TypeOK
  <2>2. CASE active[e] = NoEntry
    <3>1. active' = active
      BY <2>2 DEF Launch
    <3> QED
      BY <2>0, <3>1
  <2>3. CASE active[e] # NoEntry
    <3>1. active' = [active EXCEPT ![e].run = c] /\ place = "executing"
      BY <1>3, <2>3 DEF Launch
    <3> QED
      BY <1>1, <2>0, <2>1, <3>1
  <2> QED
    BY <2>2, <2>3
<1>5. /\ call' \in [Calls -> Call] /\ CallsSound' /\ QueueOf(call, queue)'
      /\ Same(c) /\ call'[c].pc = place
      /\ \A d \in Calls : d # c => call'[d] = call[d] /\ Rests(d)
  BY <1>1, <1>2, <1>3, GotoShape DEF Places
<1>6. ASSUME NEW f \in Executions, active'[f].run # 0
      PROVE  call'[active'[f].run].exec = f /\ call'[active'[f].run].pc \in Attached
  <2>1. CASE active'[f] = active[f]
    <3>1. /\ call[active[f].run].exec = f /\ call[active[f].run].pc \in Attached
          /\ active[f].run \in Calls
      BY <1>6, <2>1, ExecutionAssumption DEF Shape, RunSound, TypeOK, Calls
    <3>2. active[f].run # c
      BY <1>1, <3>1 DEF Attached
    <3> QED
      BY <1>5, <2>1, <3>1, <3>2
  <2>2. CASE f = e /\ active'[e].run = c /\ place = "executing"
    BY <1>5, <2>2 DEF Same, Attached
  <2> QED
    BY <1>4, <2>1, <2>2
<1>7. \A f \in Executions : RunSound(f)'
  BY <1>6 DEF RunSound, Attached
<1>8. TypeOK' /\ Tends
  <2>1. Tends /\ unstartable' \subseteq Executions
    <3>1. CASE unstartable' = unstartable
      BY <1>2, <3>1 DEF Tends, Shape, TypeOK
    <3>2. CASE place = "stray" /\ unstartable' = Rejected(c)
      BY <1>1, <1>2, <1>5, <3>2, RejectedFacts DEF Tends, Start, Shape, TypeOK
    <3> QED
      BY <1>2, <3>1, <3>2
  <2> QED
    BY <1>2, <1>4, <1>5, <2>1 DEF Shape, TypeOK
<1>9. Proceeds(c)
  BY <1>1, <1>2, <1>3, <1>4, <1>5, <1>8
     DEF Proceeds, Frame, TimersFrame, Running, RowOnly, Start
<1> QED
  BY <1>2, <1>5, <1>7, <1>8, <1>9, ShapeKept

LEMMA PutToWaitStep ==
  ASSUME Shape, NEW c \in Calls, PutToWait(c)
  PROVE  Shape' /\ Proceeds(c)
<1> DEFINE e == call[c].exec
<1>1. call[c].pc = "executing" /\ e \in Executions
  BY DEF PutToWait, Shape, CallsSound, Sound
<1>2. /\ UNCHANGED <<row, capacity, queue, enabled, timer, listed, toRecover, booted,
                     unstartable, early, refused, stop, lost, removed, faults>>
      /\ Goto(c, "parking") /\ active' = [active EXCEPT ![e].status = "waiting"]
  BY DEF PutToWait, slots, tracker, recovery
<1>3. /\ call' \in [Calls -> Call] /\ CallsSound' /\ QueueOf(call, queue)'
      /\ Same(c) /\ call'[c].pc = "parking"
      /\ \A d \in Calls : d # c => call'[d] = call[d] /\ Rests(d)
  BY <1>1, <1>2, GotoShape DEF Places
<1>4. /\ active' \in [Executions -> [call : 0..MaxCalls, run : 0..MaxCalls,
                                     status : {"none", "running", "waiting"}]]
      /\ \A f \in Executions : f # e => active'[f] = active[f]
      /\ active'[e].run = active[e].run /\ active'[e].status = "waiting"
  BY <1>1, <1>2 DEF Shape, TypeOK
<1>5. \A f \in Executions : RunSound(f)'
  <2>1. \A d \in Calls : call[d].pc \in Attached => Same(d) /\ call'[d].pc \in Attached
    BY <1>1, <1>3 DEF Same, Attached
  <2>2. \A f \in Executions : active'[f].run = active[f].run
    BY <1>4
  <2> QED
    BY <2>1, <2>2, RunsKept
<1>6. TypeOK'
  BY <1>2, <1>3, <1>4 DEF Shape, TypeOK
<1>7. Proceeds(c)
  BY <1>1, <1>2, <1>3, <1>4
     DEF Proceeds, Frame, TimersFrame, Tends, recovery, Running, Start, Early, RowOnly
<1> QED
  BY <1>2, <1>3, <1>5, <1>6, <1>7, ShapeKept

\* A call that is over without its slot being released: the slot is lost.
LEMMA LostType ==
  ASSUME TypeOK, NEW c \in Calls, CountLost(call, c) \/ UNCHANGED lost
  PROVE  lost' \in Nat
BY DEF TypeOK, CountLost

LEMMA SaveStep ==
  ASSUME Shape, NEW c \in Calls, NEW s, Save(c, s)
  PROVE  Shape' /\ Finishes(c)
<1> DEFINE e == call[c].exec
<1>1. /\ call[c].pc \in {"registered", "starting", "executing", "parking", "stray"}
      /\ s \in {"success", "error", "waiting"}
      /\ call[c].pc # "parking" => s # "waiting"
  BY DEF Save, Outcomes
<1>2. e \in Executions
  BY <1>1 DEF Shape, CallsSound, Sound
<1>3. /\ UNCHANGED <<capacity, queue, enabled, removed, active, timer, listed,
                     toRecover, booted, unstartable, early, refused, stop, faults>>
      /\ Saved(e, s)
  BY DEF Save, tracker, recovery
<1>4. /\ row' \in [Executions -> [status : Status, waits : Nat]]
      /\ row'[e].status = IF row[e].status = "canceled" THEN "canceled" ELSE s
      /\ RowOnly(e)
  BY <1>1, <1>2, <1>3, SavedFacts DEF Shape, Ended
<1>5. /\ call' \in [Calls -> Call] /\ CallsSound' /\ QueueOf(call, queue)'
      /\ Left(c) \/ (Same(c) /\ call[c].pc # "stray" /\ call'[c].pc = "saved")
      /\ call[c].pc # "stray" => Same(c) /\ call'[c].pc = "saved"
      /\ \A d \in Calls : d # c => call'[d] = call[d] /\ Rests(d)
      /\ lost' \in Nat
  <2>1. CASE call[c].pc = "stray"
    <3>1. call' = Over(call, c) /\ CountLost(call, c)
      BY <2>1 DEF Save
    <3>2. /\ call' \in [Calls -> Call] /\ \A d \in Calls : Sound(call'[d])
          /\ QueueOf(call', queue') /\ call'[c] = Idle
          /\ \A d \in Calls : d # c => call'[d] = call[d]
      BY <1>3, <2>1, <3>1, OverShape
    <3>3. Left(c) /\ \A d \in Calls : d # c => Rests(d)
      BY <2>1, <3>2 DEF Left, Rests, Stays, Same, Early
    <3> QED
      BY <2>1, <3>1, <3>2, <3>3, LostType DEF CallsSound, QueueOf, Shape
  <2>2. CASE call[c].pc # "stray"
    <3>1. Goto(c, "saved") /\ UNCHANGED lost
      BY <2>2 DEF Save
    <3> QED
      BY <1>1, <1>3, <2>2, <3>1, GotoShape, LostType DEF Places, Shape
  <2> QED
    BY <2>1, <2>2
<1>6. \A f \in Executions : RunSound(f)'
  <2>1. \A d \in Calls : call[d].pc \in Attached => Same(d) /\ call'[d].pc \in Attached
    BY <1>1, <1>5 DEF Same, Attached
  <2> QED
    BY <1>3, <2>1, RunsKept
<1>7. TypeOK'
  BY <1>3, <1>4, <1>5 DEF Shape, TypeOK
<1>8. Finishes(c)
  BY <1>1, <1>3, <1>4, <1>5 DEF Finishes, Frame, TimersFrame, Tends, recovery
<1> QED
  BY <1>3, <1>5, <1>6, <1>7, <1>8, ShapeKept

LEMMA EndCancelledStep ==
  ASSUME Shape, NEW c \in Calls, EndCancelled(c)
  PROVE  Shape' /\ Finishes(c)
<1> DEFINE e == call[c].exec
<1>1. call[c].pc = "cancelling" /\ e \in Executions
  BY DEF EndCancelled, Shape, CallsSound, Sound
<1>2. /\ UNCHANGED <<capacity, queue, enabled, removed, active, timer, listed,
                     toRecover, booted, unstartable, early, refused, stop, faults>>
      /\ Saved(e, "canceled") /\ call' = Over(call, c) /\ CountLost(call, c)
  BY DEF EndCancelled, tracker, recovery
<1>3. /\ row' \in [Executions -> [status : Status, waits : Nat]]
      /\ row'[e].status = "canceled" /\ RowOnly(e)
  BY <1>1, <1>2, SavedFacts DEF Shape, Ended
<1>4. /\ call' \in [Calls -> Call] /\ \A d \in Calls : Sound(call'[d])
      /\ QueueOf(call', queue') /\ call'[c] = Idle
      /\ \A d \in Calls : d # c => call'[d] = call[d]
  BY <1>1, <1>2, OverShape
<1>5. Left(c) /\ \A d \in Calls : d # c => Rests(d)
  BY <1>1, <1>4 DEF Left, Rests, Stays, Same, Early
<1>6. \A f \in Executions : RunSound(f)'
  <2>1. \A d \in Calls : call[d].pc \in Attached => Same(d) /\ call'[d].pc \in Attached
    BY <1>1, <1>4 DEF Same, Attached
  <2> QED
    BY <1>2, <2>1, RunsKept
<1>7. TypeOK'
  BY <1>2, <1>3, <1>4, LostType DEF Shape, TypeOK
<1>8. Finishes(c)
  BY <1>1, <1>2, <1>3, <1>5 DEF Finishes, Frame, TimersFrame, Tends, recovery
<1>9. CallsSound' /\ QueueOf(call, queue)'
  BY <1>4 DEF CallsSound, QueueOf
<1> QED
  BY <1>2, <1>6, <1>7, <1>8, <1>9, ShapeKept

\* An entry that settles goes, or waits without a run; its slot is released, and
\* its call ends if it was stuck.
LEMMA SettleFacts ==
  ASSUME Shape, NEW e \in Executions, NEW calls \in [Calls -> Call], Settle(e, calls),
         \A d \in Calls : Sound(calls[d]), QueueOf(calls, queue),
         \A d \in Calls : call[d].pc = "stuck" => calls[d] = call[d]
  PROVE  /\ call' \in [Calls -> Call] /\ queue' \in Seq(Calls) /\ capacity' \in Int
         /\ QueueOf(call, queue)' /\ CallsSound'
         /\ \A d \in Calls : \/ Passed(calls[d], call'[d])
                             \/ call[d].pc = "stuck" /\ call'[d] = Idle
         /\ active' \in [Executions -> [call : 0..MaxCalls, run : 0..MaxCalls,
                                        status : {"none", "running", "waiting"}]]
         /\ active'[e].run = 0 /\ EntriesDrop
<1> DEFINE c == active[e].call
           over == IF c # 0 /\ call[c].pc = "stuck" THEN Over(calls, c) ELSE calls
<1>1. /\ active \in [Executions -> [call : 0..MaxCalls, run : 0..MaxCalls,
                                   status : {"none", "running", "waiting"}]]
      /\ 0 \in 0..MaxCalls /\ queue \in Seq(Calls)
  BY ExecutionAssumption DEF Shape, TypeOK
<1>2. Release(over, c) /\ c \in 0..MaxCalls
  BY <1>1 DEF Settle
<1>3. /\ over \in [Calls -> Call] /\ \A d \in Calls : Sound(over[d])
      /\ QueueOf(over, queue)
      /\ \A d \in Calls : over[d] = calls[d] \/ (call[d].pc = "stuck" /\ over[d] = Idle)
  <2>1. CASE c # 0 /\ call[c].pc = "stuck"
    <3>1. c \in Calls /\ calls[c].pc = "stuck"
      BY <1>2, <2>1, ExecutionAssumption DEF Calls
    <3>2. over = Over(calls, c)
      BY <2>1
    <3> HIDE DEF over, c
    <3>3. /\ over \in [Calls -> Call] /\ over[c] = Idle
          /\ \A d \in Calls : d # c => over[d] = calls[d]
      BY <3>1, <3>2, OverFacts
    <3>4. Sound(Idle)
      BY IdleFacts DEF Sound
    <3>5. \A d \in Calls : calls[d].pc = "queued" => over[d].pc = "queued"
      BY <3>1, <3>3
    <3>6. QueueOf(over, queue)
      BY <1>1, <3>5, KeptQueue
    <3> QED
      BY <2>1, <3>3, <3>4, <3>6
  <2>2. CASE ~(c # 0 /\ call[c].pc = "stuck")
    BY <2>2
  <2> QED
    BY <2>1, <2>2
<1>4. /\ active' \in [Executions -> [call : 0..MaxCalls, run : 0..MaxCalls,
                                     status : {"none", "running", "waiting"}]]
      /\ active'[e].run = 0 /\ \A f \in Executions : f # e => active'[f] = active[f]
  <2> DEFINE entry == IF active[e].status = "waiting"
                        THEN [active[e] EXCEPT !.call = 0, !.run = 0] ELSE NoEntry
  <2>1. active' = [active EXCEPT ![e] = entry]
    BY <1>1 DEF Settle
  <2>2. /\ entry \in [call : 0..MaxCalls, run : 0..MaxCalls,
                      status : {"none", "running", "waiting"}]
        /\ entry.run = 0
    BY <1>1 DEF NoEntry
  <2> HIDE DEF entry
  <2> QED
    BY <1>1, <2>1, <2>2
<1> HIDE DEF over, c
<1>5. /\ call' \in [Calls -> Call] /\ queue' \in Seq(Calls) /\ capacity' \in Int
      /\ QueueOf(call, queue)' /\ CallsSound'
      /\ \A d \in Calls : Passed(over[d], call'[d])
  BY <1>2, <1>3, ReleaseShape
<1>6. \A d \in Calls : \/ Passed(calls[d], call'[d])
                       \/ call[d].pc = "stuck" /\ call'[d] = Idle
  BY <1>3, <1>5, IdleFacts
<1> QED
  BY <1>4, <1>5, <1>6 DEF EntriesDrop

LEMMA FinalizeStep ==
  ASSUME Shape, NEW c \in Calls, Finalize(c)
  PROVE  Shape' /\ Quiet
<1> DEFINE e == call[c].exec
<1>1. call[c].pc = "saved" /\ e \in Executions
  BY DEF Finalize, Shape, CallsSound, Sound
<1>2. /\ UNCHANGED <<row, enabled, removed, timer, listed, toRecover, booted,
                     unstartable, early, refused, stop, faults>>
      /\ lost' \in Nat
  <2>1. CountLost(call, c) \/ UNCHANGED lost
    BY DEF Finalize
  <2> QED
    BY <2>1, LostType DEF Finalize, tracker, recovery, Shape
<1>3. /\ Over(call, c) \in [Calls -> Call]
      /\ \A d \in Calls : Sound(Over(call, c)[d])
      /\ QueueOf(Over(call, c), queue)
      /\ Over(call, c)[c] = Idle /\ \A d \in Calls : d # c => Over(call, c)[d] = call[d]
  BY <1>1, OverShape
<1>4. /\ call' \in [Calls -> Call] /\ queue' \in Seq(Calls) /\ capacity' \in Int
      /\ QueueOf(call, queue)' /\ CallsSound'
      /\ active' \in [Executions -> [call : 0..MaxCalls, run : 0..MaxCalls,
                                     status : {"none", "running", "waiting"}]]
      /\ active'[e].run = 0 /\ EntriesDrop
      /\ call'[c] = Idle
      /\ \A d \in Calls : d # c => Stays(d) \/ (call[d].pc = "stuck" /\ call'[d] = Idle)
  <2>1. CASE active[e] = NoEntry
    <3>1. call' = Over(call, c) /\ UNCHANGED <<active, capacity, queue>>
      BY <2>1 DEF Finalize
    <3>2. QueueOf(call, queue)' /\ CallsSound'
      BY <1>3, <3>1 DEF QueueOf, CallsSound
    <3>3. \A d \in Calls : d # c => Stays(d)
      BY <1>3, <3>1 DEF Stays, Same
    <3> QED
      BY <1>3, <2>1, <3>1, <3>2, <3>3 DEF Shape, TypeOK, EntriesDrop, NoEntry
  <2>2. CASE active[e] # NoEntry
    <3>1. Settle(e, Over(call, c))
      BY <2>2 DEF Finalize
    <3>2. /\ call' \in [Calls -> Call] /\ queue' \in Seq(Calls) /\ capacity' \in Int
          /\ QueueOf(call, queue)' /\ CallsSound'
          /\ \A d \in Calls : \/ Passed(Over(call, c)[d], call'[d])
                              \/ call[d].pc = "stuck" /\ call'[d] = Idle
          /\ active' \in [Executions -> [call : 0..MaxCalls, run : 0..MaxCalls,
                                         status : {"none", "running", "waiting"}]]
          /\ active'[e].run = 0 /\ EntriesDrop
      BY <1>1, <1>3, <3>1, SettleFacts
    <3>3. call'[c] = Idle
      BY <1>3, <3>2, IdleFacts
    <3>4. \A d \in Calls : d # c =>
            Stays(d) \/ (call[d].pc = "stuck" /\ call'[d] = Idle)
      BY <1>3, <3>2, PassedRests
    <3> QED
      BY <3>2, <3>3, <3>4
  <2> QED
    BY <2>1, <2>2
<1>5. \A d \in Calls : Rests(d)
  BY <1>1, <1>4 DEF Rests, Left, Early
<1>6. \A f \in Executions : RunSound(f)'
  <2>1. \A f \in Executions : active'[f].run = 0 \/ active'[f].run = active[f].run
    BY <1>4 DEF EntriesDrop
  <2>2. \A d \in Calls : call[d].pc \in Attached /\ active'[call[d].exec].run = d =>
          Same(d) /\ call'[d].pc \in Attached
    <3>1. c # 0
      BY ExecutionAssumption DEF Calls
    <3> QED
      BY <1>4, <3>1 DEF Stays, Attached, Early
  <2> QED
    BY <2>1, <2>2, RunsKept
<1>7. TypeOK'
  BY <1>2, <1>4 DEF Shape, TypeOK
<1>8. Quiet
  BY <1>2, <1>4, <1>5 DEF Quiet, Frame, TimersFrame, Tends, RowSame, recovery
<1> QED
  BY <1>2, <1>4, <1>6, <1>7, <1>8, ShapeKept

\* A stop of execution e tells its run, or only drops its entry.
LEMMA StopEntryFacts ==
  ASSUME Shape, NEW e \in Executions, StopEntry(e)
  PROVE  /\ call' \in [Calls -> Call] /\ queue' \in Seq(Calls) /\ capacity' \in Int
         /\ QueueOf(call, queue)' /\ CallsSound'
         /\ active' \in [Executions -> [call : 0..MaxCalls, run : 0..MaxCalls,
                                        status : {"none", "running", "waiting"}]]
         /\ EntriesDrop
         /\ \A f \in Executions : RunSound(f)'
         /\ (\A d \in Calls : Rests(d)) \/ \E c \in Calls : ToldToStop(c)
<1>1. /\ active \in [Executions -> [call : 0..MaxCalls, run : 0..MaxCalls,
                                   status : {"none", "running", "waiting"}]]
      /\ call \in [Calls -> Call] /\ queue \in Seq(Calls) /\ capacity \in Int
      /\ QueueOf(call, queue) /\ CallsSound
  BY DEF Shape, TypeOK
<1>2. ASSUME call' = call, UNCHANGED <<capacity, queue>>,
             active' = active \/ active' = [active EXCEPT ![e] = NoEntry]
      PROVE  /\ active' \in [Executions -> [call : 0..MaxCalls, run : 0..MaxCalls,
                                            status : {"none", "running", "waiting"}]]
             /\ EntriesDrop
             /\ \A f \in Executions : RunSound(f)'
             /\ \A d \in Calls : Stays(d)
             /\ QueueOf(call, queue)' /\ CallsSound'
  <2>1. NoEntry \in [call : 0..MaxCalls, run : 0..MaxCalls,
                     status : {"none", "running", "waiting"}] /\ NoEntry.run = 0
    BY ExecutionAssumption DEF NoEntry
  <2>2. /\ active' \in [Executions -> [call : 0..MaxCalls, run : 0..MaxCalls,
                                       status : {"none", "running", "waiting"}]]
        /\ \A f \in Executions : active'[f] = active[f] \/ active'[f].run = 0
    BY <1>1, <1>2, <2>1
  <2>3. \A d \in Calls : Stays(d) /\ Same(d) /\ call'[d].pc = call[d].pc
    BY <1>2 DEF Stays, Same
  <2>4. \A f \in Executions : RunSound(f)'
    BY <2>2, <2>3, RunsKept
  <2>5. QueueOf(call, queue)' /\ CallsSound'
    BY <1>1, <1>2 DEF QueueOf, CallsSound
  <2> QED
    BY <2>2, <2>3, <2>4, <2>5 DEF EntriesDrop
<1>3. CASE active[e] = NoEntry
  BY <1>1, <1>2, <1>3 DEF StopEntry, Rests
<1>4. CASE active[e] # NoEntry /\ active[e].status = "waiting"
  BY <1>1, <1>2, <1>4 DEF StopEntry, Rests
<1>5. CASE active[e] # NoEntry /\ active[e].status # "waiting"
  <2> DEFINE run == active[e].run
             told == IF run # 0 /\ call[run].pc \in Attached
                       THEN [call EXCEPT ![run].pc = "cancelling"] ELSE call
  <2>1. Settle(e, told)
    BY <1>5 DEF StopEntry, Attached
  <2>2. run # 0 => run \in Calls /\ call[run].exec = e /\ call[run].pc \in Attached
    BY <1>1, ExecutionAssumption DEF Shape, RunSound, Calls
  <2>3. /\ told \in [Calls -> Call]
        /\ \A d \in Calls : d # run => told[d] = call[d]
        /\ run # 0 => /\ told[run].pc = "cancelling" /\ told[run].exec = call[run].exec
                      /\ told[run].expect = call[run].expect
    <3>1. CASE run = 0
      BY <1>1, <3>1
    <3>2. CASE run # 0
      <4>1. told = [call EXCEPT ![run].pc = "cancelling"] /\ run \in Calls
        BY <2>2, <3>2
      <4> HIDE DEF told, run
      <4> QED
        BY <1>1, <4>1 DEF Call, Places
    <3> QED
      BY <3>1, <3>2
  <2> HIDE DEF told
  <2>0. 0 \notin Calls
    BY ExecutionAssumption DEF Calls
  <2>4. ASSUME NEW d \in Calls PROVE Sound(told[d])
    <3>1. CASE d = run
      BY <2>0, <2>2, <2>3, <3>1 DEF Sound
    <3>2. CASE d # run
      BY <1>1, <2>3, <3>2 DEF CallsSound
    <3> QED
      BY <3>1, <3>2
  <2>5. QueueOf(told, queue)
    <3>1. \A d \in Calls : call[d].pc = "queued" => told[d].pc = "queued"
      BY <2>0, <2>2, <2>3 DEF Attached
    <3> QED
      BY <1>1, <3>1, KeptQueue
  <2>6. /\ call' \in [Calls -> Call] /\ queue' \in Seq(Calls) /\ capacity' \in Int
        /\ QueueOf(call, queue)' /\ CallsSound'
        /\ \A d \in Calls : \/ Passed(told[d], call'[d])
                            \/ call[d].pc = "stuck" /\ call'[d] = Idle
        /\ active' \in [Executions -> [call : 0..MaxCalls, run : 0..MaxCalls,
                                       status : {"none", "running", "waiting"}]]
        /\ active'[e].run = 0 /\ EntriesDrop
    <3>1. \A d \in Calls : call[d].pc = "stuck" => told[d] = call[d]
      BY <2>0, <2>2, <2>3 DEF Attached
    <3> QED
      BY <2>1, <2>3, <2>4, <2>5, <3>1, SettleFacts
  <2>7. \A d \in Calls : d # run =>
          Stays(d) \/ (call[d].pc = "stuck" /\ call'[d] = Idle)
    BY <2>3, <2>6, PassedRests
  <2>11. \A d \in Calls : d # run => Rests(d)
    BY <2>7 DEF Rests, Left, Early
  <2>8. run # 0 => ToldToStop(run)
    <3>1. run # 0 => Passed(told[run], call'[run])
      BY <2>2, <2>6 DEF Attached
    <3> QED
      BY <1>5, <2>2, <2>3, <2>6, <2>11, <3>1 DEF ToldToStop, Same, Passed
  <2>9. \A f \in Executions : RunSound(f)'
    <3>1. \A f \in Executions : active'[f].run = 0 \/ active'[f].run = active[f].run
      BY <2>6 DEF EntriesDrop
    <3>2. \A d \in Calls : call[d].pc \in Attached /\ active'[call[d].exec].run = d =>
            Same(d) /\ call'[d].pc \in Attached
      BY <2>0, <2>2, <2>6, <2>7 DEF Stays, Attached, Early
    <3> QED
      BY <3>1, <3>2, RunsKept
  <2>10. (\A d \in Calls : Rests(d)) \/ \E c \in Calls : ToldToStop(c)
    <3>1. CASE run = 0
      BY <2>0, <2>11, <3>1
    <3>2. CASE run # 0
      BY <2>2, <2>8, <3>2
    <3> QED
      BY <3>1, <3>2
  <2> QED
    BY <2>6, <2>9, <2>10
<1> QED
  BY <1>2, <1>3, <1>4, <1>5 DEF Rests

LEMMA TimeoutStep ==
  ASSUME Shape, NEW c \in Calls, Timeout(c)
  PROVE  Shape' /\ (Quiet \/ \E d \in Calls : Told(d))
<1> DEFINE e == call[c].exec
<1>1. e \in Executions
  BY DEF Timeout, Shape, CallsSound, Sound
<1>2. /\ UNCHANGED <<row, enabled, lost, removed, timer, listed, toRecover, booted,
                     unstartable, early, refused, stop>>
      /\ faults' \in Nat /\ StopEntry(e)
  BY DEF Timeout, Fault, tracker, recovery, Shape, TypeOK
<1>3. /\ call' \in [Calls -> Call] /\ queue' \in Seq(Calls) /\ capacity' \in Int
      /\ QueueOf(call, queue)' /\ CallsSound'
      /\ active' \in [Executions -> [call : 0..MaxCalls, run : 0..MaxCalls,
                                     status : {"none", "running", "waiting"}]]
      /\ EntriesDrop
      /\ \A f \in Executions : RunSound(f)'
      /\ (\A d \in Calls : Rests(d)) \/ \E d \in Calls : ToldToStop(d)
  BY <1>1, <1>2, StopEntryFacts
<1>4. TypeOK'
  BY <1>2, <1>3 DEF Shape, TypeOK
<1>5. Frame /\ RowSame /\ Tends
  BY <1>2 DEF Frame, TimersFrame, Tends, RowSame
<1>6. Quiet \/ \E d \in Calls : Told(d)
  BY <1>3, <1>5 DEF Quiet, Told, Rests
<1> QED
  BY <1>2, <1>3, <1>4, <1>6, ShapeKept

\* The write of the row fails: the call is over, and its slot released.
LEMMA WriteFailsStep ==
  ASSUME Shape, NEW c \in Calls, WriteFails(c)
  PROVE  Shape' /\ Quiet
<1> DEFINE e == call[c].exec
<1>1. call[c].pc \in {"admitted", "claimed"} /\ e \in Executions
  BY DEF WriteFails, Shape, CallsSound, Sound
<1>2. /\ UNCHANGED <<row, enabled, active, timer, listed, toRecover, booted, early, stop,
                     lost, removed>>
      /\ faults' \in Nat /\ Release(Over(call, c), c) /\ unstartable' = Rejected(c)
      /\ refused \subseteq refused' /\ refused' \subseteq Executions
      /\ call[c].expect # "new" => e \in refused'
  BY <1>1 DEF WriteFails, Fault, tracker, Shape, TypeOK
<1>3. /\ call' \in [Calls -> Call] /\ queue' \in Seq(Calls) /\ capacity' \in Int
      /\ QueueOf(call, queue)' /\ CallsSound'
      /\ call'[c] = Idle /\ \A d \in Calls : d # c => Stays(d)
  BY <1>1, <1>2, OverReleased
<1>4. Tends /\ unstartable' \subseteq Executions
      /\ (call[c].expect = "new" => e \in unstartable')
  BY <1>1, <1>2, <1>3, RejectedFacts DEF Tends, Start, Early, Shape, TypeOK
<1>5. \A d \in Calls : Rests(d)
  BY <1>2, <1>3, <1>4 DEF Rests, Left
<1>6. \A f \in Executions : RunSound(f)'
  <2>1. \A d \in Calls : call[d].pc \in Attached => Same(d) /\ call'[d].pc \in Attached
    BY <1>1, <1>3 DEF Stays, Attached, Early
  <2> QED
    BY <1>2, <2>1, RunsKept
<1>7. TypeOK'
  BY <1>2, <1>3, <1>4 DEF Shape, TypeOK
<1>8. Quiet
  BY <1>2, <1>4, <1>5 DEF Quiet, Frame, TimersFrame, RowSame, EntriesDrop
<1> QED
  BY <1>2, <1>3, <1>6, <1>7, <1>8, ShapeKept

\* A call that is rejected before its run starts leaves its entry, or is over.
LEMMA StickStep ==
  ASSUME Shape, NEW c \in Calls, Stick(c)
  PROVE  Shape' /\ Quiet
<1> DEFINE e == call[c].exec
<1>1. call[c].pc \in {"registered", "starting"} /\ e \in Executions
  BY DEF Stick, Shape, CallsSound, Sound
<1>2. /\ UNCHANGED <<row, capacity, queue, enabled, removed, active, timer, listed,
                     toRecover, booted, early, refused, stop>>
      /\ faults' \in Nat /\ unstartable' = Rejected(c)
  BY DEF Stick, Fault, tracker, Shape, TypeOK
<1>3. /\ call' \in [Calls -> Call] /\ CallsSound' /\ QueueOf(call, queue)'
      /\ Left(c) \/ Sticks(c)
      /\ \A d \in Calls : d # c => call'[d] = call[d] /\ Rests(d)
      /\ lost' \in Nat
  <2>1. CASE Goto(c, "stuck") /\ UNCHANGED lost
    <3>1. lost' \in Nat
      BY <2>1 DEF Shape, TypeOK
    <3> QED
      BY <1>1, <1>2, <2>1, <3>1, GotoShape DEF Places, Sticks
  <2>2. CASE call' = Over(call, c) /\ CountLost(call, c)
    <3>1. /\ call' \in [Calls -> Call] /\ \A d \in Calls : Sound(call'[d])
          /\ QueueOf(call', queue') /\ call'[c] = Idle
          /\ \A d \in Calls : d # c => call'[d] = call[d]
      BY <1>1, <1>2, <2>2, OverShape
    <3>2. Left(c) /\ \A d \in Calls : d # c => Rests(d)
      BY <1>1, <3>1 DEF Left, Rests, Stays, Same, Early
    <3> QED
      BY <2>2, <3>1, <3>2, LostType DEF CallsSound, QueueOf, Shape
  <2> QED
    BY <2>1, <2>2 DEF Stick
<1>4. Tends /\ unstartable' \subseteq Executions
  BY <1>1, <1>2, <1>3, RejectedFacts DEF Tends, Start, Left, Sticks, Shape, TypeOK
<1>5. \A d \in Calls : Rests(d)
  BY <1>3 DEF Rests
<1>6. \A f \in Executions : RunSound(f)'
  <2>1. \A d \in Calls : call[d].pc \in Attached => Same(d) /\ call'[d].pc \in Attached
    BY <1>1, <1>3 DEF Same, Attached
  <2> QED
    BY <1>2, <2>1, RunsKept
<1>7. TypeOK'
  BY <1>2, <1>3, <1>4 DEF Shape, TypeOK
<1>8. Quiet
  BY <1>2, <1>4, <1>5 DEF Quiet, Frame, TimersFrame, RowSame, EntriesDrop
<1> QED
  BY <1>2, <1>3, <1>6, <1>7, <1>8, ShapeKept

\* A run that throws settles its entry.
LEMMA ProcessErrorStep ==
  ASSUME Shape, NEW c \in Calls, ProcessError(c)
  PROVE  Shape' /\ Proceeds(c)
<1> DEFINE e == call[c].exec
           place == IF call[c].pc = "starting" THEN "aborted" ELSE "failed"
           thrown == [call EXCEPT ![c].pc = place]
<1>1. call[c].pc \in {"starting", "executing", "parking"} /\ e \in Executions
  BY DEF ProcessError, Shape, CallsSound, Sound
<1>2. /\ UNCHANGED <<row, enabled, lost, removed, timer, listed, toRecover, booted,
                     unstartable, early, refused, stop>>
      /\ faults' \in Nat
      /\ call \in [Calls -> Call] /\ queue \in Seq(Calls) /\ capacity \in Int
      /\ active \in [Executions -> [call : 0..MaxCalls, run : 0..MaxCalls,
                                    status : {"none", "running", "waiting"}]]
  BY DEF ProcessError, Fault, tracker, recovery, Shape, TypeOK
<1>3. /\ place \in {"aborted", "failed"} /\ place \in Places
      /\ place = "aborted" => call[c].pc = "starting"
  BY DEF Places
<1>4. \/ active[e] = NoEntry /\ call' = thrown /\ UNCHANGED <<active, capacity, queue>>
      \/ Settle(e, thrown)
  BY DEF ProcessError
<1> HIDE DEF place
<1>5. /\ thrown \in [Calls -> Call] /\ \A d \in Calls : d # c => thrown[d] = call[d]
      /\ thrown[c].pc = place /\ thrown[c].exec = call[c].exec
      /\ thrown[c].expect = call[c].expect /\ thrown[c].held = call[c].held
  BY <1>2, <1>3 DEF Call
<1> HIDE DEF thrown
<1>6. \A d \in Calls : Sound(thrown[d])
  <2>1. Sound(thrown[c])
    BY <1>1, <1>3, <1>5 DEF Sound
  <2> QED
    BY <1>5, <2>1 DEF Shape, CallsSound
<1>7. QueueOf(thrown, queue)
  <2>1. \A d \in Calls : call[d].pc = "queued" => thrown[d].pc = "queued"
    BY <1>1, <1>5
  <2> QED
    BY <1>2, <2>1, KeptQueue DEF Shape
<1>8. /\ call' \in [Calls -> Call] /\ queue' \in Seq(Calls) /\ capacity' \in Int
      /\ QueueOf(call, queue)' /\ CallsSound'
      /\ \A d \in Calls : \/ Passed(thrown[d], call'[d])
                          \/ call[d].pc = "stuck" /\ call'[d] = Idle
      /\ active' \in [Executions -> [call : 0..MaxCalls, run : 0..MaxCalls,
                                     status : {"none", "running", "waiting"}]]
      /\ active'[e].run = 0 /\ EntriesDrop
  <2>1. CASE active[e] = NoEntry /\ call' = thrown /\ UNCHANGED <<active, capacity, queue>>
    <3>1. \A d \in Calls : Passed(thrown[d], call'[d])
      BY <1>5, <2>1 DEF Passed
    <3>2. QueueOf(call, queue)' /\ CallsSound'
      BY <1>6, <1>7, <2>1 DEF QueueOf, CallsSound
    <3> QED
      BY <1>2, <1>5, <2>1, <3>1, <3>2 DEF EntriesDrop, NoEntry
  <2>2. CASE Settle(e, thrown)
    <3>1. \A d \in Calls : call[d].pc = "stuck" => thrown[d] = call[d]
      BY <1>1, <1>5
    <3> QED
      BY <1>1, <1>5, <1>6, <1>7, <2>2, <3>1, SettleFacts
  <2> QED
    BY <1>4, <2>1, <2>2
<1>9. /\ Same(c) /\ call'[c].pc = place
      /\ \A d \in Calls : d # c =>
           Stays(d) \/ (call[d].pc = "stuck" /\ call'[d] = Idle)
  <2>1. Passed(thrown[c], call'[c])
    BY <1>1, <1>8
  <2>2. Same(c) /\ call'[c].pc = place
    BY <1>3, <1>5, <2>1 DEF Passed, Same
  <2> QED
    BY <1>5, <1>8, <2>2, PassedRests
<1>10. \A d \in Calls : d # c => Rests(d)
  BY <1>9 DEF Rests, Left, Early
<1>11. \A f \in Executions : RunSound(f)'
  <2>1. \A f \in Executions : active'[f].run = 0 \/ active'[f].run = active[f].run
    BY <1>8 DEF EntriesDrop
  <2>2. \A d \in Calls : call[d].pc \in Attached /\ active'[call[d].exec].run = d =>
          Same(d) /\ call'[d].pc \in Attached
    <3>1. c # 0
      BY ExecutionAssumption DEF Calls
    <3> QED
      BY <1>8, <1>9, <3>1 DEF Stays, Attached, Early
  <2> QED
    BY <2>1, <2>2, RunsKept
<1>12. TypeOK'
  BY <1>2, <1>8 DEF Shape, TypeOK
<1>13. Frame /\ Tends
  BY <1>2 DEF Frame, TimersFrame, Tends
<1>14. Proceeds(c)
  BY <1>1, <1>2, <1>3, <1>8, <1>9, <1>10, <1>13
     DEF Proceeds, Running, Start, Early, RowOnly, EntriesDrop
<1> QED
  BY <1>2, <1>8, <1>11, <1>12, <1>14, ShapeKept

\* And saves its error.
LEMMA SaveFailedStep ==
  ASSUME Shape, NEW c \in Calls, SaveFailed(c)
  PROVE  Shape' /\ Finishes(c)
<1> DEFINE e == call[c].exec
<1>1. call[c].pc \in {"aborted", "failed"} /\ e \in Executions
  BY DEF SaveFailed, Shape, CallsSound, Sound
<1>2. /\ UNCHANGED <<capacity, queue, enabled, removed, active, timer, listed,
                     toRecover, booted, early, refused, stop, faults>>
      /\ Saved(e, "error") /\ call' = Over(call, c) /\ CountLost(call, c)
      /\ unstartable' = IF call[c].pc = "aborted" THEN Rejected(c) ELSE unstartable
  BY DEF SaveFailed, tracker
<1>3. /\ row' \in [Executions -> [status : Status, waits : Nat]]
      /\ row'[e].status = IF row[e].status = "canceled" THEN "canceled" ELSE "error"
      /\ RowOnly(e)
  BY <1>1, <1>2, SavedFacts DEF Shape, Ended
<1>4. /\ call' \in [Calls -> Call] /\ \A d \in Calls : Sound(call'[d])
      /\ QueueOf(call', queue') /\ call'[c] = Idle
      /\ \A d \in Calls : d # c => call'[d] = call[d]
  BY <1>1, <1>2, OverShape
<1>5. Left(c) /\ \A d \in Calls : d # c => Rests(d)
  BY <1>1, <1>4 DEF Left, Rests, Stays, Same, Early
<1>6. \A f \in Executions : RunSound(f)'
  <2>1. \A d \in Calls : call[d].pc \in Attached => Same(d) /\ call'[d].pc \in Attached
    BY <1>1, <1>4 DEF Same, Attached
  <2> QED
    BY <1>2, <2>1, RunsKept
<1>7. Tends /\ unstartable' \subseteq Executions
  <2>1. CASE call[c].pc = "aborted"
    BY <1>1, <1>2, <1>4, <2>1, RejectedFacts DEF Tends, Start, Shape, TypeOK
  <2>2. CASE call[c].pc # "aborted"
    BY <1>2, <2>2 DEF Tends, Shape, TypeOK
  <2> QED
    BY <2>1, <2>2
<1>8. TypeOK'
  BY <1>2, <1>3, <1>4, <1>7, LostType DEF Shape, TypeOK
<1>9. Finishes(c)
  BY <1>1, <1>2, <1>3, <1>5, <1>7 DEF Finishes, Frame, TimersFrame
<1>10. CallsSound' /\ QueueOf(call, queue)'
  BY <1>4 DEF CallsSound, QueueOf
<1> QED
  BY <1>2, <1>6, <1>8, <1>9, <1>10, ShapeKept

\* A stop takes the first queued call of its execution out of the queue.
LEMMA RemoveQueuedFacts ==
  ASSUME Shape, NEW e \in Executions, RemoveQueued(e)
  PROVE  /\ call' \in [Calls -> Call] /\ queue' \in Seq(Calls) /\ capacity' \in Int
         /\ QueueOf(call, queue)' /\ CallsSound'
         /\ removed' \in Nat /\ UNCHANGED <<active, timer>>
         /\ \E c \in Calls :
              /\ call[c].pc = "queued" /\ call[c].exec = e /\ call'[c] = Idle
              /\ \A d \in Calls : d # c => Stays(d)
<1>1. /\ call \in [Calls -> Call] /\ queue \in Seq(Calls) /\ capacity \in Int
      /\ QueueOf(call, queue) /\ CallsSound /\ removed \in Nat
  BY DEF Shape, TypeOK
<1>2. PICK i \in FirstOf(e) :
        /\ GiveBack(Over(call, queue[i]), RemoveAt(queue, i))
        /\ removed' = removed + 1
        /\ UNCHANGED <<active, timer>>
  BY DEF RemoveQueued
<1>3. i \in 1..Len(queue) /\ call[queue[i]].exec = e
  BY DEF FirstOf
<1> DEFINE c == queue[i]
           rest == RemoveAt(queue, i)
           calls == Over(call, c)
<1>4. c \in Calls /\ call[c].pc = "queued"
  BY <1>1, <1>3, ElementOfSeq DEF QueueOf
<1>5. calls \in [Calls -> Call] /\ calls[c] = Idle /\ \A d \in Calls : d # c => calls[d] = call[d]
  BY <1>1, <1>4, OverFacts
<1>6. rest \in Seq(Calls)
  BY <1>1, <1>3, RemoveFacts
<1> HIDE DEF calls
<1>7. QueueOf(calls, rest)
  BY <1>1, <1>3, <1>5, RemovedQueue
<1>8. GiveBack(calls, rest)
  BY <1>2 DEF calls
<1> HIDE DEF rest
<1>9. /\ call' \in [Calls -> Call] /\ queue' \in Seq(Calls) /\ capacity' \in Int
      /\ QueueOf(call', queue')
      /\ \A d \in Calls : Passed(calls[d], call'[d])
  BY <1>1, <1>5, <1>6, <1>7, <1>8, GiveBackFacts
<1>10. \A d \in Calls : Sound(calls[d])
  <2>1. Sound(Idle)
    BY IdleFacts DEF Sound
  <2> QED
    BY <1>1, <1>5, <2>1 DEF CallsSound
<1>11. \A d \in Calls : Sound(call'[d])
  BY <1>5, <1>9, <1>10, PassedSound
<1>12. call'[c] = Idle
  BY <1>4, <1>5, <1>9, IdleFacts
<1>13. \A d \in Calls : d # c => Stays(d)
  BY <1>5, <1>9, PassedRests
<1>14. CallsSound' /\ QueueOf(call, queue)'
  BY <1>9, <1>11 DEF CallsSound, QueueOf
<1> QED
  BY <1>1, <1>2, <1>3, <1>4, <1>9, <1>12, <1>13, <1>14

LEMMA StopInProcessStep ==
  ASSUME Shape, StopInProcess
  PROVE  Shape' /\ (Quiet \/ \E c \in Calls : Told(c))
<1> DEFINE e == stop.exec
<1>1. stop.pc = "read" /\ e \in Executions /\ stop' = [stop EXCEPT !.pc = "acted"]
  BY DEF StopInProcess, Shape
<1>2. UNCHANGED <<row, enabled, lost, listed, toRecover, booted, unstartable, early,
                  refused, faults>>
  BY DEF StopInProcess, recovery
<1>3. /\ stop' \in [pc : {"idle", "read", "acted"}, exec : 0..MaxExecutions]
      /\ stop'.pc = "acted" /\ stop'.exec = e
  BY <1>1 DEF Shape, TypeOK
<1>4. CASE enabled /\ FirstOf(e) # {}
  <2>1. RemoveQueued(e)
    BY <1>4 DEF StopInProcess
  <2>2. /\ call' \in [Calls -> Call] /\ queue' \in Seq(Calls) /\ capacity' \in Int
        /\ QueueOf(call, queue)' /\ CallsSound'
        /\ removed' \in Nat /\ UNCHANGED <<active, timer>>
    BY <1>1, <2>1, RemoveQueuedFacts
  <2>3. PICK c \in Calls :
          /\ call[c].pc = "queued" /\ call[c].exec = e /\ call'[c] = Idle
          /\ \A d \in Calls : d # c => Stays(d)
    BY <1>1, <2>1, RemoveQueuedFacts
  <2>4. \A d \in Calls : Rests(d)
    BY <1>3, <2>3 DEF Rests, Left
  <2>5. \A f \in Executions : RunSound(f)'
    <3>1. \A d \in Calls : call[d].pc \in Attached => Same(d) /\ call'[d].pc \in Attached
      BY <2>3 DEF Stays, Attached, Early
    <3> QED
      BY <2>2, <3>1, RunsKept
  <2>6. TypeOK'
    BY <1>2, <1>3, <2>2 DEF Shape, TypeOK
  <2>7. Quiet
    BY <1>1, <1>2, <2>2, <2>4 DEF Quiet, Frame, TimersFrame, Tends, RowSame, EntriesDrop, recovery
  <2>8. Shape'
    BY <1>1, <1>3, <2>2, <2>5, <2>6 DEF Shape
  <2> QED
    BY <2>7, <2>8
<1>5. CASE ~(enabled /\ FirstOf(e) # {})
  <2>1. StopEntry(e) /\ timer' = timer \ {e} /\ UNCHANGED removed
    BY <1>5 DEF StopInProcess
  <2>2. /\ call' \in [Calls -> Call] /\ queue' \in Seq(Calls) /\ capacity' \in Int
        /\ QueueOf(call, queue)' /\ CallsSound'
        /\ active' \in [Executions -> [call : 0..MaxCalls, run : 0..MaxCalls,
                                       status : {"none", "running", "waiting"}]]
        /\ EntriesDrop
        /\ \A f \in Executions : RunSound(f)'
        /\ (\A d \in Calls : Rests(d)) \/ \E d \in Calls : ToldToStop(d)
    BY <1>1, <2>1, StopEntryFacts
  <2>3. TypeOK'
    BY <1>2, <1>3, <2>1, <2>2 DEF Shape, TypeOK
  <2>4. Frame /\ RowSame /\ Tends
    BY <1>1, <1>2, <2>1 DEF Frame, TimersFrame, Tends, RowSame
  <2>5. Quiet \/ \E d \in Calls : Told(d)
    BY <2>2, <2>4 DEF Quiet, Told, Rests
  <2>6. Shape'
    BY <1>1, <1>3, <2>2, <2>3 DEF Shape
  <2> QED
    BY <2>5, <2>6
<1> QED
  BY <1>4, <1>5

\* A free call takes an execution on.
LEMMA BeginsShape ==
  ASSUME Shape, NEW c \in Calls, NEW e \in Executions, Free(c),
         NEW x \in {"none", "new", "waiting"}, NEW w \in Nat,
         call' = [call EXCEPT ![c] = Begun(e, x, w)],
         UNCHANGED <<queue, active>>
  PROVE  /\ call' \in [Calls -> Call] /\ CallsSound' /\ QueueOf(call, queue)'
         /\ \A f \in Executions : RunSound(f)'
         /\ call[c].pc = "idle" /\ call'[c].pc = "created"
         /\ call'[c].exec = e /\ call'[c].expect = x /\ ~call'[c].held
         /\ \A d \in Calls : d # c => call'[d] = call[d]
<1> DEFINE k == Begun(e, x, w)
<1>1. call \in [Calls -> Call] /\ call[c].pc = "idle"
  BY IdleFacts DEF Free, Shape, TypeOK
<1>2. /\ k \in Call /\ Sound(k)
      /\ k.pc = "created" /\ k.exec = e /\ k.expect = x /\ ~k.held
  BY ExecutionAssumption DEF Begun, Call, Places, Sound, Executions
<1>3. /\ call' \in [Calls -> Call] /\ call'[c] = k
      /\ \A d \in Calls : d # c => call'[d] = call[d]
  BY <1>1, <1>2
<1>4. CallsSound'
  BY <1>2, <1>3 DEF Shape, CallsSound
<1>5. QueueOf(call', queue)
  <2>1. \A d \in Calls : call[d].pc = "queued" => call'[d].pc = "queued"
    BY <1>1, <1>3
  <2> QED
    BY <2>1, KeptQueue DEF Shape, TypeOK
<1>6. \A f \in Executions : RunSound(f)'
  <2>1. \A d \in Calls : call[d].pc \in Attached => Same(d) /\ call'[d].pc \in Attached
    BY <1>1, <1>3 DEF Same, Attached
  <2> QED
    BY <2>1, RunsKept
<1> QED
  BY <1>1, <1>2, <1>3, <1>4, <1>5, <1>6 DEF QueueOf

LEMMA CreateStep ==
  ASSUME Shape, NEW c \in Calls, NEW e \in Executions, Create(c, e)
  PROVE  Shape' /\ Begins(c, e)
<1>1. /\ Free(c) /\ row[e].status = "absent" /\ SetStatus(e, "new")
      /\ call' = [call EXCEPT ![c] = Begun(e, "none", 0)]
      /\ UNCHANGED <<capacity, queue, enabled, lost, removed, active, timer, listed,
                     toRecover, booted, unstartable, early, refused, stop, faults>>
  BY DEF Create, slots, tracker, recovery
<1>2. /\ call' \in [Calls -> Call] /\ CallsSound' /\ QueueOf(call, queue)'
      /\ \A f \in Executions : RunSound(f)'
      /\ call[c].pc = "idle" /\ call'[c].pc = "created"
      /\ call'[c].exec = e /\ call'[c].expect = "none"
      /\ \A d \in Calls : d # c => call'[d] = call[d]
  BY <1>1, BeginsShape
<1>3. /\ row' \in [Executions -> [status : Status, waits : Nat]]
      /\ row'[e].status = "new" /\ RowOnly(e)
  BY <1>1, SetStatusFacts DEF Shape, Status
<1>4. TypeOK'
  BY <1>1, <1>2, <1>3 DEF Shape, TypeOK
<1>5. Begins(c, e)
  BY <1>1, <1>2, <1>3 DEF Begins, Frame, TimersFrame
<1> QED
  BY <1>1, <1>2, <1>4, <1>5, ShapeKept

LEMMA TakeOverFacts ==
  ASSUME Shape, NEW c \in Calls, NEW e \in Executions, NEW x \in {"new", "waiting"},
         NEW w \in Nat, TakeOver(c, e, x, w),
         UNCHANGED <<row, capacity, queue, enabled, lost, removed, active, stop,
                     booted, unstartable, early, refused>>,
         timer' \subseteq Executions, listed' \subseteq Executions,
         toRecover' \subseteq Executions, faults' \in Nat
  PROVE  /\ Shape' /\ RowOnly(e) /\ row'[e].status = row[e].status
         /\ call[c].pc = "idle" /\ call'[c].pc = "created"
         /\ call'[c].exec = e /\ call'[c].expect = x
         /\ \A d \in Calls : d # c => call'[d] = call[d]
<1>1. Free(c) /\ call' = [call EXCEPT ![c] = Begun(e, x, w)]
  BY DEF TakeOver
<1>2. /\ call' \in [Calls -> Call] /\ CallsSound' /\ QueueOf(call, queue)'
      /\ \A f \in Executions : RunSound(f)'
      /\ call[c].pc = "idle" /\ call'[c].pc = "created"
      /\ call'[c].exec = e /\ call'[c].expect = x
      /\ \A d \in Calls : d # c => call'[d] = call[d]
  BY <1>1, BeginsShape
<1>3. TypeOK'
  BY <1>2 DEF Shape, TypeOK
<1> QED
  BY <1>2, <1>3, ShapeKept DEF RowOnly

LEMMA ResumeStep ==
  ASSUME Shape, NEW c \in Calls, NEW e \in Executions, Resume(c, e)
  PROVE  Shape' /\ Begins(c, e)
<1>1. /\ row[e].status = "waiting" /\ TakeOver(c, e, "waiting", row[e].waits)
      /\ row[e].waits \in Nat /\ faults' \in Nat
      /\ UNCHANGED <<row, capacity, queue, enabled, lost, removed, active, timer,
                     listed, toRecover, booted, unstartable, early, refused, stop>>
  BY DEF Resume, Fault, slots, tracker, recovery, Shape, TypeOK
<1>2. timer' \subseteq Executions /\ listed' \subseteq Executions /\ toRecover' \subseteq Executions
  BY <1>1 DEF Shape, TypeOK
<1>3. /\ Shape' /\ RowOnly(e) /\ row'[e].status = row[e].status
      /\ call[c].pc = "idle" /\ call'[c].pc = "created"
      /\ call'[c].exec = e /\ call'[c].expect = "waiting"
      /\ \A d \in Calls : d # c => call'[d] = call[d]
  BY <1>1, <1>2, TakeOverFacts
<1> QED
  BY <1>1, <1>3 DEF Begins, Frame, TimersFrame

LEMMA TimerFiresStep ==
  ASSUME Shape, NEW c \in Calls, NEW e \in Executions, TimerFires(c, e)
  PROVE  Shape' /\ (Quiet \/ Begins(c, e))
<1>1. /\ e \in timer /\ timer' = timer \ {e} /\ row[e].waits \in Nat
      /\ UNCHANGED <<row, capacity, queue, enabled, lost, removed, active, listed,
                     toRecover, booted, unstartable, early, refused, stop, faults>>
  BY DEF TimerFires, slots, recovery, Shape, TypeOK
<1>2. /\ timer' \subseteq Executions /\ listed' \subseteq Executions
      /\ toRecover' \subseteq Executions /\ faults' \in Nat
  BY <1>1 DEF Shape, TypeOK
<1>3. CASE row[e].status = "success"
  <2>1. call' = call
    BY <1>3 DEF TimerFires
  <2>2. TypeOK' /\ CallsSound' /\ QueueOf(call, queue)'
    BY <1>1, <1>2, <2>1 DEF Shape, TypeOK, CallsSound, QueueOf
  <2>3. \A f \in Executions : RunSound(f)'
    BY <1>1, <2>1, RunsKept DEF Same
  <2>4. Quiet
    BY <1>1, <2>1 DEF Quiet, Frame, TimersFrame, Tends, recovery, RowSame, EntriesDrop, Rests, Stays, Same
  <2> QED
    BY <1>1, <2>2, <2>3, <2>4, ShapeKept
<1>4. CASE row[e].status # "success"
  <2>1. TakeOver(c, e, "waiting", row[e].waits)
    BY <1>4 DEF TimerFires
  <2>2. /\ Shape' /\ RowOnly(e) /\ row'[e].status = row[e].status
        /\ call[c].pc = "idle" /\ call'[c].pc = "created"
        /\ call'[c].exec = e /\ call'[c].expect = "waiting"
        /\ \A d \in Calls : d # c => call'[d] = call[d]
    BY <1>1, <1>2, <2>1, TakeOverFacts
  <2> QED
    BY <1>1, <2>2 DEF Begins, Frame, TimersFrame
<1> QED
  BY <1>3, <1>4

LEMMA RecoverStep ==
  ASSUME Shape, NEW c \in Calls, NEW e \in Executions, Recover(c, e)
  PROVE  Shape' /\ Begins(c, e)
<1>1. /\ e \in toRecover /\ toRecover' = toRecover \ {e} /\ e \notin unstartable
      /\ TakeOver(c, e, "new", 0)
      /\ UNCHANGED <<row, capacity, queue, enabled, lost, removed, active, timer,
                     listed, booted, unstartable, early, refused, stop, faults>>
  BY DEF Recover, NextToRecover, slots, tracker
<1>2. /\ timer' \subseteq Executions /\ listed' \subseteq Executions
      /\ toRecover' \subseteq Executions /\ faults' \in Nat
  BY <1>1 DEF Shape, TypeOK
<1>3. /\ Shape' /\ RowOnly(e) /\ row'[e].status = row[e].status
      /\ call[c].pc = "idle" /\ call'[c].pc = "created"
      /\ call'[c].exec = e /\ call'[c].expect = "new"
      /\ \A d \in Calls : d # c => call'[d] = call[d]
  BY <1>1, <1>2, TakeOverFacts
<1> QED
  BY <1>1, <1>3 DEF Begins, Frame, TimersFrame

\* Steps that leave the calls, the queue and the entries of the registry that
\* have a run.
LEMMA CallsKept ==
  ASSUME Shape, TypeOK', UNCHANGED <<call, queue>>, EntriesDrop,
         stop'.pc # "idle" => stop'.exec \in Executions
  PROVE  Shape' /\ \A d \in Calls : Rests(d)
<1>1. CallsSound' /\ QueueOf(call, queue)'
  BY DEF Shape, CallsSound, QueueOf
<1>2. \A f \in Executions : RunSound(f)'
  BY RunsKept DEF EntriesDrop, Same
<1>3. \A d \in Calls : Rests(d)
  BY DEF Rests, Stays, Same
<1> QED
  BY <1>1, <1>2, <1>3 DEF Shape

LEMMA PollReadStep ==
  ASSUME Shape, NEW S \in SUBSET Executions, PollRead(S)
  PROVE  Shape' /\ Quiet
<1>1. /\ listed' = S /\ \A e \in S : row[e].status = "waiting"
      /\ UNCHANGED <<row, call, capacity, queue, enabled, lost, removed, active,
                     timer, toRecover, booted, unstartable, early, refused, stop,
                     faults>>
  BY DEF PollRead, slots, recovery
<1>2. TypeOK'
  BY <1>1 DEF Shape, TypeOK
<1>3. EntriesDrop /\ (stop'.pc # "idle" => stop'.exec \in Executions)
  BY <1>1 DEF EntriesDrop, Shape
<1>4. Shape' /\ \A d \in Calls : Rests(d)
  BY <1>1, <1>2, <1>3, CallsKept
<1> QED
  BY <1>1, <1>3, <1>4 DEF Quiet, Frame, TimersFrame, Tends, recovery, RowSame

LEMMA PollSetStep ==
  ASSUME Shape, PollSet
  PROVE  Shape' /\ Quiet
<1>1. /\ timer' = timer \cup listed /\ listed' = {}
      /\ UNCHANGED <<row, call, capacity, queue, enabled, lost, removed, active,
                     toRecover, booted, unstartable, early, refused, stop, faults>>
  BY DEF PollSet, slots, recovery
<1>2. TypeOK'
  BY <1>1 DEF Shape, TypeOK
<1>3. EntriesDrop /\ (stop'.pc # "idle" => stop'.exec \in Executions)
  BY <1>1 DEF EntriesDrop, Shape
<1>4. Shape' /\ \A d \in Calls : Rests(d)
  BY <1>1, <1>2, <1>3, CallsKept
<1> QED
  BY <1>1, <1>3, <1>4 DEF Quiet, Frame, TimersFrame, Tends, recovery, RowSame

LEMMA StopReadStep ==
  ASSUME Shape, NEW e \in Executions, StopRead(e)
  PROVE  Shape' /\ Quiet
<1>1. /\ stop = NoStop /\ stop' = [pc |-> "read", exec |-> e] /\ faults' \in Nat
      /\ UNCHANGED <<row, call, capacity, queue, enabled, lost, removed, active,
                     timer, listed, toRecover, booted, unstartable, early, refused>>
  BY DEF StopRead, Fault, slots, tracker, recovery, Shape, TypeOK
<1>2. stop' \in [pc : {"idle", "read", "acted"}, exec : 0..MaxExecutions] /\ stop'.exec = e
  BY <1>1, ExecutionAssumption DEF Executions
<1>3. TypeOK'
  BY <1>1, <1>2 DEF Shape, TypeOK
<1>4. EntriesDrop
  BY <1>1 DEF EntriesDrop
<1>5. Shape' /\ \A d \in Calls : Rests(d)
  BY <1>1, <1>2, <1>3, <1>4, CallsKept
<1>6. stop.pc # "acted"
  BY <1>1 DEF NoStop
<1> QED
  BY <1>1, <1>4, <1>5, <1>6 DEF Quiet, Frame, TimersFrame, Tends, recovery, RowSame

LEMMA ShutdownStep ==
  ASSUME Shape, Shutdown
  PROVE  Shape' /\ Quiet
<1>1. /\ enabled' = FALSE /\ timer' = {} /\ faults' \in Nat
      /\ active' = [e \in Executions |->
                      IF active[e].status = "waiting" THEN NoEntry ELSE active[e]]
      /\ UNCHANGED <<row, call, capacity, queue, lost, removed, listed, toRecover,
                     booted, unstartable, early, refused, stop>>
  BY DEF Shutdown, Fault, recovery, Shape, TypeOK
<1>2. NoEntry \in [call : 0..MaxCalls, run : 0..MaxCalls,
                   status : {"none", "running", "waiting"}] /\ NoEntry.run = 0
  BY ExecutionAssumption DEF NoEntry
<1>3. EntriesDrop /\ active' \in [Executions -> [call : 0..MaxCalls, run : 0..MaxCalls,
                                                 status : {"none", "running", "waiting"}]]
  BY <1>1, <1>2 DEF EntriesDrop, Shape, TypeOK
<1>4. TypeOK'
  BY <1>1, <1>3 DEF Shape, TypeOK
<1>5. Shape' /\ \A d \in Calls : Rests(d)
  BY <1>1, <1>3, <1>4, CallsKept DEF Shape
<1> QED
  BY <1>1, <1>3, <1>5 DEF Quiet, Frame, TimersFrame, Tends, recovery, RowSame

\* Steps of a kind of their own.
Cancels ==
  /\ UNCHANGED <<call, active, timer, listed>> /\ Tends
  /\ stop.pc = "acted" /\ stop.exec \in Executions
  /\ RowOnly(stop.exec)
  /\ \/ row'[stop.exec].status = "canceled"
     \/ row'[stop.exec].status = row[stop.exec].status /\ stop.exec \in refused'

Restarts ==
  /\ \A e \in Executions : row'[e].status # row[e].status =>
       row[e].status \in Stoppable /\ row'[e].status = "crashed"
  /\ \A d \in Calls : call'[d] = Idle
  /\ \A e \in Executions : active'[e].run = 0
  /\ timer' = {} /\ listed' = {} /\ toRecover' = {} /\ ~booted'
  /\ unstartable' = {} /\ early' = {}

ReadsRecovery ==
  /\ UNCHANGED <<row, call, active, timer, listed, unstartable, stop>>
  /\ ~booted /\ booted' /\ toRecover' = {e \in Executions : row[e].status = "new"}
  /\ early' = {e \in toRecover' : \E c \in Calls : call[c].exec = e}

\* The recovery marks what it could not run.
Crashes(e) ==
  /\ UNCHANGED <<call, active, timer, listed, booted, early, stop>>
  /\ e \in unstartable /\ RowOnly(e)
  /\ unstartable' = unstartable \ {e} /\ toRecover' = toRecover \ {e}
  /\ refused \subseteq refused'
  /\ \/ row[e].status \in {"new", "running"} /\ row'[e].status = "crashed"
     \/ row'[e].status = row[e].status /\ (row[e].status = "new" => e \in refused')

LEMMA StopWriteStep ==
  ASSUME Shape, StopWrite
  PROVE  Shape' /\ Cancels
<1> DEFINE e == stop.exec
<1>1. stop.pc = "acted" /\ e \in Executions
  BY DEF StopWrite, Shape
<1>2. /\ stop' = NoStop
      /\ \/ SetStatus(e, "canceled") /\ UNCHANGED refused
         \/ refused' = refused \cup {e} /\ UNCHANGED row
      /\ UNCHANGED <<call, capacity, queue, enabled, lost, removed, active, timer,
                     listed, toRecover, booted, unstartable, early, faults>>
  BY DEF StopWrite, slots, tracker
<1>3. /\ row' \in [Executions -> [status : Status, waits : Nat]] /\ RowOnly(e)
      /\ \/ row'[e].status = "canceled"
         \/ row'[e].status = row[e].status /\ e \in refused'
  <2>1. CASE SetStatus(e, "canceled")
    BY <1>1, <2>1, SetStatusFacts DEF Shape, Status, Ended
  <2>2. CASE refused' = refused \cup {e} /\ UNCHANGED row
    BY <2>2 DEF Shape, TypeOK, RowOnly
  <2> QED
    BY <1>2, <2>1, <2>2
<1>4. /\ stop' \in [pc : {"idle", "read", "acted"}, exec : 0..MaxExecutions]
      /\ stop'.pc = "idle"
  BY <1>2, ExecutionAssumption DEF NoStop
<1>5. TypeOK'
  BY <1>1, <1>2, <1>3, <1>4 DEF Shape, TypeOK
<1>6. EntriesDrop
  BY <1>2 DEF EntriesDrop
<1>7. Shape'
  BY <1>2, <1>4, <1>5, <1>6, CallsKept
<1>8. Tends
  BY <1>2 DEF Tends
<1> QED
  BY <1>1, <1>2, <1>3, <1>7, <1>8 DEF Cancels

LEMMA RecoveryReadStep ==
  ASSUME Shape, RecoveryRead
  PROVE  Shape' /\ ReadsRecovery
<1>1. /\ ~booted /\ booted' = TRUE
      /\ toRecover' = {e \in Executions : row[e].status = "new"}
      /\ early' = {e \in toRecover' : \E c \in Calls : call[c].exec = e}
      /\ UNCHANGED <<row, call, capacity, queue, enabled, lost, removed, active, timer,
                     listed, unstartable, refused, stop, faults>>
  BY DEF RecoveryRead, slots, tracker
<1>2. TypeOK'
  <2>1. toRecover' \subseteq Executions /\ early' \subseteq Executions
    BY <1>1
  <2> QED
    BY <1>1, <2>1 DEF Shape, TypeOK
<1>3. EntriesDrop /\ (stop'.pc # "idle" => stop'.exec \in Executions)
  BY <1>1 DEF EntriesDrop, Shape
<1>4. Shape'
  BY <1>1, <1>2, <1>3, CallsKept
<1> QED
  BY <1>1, <1>4 DEF ReadsRecovery

LEMMA RecoverFailsStep ==
  ASSUME Shape, NEW e \in Executions, RecoverFails(e)
  PROVE  Shape' /\ Quiet
<1>1. /\ e \in toRecover /\ unstartable' = unstartable \cup {e} /\ faults' \in Nat
      /\ UNCHANGED <<row, call, capacity, queue, enabled, lost, removed, active, timer,
                     listed, toRecover, booted, early, refused, stop>>
  BY DEF RecoverFails, NextToRecover, Fault, slots, tracker, Shape, TypeOK
<1>2. TypeOK'
  BY <1>1 DEF Shape, TypeOK
<1>3. EntriesDrop /\ (stop'.pc # "idle" => stop'.exec \in Executions)
  BY <1>1 DEF EntriesDrop, Shape
<1>4. Shape' /\ \A d \in Calls : Rests(d)
  BY <1>1, <1>2, <1>3, CallsKept
<1>5. Tends
  BY <1>1 DEF Tends
<1> QED
  BY <1>1, <1>3, <1>4, <1>5 DEF Quiet, Frame, TimersFrame, RowSame

LEMMA CrashUnstartableStep ==
  ASSUME Shape, NEW e \in Executions, CrashUnstartable(e)
  PROVE  Shape' /\ Crashes(e)
<1>1. /\ e \in unstartable
      /\ unstartable' = unstartable \ {e} /\ toRecover' = toRecover \ {e}
      /\ UNCHANGED <<call, capacity, queue, enabled, lost, removed, active, timer,
                     listed, booted, early, stop, faults>>
  BY DEF CrashUnstartable, slots, tracker
<1>2. /\ row' \in [Executions -> [status : Status, waits : Nat]] /\ RowOnly(e)
      /\ refused \subseteq refused' /\ refused' \subseteq Executions
      /\ \/ row[e].status \in {"new", "running"} /\ row'[e].status = "crashed"
         \/ row'[e].status = row[e].status /\ (row[e].status = "new" => e \in refused')
  <2> DEFINE s == IF row[e].status \in {"new", "running"} THEN "crashed" ELSE row[e].status
  <2>1. row \in [Executions -> [status : Status, waits : Nat]] /\ refused \subseteq Executions
    BY DEF Shape, TypeOK
  <2>2. CASE row' = [row EXCEPT ![e].status = s] /\ refused' = refused
    <3>1. s \in Status
      BY <2>1 DEF Status, Ended
    <3>2. \/ row[e].status \in {"new", "running"} /\ s = "crashed"
          \/ row[e].status \notin {"new", "running"} /\ s = row[e].status
      OBVIOUS
    <3> HIDE DEF s
    <3>3. row' \in [Executions -> [status : Status, waits : Nat]] /\ RowOnly(e)
          /\ row'[e].status = s
      BY <2>1, <2>2, <3>1 DEF RowOnly
    <3> QED
      BY <2>1, <2>2, <3>2, <3>3
  <2>3. CASE refused' = refused \cup {e} /\ row' = row
    BY <2>1, <2>3 DEF RowOnly
  <2>4. \/ row' = [row EXCEPT ![e].status = s] /\ refused' = refused
        \/ refused' = refused \cup {e} /\ row' = row
    BY <2>1 DEF CrashUnstartable
  <2> QED
    BY <2>2, <2>3, <2>4
<1>3. TypeOK'
  BY <1>1, <1>2 DEF Shape, TypeOK
<1>4. EntriesDrop /\ (stop'.pc # "idle" => stop'.exec \in Executions)
  BY <1>1 DEF EntriesDrop, Shape
<1>5. Shape'
  BY <1>1, <1>3, <1>4, CallsKept
<1> QED
  BY <1>1, <1>2, <1>5 DEF Crashes

\* A process whose memory is empty has a sound state.
Empty ==
  /\ row \in [Executions -> [status : Status, waits : Nat]]
  /\ call = [c \in Calls |-> Idle] /\ capacity = Limit /\ queue = <<>>
  /\ enabled \in BOOLEAN /\ booted \in BOOLEAN
  /\ active = [e \in Executions |-> NoEntry]
  /\ timer = {} /\ listed = {} /\ toRecover = {} /\ stop = NoStop
  /\ unstartable = {} /\ early = {} /\ refused = {}
  /\ lost = 0 /\ removed = 0 /\ faults \in Nat

\* A process that has just started has the shape, whatever its rows.
LEMMA EmptyShape == Empty => Shape
<1> SUFFICES ASSUME Empty PROVE Shape
  OBVIOUS
<1> USE DEF Empty
<1>1. /\ NoEntry \in [call : 0..MaxCalls, run : 0..MaxCalls,
                      status : {"none", "running", "waiting"}] /\ NoEntry.run = 0
      /\ NoStop \in [pc : {"idle", "read", "acted"}, exec : 0..MaxExecutions]
      /\ NoStop.pc = "idle"
  BY ExecutionAssumption DEF NoEntry, NoStop
<1>2. TypeOK
  BY <1>1, IdleFacts, ExecutionAssumption DEF TypeOK
<1>3. CallsSound /\ QueueOf(call, queue)
  BY IdleFacts DEF CallsSound, Sound, QueueOf
<1>4. \A e \in Executions : RunSound(e)
  BY <1>1 DEF RunSound
<1> QED
  BY <1>1, <1>2, <1>3, <1>4 DEF Shape

LEMMA RebootStep ==
  ASSUME Shape, Crash \/ Exit
  PROVE  Shape' /\ Restarts
<1>1. Reboot /\ faults' \in Nat
  BY DEF Crash, Exit, Fault, Shape, TypeOK
<1>2. /\ row' \in [Executions -> [status : Status, waits : Nat]]
      /\ \A e \in Executions : row'[e].status # row[e].status =>
           row[e].status \in Stoppable /\ row'[e].status = "crashed"
  <2>1. row \in [Executions -> [status : Status, waits : Nat]] /\ "crashed" \in Status
    BY DEF Shape, TypeOK, Status, Ended
  <2>2. PICK S \in Crashable : row' = [e \in Executions |->
          IF e \in S THEN [row[e] EXCEPT !.status = "crashed"] ELSE row[e]]
    BY <1>1 DEF Reboot
  <2>3. \A e \in S : row[e].status \in Stoppable
    BY DEF Crashable
  <2> QED
    BY <2>1, <2>2, <2>3
<1>3. Empty'
  BY <1>1, <1>2 DEF Reboot, Empty
<1>4. Shape'
  BY <1>3, EmptyShape, PTL
<1> QED
  BY <1>1, <1>2, <1>4 DEF Restarts, Reboot, NoEntry

LEMMA InitShape == Init => Shape
<1> SUFFICES ASSUME Init PROVE Shape
  OBVIOUS
<1>1. Empty
  BY ExecutionAssumption DEF Empty, Init, Status
<1> QED
  BY <1>1, EmptyShape

-----------------------------------------------------------------------------
(* Every step is of one of these kinds and keeps the shape of the state.    *)

Step ==
  \/ Quiet
  \/ \E c \in Calls : Proceeds(c) \/ Finishes(c) \/ Told(c)
  \/ \E c \in Calls, e \in Executions : Begins(c, e)
  \/ \E e \in Executions : Crashes(e)
  \/ Cancels
  \/ Restarts
  \/ ReadsRecovery

LEMMA AdvanceStep ==
  ASSUME Shape, NEW c \in Calls, Advance(c)
  PROVE  Shape' /\ Step
<1>1. CASE Reserve(c)
  BY <1>1, ReserveStep DEF Step
<1>2. CASE Claim(c)
  BY <1>2, ClaimStep DEF Step
<1>3. CASE MarkStarted(c)
  BY <1>3, MarkStartedStep DEF Step
<1>4. CASE Register(c)
  BY <1>4, RegisterStep DEF Step
<1>5. CASE MarkRunning(c)
  BY <1>5, MarkRunningStep DEF Step
<1>6. CASE Launch(c)
  BY <1>6, LaunchStep DEF Step
<1>7. CASE PutToWait(c)
  BY <1>7, PutToWaitStep DEF Step
<1>8. CASE \E s \in Ended \cup {"waiting"} : Save(c, s)
  BY <1>8, SaveStep DEF Step
<1>9. CASE Finalize(c)
  BY <1>9, FinalizeStep DEF Step
<1>10. CASE EndCancelled(c)
  BY <1>10, EndCancelledStep DEF Step
<1>11. CASE SaveFailed(c)
  BY <1>11, SaveFailedStep DEF Step
<1> QED
  BY <1>1, <1>2, <1>3, <1>4, <1>5, <1>6, <1>7, <1>8, <1>9, <1>10, <1>11 DEF Advance

LEMMA DisturbedStep ==
  ASSUME Shape, NEW c \in Calls, Disturbed(c)
  PROVE  Shape' /\ Step
<1>1. CASE WriteFails(c)
  BY <1>1, WriteFailsStep DEF Step
<1>2. CASE Stick(c)
  BY <1>2, StickStep DEF Step
<1>3. CASE ProcessError(c)
  BY <1>3, ProcessErrorStep DEF Step
<1>4. CASE Timeout(c)
  BY <1>4, TimeoutStep DEF Step
<1> QED
  BY <1>1, <1>2, <1>3, <1>4 DEF Disturbed

\* Stuttering is the quietest of the steps.
LEMMA StutterStep ==
  ASSUME Shape, UNCHANGED vars
  PROVE  Shape' /\ Quiet
<1>1. UNCHANGED <<row, call, capacity, queue, enabled, active, timer, listed,
                  toRecover, booted, unstartable, early, refused, stop, lost, removed,
                  faults>>
  BY DEF vars
<1>2. TypeOK' /\ EntriesDrop /\ (stop'.pc # "idle" => stop'.exec \in Executions)
  BY <1>1 DEF Shape, TypeOK, EntriesDrop
<1>3. Shape' /\ \A d \in Calls : Rests(d)
  BY <1>1, <1>2, CallsKept
<1> QED
  BY <1>1, <1>2, <1>3 DEF Quiet, Frame, TimersFrame, Tends, recovery, RowSame

\* Every step keeps the shape and is of one of the kinds above.
LEMMA NextStep ==
  ASSUME Shape, [Next]_vars
  PROVE  Shape' /\ Step
<1>1. ASSUME NEW c \in Calls, Advance(c) PROVE Shape' /\ Step
  BY <1>1, AdvanceStep
<1>2. ASSUME NEW c \in Calls, Disturbed(c) PROVE Shape' /\ Step
  BY <1>2, DisturbedStep
<1>3. ASSUME NEW c \in Calls, NEW e \in Executions,
             Create(c, e) \/ Resume(c, e) \/ TimerFires(c, e) \/ Recover(c, e)
      PROVE  Shape' /\ Step
  BY <1>3, CreateStep, ResumeStep, TimerFiresStep, RecoverStep DEF Step
<1>4. ASSUME NEW S \in SUBSET Executions, PollRead(S) PROVE Shape' /\ Step
  BY <1>4, PollReadStep DEF Step
<1>5. CASE PollSet \/ Shutdown
  BY <1>5, PollSetStep, ShutdownStep DEF Step
<1>6. ASSUME NEW e \in Executions,
             StopRead(e) \/ RecoverFails(e) \/ CrashUnstartable(e)
      PROVE  Shape' /\ Step
  BY <1>6, StopReadStep, RecoverFailsStep, CrashUnstartableStep DEF Step
<1>7. CASE StopInProcess
  BY <1>7, StopInProcessStep DEF Step
<1>8. CASE StopWrite
  BY <1>8, StopWriteStep DEF Step
<1>9. CASE Crash \/ Exit
  BY <1>9, RebootStep DEF Step
<1>10. CASE RecoveryRead
  BY <1>10, RecoveryReadStep DEF Step
<1>11. CASE UNCHANGED vars
  BY <1>11, StutterStep DEF Step
<1> QED
  BY <1>1, <1>2, <1>3, <1>4, <1>5, <1>6, <1>7, <1>8, <1>9, <1>10, <1>11 DEF Next

\* Every variable has its type, a call in flight has an execution, the queue
\* names each throttled call once, and the run of an entry of the registry is a
\* call of its execution that has started and is not finalized.
THEOREM ShapeCorrect == Spec => []Shape
<1>1. Shape /\ [Next]_vars => Shape'
  BY NextStep
<1> QED
  BY <1>1, InitShape, PTL DEF Spec

\* Every variable has its type: statuses are those of the entity, capacity is an
\* integer that may be negative, the queue holds calls.
THEOREM TypeCorrect == Spec => []TypeOK
<1>1. Shape => TypeOK
  BY DEF Shape
<1> QED
  BY <1>1, ShapeCorrect, PTL

-----------------------------------------------------------------------------
(* Rows that exist, and rows that have started.                            *)

\* A row in hand is never seen to go back.
RowsGrow ==
  \A e \in Executions :
    /\ row[e].status # "absent" => row'[e].status # "absent"
    /\ Started(e) => Started(e)'

\* Rows grow when no status changes.
LEMMA StatusSameGrows ==
  ASSUME RowSame
  PROVE  RowsGrow
BY DEF RowSame, RowsGrow, Started

\* Rows grow when one of them is set to a status of an execution that started.
LEMMA StatusSetGrows ==
  ASSUME NEW e \in Executions, RowOnly(e), row'[e].status \notin {"absent", "new"}
  PROVE  RowsGrow
BY DEF RowOnly, RowsGrow, Started

\* A call that rests still has its row.
LEMMA RestsKnown ==
  ASSUME Shape, RowsKnown, RowsGrow, NEW d \in Calls, Rests(d)
  PROVE  KnownCall(d)'
<1>1. KnownCall(d)
  BY DEF RowsKnown
<1>2. CASE call'[d] = Idle
  BY <1>2, IdleFacts DEF KnownCall, Early
<1>3. CASE Stays(d)
  <2>1. Same(d) /\ (call'[d].pc = call[d].pc \/ (call[d].pc \in Early /\ call'[d].pc \in Early))
    BY <1>3 DEF Stays
  <2>2. call[d].pc # "idle" => call[d].exec \in Executions
    BY DEF Shape, CallsSound, Sound
  <2>3. call[d].expect = "waiting" => call[d].pc # "idle"
    BY IdleFacts DEF Shape, CallsSound, Sound
  <2> QED
    BY <1>1, <2>1, <2>2, <2>3 DEF KnownCall, Same, RowsGrow, Early
<1>4. CASE Sticks(d)
  <2>1. call[d].exec \in Executions
    BY <1>4 DEF Sticks, Shape, CallsSound, Sound
  <2> QED
    BY <1>1, <1>4, <2>1 DEF Sticks, KnownCall, Same, RowsGrow, Started, Early
<1> QED
  BY <1>2, <1>3, <1>4 DEF Rests, Left

\* A call that has passed its claim and whose row has started.
LEMMA PastKnown ==
  ASSUME NEW d \in Calls, row'[call'[d].exec].status \notin {"absent", "new"}
  PROVE  KnownCall(d)'
BY DEF KnownCall, Started

\* Timers, what a poll listed and what the recovery has in hand still have their
\* rows.
LEMMA FrameKnown ==
  ASSUME Shape, RowsKnown, RowsGrow, TimersFrame, toRecover' \subseteq toRecover,
         \A e \in unstartable' : \/ e \in unstartable \cup toRecover
                                 \/ \E c \in Calls : call[c].exec = e /\ call[c].pc # "idle",
         timer' \subseteq Executions, listed' \subseteq Executions
  PROVE  /\ \A e \in timer' \cup listed' : Started(e)'
         /\ \A e \in toRecover' \cup unstartable' : row'[e].status # "absent"
<1>1. /\ \A e \in timer \cup listed : Started(e)
      /\ \A e \in toRecover \cup unstartable : row[e].status # "absent"
      /\ \A c \in Calls : call[c].pc # "idle" =>
           call[c].exec \in Executions /\ row[call[c].exec].status # "absent"
  BY DEF RowsKnown, KnownCall, Shape, CallsSound, Sound
<1>2. toRecover \subseteq Executions /\ unstartable \subseteq Executions
  BY DEF Shape, TypeOK
<1>3. \A e \in Executions : row[e].status = "waiting" => Started(e)
  BY DEF Started
<1>4. \A e \in timer' \cup listed' : Started(e)'
  BY <1>1, <1>3 DEF TimersFrame, RowsGrow
<1>5. \A e \in toRecover' \cup unstartable' : row'[e].status # "absent"
  BY <1>1, <1>2 DEF RowsGrow
<1> QED
  BY <1>4, <1>5

\* The same over a step that leaves the recovery where it is.
LEMMA TendsKnown ==
  ASSUME Shape, RowsKnown, RowsGrow, TimersFrame, Tends,
         timer' \subseteq Executions, listed' \subseteq Executions
  PROVE  /\ \A e \in timer' \cup listed' : Started(e)'
         /\ \A e \in toRecover' \cup unstartable' : row'[e].status # "absent"
<1>1. toRecover' \subseteq toRecover
  BY DEF Tends
<1>2. \A e \in unstartable' : \/ e \in unstartable \cup toRecover
                              \/ \E c \in Calls : call[c].exec = e /\ call[c].pc # "idle"
  BY DEF Tends, First, Start, Early
<1> QED
  BY <1>1, <1>2, FrameKnown

\* Whatever a step is, who has a row in hand still finds it.
LEMMA RowsKnownStep ==
  ASSUME Shape, Shape', RowsKnown, Step
  PROVE  RowsKnown'
<1>0. /\ timer' \subseteq Executions /\ listed' \subseteq Executions
      /\ toRecover \subseteq Executions
      /\ \A d \in Calls : call[d].pc # "idle" => call[d].exec \in Executions
      /\ \A d \in Calls : KnownCall(d)
  BY DEF Shape, TypeOK, CallsSound, Sound, RowsKnown
<1>1. CASE Quiet
  <2>1. RowsGrow /\ TimersFrame /\ Tends /\ \A d \in Calls : Rests(d)
    BY <1>1, StatusSameGrows DEF Quiet, Frame
  <2>2. /\ \A e \in timer' \cup listed' : Started(e)'
        /\ \A e \in toRecover' \cup unstartable' : row'[e].status # "absent"
    BY <1>0, <2>1, TendsKnown
  <2>3. \A d \in Calls : KnownCall(d)'
    BY <2>1, RestsKnown
  <2> QED
    BY <2>2, <2>3 DEF RowsKnown, Started
<1>2. ASSUME NEW c \in Calls, Proceeds(c) PROVE RowsKnown'
  <2> DEFINE e == call[c].exec
  <2>1. /\ Tends /\ TimersFrame /\ RowOnly(e) /\ Same(c)
        /\ call[c].pc \in Running \cup {"admitted", "claimed"}
        /\ row'[e].status = "running" \/
             (row'[e].status = row[e].status /\ call[c].pc \in Running)
        /\ \A d \in Calls : d # c => Rests(d)
    BY <1>2 DEF Proceeds, Frame, Running
  <2>2. e \in Executions
    BY <1>0, <2>1 DEF Running
  <2>3. row'[e].status \notin {"absent", "new"}
    BY <1>0, <2>1 DEF KnownCall, Started, Early, Running
  <2>4. RowsGrow
    BY <2>1, <2>2, <2>3, StatusSetGrows
  <2>5. /\ \A f \in timer' \cup listed' : Started(f)'
        /\ \A f \in toRecover' \cup unstartable' : row'[f].status # "absent"
    BY <1>0, <2>1, <2>4, TendsKnown
  <2>6. KnownCall(c)'
    BY <2>1, <2>3, PastKnown DEF Same
  <2>7. \A d \in Calls : KnownCall(d)'
    BY <2>1, <2>4, <2>6, RestsKnown
  <2> QED
    BY <2>5, <2>7 DEF RowsKnown, Started
<1>3. ASSUME NEW c \in Calls, Finishes(c) PROVE RowsKnown'
  <2> DEFINE e == call[c].exec
  <2>1. /\ Tends /\ TimersFrame /\ RowOnly(e)
        /\ call[c].pc \notin Early \cup {"idle"}
        /\ Left(c) \/ Same(c)
        /\ row'[e].status \notin {"absent", "new"}
        /\ \A d \in Calls : d # c => Rests(d)
    BY <1>3 DEF Finishes, Frame, Early
  <2>2. e \in Executions
    BY <1>0, <2>1
  <2>3. RowsGrow
    BY <2>1, <2>2, StatusSetGrows
  <2>4. /\ \A f \in timer' \cup listed' : Started(f)'
        /\ \A f \in toRecover' \cup unstartable' : row'[f].status # "absent"
    BY <1>0, <2>1, <2>3, TendsKnown
  <2>5. KnownCall(c)'
    <3>1. CASE Left(c)
      BY <2>3, <3>1, RestsKnown DEF Rests
    <3>2. CASE Same(c)
      BY <2>1, <3>2, PastKnown DEF Same
    <3> QED
      BY <2>1, <3>1, <3>2
  <2>6. \A d \in Calls : KnownCall(d)'
    BY <2>1, <2>3, <2>5, RestsKnown
  <2> QED
    BY <2>4, <2>6 DEF RowsKnown, Started
<1>4. ASSUME NEW c \in Calls, Told(c) PROVE RowsKnown'
  <2>1. /\ RowsGrow /\ RowSame /\ Tends /\ TimersFrame
        /\ call[c].pc \in Attached /\ Same(c)
        /\ \A d \in Calls : d # c => Rests(d)
    BY <1>4, StatusSameGrows DEF Told, ToldToStop, Frame
  <2>2. /\ \A f \in timer' \cup listed' : Started(f)'
        /\ \A f \in toRecover' \cup unstartable' : row'[f].status # "absent"
    BY <1>0, <2>1, TendsKnown
  <2>3. Started(call[c].exec) /\ call[c].exec \in Executions
    BY <1>0, <2>1 DEF KnownCall, Attached, Early
  <2>4. KnownCall(c)'
    BY <2>1, <2>3, PastKnown DEF Same, RowSame, Started
  <2>5. \A d \in Calls : KnownCall(d)'
    BY <2>1, <2>4, RestsKnown
  <2> QED
    BY <2>2, <2>5 DEF RowsKnown, Started
<1>5. ASSUME NEW c \in Calls, NEW e \in Executions, Begins(c, e) PROVE RowsKnown'
  <2>1. /\ TimersFrame /\ RowOnly(e) /\ toRecover' \subseteq toRecover
        /\ unstartable' = unstartable
        /\ call'[c].pc = "created" /\ call'[c].exec = e
        /\ \A d \in Calls : d # c => call'[d] = call[d]
    BY <1>5 DEF Begins, Frame
  <2>2. /\ RowsGrow
        /\ row'[e].status # "absent"
        /\ call'[c].expect = "waiting" => row'[e].status \notin {"absent", "new"}
    <3>1. CASE row[e].status = "absent" /\ row'[e].status = "new" /\ call'[c].expect = "none"
      BY <2>1, <3>1 DEF RowOnly, RowsGrow, Started
    <3>2. CASE /\ call'[c].expect = "waiting" /\ (e \in timer \/ row[e].status = "waiting")
               /\ row'[e].status = row[e].status
      BY <2>1, <3>2 DEF RowOnly, RowsGrow, Started, RowsKnown
    <3>3. CASE /\ call'[c].expect = "new" /\ e \in toRecover
               /\ row'[e].status = row[e].status
      BY <2>1, <3>3 DEF RowOnly, RowsGrow, Started, RowsKnown
    <3> QED
      BY <1>5, <3>1, <3>2, <3>3 DEF Begins
  <2>3. /\ \A f \in timer' \cup listed' : Started(f)'
        /\ \A f \in toRecover' \cup unstartable' : row'[f].status # "absent"
    BY <1>0, <2>1, <2>2, FrameKnown
  <2>4. KnownCall(c)'
    BY <2>1, <2>2 DEF KnownCall, Started, Early
  <2>5. \A d \in Calls : d # c => Rests(d)
    BY <2>1 DEF Rests, Stays, Same
  <2>6. \A d \in Calls : KnownCall(d)'
    BY <2>2, <2>4, <2>5, RestsKnown
  <2> QED
    BY <2>3, <2>6 DEF RowsKnown, Started
<1>6. CASE Cancels
  <2>1. UNCHANGED <<call, timer, listed>> /\ Tends /\ RowOnly(stop.exec)
        /\ stop.exec \in Executions
    BY <1>6 DEF Cancels
  <2>2. RowsGrow
    <3>1. CASE row'[stop.exec].status = "canceled"
      BY <2>1, <3>1, StatusSetGrows
    <3>2. CASE row'[stop.exec].status = row[stop.exec].status
      BY <2>1, <3>2, StatusSameGrows DEF RowSame, RowOnly
    <3> QED
      BY <1>6, <3>1, <3>2 DEF Cancels
  <2>3. \A d \in Calls : KnownCall(d)'
    BY <2>1, <2>2, RestsKnown DEF Rests, Stays, Same
  <2>4. TimersFrame
    BY <2>1 DEF TimersFrame
  <2>5. /\ \A f \in timer' \cup listed' : Started(f)'
        /\ \A f \in toRecover' \cup unstartable' : row'[f].status # "absent"
    BY <1>0, <2>1, <2>2, <2>4, TendsKnown
  <2> QED
    BY <2>3, <2>5 DEF RowsKnown, Started
<1>7. CASE Restarts
  BY <1>7, IdleFacts DEF Restarts, RowsKnown, KnownCall, Early
<1>8. CASE ReadsRecovery
  <2>1. /\ UNCHANGED <<row, call, timer, listed, unstartable>>
        /\ toRecover' = {e \in Executions : row[e].status = "new"}
    BY <1>8 DEF ReadsRecovery
  <2> QED
    BY <2>1 DEF RowsKnown, KnownCall, Started
<1>9. ASSUME NEW e \in Executions, Crashes(e) PROVE RowsKnown'
  <2>1. /\ UNCHANGED <<call, timer, listed>> /\ RowOnly(e)
        /\ toRecover' \subseteq toRecover /\ unstartable' \subseteq unstartable
    BY <1>9 DEF Crashes
  <2>2. RowsGrow
    <3>1. CASE row'[e].status = "crashed"
      BY <2>1, <3>1, StatusSetGrows
    <3>2. CASE row'[e].status = row[e].status
      BY <2>1, <3>2, StatusSameGrows DEF RowSame, RowOnly
    <3> QED
      BY <1>9, <3>1, <3>2 DEF Crashes
  <2>3. \A d \in Calls : KnownCall(d)'
    BY <2>1, <2>2, RestsKnown DEF Rests, Stays, Same
  <2>4. TimersFrame
    BY <2>1 DEF TimersFrame
  <2>5. /\ \A f \in timer' \cup listed' : Started(f)'
        /\ \A f \in toRecover' \cup unstartable' : row'[f].status # "absent"
    BY <1>0, <2>1, <2>2, <2>4, FrameKnown
  <2> QED
    BY <2>3, <2>5 DEF RowsKnown, Started
<1> QED
  BY <1>1, <1>2, <1>3, <1>4, <1>5, <1>6, <1>7, <1>8, <1>9 DEF Step

-----------------------------------------------------------------------------
(* Who owns a row that is new.                                             *)

Owned(e) ==
  \/ ~booted \/ e \in toRecover \/ e \in unstartable
  \/ \E c \in Calls : call[c].exec = e
  \/ stop.pc = "acted" /\ stop.exec = e
  \/ e \in refused

\* A call that rests keeps its new row, unless a stop takes it or its write failed.
LEMMA RestsOwned ==
  ASSUME Shape, RowsKnown, NEW d \in Calls, Rests(d),
         call[d].exec \in Executions, row[call[d].exec].status = "new"
  PROVE  \/ Same(d)
         \/ stop'.pc = "acted" /\ stop'.exec = call[d].exec
         \/ call[d].exec \in refused' \cup unstartable'
<1>1. CASE Stays(d) \/ Sticks(d)
  BY <1>1 DEF Stays, Sticks
<1>2. CASE Left(d)
  <2>1. call[d].pc # "idle"
    <3>1. Idle.exec = 0 /\ 0 \notin Executions
      BY IdleFacts, ExecutionAssumption DEF Executions
    <3> QED
      BY <3>1 DEF Shape, CallsSound, Sound
  <2>2. call[d].pc \in Early /\ call[d].expect # "waiting"
    BY <2>1 DEF RowsKnown, KnownCall, Started
  <2>3. call[d].expect \in {"none", "new", "waiting"}
    BY DEF Shape, TypeOK, Call
  <2> QED
    BY <1>2, <2>2, <2>3 DEF Left
<1> QED
  BY <1>1, <1>2 DEF Rests

\* A new row stays owned over a step that leaves it alone.
LEMMA OwnedKept ==
  ASSUME Shape, RowsKnown, stop.pc = "acted" => stop' = stop,
         NEW e \in Executions, Owned(e), row[e].status = "new",
         booted' => booted, e \in toRecover => e \in toRecover',
         refused \subseteq refused', unstartable \subseteq unstartable',
         \A d \in Calls : call[d].exec = e => Rests(d) \/ Same(d)
  PROVE  Owned(e)'
<1>1. CASE ~booted \/ e \in toRecover \cup unstartable \cup refused
  BY <1>1 DEF Owned
<1>2. ASSUME NEW d \in Calls, call[d].exec = e PROVE Owned(e)'
  <2>1. \/ Same(d)
        \/ stop'.pc = "acted" /\ stop'.exec = e
        \/ e \in refused' \cup unstartable'
    BY <1>2, RestsOwned
  <2> QED
    BY <1>2, <2>1 DEF Owned, Same
<1>3. CASE stop.pc = "acted" /\ stop.exec = e
  BY <1>3 DEF Owned
<1> QED
  BY <1>1, <1>2, <1>3 DEF Owned

\* A row that is new keeps its owner, or changes it for another.
LEMMA OwnedStep ==
  ASSUME Shape, RowsKnown, NewRowsOwned, Step
  PROVE  NewRowsOwned'
<1> SUFFICES ASSUME NEW e \in Executions, row'[e].status = "new"
             PROVE  Owned(e)'
  BY DEF NewRowsOwned, Owned
<1>0. row[e].status = "new" => Owned(e)
  BY DEF NewRowsOwned, Owned
<1>1. CASE Quiet
  BY <1>0, <1>1, OwnedKept DEF Quiet, Frame, Tends, RowSame
<1>2. ASSUME NEW c \in Calls, Proceeds(c) PROVE Owned(e)'
  <2>1. CASE e = call[c].exec
    BY <1>2, <2>1 DEF Proceeds, Owned, Same
  <2>2. CASE e # call[c].exec
    <3>1. row[e].status = "new" /\ \A d \in Calls : call[d].exec = e => Rests(d)
      BY <1>2, <2>2 DEF Proceeds, RowOnly
    <3> QED
      BY <1>0, <1>2, <3>1, OwnedKept DEF Proceeds, Frame, Tends
  <2> QED
    BY <2>1, <2>2
<1>3. ASSUME NEW c \in Calls, Finishes(c) PROVE Owned(e)'
  <2>1. e # call[c].exec
    BY <1>3 DEF Finishes
  <2>2. row[e].status = "new" /\ \A d \in Calls : call[d].exec = e => Rests(d)
    BY <1>3, <2>1 DEF Finishes, RowOnly
  <2> QED
    BY <1>0, <1>3, <2>2, OwnedKept DEF Finishes, Frame, Tends
<1>4. ASSUME NEW c \in Calls, Told(c) PROVE Owned(e)'
  <2>1. row[e].status = "new" /\ \A d \in Calls : Rests(d) \/ Same(d)
    BY <1>4 DEF Told, ToldToStop, RowSame
  <2> QED
    BY <1>0, <1>4, <2>1, OwnedKept DEF Told, Frame, Tends
<1>5. ASSUME NEW c \in Calls, NEW f \in Executions, Begins(c, f) PROVE Owned(e)'
  <2>1. CASE e = f
    BY <1>5, <2>1 DEF Begins, Owned
  <2>2. CASE e # f
    <3>1. /\ row[e].status = "new" /\ booted' = booted
          /\ stop.pc = "acted" => stop' = stop
          /\ refused \subseteq refused' /\ unstartable \subseteq unstartable'
          /\ e \in toRecover => e \in toRecover'
          /\ call[c].pc = "idle" /\ \A d \in Calls : d # c => Same(d)
      BY <1>5, <2>2 DEF Begins, Frame, RowOnly, Same
    <3>2. call[c].exec # e
      <4>1. Idle.exec = 0 /\ 0 \notin Executions
        BY IdleFacts, ExecutionAssumption DEF Executions
      <4> QED
        BY <3>1, <4>1 DEF Shape, CallsSound, Sound
    <3> QED
      BY <1>0, <3>1, <3>2, OwnedKept
  <2> QED
    BY <2>1, <2>2
<1>6. CASE Cancels
  <2>1. CASE e # stop.exec
    <3>1. row[e].status = "new" /\ UNCHANGED call /\ Tends
      BY <1>6, <2>1 DEF Cancels, RowOnly
    <3> QED
      BY <1>0, <2>1, <3>1 DEF Owned, Tends
  <2>2. CASE e = stop.exec
    BY <1>6, <2>2 DEF Cancels, Owned
  <2> QED
    BY <2>1, <2>2
<1>7. CASE Restarts
  BY <1>7 DEF Restarts, Owned
<1>8. CASE ReadsRecovery
  BY <1>8 DEF ReadsRecovery, Owned
<1>9. ASSUME NEW f \in Executions, Crashes(f) PROVE Owned(e)'
  <2>1. CASE e = f
    BY <1>9, <2>1 DEF Crashes, Owned
  <2>2. CASE e # f
    <3>1. row[e].status = "new" /\ UNCHANGED <<call, booted, stop>>
          /\ refused \subseteq refused'
          /\ (e \in toRecover => e \in toRecover')
          /\ (e \in unstartable => e \in unstartable')
      BY <1>9, <2>2 DEF Crashes, RowOnly
    <3> QED
      BY <1>0, <3>1 DEF Owned
  <2> QED
    BY <2>1, <2>2
<1> QED
  BY <1>1, <1>2, <1>3, <1>4, <1>5, <1>6, <1>7, <1>8, <1>9 DEF Step

LEMMA InitKnown == Init => RowsKnown /\ NewRowsOwned
<1> SUFFICES ASSUME Init PROVE RowsKnown /\ NewRowsOwned
  OBVIOUS
<1>1. RowsKnown
  BY IdleFacts DEF Init, RowsKnown, KnownCall, Early
<1>2. NewRowsOwned
  BY DEF Init, NewRowsOwned
<1> QED
  BY <1>1, <1>2

\* Whatever crashes, stops, recoveries and failures come between, a row that is new
\* has somebody to run or to end it: its call, the recovery of this start, what that
\* could not run, or the stop that took it out of the queue.  Only a write that failed
\* leaves it to the recovery of the next start.
THEOREM NewRowsAreOwned == Spec => []NewRowsOwned
<1> DEFINE Inv == Shape /\ RowsKnown /\ NewRowsOwned
<1>1. Init => Inv
  BY InitShape, InitKnown
<1>2. Inv /\ [Next]_vars => Inv'
  BY NextStep, RowsKnownStep, OwnedStep
<1>3. Inv => NewRowsOwned
  OBVIOUS
<1> QED
  BY <1>1, <1>2, <1>3, PTL DEF Spec

-----------------------------------------------------------------------------
(* Who runs an execution.                                                  *)

\* Nobody but call c runs or is about to run e.
Exclusive(c, e) == \A d \in Calls : d # c /\ Owns(d) => call[d].exec # e

\* A call that rests owns what it owned, and is no nearer to its end.
LEMMA RestsOwns ==
  ASSUME NEW d \in Calls, Rests(d), Owns(d)', early \subseteq early'
  PROVE  /\ Owns(d) /\ Same(d) /\ (Fresh(d)' => Fresh(d))
         /\ OwnerStatus(d)' = OwnerStatus(d)
<1>1. call'[d].pc \notin {"idle", "stuck"} /\ call'[d].exec \notin early'
  BY DEF Owns, Pursues, Fresh, Running, Early
<1>2. Same(d) /\ (call'[d].pc = call[d].pc \/ (call[d].pc \in Early /\ call'[d].pc \in Early))
  BY <1>1, IdleFacts DEF Rests, Left, Stays, Sticks
<1>3. OwnerStatus(d)' = OwnerStatus(d)
  <2>1. CASE call'[d].pc = call[d].pc
    BY <2>1 DEF OwnerStatus
  <2>2. CASE call[d].pc \in Early /\ call'[d].pc \in Early
    BY <2>2 DEF OwnerStatus, Early
  <2> QED
    BY <1>2, <2>1, <2>2
<1>4. Owns(d) /\ (Fresh(d)' => Fresh(d))
  <2>1. CASE call'[d].pc = call[d].pc
    BY <1>1, <1>2, <2>1 DEF Owns, Pursues, Fresh, Same
  <2>2. CASE call[d].pc \in Early /\ call'[d].pc \in Early
    BY <1>1, <1>2, <2>2 DEF Owns, Pursues, Fresh, Same, Early, Running
  <2> QED
    BY <1>2, <2>1, <2>2
<1> QED
  BY <1>2, <1>3, <1>4

\* Who pursues an execution, by the place of its call.
LEMMA PursuesFacts ==
  ASSUME NEW c \in Calls
  PROVE  /\ Fresh(c) => Pursues(c)
         /\ Pursues(c) /\ call[c].pc \in Early => Fresh(c)
         /\ call[c].pc \in Running \cup {"claimed"} => Pursues(c)
         /\ Pursues(c) => call[c].pc \notin {"idle", "stuck"}
         /\ Owns(c) <=> Pursues(c) /\ call[c].exec \notin early
BY DEF Fresh, Pursues, Owns, Running, Early

\* Nothing is said of who owns an execution that the recovery read too early.
LEMMA EarlyExclusive ==
  ASSUME NEW e \in early
  PROVE  \A c \in Calls : Exclusive(c, e)
BY DEF Exclusive, Owns

\* An owner is the only one, and its row is as it leaves it.
LEMMA OwnerExclusive ==
  ASSUME Ownership, NEW c \in Calls, Owns(c)
  PROVE  Exclusive(c, call[c].exec) /\ row[call[c].exec].status \in OwnerStatus(c)
BY DEF Ownership, OneOwner, OwnersAgree, Exclusive

\* A call that goes on is alone with its execution: it owned it, or its claim
\* found the row as no owner leaves it.
LEMMA ProceedsExclusive ==
  ASSUME Shape, Ownership, NEW c \in Calls, Proceeds(c)
  PROVE  /\ Exclusive(c, call[c].exec)
         /\ call[c].exec \notin early =>
              Owns(c) \/ row[call[c].exec].status \in {"new", "waiting"}
<1> DEFINE e == call[c].exec
<1>1. CASE e \in early
  BY <1>1, EarlyExclusive
<1>2. CASE Owns(c)
  BY <1>2, OwnerExclusive
<1>3. CASE e \notin early /\ ~Owns(c)
  <2>1. ~Pursues(c)
    BY <1>3 DEF Owns
  <2>2. /\ call[c].pc \in {"admitted", "claimed", "registered"}
        /\ call[c].expect # "none" /\ row[e].status = call[c].expect
    BY <2>1, PursuesFacts DEF Proceeds
  <2>3. call[c].expect \in {"new", "waiting"} /\ e \in Executions /\ call[c].pc \in Start
    BY <2>2 DEF Shape, TypeOK, Call, CallsSound, Sound, Start, Early
  <2>4. ASSUME NEW d \in Calls, d # c, Owns(d), call[d].exec = e PROVE FALSE
    <3>1. row[e].status \in OwnerStatus(d)
      BY <2>4, OwnerExclusive
    <3>2. call[c].expect = "new"
      BY <2>2, <2>3, <3>1 DEF OwnerStatus
    <3>3. Recovering(e)
      BY <2>3, <3>2 DEF Recovering, First
    <3>4. Alone(e)
      BY <1>3, <2>3, <3>3 DEF Ownership, RecoveryApart
    <3> QED
      BY <2>4, <3>4 DEF Alone
  <2> QED
    BY <2>2, <2>3, <2>4 DEF Exclusive
<1> QED
  BY <1>1, <1>2, <1>3

\* A run that ends was alone with its execution.
LEMMA FinishesExclusive ==
  ASSUME Ownership, NEW c \in Calls, Finishes(c)
  PROVE  /\ Exclusive(c, call[c].exec)
         /\ call[c].exec \notin early => Owns(c)
<1>1. Pursues(c)
  BY PursuesFacts DEF Finishes, Running
<1>2. call[c].exec \notin early => Owns(c)
  BY <1>1 DEF Owns
<1> QED
  BY <1>2, EarlyExclusive, OwnerExclusive

\* A run that is told to stop is alone with its execution.
LEMMA ToldExclusive ==
  ASSUME Shape, Ownership, NEW c \in Calls, Told(c)
  PROVE  /\ Exclusive(c, call[c].exec)
         /\ call[c].exec \notin early =>
              row[call[c].exec].status \in {"running", "canceled", "success", "error"}
<1> DEFINE e == call[c].exec
<1>1. /\ call[c].pc \in Attached /\ active[e].run = c /\ active[e].status # "waiting"
      /\ c # 0 /\ e \in Executions
  BY ExecutionAssumption DEF Told, ToldToStop, Calls, Attached, Shape, CallsSound, Sound
<1>2. CASE e \in early
  BY <1>2, EarlyExclusive
<1>3. CASE e \notin early /\ call[c].pc = "saved"
  BY <1>1, <1>3 DEF Ownership, EndedRuns, Exclusive
<1>4. CASE e \notin early /\ call[c].pc # "saved"
  <2>1. Owns(c)
    BY <1>1, <1>4, PursuesFacts DEF Attached, Running
  <2> QED
    BY <1>1, <1>4, <2>1, OwnerExclusive DEF OwnerStatus, Attached, Early
<1> QED
  BY <1>2, <1>3, <1>4

\* A row that does not exist is nobody's.
LEMMA AbsentExclusive ==
  ASSUME Shape, RowsKnown, NEW e \in Executions, row[e].status = "absent"
  PROVE  /\ \A d \in Calls : call[d].exec = e => call[d].pc = "idle" /\ call[d].expect = "none"
         /\ \A d \in Calls : Exclusive(d, e)
         /\ e \notin toRecover \cup unstartable
<1>1. \A d \in Calls : call[d].exec = e => call[d].pc = "idle"
  BY DEF RowsKnown, KnownCall
<1>2. \A d \in Calls : call[d].pc = "idle" => call[d].expect = "none"
  BY IdleFacts DEF Shape, CallsSound, Sound
<1>3. e \notin toRecover \cup unstartable
  BY DEF RowsKnown
<1> QED
  BY <1>1, <1>2, <1>3, PursuesFacts DEF Exclusive

\* No execution stops being one of those read too early, but by a restart.
LEMMA EarlyGrows ==
  ASSUME RecoveryApart, Step, ~Restarts
  PROVE  early \subseteq early'
<1>1. CASE Quiet \/ Cancels \/ \E c \in Calls : Proceeds(c) \/ Finishes(c) \/ Told(c)
  BY <1>1 DEF Quiet, Cancels, Proceeds, Finishes, Told, Tends
<1>2. CASE (\E c \in Calls, e \in Executions : Begins(c, e)) \/ \E e \in Executions : Crashes(e)
  BY <1>2 DEF Begins, Crashes
<1>3. CASE ReadsRecovery
  BY <1>3 DEF ReadsRecovery, RecoveryApart
<1> QED
  BY <1>1, <1>2, <1>3 DEF Step

\* What a step does to the owners: those that rest keep theirs, and at most one
\* call goes on with an execution nobody else has.
Owners(c) ==
  /\ \A d \in Calls : d # c => Rests(d)
  /\ Owns(c)' => Exclusive(c, call'[c].exec)

\* Every step but a restart lets at most one call go on.
LEMMA OwnersOfStep ==
  ASSUME Shape, RowsKnown, Ownership, Step, ~Restarts
  PROVE  \E c \in Calls : Owners(c)
<1>0. 1 \in Calls /\ early \subseteq early'
  BY ExecutionAssumption, EarlyGrows DEF Calls, Ownership
<1>1. ASSUME \A d \in Calls : Rests(d)
      PROVE  \E c \in Calls : Owners(c)
  <2>1. Owns(1)' => Exclusive(1, call'[1].exec)
    BY <1>0, <1>1, RestsOwns, OwnerExclusive DEF Same
  <2> QED
    BY <1>0, <1>1, <2>1 DEF Owners
<1>2. CASE Quiet \/ Cancels \/ ReadsRecovery \/ \E e \in Executions : Crashes(e)
  BY <1>1, <1>2 DEF Quiet, Cancels, ReadsRecovery, Crashes, Rests, Stays, Same
<1>3. ASSUME NEW c \in Calls, Proceeds(c) PROVE Owners(c)
  BY <1>3, ProceedsExclusive DEF Owners, Proceeds, Same
<1>4. ASSUME NEW c \in Calls, Finishes(c) PROVE Owners(c)
  <2>1. ~Owns(c)'
    BY <1>4, IdleFacts DEF Finishes, Left, Owns, Pursues, Fresh, Running, Early
  <2> QED
    BY <1>4, <2>1 DEF Owners, Finishes
<1>5. ASSUME NEW c \in Calls, Told(c) PROVE Owners(c)
  BY <1>5, ToldExclusive DEF Owners, Told, ToldToStop, Same
<1>6. ASSUME NEW c \in Calls, NEW e \in Executions, Begins(c, e) PROVE Owners(c)
  <2>1. /\ \A d \in Calls : d # c => Rests(d)
        /\ call'[c].pc = "created" /\ call'[c].exec = e
    BY <1>6 DEF Begins, Rests, Stays, Same
  <2>2. CASE call'[c].expect = "none"
    <3>1. row[e].status = "absent"
      BY <1>6, <2>2 DEF Begins
    <3> QED
      BY <2>1, <3>1, AbsentExclusive DEF Owners
  <2>3. CASE call'[c].expect # "none"
    BY <2>1, <2>3 DEF Owners, Owns, Pursues, Fresh, Running, Early
  <2> QED
    BY <2>2, <2>3
<1> QED
  BY <1>2, <1>3, <1>4, <1>5, <1>6 DEF Step

\* Hence no execution gets a second owner.
LEMMA OneOwnerStep ==
  ASSUME OneOwner, NEW c \in Calls, Owners(c), early \subseteq early'
  PROVE  OneOwner'
<1> SUFFICES ASSUME NEW x \in Calls, NEW y \in Calls, Owns(x)', Owns(y)',
                    call'[x].exec = call'[y].exec
             PROVE  x = y
  BY DEF OneOwner, Owns, Pursues, Fresh
<1>1. \A d \in Calls : d # c /\ Owns(d)' => Owns(d) /\ Same(d)
  BY RestsOwns DEF Owners
<1>2. CASE x # c /\ y # c
  BY <1>1, <1>2 DEF OneOwner, Same
<1>3. CASE x = c \/ y = c
  BY <1>1, <1>3 DEF Owners, Exclusive, Same
<1> QED
  BY <1>2, <1>3

\* What the row may become while it has an owner.
LEMMA OwnersAgreeStep ==
  ASSUME Shape, RowsKnown, Ownership, Step
  PROVE  OwnersAgree'
<1> SUFFICES ASSUME NEW d \in Calls, Owns(d)'
             PROVE  row'[call'[d].exec].status \in OwnerStatus(d)'
  BY DEF OwnersAgree, Owns, Pursues, Fresh, OwnerStatus
<1>0. \A x \in Calls : Owns(x) =>
        call[x].exec \in Executions /\ row[call[x].exec].status \in OwnerStatus(x)
  BY PursuesFacts, OwnerExclusive DEF Shape, CallsSound, Sound
<1>8. CASE Restarts
  BY <1>8, IdleFacts DEF Restarts, Owns, Pursues, Fresh, Running, Early
<1> SUFFICES ASSUME ~Restarts
             PROVE  row'[call'[d].exec].status \in OwnerStatus(d)'
  BY <1>8
<1>10. early \subseteq early'
  BY EarlyGrows DEF Ownership
<1>1. ASSUME Rests(d), row'[call[d].exec].status = row[call[d].exec].status \/
                         row'[call[d].exec].status = "canceled"
      PROVE  row'[call'[d].exec].status \in OwnerStatus(d)'
  <2>1. Owns(d) /\ Same(d) /\ OwnerStatus(d)' = OwnerStatus(d)
    BY <1>1, <1>10, RestsOwns
  <2>2. "canceled" \in OwnerStatus(d)
    BY DEF OwnerStatus
  <2> QED
    BY <1>0, <1>1, <2>1, <2>2 DEF Same
<1>2. CASE Quiet
  BY <1>0, <1>1, <1>2, <1>10, RestsOwns DEF Quiet, RowSame
<1>3. ASSUME NEW c \in Calls, Proceeds(c)
      PROVE  row'[call'[d].exec].status \in OwnerStatus(d)'
  <2>1. CASE d # c
    <3>1. Rests(d) /\ Owns(d) /\ Same(d)
      BY <1>3, <1>10, <2>1, RestsOwns DEF Proceeds
    <3>2. call[d].exec # call[c].exec /\ call[d].exec \in Executions
      BY <1>0, <1>3, <2>1, <3>1, ProceedsExclusive DEF Exclusive
    <3> QED
      BY <1>1, <1>3, <3>1, <3>2 DEF Proceeds, RowOnly
  <2>2. CASE d = c
    <3>1. Same(c) /\ call'[c].pc \in (Running \cup {"claimed"}) \ {"cancelling"}
      BY <1>3 DEF Proceeds
    <3>2. {"running", "canceled"} \subseteq OwnerStatus(c)'
      BY <3>1 DEF OwnerStatus
    <3>3. row'[call[c].exec].status \in {"running", "canceled"}
      <4>1. CASE row'[call[c].exec].status = "running"
        BY <4>1
      <4>2. CASE /\ row'[call[c].exec].status = row[call[c].exec].status
                 /\ call[c].pc \in Running \ {"cancelling", "stray"}
        <5>1. call[c].exec \notin early
          BY <1>10, <2>2, <3>1 DEF Same, Owns
        <5>2. Owns(c)
          BY <4>2, <5>1, PursuesFacts
        <5>3. OwnerStatus(c) = {"running", "canceled"}
          BY <4>2 DEF OwnerStatus, Running, Early
        <5> QED
          BY <1>0, <4>2, <5>2, <5>3
      <4> QED
        BY <1>3, <4>1, <4>2 DEF Proceeds
    <3> QED
      BY <2>2, <3>1, <3>2, <3>3 DEF Same
  <2> QED
    BY <2>1, <2>2
<1>4. ASSUME NEW c \in Calls, Finishes(c)
      PROVE  row'[call'[d].exec].status \in OwnerStatus(d)'
  <2>1. d # c
    BY <1>4, IdleFacts DEF Finishes, Left, Owns, Pursues, Fresh, Running, Early
  <2>2. Rests(d) /\ Owns(d)
    BY <1>4, <1>10, <2>1, RestsOwns DEF Finishes
  <2>3. call[d].exec # call[c].exec /\ call[d].exec \in Executions
    BY <1>0, <1>4, <2>1, <2>2, FinishesExclusive DEF Exclusive
  <2> QED
    BY <1>1, <1>4, <2>2, <2>3 DEF Finishes, RowOnly
<1>5. ASSUME NEW c \in Calls, Told(c)
      PROVE  row'[call'[d].exec].status \in OwnerStatus(d)'
  <2>1. CASE d # c
    BY <1>0, <1>1, <1>5, <1>10, <2>1, RestsOwns DEF Told, ToldToStop, RowSame
  <2>2. CASE d = c
    <3>1. /\ Same(c) /\ call'[c].pc = "cancelling" /\ call[c].exec \in Executions
          /\ call[c].exec \notin early
      BY <1>5, <1>10, <2>2 DEF Told, ToldToStop, Attached, Shape, CallsSound, Sound, Same, Owns
    <3>2. OwnerStatus(c)' = {"running", "canceled", "success", "error"}
      BY <3>1 DEF OwnerStatus, Early
    <3> QED
      BY <1>5, <2>2, <3>1, <3>2, ToldExclusive DEF Told, RowSame, Same
  <2> QED
    BY <2>1, <2>2
<1>6. ASSUME NEW c \in Calls, NEW e \in Executions, Begins(c, e)
      PROVE  row'[call'[d].exec].status \in OwnerStatus(d)'
  <2>1. CASE d # c
    <3>1. Rests(d)
      BY <1>6, <2>1 DEF Begins, Rests, Stays, Same
    <3>2. Owns(d) /\ call[d].exec \in Executions
      BY <1>0, <1>10, <3>1, RestsOwns
    <3>3. CASE call[d].exec # e
      BY <1>1, <1>6, <3>1, <3>2, <3>3 DEF Begins, RowOnly
    <3>4. CASE call[d].exec = e
      <4>1. row[e].status # "absent"
        BY <3>2, <3>4, AbsentExclusive, PursuesFacts
      <4> QED
        BY <1>1, <1>6, <3>1, <3>4, <4>1 DEF Begins
    <3> QED
      BY <3>3, <3>4
  <2>2. CASE d = c
    BY <1>6, <2>2 DEF Begins, Owns, Pursues, Fresh, Running, Early, OwnerStatus
  <2> QED
    BY <2>1, <2>2
<1>7. CASE Cancels
  <2>1. Rests(d) /\ Owns(d)
    BY <1>7, <1>10, RestsOwns DEF Cancels, Rests, Stays, Same
  <2> QED
    BY <1>0, <1>1, <1>7, <2>1 DEF Cancels, RowOnly
<1>9. CASE ReadsRecovery
  <2>1. Rests(d) /\ row' = row
    BY <1>9 DEF ReadsRecovery, Rests, Stays, Same
  <2> QED
    BY <1>1, <2>1
<1>11. ASSUME NEW e \in Executions, Crashes(e)
       PROVE  row'[call'[d].exec].status \in OwnerStatus(d)'
  <2>1. Rests(d) /\ Owns(d) /\ call'[d] = call[d]
    BY <1>10, <1>11, RestsOwns DEF Crashes, Rests, Stays, Same
  <2>2. CASE call[d].exec # e
    BY <1>0, <1>1, <1>11, <2>1, <2>2 DEF Crashes, RowOnly
  <2>3. CASE call[d].exec = e
    <3>1. Alone(e)
      BY <1>11, <2>1, <2>3 DEF Crashes, Owns, Ownership, RecoveryApart, Recovering
    <3>2. call[d].pc = "stray"
      BY <1>11, <2>1, <2>3, <3>1, PursuesFacts DEF Alone, Crashes
    <3>3. OwnerStatus(d)' = {"running", "canceled", "crashed"}
      BY <2>1, <3>2 DEF OwnerStatus, Early
    <3>4. row'[e].status = "crashed" \/ row'[e].status = row[e].status
      BY <1>11 DEF Crashes
    <3> QED
      BY <1>1, <2>1, <2>3, <3>3, <3>4
  <2> QED
    BY <2>2, <2>3
<1> QED
  BY <1>2, <1>3, <1>4, <1>5, <1>6, <1>7, <1>9, <1>11 DEF Step

\* A call that is not at its start, or not one of the recovery, does not become
\* one, and a call that the recovery let go stays where it is.
Follows(d) ==
  \/ call'[d] = Idle
  \/ /\ Same(d)
     /\ call'[d].pc \in Start => call[d].pc \in Start
     /\ call[d].pc \in {"stray", "stuck"} => call'[d].pc = call[d].pc

LEMMA RestsFollows ==
  ASSUME NEW d \in Calls, Rests(d)
  PROVE  Follows(d)
BY DEF Rests, Left, Stays, Sticks, Follows, Start, Early

\* The recovery stays apart over a step that leaves it where it is.
LEMMA RecoveryKept ==
  ASSUME Shape, RecoveryApart, Tends, TimersFrame, \A d \in Calls : Follows(d),
         \A e \in Executions : row'[e].status = "waiting" =>
           \/ row[e].status = "waiting"
           \/ \E d \in Calls : call[d].exec = e /\ call[d].pc = "parking"
  PROVE  RecoveryApart'
<1>1. ASSUME NEW e \in Executions, NEW d \in Calls, call'[d].exec = e
      PROVE  /\ Same(d) /\ call[d].exec = e
             /\ call'[d].pc \in Start => call[d].pc \in Start
             /\ call[d].pc \in {"stray", "stuck"} => call'[d].pc = call[d].pc
  <2>1. call'[d] # Idle
    BY <1>1, IdleFacts, ExecutionAssumption DEF Executions
  <2> QED
    BY <1>1, <2>1 DEF Follows, Same
<1>2. ASSUME NEW e \in Executions, e \notin early', Recovering(e)'
      PROVE  Alone(e)'
  <2>1. Recovering(e)
    <3>1. CASE e \in toRecover' \cup unstartable'
      BY <3>1 DEF Tends, Recovering
    <3>2. ASSUME NEW c \in Calls, call'[c].exec = e, First(c)' PROVE Recovering(e)
      BY <1>1, <3>2 DEF Recovering, First, Same
    <3> QED
      BY <1>2, <3>1, <3>2 DEF Recovering, First
  <2>2. Alone(e)
    BY <1>2, <2>1 DEF RecoveryApart, Tends
  <2>3. e \notin timer' \cup listed'
    BY <2>2 DEF Alone, TimersFrame
  <2>4. row'[e].status # "waiting"
    BY <2>2 DEF Alone, First, Start, Early
  <2>5. \A c, d \in Calls : call'[c].exec = e /\ call'[d].exec = e => c = d
    BY <1>1, <2>2 DEF Alone
  <2>6. ASSUME NEW c \in Calls, call'[c].exec = e
        PROVE  /\ First(c)' /\ e \notin toRecover'
               /\ e \in unstartable' => call'[c].pc \in {"stray", "stuck"}
    <3>1. /\ First(c) /\ call[c].exec = e /\ e \notin toRecover /\ Same(c)
          /\ e \in unstartable => call[c].pc \in {"stray", "stuck"}
      BY <1>1, <2>2, <2>6 DEF Alone
    <3>2. e \notin toRecover'
      BY <3>1 DEF Tends
    <3>3. e \in unstartable' => call'[c].pc \in {"stray", "stuck"}
      <4>1. CASE e \in unstartable
        BY <1>1, <2>6, <3>1, <4>1
      <4>2. ASSUME e \in unstartable', e \notin unstartable
            PROVE  call'[c].pc \in {"stray", "stuck"}
        <5>1. PICK x \in Calls : /\ call[x].exec = e /\ First(x)
                                 /\ call'[x] = Idle \/ call'[x].pc \in {"stray", "stuck"}
          BY <3>1, <4>2 DEF Tends
        <5>2. x = c
          BY <2>2, <3>1, <5>1 DEF Alone
        <5>3. call'[c] # Idle
          BY <2>6, IdleFacts, ExecutionAssumption DEF Executions
        <5> QED
          BY <5>1, <5>2, <5>3
      <4> QED
        BY <4>1, <4>2
    <3>4. First(c)'
      <4>1. CASE \E x \in Calls : call'[x].exec = e /\ First(x)'
        BY <2>5, <2>6, <4>1
      <4>2. CASE e \in unstartable'
        BY <3>1, <3>3, <4>2 DEF First, Same, Start
      <4> QED
        BY <1>2, <3>2, <4>1, <4>2 DEF Recovering, First
    <3> QED
      BY <3>2, <3>3, <3>4
  <2> QED
    BY <2>3, <2>4, <2>5, <2>6 DEF Alone, First
<1>3. ~booted' => /\ early' = {} /\ toRecover' = {} /\ unstartable' = {}
                  /\ \A c \in Calls : call'[c].expect # "new"
  <2> SUFFICES ASSUME ~booted'
               PROVE  /\ early' = {} /\ toRecover' = {} /\ unstartable' = {}
                      /\ \A c \in Calls : call'[c].expect # "new"
    OBVIOUS
  <2>1. /\ early' = {} /\ toRecover' = {} /\ toRecover = {} /\ unstartable = {}
        /\ \A c \in Calls : call[c].expect # "new"
    BY DEF Tends, RecoveryApart
  <2>2. unstartable' = {}
    BY <2>1 DEF Tends, First
  <2>3. \A c \in Calls : call'[c].expect # "new"
    BY <2>1, IdleFacts DEF Follows, Same
  <2> QED
    BY <2>1, <2>2, <2>3
<1> QED
  BY <1>2, <1>3 DEF RecoveryApart, Recovering, Alone, First

\* The recovery stays apart when a call begins.
LEMMA BeginsApart ==
  ASSUME Shape, RowsKnown, RecoveryApart,
         NEW c \in Calls, NEW f \in Executions, Begins(c, f)
  PROVE  RecoveryApart'
<1>1. /\ call[c].pc = "idle" /\ call'[c].pc = "created" /\ call'[c].exec = f
      /\ \A d \in Calls : d # c => call'[d] = call[d]
      /\ UNCHANGED <<booted, unstartable, early>> /\ TimersFrame /\ RowOnly(f)
      /\ toRecover' \subseteq toRecover
      /\ \A e \in Executions : e # f /\ e \in toRecover => e \in toRecover'
  BY DEF Begins, Frame
<1>2. call[c] = Idle /\ Idle.exec = 0 /\ 0 \notin Executions /\ Idle.expect = "none"
  BY <1>1, IdleFacts, ExecutionAssumption DEF Shape, CallsSound, Sound, Executions
<1>3. \A e \in Executions \ early : Recovering(e) => Alone(e)
  BY DEF RecoveryApart
<1>4. ASSUME NEW e \in Executions, e \notin early, e # f, Recovering(e)'
      PROVE  Alone(e)'
  <2>1. \A d \in Calls : call'[d].exec = e => d # c /\ call'[d] = call[d]
    BY <1>1, <1>4
  <2>2. \A d \in Calls : call[d].exec = e => d # c
    BY <1>2
  <2>3. Recovering(e)
    BY <1>1, <1>4, <2>1 DEF Recovering, First
  <2>4. Alone(e)
    BY <1>3, <1>4, <2>3
  <2>5. row'[e].status = row[e].status
    BY <1>1, <1>4 DEF RowOnly
  <2> QED
    BY <1>1, <2>1, <2>4, <2>5 DEF Alone, First, TimersFrame
<1>5. ASSUME f \notin early, Recovering(f)'
      PROVE  Alone(f)'
  <2>1. CASE call'[c].expect # "new"
    <3>1. Recovering(f)
      BY <1>1, <1>5, <2>1 DEF Recovering, First
    <3>2. Alone(f)
      BY <1>3, <1>5, <3>1
    <3>3. row[f].status = "absent"
      BY <2>1, <3>2 DEF Begins, Alone
    <3> QED
      BY <3>1, <3>3, AbsentExclusive DEF Recovering, First
  <2>2. CASE call'[c].expect = "new"
    <3>1. f \in toRecover /\ f \notin unstartable /\ f \notin toRecover'
          /\ row'[f].status = row[f].status
      BY <2>2 DEF Begins
    <3>2. Alone(f)
      BY <1>3, <1>5, <3>1 DEF Recovering
    <3>3. \A d \in Calls : call'[d].exec = f => d = c
      BY <1>1, <3>1, <3>2 DEF Alone
    <3>4. First(c)'
      BY <1>1, <2>2 DEF First, Start, Early
    <3> QED
      BY <1>1, <3>1, <3>2, <3>3, <3>4 DEF Alone, First, TimersFrame
  <2> QED
    BY <2>1, <2>2
<1>6. ~booted' => /\ early' = {} /\ toRecover' = {} /\ unstartable' = {}
                  /\ \A d \in Calls : call'[d].expect # "new"
  <2>1. ~booted' => /\ early' = {} /\ toRecover = {} /\ unstartable' = {}
                    /\ \A d \in Calls : call[d].expect # "new"
    BY <1>1 DEF RecoveryApart
  <2>2. call'[c].expect = "new" => f \in toRecover
    BY DEF Begins
  <2> QED
    BY <1>1, <2>1, <2>2
<1> QED
  BY <1>1, <1>4, <1>5, <1>6 DEF RecoveryApart, Recovering, Alone, First

\* The recovery stays apart from what the calls of this process have, but for the
\* executions it read while they had them.
LEMMA RecoveryApartStep ==
  ASSUME Shape, RowsKnown, RecoveryApart, Step
  PROVE  RecoveryApart'
<1>1. CASE Quiet
  BY <1>1, RestsFollows, RecoveryKept DEF Quiet, Frame, RowSame
<1>2. ASSUME NEW c \in Calls, Proceeds(c) PROVE RecoveryApart'
  <2>1. Follows(c)
    BY <1>2 DEF Proceeds, Follows, Running
  <2>2. \A e \in Executions : row'[e].status = "waiting" => row[e].status = "waiting"
    BY <1>2 DEF Proceeds, RowOnly
  <2>3. Tends /\ TimersFrame /\ \A d \in Calls : d # c => Rests(d)
    BY <1>2 DEF Proceeds, Frame
  <2> QED
    BY <2>1, <2>2, <2>3, RestsFollows, RecoveryKept
<1>3. ASSUME NEW c \in Calls, Finishes(c) PROVE RecoveryApart'
  <2>1. Follows(c)
    BY <1>3 DEF Finishes, Left, Follows, Start, Early
  <2>2. \A e \in Executions : row'[e].status = "waiting" =>
          \/ row[e].status = "waiting"
          \/ call[c].exec = e /\ call[c].pc = "parking"
    BY <1>3 DEF Finishes, RowOnly
  <2>3. Tends /\ TimersFrame /\ \A d \in Calls : d # c => Rests(d)
    BY <1>3 DEF Finishes, Frame
  <2> QED
    BY <2>1, <2>2, <2>3, RestsFollows, RecoveryKept
<1>4. ASSUME NEW c \in Calls, Told(c) PROVE RecoveryApart'
  <2>1. Follows(c)
    BY <1>4 DEF Told, ToldToStop, Attached, Follows, Start, Early
  <2>2. Tends /\ TimersFrame /\ RowSame /\ \A d \in Calls : d # c => Rests(d)
    BY <1>4 DEF Told, ToldToStop, Frame
  <2> QED
    BY <2>1, <2>2, RestsFollows, RecoveryKept DEF RowSame
<1>5. ASSUME NEW c \in Calls, NEW e \in Executions, Begins(c, e) PROVE RecoveryApart'
  BY <1>5, BeginsApart
<1>6. CASE Cancels
  <2>1. TimersFrame /\ Tends /\ \A d \in Calls : Rests(d)
    BY <1>6 DEF Cancels, TimersFrame, Rests, Stays, Same
  <2>2. \A e \in Executions : row'[e].status = "waiting" => row[e].status = "waiting"
    BY <1>6 DEF Cancels, RowOnly
  <2> QED
    BY <2>1, <2>2, RestsFollows, RecoveryKept
<1>7. CASE Restarts
  <2>1. \A e \in Executions : ~Recovering(e)'
    BY <1>7, IdleFacts DEF Restarts, Recovering, First
  <2> QED
    BY <1>7, <2>1, IdleFacts DEF Restarts, RecoveryApart
<1>8. CASE ReadsRecovery
  <2>1. /\ UNCHANGED <<row, call, timer, listed>> /\ booted' /\ unstartable' = {}
        /\ toRecover' = {e \in Executions : row[e].status = "new"}
        /\ early' = {e \in toRecover' : \E c \in Calls : call[c].exec = e}
        /\ \A c \in Calls : call[c].expect # "new"
    BY <1>8 DEF ReadsRecovery, RecoveryApart
  <2>2. ASSUME NEW e \in Executions, e \notin early', Recovering(e)'
        PROVE  Alone(e)'
    <3>1. row[e].status = "new" /\ \A c \in Calls : call[c].exec # e
      BY <2>1, <2>2 DEF Recovering, First
    <3>2. e \notin timer \cup listed
      BY <3>1 DEF RowsKnown, Started
    <3> QED
      BY <2>1, <3>1, <3>2 DEF Alone, First
  <2> QED
    BY <2>1, <2>2 DEF RecoveryApart, Recovering, Alone, First
<1>9. ASSUME NEW f \in Executions, Crashes(f) PROVE RecoveryApart'
  <2>1. /\ UNCHANGED <<call, timer, listed, booted, early>>
        /\ toRecover' \subseteq toRecover /\ unstartable' \subseteq unstartable
        /\ \A e \in Executions : row'[e].status = row[e].status \/ row'[e].status = "crashed"
    BY <1>9 DEF Crashes, RowOnly
  <2>2. ASSUME NEW e \in Executions, e \notin early', Recovering(e)'
        PROVE  Alone(e)'
    <3>1. Alone(e)
      BY <2>1, <2>2 DEF RecoveryApart, Recovering, First
    <3> QED
      BY <2>1, <3>1 DEF Alone, First
  <2>3. ~booted' => /\ early' = {} /\ toRecover' = {} /\ unstartable' = {}
                    /\ \A c \in Calls : call'[c].expect # "new"
    BY <2>1 DEF RecoveryApart
  <2> QED
    BY <2>2, <2>3 DEF RecoveryApart, Recovering, Alone, First
<1> QED
  BY <1>1, <1>2, <1>3, <1>4, <1>5, <1>6, <1>7, <1>8, <1>9 DEF Step

\* The run behind an entry the step keeps is where it was.
LEMMA EntryKept ==
  ASSUME Shape', NEW e \in Executions, active'[e].run # 0, Rests(active'[e].run)
  PROVE  call'[active'[e].run].pc = call[active'[e].run].pc
<1>1. call'[active'[e].run].pc \in Attached
  BY DEF Shape, RunSound
<1> QED
  BY <1>1, IdleFacts DEF Rests, Left, Stays, Sticks, Attached, Early

EndedRun(e) ==
  active[e].run # 0 =>
    /\ call[active[e].run].pc = "parking" => active[e].status = "waiting"
    /\ call[active[e].run].pc = "saved" /\ active[e].status # "waiting" =>
         /\ row[e].status \in {"success", "error", "canceled"}
         /\ \A d \in Calls : Owns(d) => call[d].exec # e

\* An entry that a step keeps, with its row, over a cancellation or before the row
\* is written, and without a new owner of its execution.
LEMMA EndedRunKept ==
  ASSUME Shape, Shape', NEW e \in Executions, EndedRun(e),
         active'[e] = active[e] \/ active'[e].run = 0,
         \/ row'[e].status = row[e].status
         \/ row'[e].status = "canceled" \/ row[e].status \in {"new", "running"},
         active[e].run # 0 => Rests(active[e].run),
         \A d \in Calls : Owns(d)' => (Owns(d) /\ Same(d)) \/ call'[d].exec # e
  PROVE  EndedRun(e)'
<1> SUFFICES ASSUME active'[e].run # 0 PROVE EndedRun(e)'
  BY DEF EndedRun
<1>1. active'[e] = active[e] /\ active[e].run # 0
  OBVIOUS
<1>2. call'[active[e].run].pc = call[active[e].run].pc
  BY <1>1, EntryKept
<1>3. \A d \in Calls : Owns(d)' /\ call'[d].exec = e => Owns(d) /\ call[d].exec = e
  BY DEF Same
<1> QED
  BY <1>1, <1>2, <1>3 DEF EndedRun, Owns, Pursues, Fresh

\* An entry whose run ended waits, or its row says how the run ended.
LEMMA EndedRunsStep ==
  ASSUME Shape, Shape', RowsKnown, Ownership, Step
  PROVE  EndedRuns'
<1> SUFFICES ASSUME NEW e \in Executions, e \notin early' PROVE EndedRun(e)'
  BY DEF EndedRuns, EndedRun, Owns, Pursues, Fresh
<1>7. CASE Restarts
  BY <1>7 DEF Restarts, EndedRun
<1> SUFFICES ASSUME ~Restarts PROVE EndedRun(e)'
  BY <1>7
<1>9. early \subseteq early' /\ e \notin early
  BY EarlyGrows DEF Ownership
<1>0. /\ EndedRun(e)
      /\ active[e].run # 0 => /\ active[e].run \in Calls
                              /\ call[active[e].run].exec = e
                              /\ call[active[e].run].pc \in Attached
  BY <1>9, ExecutionAssumption
     DEF Ownership, EndedRuns, EndedRun, Shape, TypeOK, RunSound, Calls
<1>1. CASE Quiet
  BY <1>0, <1>1, <1>9, EndedRunKept, RestsOwns DEF Quiet, EntriesDrop, RowSame
<1>2. ASSUME NEW c \in Calls, Proceeds(c) PROVE EndedRun(e)'
  <2>1. /\ Same(c) /\ Exclusive(c, call[c].exec)
        /\ \A d \in Calls : d # c => Rests(d)
        /\ call[c].exec \notin early =>
             Owns(c) \/ row[call[c].exec].status \in {"new", "waiting"}
    BY <1>2, ProceedsExclusive DEF Proceeds
  <2>2. CASE e # call[c].exec
    <3>1. active[e].run # c
      BY <1>0, <2>2, ExecutionAssumption DEF Calls
    <3>2. active'[e] = active[e] \/ active'[e].run = 0
      BY <1>2, <2>2 DEF Proceeds
    <3> QED
      BY <1>0, <1>2, <1>9, <2>1, <2>2, <3>1, <3>2, EndedRunKept, RestsOwns
         DEF Proceeds, RowOnly, Same
  <2>3. CASE e = call[c].exec
    <3>1. call'[c].pc = "parking" => active'[e].status = "waiting"
      BY <1>2, <2>3 DEF Proceeds
    <3>2. call'[c].pc # "saved"
      BY <1>2 DEF Proceeds, Running
    <3>3. CASE active'[e] = active[e] /\ active[e].run # 0
      <4>1. CASE active[e].run = c
        BY <3>1, <3>2, <3>3, <4>1 DEF EndedRun
      <4>2. CASE active[e].run # c
        <5>1. call'[active[e].run].pc = call[active[e].run].pc
          BY <1>0, <2>1, <3>3, <4>2, EntryKept
        <5>2. ~(call[active[e].run].pc = "saved" /\ active[e].status # "waiting")
          BY <1>0, <1>9, <2>1, <2>3, <3>3 DEF EndedRun
        <5> QED
          BY <1>0, <3>3, <5>1, <5>2 DEF EndedRun
      <4> QED
        BY <4>1, <4>2
    <3>4. CASE active'[e].run = c /\ call'[c].pc = "executing"
      BY <3>4 DEF EndedRun
    <3>5. CASE active'[e].status = "waiting" \/ active'[e].run = 0
      BY <3>5 DEF EndedRun
    <3> QED
      BY <1>2, <2>3, <3>3, <3>4, <3>5 DEF Proceeds
  <2> QED
    BY <2>2, <2>3
<1>3. ASSUME NEW c \in Calls, Finishes(c) PROVE EndedRun(e)'
  <2>1. /\ active' = active /\ Exclusive(c, call[c].exec)
        /\ call[c].exec \notin early => Owns(c)
        /\ \A d \in Calls : d # c => Rests(d)
    BY <1>3, FinishesExclusive DEF Finishes
  <2>2. \A d \in Calls : Owns(d)' => Owns(d) /\ Same(d) /\ d # c
    <3>1. ~Owns(c)'
      BY <1>3, IdleFacts DEF Finishes, Left, Owns, Pursues, Fresh, Running, Early
    <3> QED
      BY <1>9, <2>1, <3>1, RestsOwns
  <2>3. CASE e # call[c].exec
    <3>1. active[e].run # c
      BY <1>0, <2>3, ExecutionAssumption DEF Calls
    <3> QED
      BY <1>0, <1>3, <2>1, <2>2, <2>3, <3>1, EndedRunKept DEF Finishes, RowOnly
  <2>4. CASE e = call[c].exec /\ active[e].run # 0
    <3>1. CASE active[e].run = c
      <4>1. call[c].pc \in {"executing", "parking"} /\ call'[c].pc # "parking"
        BY <1>0, <1>3, <2>4, <3>1, IdleFacts DEF Finishes, Attached, Left
      <4>2. CASE call[c].pc = "parking"
        BY <1>0, <2>1, <2>4, <3>1, <4>1, <4>2 DEF EndedRun
      <4>3. CASE call[c].pc = "executing"
        <5>1. row'[e].status \in {"success", "error", "canceled"}
          BY <1>3, <2>4, <4>3 DEF Finishes
        <5>2. \A d \in Calls : Owns(d)' => call'[d].exec # e
          BY <2>1, <2>2, <2>4 DEF Exclusive, Same
        <5> QED
          BY <2>1, <3>1, <4>1, <5>1, <5>2 DEF EndedRun, Owns, Pursues, Fresh
      <4> QED
        BY <4>1, <4>2, <4>3
    <3>2. CASE active[e].run # c
      <4>1. call'[active[e].run].pc = call[active[e].run].pc
        BY <1>0, <2>1, <2>4, <3>2, EntryKept
      <4>2. ~(call[active[e].run].pc = "saved" /\ active[e].status # "waiting")
        BY <1>0, <1>9, <2>1, <2>4 DEF EndedRun
      <4> QED
        BY <1>0, <2>1, <2>4, <4>1, <4>2 DEF EndedRun
    <3> QED
      BY <3>1, <3>2
  <2>5. CASE active[e].run = 0
    BY <2>1, <2>5 DEF EndedRun
  <2> QED
    BY <2>3, <2>4, <2>5
<1>4. ASSUME NEW c \in Calls, Told(c) PROVE EndedRun(e)'
  <2>1. /\ Same(c) /\ active'[call[c].exec].run = 0
        /\ active'[e] = active[e] \/ active'[e].run = 0
        /\ row'[e].status = row[e].status
        /\ \A d \in Calls : d # c => Rests(d)
    BY <1>4 DEF Told, ToldToStop, EntriesDrop, RowSame
  <2>2. CASE e = call[c].exec
    BY <2>1, <2>2 DEF EndedRun
  <2>3. CASE e # call[c].exec
    <3>1. active[e].run # c
      BY <1>0, <2>3, ExecutionAssumption DEF Calls
    <3> QED
      BY <1>0, <1>9, <2>1, <2>3, <3>1, EndedRunKept, RestsOwns DEF Same
  <2> QED
    BY <2>2, <2>3
<1>5. ASSUME NEW c \in Calls, NEW f \in Executions, Begins(c, f) PROVE EndedRun(e)'
  <2>1. /\ active' = active /\ call[c].pc = "idle" /\ call'[c].exec = f
        /\ \A d \in Calls : d # c => Rests(d)
    BY <1>5 DEF Begins, Rests, Stays, Same
  <2>2. active[e].run # 0 => active[e].run # c
    BY <1>0, <2>1 DEF Attached
  <2>3. CASE active[e].run = 0
    BY <2>1, <2>3 DEF EndedRun
  <2>4. CASE active[e].run # 0 /\ e = f /\ call'[c].expect = "none"
    <3>1. row[e].status = "absent"
      BY <1>5, <2>4 DEF Begins
    <3>2. call[active[e].run].pc = "idle"
      BY <1>0, <2>4, <3>1, AbsentExclusive
    <3> QED
      BY <1>0, <2>4, <3>2 DEF Attached
  <2>5. CASE active[e].run # 0 /\ ~(e = f /\ call'[c].expect = "none")
    <3>1. row'[e].status = row[e].status
      BY <1>5, <2>5 DEF Begins, RowOnly
    <3>2. Owns(c)' => call'[c].exec # e
      BY <1>5, <2>1, <2>5 DEF Begins, Owns, Pursues, Fresh, Running, Early
    <3> QED
      BY <1>0, <1>9, <2>1, <2>2, <3>1, <3>2, EndedRunKept, RestsOwns
  <2> QED
    BY <2>3, <2>4, <2>5
<1>6. CASE Cancels
  <2>1. /\ active' = active /\ \A d \in Calls : Rests(d)
        /\ row'[e].status = row[e].status \/ row'[e].status = "canceled"
    BY <1>6 DEF Cancels, Rests, Stays, Same, RowOnly
  <2> QED
    BY <1>0, <1>9, <2>1, EndedRunKept, RestsOwns
<1>8. CASE ReadsRecovery
  <2>1. active' = active /\ row' = row /\ \A d \in Calls : Rests(d)
    BY <1>8 DEF ReadsRecovery, Rests, Stays, Same
  <2> QED
    BY <1>0, <1>9, <2>1, EndedRunKept, RestsOwns
<1>10. ASSUME NEW f \in Executions, Crashes(f) PROVE EndedRun(e)'
  <2>1. /\ active' = active /\ \A d \in Calls : Rests(d)
        /\ row'[e].status = row[e].status \/ row[e].status \in {"new", "running"}
    BY <1>10 DEF Crashes, Rests, Stays, Same, RowOnly
  <2> QED
    BY <1>0, <1>9, <2>1, EndedRunKept, RestsOwns
<1> QED
  BY <1>1, <1>2, <1>3, <1>4, <1>5, <1>6, <1>8, <1>10 DEF Step

-----------------------------------------------------------------------------
(* The theorems about who runs an execution.                               *)

LEMMA InitOwnership == Init => Ownership
<1> SUFFICES ASSUME Init PROVE Ownership
  OBVIOUS
<1>1. \A d \in Calls : ~Owns(d) /\ call[d].pc = "idle" /\ call[d].expect = "none"
  BY IdleFacts DEF Init, Owns, Pursues, Fresh, Running, Early
<1>2. \A e \in Executions : active[e].run = 0 /\ ~Recovering(e)
  BY <1>1 DEF Init, NoEntry, Recovering, First
<1>3. RecoveryApart
  BY <1>1, <1>2 DEF Init, RecoveryApart
<1> QED
  BY <1>1, <1>2, <1>3 DEF Ownership, OneOwner, OwnersAgree, EndedRuns

\* The four parts of the ownership are kept together.
LEMMA OwnershipStep ==
  ASSUME Shape, Shape', RowsKnown, Ownership, Step
  PROVE  Ownership'
<1>1. OneOwner'
  <2>1. CASE Restarts
    BY <2>1, IdleFacts DEF Restarts, OneOwner, Owns, Pursues, Fresh, Running, Early
  <2>2. CASE ~Restarts
    BY <2>2, OwnersOfStep, EarlyGrows, OneOwnerStep DEF Ownership
  <2> QED
    BY <2>1, <2>2
<1>2. OwnersAgree'
  BY OwnersAgreeStep
<1>3. RecoveryApart'
  BY RecoveryApartStep DEF Ownership
<1>4. EndedRuns'
  BY EndedRunsStep
<1> QED
  BY <1>1, <1>2, <1>3, <1>4 DEF Ownership

\* The ownership holds in every reachable state.
LEMMA OwnershipCorrect == Spec => [](Shape /\ RowsKnown /\ Ownership)
<1> DEFINE Inv == Shape /\ RowsKnown /\ Ownership
<1>1. Init => Inv
  BY InitShape, InitKnown, InitOwnership
<1>2. Inv /\ [Next]_vars => Inv'
  BY NextStep, RowsKnownStep, OwnershipStep
<1> QED
  BY <1>1, <1>2, PTL DEF Spec

\* Whatever webhooks, timers, polls, stops, failed writes and restarts come between,
\* no execution is run by two calls at once, but for those the recovery at startup
\* reads although a call of the new process has them already.
THEOREM AtMostOneRunner == Spec => []OneRunner
<1>1. Ownership => OneRunner
  BY PursuesFacts DEF Ownership, OneOwner, OneRunner
<1> QED
  BY <1>1, OwnershipCorrect, PTL

\* What a step may do to the status of an ended execution.
EndedKept ==
  \A e \in Executions \ early :
    row[e].status \in Ended /\ row'[e].status # row[e].status =>
      \/ row'[e].status = "canceled"
      \/ /\ row[e].status = "canceled" /\ row'[e].status = "running"
         /\ \E c \in Calls : call[c].exec = e /\
              call[c].pc \in {"admitted", "claimed", "registered"}
      \/ /\ row[e].status = "crashed"
         /\ \E c \in Calls : call[c].exec = e /\ call[c].pc = "stray"

\* Of the kinds of steps, only a stop, a start and a run out of control write over
\* an end.
LEMMA EndedKeptStep ==
  ASSUME Shape, Ownership, Step
  PROVE  EndedKept
<1> SUFFICES ASSUME NEW e \in Executions, e \notin early,
                    row[e].status \in Ended, row'[e].status # row[e].status
             PROVE  \/ row'[e].status = "canceled"
                    \/ /\ row[e].status = "canceled" /\ row'[e].status = "running"
                       /\ \E c \in Calls : call[c].exec = e /\
                            call[c].pc \in {"admitted", "claimed", "registered"}
                    \/ /\ row[e].status = "crashed"
                       /\ \E c \in Calls : call[c].exec = e /\ call[c].pc = "stray"
  BY DEF EndedKept
<1>1. ASSUME NEW c \in Calls, Proceeds(c)
      PROVE  /\ row[e].status = "canceled" /\ row'[e].status = "running"
             /\ call[c].exec = e /\ call[c].pc \in {"admitted", "claimed", "registered"}
  <2>1. e = call[c].exec /\ row'[e].status = "running"
        /\ call[c].pc \in {"admitted", "claimed", "registered"}
    BY <1>1 DEF Proceeds, RowOnly
  <2>2. Owns(c)
    BY <1>1, <2>1, ProceedsExclusive DEF Ended
  <2>3. row[e].status \in OwnerStatus(c)
    BY <2>1, <2>2, OwnerExclusive
  <2>4. row[e].status = "canceled"
    BY <2>1, <2>3 DEF OwnerStatus, Ended
  <2> QED
    BY <2>1, <2>4
<1>2. ASSUME NEW c \in Calls, Finishes(c)
      PROVE  \/ row'[e].status = "canceled"
             \/ row[e].status = "crashed" /\ call[c].exec = e /\ call[c].pc = "stray"
  <2>1. e = call[c].exec /\ Owns(c)
    BY <1>2, FinishesExclusive DEF Finishes, RowOnly
  <2>2. row[e].status \in OwnerStatus(c) /\ call[c].pc \notin Early
    BY <1>2, <2>1, OwnerExclusive DEF Finishes, Early
  <2> QED
    BY <1>2, <2>1, <2>2 DEF Finishes, OwnerStatus, Ended
<1>3. CASE Quiet \/ (\E c \in Calls : Told(c)) \/ ReadsRecovery
  BY <1>3 DEF Quiet, Told, RowSame, ReadsRecovery
<1>4. ASSUME NEW c \in Calls, NEW f \in Executions, Begins(c, f) PROVE FALSE
  BY <1>4 DEF Begins, RowOnly, Ended
<1>5. CASE Cancels
  BY <1>5 DEF Cancels, RowOnly
<1>6. CASE Restarts
  BY <1>6 DEF Restarts, Ended, Stoppable
<1>7. ASSUME NEW f \in Executions, Crashes(f) PROVE FALSE
  BY <1>7 DEF Crashes, RowOnly, Ended
<1> QED
  BY <1>1, <1>2, <1>3, <1>4, <1>5, <1>6, <1>7 DEF Step

\* An ended execution keeps its status, except that a stop may cancel it, that a
\* start under way may mark a cancelled one running, and that a run out of control
\* may end after its execution was marked as crashed: what a run saves at its end
\* never replaces the end another one wrote, but for executions the recovery at
\* startup reads although a call of the new process has them already.
THEOREM EndsAreKept == Spec => EndedStaysEnded
<1>1. Shape /\ RowsKnown /\ Ownership /\ [Next]_vars => [EndedKept]_vars
  BY NextStep, EndedKeptStep
<1> QED
  BY <1>1, OwnershipCorrect, PTL DEF Spec, EndedStaysEnded, EndedKept
=============================================================================
