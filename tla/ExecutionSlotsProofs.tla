------------------------ MODULE ExecutionSlotsProofs ------------------------
(***************************************************************************)
(* Theorems about the concurrency limit of ExecutionLifecycle, for every   *)
(* limit and any numbers of executions, calls, waits and faults: the       *)
(* capacity is accounted for, nobody is throttled while a slot is free, and *)
(* the limit is passed only by the executions a stop took out of the queue. *)
(* The three hold together or not at all: a slot given back is passed on   *)
(* without the capacity being taken, which is right only while the queue is *)
(* empty or the limit reached.                                             *)
(***************************************************************************)
EXTENDS ExecutionLifecycleProofs

-----------------------------------------------------------------------------
(* Counting the calls that hold a slot.                                    *)

HolderSet(calls) == {c \in Calls : calls[c].held}
Holders(calls) == Cardinality(HolderSet(calls))

\* The calls are finitely many, so those with a slot can be counted.
LEMMA HoldersFinite ==
  ASSUME NEW calls
  PROVE  IsFiniteSet(HolderSet(calls)) /\ Holders(calls) \in Nat
<1>1. IsFiniteSet(Calls)
  BY FS_Interval, ExecutionAssumption DEF Calls
<1>2. HolderSet(calls) \in SUBSET Calls
  BY DEF HolderSet
<1>3. IsFiniteSet(HolderSet(calls))
  BY <1>1, <1>2, FS_Subset
<1> QED
  BY <1>3, FS_CardinalityType DEF Holders

\* The count by what changes of it: nothing, one more, one less.
LEMMA HoldersSame ==
  ASSUME NEW calls, NEW calls2, \A d \in Calls : calls2[d].held = calls[d].held
  PROVE  Holders(calls2) = Holders(calls)
<1>1. HolderSet(calls2) = HolderSet(calls)
  BY DEF HolderSet
<1> QED
  BY <1>1 DEF Holders

LEMMA HoldersMore ==
  ASSUME NEW calls, NEW calls2, NEW c \in Calls, ~calls[c].held, calls2[c].held,
         \A d \in Calls : d # c => calls2[d].held = calls[d].held
  PROVE  Holders(calls2) = Holders(calls) + 1
<1>1. HolderSet(calls2) = HolderSet(calls) \cup {c} /\ c \notin HolderSet(calls)
  BY DEF HolderSet
<1>2. IsFiniteSet(HolderSet(calls))
  BY HoldersFinite
<1> QED
  BY <1>1, <1>2, FS_AddElement DEF Holders

LEMMA HoldersLess ==
  ASSUME NEW calls, NEW calls2, NEW c \in Calls, calls[c].held, ~calls2[c].held,
         \A d \in Calls : d # c => calls2[d].held = calls[d].held
  PROVE  Holders(calls2) = Holders(calls) - 1
<1>1. Holders(calls) = Holders(calls2) + 1
  BY HoldersMore
<1>2. Holders(calls) \in Nat /\ Holders(calls2) \in Nat
  BY HoldersFinite
<1> QED
  BY <1>1, <1>2

\* The slots taken, as the property counts them.
LEMMA TakenFacts ==
  ASSUME TypeOK
  PROVE  Taken = Holders(call) + lost /\ Taken \in Nat
<1>1. Held = HolderSet(call)
  BY DEF Held, HolderSet
<1> QED
  BY <1>1, HoldersFinite DEF Taken, Holders, TypeOK

-----------------------------------------------------------------------------
(* What a step does to the slots, while the service is enabled.             *)

Taken2 == Holders(call') + lost'

Keeps == Taken2 = Taken /\ UNCHANGED <<capacity, queue, removed>>

Takes ==
  /\ capacity' = capacity - 1 /\ removed' = removed
  /\ \/ /\ capacity =< 0 /\ Taken2 = Taken
        /\ Len(queue') = Len(queue) + 1
     \/ /\ capacity > 0 /\ Taken2 = Taken + 1
        /\ queue' = queue

\* A slot is free, or passed on to the oldest throttled call.
Frees ==
  /\ capacity' = capacity + 1 /\ removed' = removed
  /\ \/ queue = <<>> /\ queue' = <<>> /\ Taken2 = Taken - 1
     \/ queue # <<>> /\ Len(queue') = Len(queue) - 1 /\ Taken2 = Taken

\* A throttled call is taken out and the oldest of the others passes.
Removes ==
  /\ queue # <<>> /\ capacity' = capacity + 1 /\ removed' = removed + 1
  /\ \/ Len(queue) = 1 /\ Len(queue') = 0 /\ Taken2 = Taken
     \/ Len(queue') = Len(queue) - 2 /\ Taken2 = Taken + 1

Resets == Taken2 = 0 /\ capacity' = Limit /\ queue' = <<>> /\ removed' = 0

SlotStep ==
  \/ ~enabled'
  \/ enabled /\ (Keeps \/ Takes \/ Frees \/ Removes)
  \/ Resets

SlotsInv == SlotsAccounted /\ QueueOnlyWhenFull /\ OversubscribedByRemovals

\* A queue is empty when its length is zero.
LEMMA EmptyOrNot ==
  ASSUME NEW S, NEW q \in Seq(S)
  PROVE  Len(q) \in Nat /\ (q = <<>> <=> Len(q) = 0)
BY EmptySeq, LenProperties

\* The arithmetic of the limit.
LEMMA SlotsInvStep ==
  ASSUME TypeOK, TypeOK', SlotsInv, SlotStep
  PROVE  SlotsInv'
<1>1. /\ Taken \in Nat /\ Taken' = Taken2 /\ Taken2 \in Nat
      /\ capacity \in Int /\ removed \in Nat /\ Limit \in Nat
  <2>1. Held' = HolderSet(call')
    BY DEF Held, HolderSet
  <2>2. Taken' = Taken2
    BY <2>1 DEF Taken, Taken2, Holders
  <2>3. Holders(call') \in Nat /\ lost' \in Nat
    BY HoldersFinite DEF TypeOK
  <2>4. Taken2 \in Nat
    BY <2>3 DEF Taken2
  <2>5. Taken \in Nat
    BY TakenFacts
  <2>6. capacity \in Int /\ removed \in Nat /\ Limit \in Nat
    BY ExecutionAssumption DEF TypeOK
  <2> QED
    BY <2>2, <2>4, <2>5, <2>6
<1>2. /\ Len(queue) \in Nat /\ (queue = <<>> <=> Len(queue) = 0)
      /\ Len(queue') \in Nat /\ (queue' = <<>> <=> Len(queue') = 0)
  BY EmptyOrNot DEF TypeOK
<1>3. CASE ~enabled'
  BY <1>3 DEF SlotsInv, SlotsAccounted, QueueOnlyWhenFull, OversubscribedByRemovals
<1>4. CASE Resets
  BY <1>1, <1>2, <1>4
     DEF Resets, SlotsInv, SlotsAccounted, QueueOnlyWhenFull, OversubscribedByRemovals
<1>5. CASE enabled /\ (Keeps \/ Takes \/ Frees \/ Removes)
  <2>1. /\ capacity = Limit - Taken - Len(queue)
        /\ Len(queue) # 0 => Taken >= Limit
        /\ Taken =< Limit + removed
    BY <1>2, <1>5 DEF SlotsInv, SlotsAccounted, QueueOnlyWhenFull, OversubscribedByRemovals
  <2>2. /\ capacity' = Limit - Taken2 - Len(queue')
        /\ Len(queue') # 0 => Taken2 >= Limit
        /\ Taken2 =< Limit + removed'
    <3>1. CASE Keeps
      BY <1>1, <2>1, <3>1 DEF Keeps
    <3>2. CASE Takes
      BY <1>1, <1>2, <2>1, <3>2 DEF Takes
    <3>3. CASE Frees
      BY <1>1, <1>2, <2>1, <3>3 DEF Frees
    <3>4. CASE Removes
      <4>1. /\ Len(queue) # 0 /\ capacity' = capacity + 1 /\ removed' = removed + 1
            /\ Taken >= Limit
        BY <1>2, <2>1, <3>4 DEF Removes
      <4>2. CASE Len(queue) = 1 /\ Len(queue') = 0 /\ Taken2 = Taken
        BY <1>1, <1>2, <2>1, <4>1, <4>2
      <4>3. CASE Len(queue') = Len(queue) - 2 /\ Taken2 = Taken + 1
        BY <1>1, <1>2, <2>1, <4>1, <4>3
      <4> QED
        BY <3>4, <4>2, <4>3 DEF Removes
    <3> QED
      BY <1>5, <3>1, <3>2, <3>3, <3>4
  <2> QED
    BY <1>1, <1>2, <2>2
       DEF SlotsInv, SlotsAccounted, QueueOnlyWhenFull, OversubscribedByRemovals
<1> QED
  BY <1>3, <1>4, <1>5 DEF SlotStep

-----------------------------------------------------------------------------
(* Slots that are given back.                                              *)

LEMMA GiveBackSlots ==
  ASSUME NEW calls \in [Calls -> Call], NEW q \in Seq(Calls), QueueOf(calls, q),
         \A d \in Calls : Sound(calls[d]), enabled, GiveBack(calls, q)
  PROVE  /\ capacity' = capacity + 1
         /\ \/ q = <<>> /\ queue' = <<>> /\ Holders(call') = Holders(calls)
            \/ /\ q # <<>> /\ Len(queue') = Len(q) - 1
               /\ Holders(call') = Holders(calls) + 1
<1>1. CASE q = <<>>
  <2>1. call' = calls /\ queue' = q /\ capacity' = capacity + 1
    BY <1>1 DEF GiveBack
  <2> QED
    BY <1>1, <2>1
<1>2. CASE q # <<>>
  <2> DEFINE h == Head(q)
  <2>1. /\ call' = [calls EXCEPT ![h].pc = "admitted", ![h].held = TRUE]
        /\ queue' = Tail(q) /\ capacity' = capacity + 1
    BY <1>2 DEF GiveBack
  <2>2. h \in Calls /\ calls[h].pc = "queued"
    BY <1>2, HeadQueue
  <2>3. ~calls[h].held
    BY <2>2 DEF Sound
  <2>4. /\ call'[h] = [calls[h] EXCEPT !.pc = "admitted", !.held = TRUE]
        /\ \A d \in Calls : d # h => call'[d] = calls[d]
    BY <2>1, <2>2
  <2>5. call'[h].held /\ \A d \in Calls : d # h => call'[d].held = calls[d].held
    BY <2>2, <2>4 DEF Call
  <2>6. Holders(call') = Holders(calls) + 1
    <3> HIDE DEF h
    <3> QED
      BY <2>2, <2>3, <2>5, HoldersMore
  <2>7. Len(queue') = Len(q) - 1
    BY <1>2, <2>1, HeadTailProperties
  <2> QED
    BY <1>2, <2>1, <2>6, <2>7
<1> QED
  BY <1>1, <1>2

\* A release over `calls`, where the call released may have gone already.
LEMMA ReleaseSlots ==
  ASSUME Shape, enabled, NEW calls \in [Calls -> Call], QueueOf(calls, queue),
         \A d \in Calls : Sound(calls[d]), NEW c \in 0..MaxCalls, Release(calls, c),
         lost' \in Nat, removed' = removed,
         \/ /\ c = 0 \/ ~call[c].held \/ calls[c].held
            /\ Holders(calls) + lost' = Taken
         \/ /\ c # 0 /\ call[c].held /\ ~calls[c].held
            /\ Holders(calls) + lost' = Taken - 1
  PROVE  Keeps \/ Frees
<1>0. TypeOK /\ Taken \in Nat /\ Holders(calls) \in Nat
  BY TakenFacts, HoldersFinite DEF Shape
<1>1. CASE c = 0 \/ ~call[c].held
  <2>1. call' = calls /\ UNCHANGED <<capacity, queue>>
    BY <1>1 DEF Release
  <2> QED
    BY <1>1, <2>1 DEF Keeps, Taken2
<1>2. CASE c # 0 /\ call[c].held
  <2> DEFINE freed == [calls EXCEPT ![c].held = FALSE]
  <2>0. c \in Calls
    BY <1>2, ExecutionAssumption DEF Calls
  <2>1. /\ freed \in [Calls -> Call] /\ \A d \in Calls : d # c => freed[d] = calls[d]
        /\ freed[c] = [calls[c] EXCEPT !.held = FALSE]
    BY <2>0 DEF Call
  <2>2. freed[c].held = FALSE /\ freed[c].pc = calls[c].pc /\ freed[c].exec = calls[c].exec
        /\ Passed(calls[c], freed[c])
    BY <2>0, <2>1 DEF Call, Passed
  <2>3. GiveBack(freed, queue)
    BY <1>2 DEF Release
  <2> HIDE DEF freed
  <2>4. QueueOf(freed, queue)
    <3>1. \A d \in Calls : calls[d].pc = "queued" => freed[d].pc = "queued"
      BY <2>1, <2>2
    <3>2. queue \in Seq(Calls)
      BY <1>0 DEF TypeOK
    <3> QED
      BY <3>1, <3>2, KeptQueue
  <2>5. ASSUME NEW d \in Calls PROVE Sound(freed[d])
    <3>1. CASE d = c
      BY <2>0, <2>2, <3>1, PassedSound
    <3>2. CASE d # c
      BY <2>1, <3>2
    <3> QED
      BY <3>1, <3>2
  <2>6. queue \in Seq(Calls)
    BY <1>0 DEF TypeOK
  <2>7. /\ capacity' = capacity + 1
        /\ \/ queue = <<>> /\ queue' = <<>> /\ Holders(call') = Holders(freed)
           \/ /\ queue # <<>> /\ Len(queue') = Len(queue) - 1
              /\ Holders(call') = Holders(freed) + 1
    BY <2>1, <2>3, <2>4, <2>5, <2>6, GiveBackSlots
  <2>8. Holders(freed) + lost' = Taken - 1
    <3>1. CASE calls[c].held
      <4>1. Holders(freed) = Holders(calls) - 1
        BY <2>0, <2>1, <2>2, <3>1, HoldersLess
      <4> QED
        BY <1>0, <1>2, <3>1, <4>1
    <3>2. CASE ~calls[c].held
      <4>1. \A d \in Calls : freed[d].held = calls[d].held
        <5>1. calls[c].held = FALSE
          BY <2>0, <3>2 DEF Call
        <5> QED
          BY <2>1, <2>2, <5>1
      <4>2. Holders(freed) = Holders(calls)
        BY <4>1, HoldersSame
      <4> QED
        BY <1>2, <3>2, <4>2
    <3> QED
      BY <3>1, <3>2
  <2>9. Holders(freed) \in Nat
    BY HoldersFinite
  <2>10. CASE queue = <<>> /\ queue' = <<>> /\ Holders(call') = Holders(freed)
    <3>1. Taken2 = Taken - 1
      BY <2>8, <2>10 DEF Taken2
    <3> QED
      BY <2>7, <2>10, <3>1 DEF Frees
  <2>11. CASE /\ queue # <<>> /\ Len(queue') = Len(queue) - 1
              /\ Holders(call') = Holders(freed) + 1
    <3>1. lost' \in Nat /\ Taken \in Nat
      BY <1>0
    <3>2. Taken2 = Taken
      BY <2>8, <2>9, <2>11, <3>1 DEF Taken2
    <3> QED
      BY <2>7, <2>11, <3>2 DEF Frees
  <2> QED
    BY <2>7, <2>10, <2>11
<1> QED
  BY <1>1, <1>2

\* A call that is over holds nothing any more.
LEMMA OverSlots ==
  ASSUME Shape, NEW c \in Calls, call[c].pc # "queued"
  PROVE  Holders(Over(call, c)) = Holders(call) - (IF call[c].held THEN 1 ELSE 0)
<1>1. /\ Over(call, c)[c] = Idle /\ \A d \in Calls : d # c => Over(call, c)[d] = call[d]
  BY OverShape
<1>2. CASE call[c].held
  BY <1>1, <1>2, HoldersLess, IdleFacts
<1>3. CASE ~call[c].held
  <2>1. call[c].held = FALSE /\ Idle.held = FALSE
    BY <1>3 DEF Shape, TypeOK, Call, Idle
  <2>2. Holders(Over(call, c)) = Holders(call)
    BY <1>1, <2>1, HoldersSame
  <2> QED
    BY <1>3, <2>2, HoldersFinite
<1> QED
  BY <1>2, <1>3

\* A call that ends without a release leaves the count of the slots as it is.
LEMMA LostSlots ==
  ASSUME Shape, NEW c \in Calls, call[c].pc # "queued", CountLost(call, c)
  PROVE  Holders(Over(call, c)) + lost' = Taken /\ lost' \in Nat
<1>1. Taken = Holders(call) + lost /\ Holders(call) \in Nat /\ lost \in Nat
  BY TakenFacts, HoldersFinite DEF Shape, TypeOK
<1>2. CASE call[c].held
  BY <1>1, <1>2, OverSlots DEF CountLost
<1>3. CASE ~call[c].held
  BY <1>1, <1>3, OverSlots DEF CountLost
<1> QED
  BY <1>2, <1>3

-----------------------------------------------------------------------------
(* What each action does to the slots.                                     *)

LEMMA HeldKept ==
  ASSUME Shape, UNCHANGED slots, \A d \in Calls : call'[d].held = call[d].held
  PROVE  SlotStep
<1>1. Holders(call') = Holders(call) /\ Taken = Holders(call) + lost
  BY HoldersSame, TakenFacts DEF Shape
<1>2. lost' = lost /\ UNCHANGED <<capacity, queue, enabled, removed>>
  BY DEF slots
<1> QED
  BY <1>1, <1>2 DEF SlotStep, Keeps, Taken2

\* One lemma for each kind of action: what it does to the slots.
LEMMA GotoSlots ==
  ASSUME Shape, NEW c \in Calls, NEW place \in Places, Goto(c, place), UNCHANGED slots
  PROVE  SlotStep
<1>1. call'[c].held = call[c].held /\ \A d \in Calls : d # c => call'[d] = call[d]
  BY GotoFacts DEF Shape
<1> QED
  BY <1>1, HeldKept

LEMMA ReserveSlots ==
  ASSUME Shape, NEW c \in Calls, Reserve(c)
  PROVE  SlotStep
<1>0. /\ TypeOK /\ Taken = Holders(call) + lost /\ call \in [Calls -> Call]
      /\ queue \in Seq(Calls) /\ capacity \in Int /\ lost \in Nat
      /\ lost' = lost /\ removed' = removed /\ enabled' = enabled
  BY TakenFacts DEF Shape, TypeOK, Reserve
<1>1. call[c].pc = "created" /\ call[c].held = FALSE
  BY <1>0 DEF Reserve, Shape, CallsSound, Sound, Call
<1>2. CASE ~enabled
  BY <1>0, <1>2 DEF SlotStep
<1>3. CASE enabled /\ capacity > 0
  <2>1. /\ call' = [call EXCEPT ![c].pc = "admitted", ![c].held = TRUE]
        /\ queue' = queue /\ capacity' = capacity - 1
    BY <1>0, <1>3 DEF Reserve, Enqueue
  <2>2. call'[c].held /\ \A d \in Calls : d # c => call'[d].held = call[d].held
    BY <1>0, <2>1 DEF Call
  <2>3. Holders(call') = Holders(call) + 1
    BY <1>1, <2>2, HoldersMore
  <2>4. Holders(call) \in Nat
    BY HoldersFinite
  <2>5. Takes
    BY <1>0, <1>3, <2>1, <2>3, <2>4 DEF Takes, Taken2
  <2> QED
    BY <1>3, <2>5 DEF SlotStep
<1>4. CASE enabled /\ ~(capacity > 0)
  <2>1. Goto(c, "queued") /\ queue' = Append(queue, c) /\ capacity' = capacity - 1
    BY <1>0, <1>4 DEF Reserve, Enqueue
  <2>2. \A d \in Calls : call'[d].held = call[d].held
    <3>1. call'[c].held = call[c].held /\ \A d \in Calls : d # c => call'[d] = call[d]
      BY <1>0, <2>1, GotoFacts DEF Places
    <3> QED
      BY <3>1
  <2>3. Holders(call') = Holders(call)
    BY <2>2, HoldersSame
  <2>4. Len(queue') = Len(queue) + 1
    BY <1>0, <2>1, AppendProperties
  <2>5. Takes
    BY <1>0, <1>4, <2>1, <2>3, <2>4 DEF Takes, Taken2
  <2> QED
    BY <1>4, <2>5 DEF SlotStep
<1> QED
  BY <1>2, <1>3, <1>4

\* A call that is over gives its slot back.
LEMMA OverReleasedSlots ==
  ASSUME Shape, NEW c \in Calls, call[c].pc # "queued", Release(Over(call, c), c),
         UNCHANGED <<enabled, lost, removed>>
  PROVE  SlotStep
<1>2. /\ Over(call, c) \in [Calls -> Call]
      /\ \A d \in Calls : Sound(Over(call, c)[d])
      /\ QueueOf(Over(call, c), queue) /\ Over(call, c)[c] = Idle
  BY OverShape
<1>3. c \in 0..MaxCalls /\ c # 0
  BY ExecutionAssumption DEF Calls
<1>4. /\ Taken = Holders(call) + lost /\ Holders(call) \in Nat
      /\ lost \in Nat /\ lost' = lost
  BY TakenFacts, HoldersFinite DEF Shape, TypeOK
<1>5. Holders(Over(call, c)) = Holders(call) - (IF call[c].held THEN 1 ELSE 0)
  BY OverSlots
<1>6. \/ /\ c = 0 \/ ~call[c].held \/ Over(call, c)[c].held
         /\ Holders(Over(call, c)) + lost' = Taken
      \/ /\ c # 0 /\ call[c].held /\ ~Over(call, c)[c].held
         /\ Holders(Over(call, c)) + lost' = Taken - 1
  <2>1. CASE call[c].held
    <3>1. ~Over(call, c)[c].held
      BY <1>2, IdleFacts
    <3> QED
      BY <1>3, <1>4, <1>5, <2>1, <3>1
  <2>2. CASE ~call[c].held
    BY <1>4, <1>5, <2>2
  <2> QED
    BY <2>1, <2>2
<1>7. CASE enabled
  <2>1. Keeps \/ Frees
    BY <1>2, <1>3, <1>4, <1>6, <1>7, ReleaseSlots
  <2> QED
    BY <1>7, <2>1 DEF SlotStep
<1>8. CASE ~enabled
  BY <1>8 DEF SlotStep
<1> QED
  BY <1>7, <1>8

LEMMA ClaimSlots ==
  ASSUME Shape, NEW c \in Calls, Claim(c)
  PROVE  SlotStep
<1> DEFINE e == call[c].exec
<1>1. /\ call[c].pc = "admitted"
      /\ UNCHANGED <<enabled, lost, removed>>
  BY DEF Claim
<1>2. CASE row[e].status = call[c].expect
  <2> DEFINE place == IF call[c].expect = "new" THEN "claimed" ELSE "marked"
  <2>1. Goto(c, place) /\ UNCHANGED <<capacity, queue>> /\ place \in Places
    BY <1>2 DEF Claim, Places
  <2> HIDE DEF place
  <2> QED
    BY <1>1, <2>1, GotoSlots DEF slots
<1>3. CASE row[e].status # call[c].expect
  <2>1. Release(Over(call, c), c)
    BY <1>3 DEF Claim
  <2> QED
    BY <1>1, <2>1, OverReleasedSlots
<1> QED
  BY <1>2, <1>3

LEMMA WriteFailsSlots ==
  ASSUME Shape, NEW c \in Calls, WriteFails(c)
  PROVE  SlotStep
BY OverReleasedSlots DEF WriteFails

\* A call that is over, and nothing released.
LEMMA OverOnlySlots ==
  ASSUME Shape, NEW c \in Calls, call[c].pc # "queued",
         call' = Over(call, c), CountLost(call, c),
         UNCHANGED <<capacity, queue, enabled, removed>>
  PROVE  SlotStep
<1>1. Holders(Over(call, c)) + lost' = Taken
  BY LostSlots
<1> QED
  BY <1>1 DEF SlotStep, Keeps, Taken2

LEMMA SaveSlots ==
  ASSUME Shape, NEW c \in Calls, NEW s, Save(c, s)
  PROVE  SlotStep
<1>1. UNCHANGED <<capacity, queue, enabled, removed>>
  BY DEF Save
<1>2. CASE call[c].pc = "stray"
  <2>1. call' = Over(call, c) /\ CountLost(call, c)
    BY <1>2 DEF Save
  <2> QED
    BY <1>1, <1>2, <2>1, OverOnlySlots
<1>3. CASE call[c].pc # "stray"
  <2>1. Goto(c, "saved") /\ UNCHANGED lost
    BY <1>3 DEF Save
  <2> QED
    BY <1>1, <2>1, GotoSlots DEF Places, slots
<1> QED
  BY <1>2, <1>3

LEMMA EndCancelledSlots ==
  ASSUME Shape, NEW c \in Calls, EndCancelled(c)
  PROVE  SlotStep
<1>1. /\ call[c].pc # "queued" /\ call' = Over(call, c) /\ CountLost(call, c)
      /\ UNCHANGED <<capacity, queue, enabled, removed>>
  BY DEF EndCancelled
<1> QED
  BY <1>1, OverOnlySlots

LEMMA SaveFailedSlots ==
  ASSUME Shape, NEW c \in Calls, SaveFailed(c)
  PROVE  SlotStep
<1>1. /\ call[c].pc # "queued" /\ call' = Over(call, c) /\ CountLost(call, c)
      /\ UNCHANGED <<capacity, queue, enabled, removed>>
  BY DEF SaveFailed
<1> QED
  BY <1>1, OverOnlySlots

LEMMA StickSlots ==
  ASSUME Shape, NEW c \in Calls, Stick(c)
  PROVE  SlotStep
<1>1. call[c].pc # "queued" /\ UNCHANGED <<capacity, queue, enabled, removed>>
  BY DEF Stick
<1>2. CASE active[call[c].exec].call = c
  <2>1. Goto(c, "stuck") /\ UNCHANGED lost
    BY <1>2 DEF Stick
  <2> QED
    BY <1>1, <2>1, GotoSlots DEF Places, slots
<1>3. CASE active[call[c].exec].call # c
  BY <1>1, <1>3, OverOnlySlots DEF Stick
<1> QED
  BY <1>2, <1>3

\* The entry of e settles over `calls`: the slot of its call is released, and with
\* it a call goes that was rejected.
LEMMA SettleSlots ==
  ASSUME Shape, NEW e \in Executions, NEW calls \in [Calls -> Call],
         QueueOf(calls, queue), \A x \in Calls : Sound(calls[x]),
         \A x \in Calls : call[x].pc = "stuck" => calls[x] = call[x],
         Settle(e, calls), lost' \in Nat, UNCHANGED <<enabled, removed>>,
         LET d == active[e].call
         IN  \/ /\ d = 0 \/ ~call[d].held \/ calls[d].held
                /\ Holders(calls) + lost' = Taken
             \/ /\ d # 0 /\ call[d].held /\ ~calls[d].held
                /\ Holders(calls) + lost' = Taken - 1
  PROVE  SlotStep
<1> DEFINE d == active[e].call
           over == IF d # 0 /\ call[d].pc = "stuck" THEN Over(calls, d) ELSE calls
<1>1. Release(over, d)
  BY DEF Settle
<1>2. /\ d \in 0..MaxCalls /\ (d # 0 => d \in Calls)
      /\ queue \in Seq(Calls) /\ Taken \in Nat
  BY TakenFacts, ExecutionAssumption DEF Shape, TypeOK, Calls
<1>3. \/ /\ d = 0 \/ ~call[d].held \/ calls[d].held
         /\ Holders(calls) + lost' = Taken
      \/ /\ d # 0 /\ call[d].held /\ ~calls[d].held
         /\ Holders(calls) + lost' = Taken - 1
  OBVIOUS
<1>4. /\ over \in [Calls -> Call] /\ QueueOf(over, queue) /\ \A x \in Calls : Sound(over[x])
      /\ \/ /\ d = 0 \/ ~call[d].held \/ over[d].held
            /\ Holders(over) + lost' = Taken
         \/ /\ d # 0 /\ call[d].held /\ ~over[d].held
            /\ Holders(over) + lost' = Taken - 1
  <2>1. CASE ~(d # 0 /\ call[d].pc = "stuck")
    <3>1. over = calls
      BY <2>1
    <3> HIDE DEF over, d
    <3> QED
      BY <1>3, <3>1
  <2>2. CASE d # 0 /\ call[d].pc = "stuck"
    <3>1. over = Over(calls, d) /\ d \in Calls /\ calls[d] = call[d]
      BY <1>2, <2>2
    <3> HIDE DEF over, d
    <3>2. /\ over \in [Calls -> Call] /\ over[d] = Idle
          /\ \A x \in Calls : x # d => over[x] = calls[x]
      BY <3>1, OverFacts
    <3>3. \A x \in Calls : Sound(over[x])
      <4>1. Sound(Idle)
        BY IdleFacts DEF Sound
      <4> QED
        BY <3>2, <4>1
    <3>4. QueueOf(over, queue)
      <4>1. \A x \in Calls : calls[x].pc = "queued" => over[x].pc = "queued"
        BY <2>2, <3>1, <3>2
      <4> QED
        BY <1>2, <4>1, KeptQueue
    <3>5. CASE call[d].held
      <4>1. Holders(over) = Holders(calls) - 1
        BY <3>1, <3>2, <3>5, HoldersLess, IdleFacts
      <4>2. Holders(calls) \in Nat
        BY HoldersFinite
      <4>3. ~over[d].held
        BY <3>2, IdleFacts
      <4>4. Holders(calls) + lost' = Taken
        BY <1>3, <3>1, <3>5
      <4>5. Holders(over) + lost' = Taken - 1
        BY <1>2, <4>1, <4>2, <4>4
      <4> QED
        BY <2>2, <3>2, <3>3, <3>4, <3>5, <4>3, <4>5
    <3>6. CASE ~call[d].held
      <4>1. \A x \in Calls : over[x].held = calls[x].held
        <5>1. calls[d].held = FALSE /\ Idle.held = FALSE
          BY <3>1, <3>6 DEF Call, Idle
        <5> QED
          BY <3>2, <5>1
      <4>2. Holders(over) = Holders(calls)
        BY <4>1, HoldersSame
      <4> QED
        BY <1>3, <3>2, <3>3, <3>4, <3>6, <4>2
    <3> QED
      BY <3>5, <3>6
  <2> QED
    BY <2>1, <2>2
<1> HIDE DEF over, d
<1>5. CASE enabled
  <2>1. Keeps \/ Frees
    BY <1>1, <1>2, <1>4, <1>5, ReleaseSlots
  <2> QED
    BY <1>5, <2>1 DEF SlotStep
<1>6. CASE ~enabled
  BY <1>6 DEF SlotStep
<1> QED
  BY <1>5, <1>6

\* The release of the slot of an entry, by the end of its own call or of another.
LEMMA FinalizeSlots ==
  ASSUME Shape, NEW c \in Calls, Finalize(c)
  PROVE  SlotStep
<1> DEFINE e == call[c].exec
           d == active[e].call
<1>1. call[c].pc = "saved" /\ e \in Executions /\ enabled' = enabled /\ removed' = removed
  BY DEF Finalize, Shape, CallsSound, Sound
<1>2. CASE active[e] = NoEntry
  <2>1. call' = Over(call, c) /\ CountLost(call, c) /\ UNCHANGED <<capacity, queue>>
    BY <1>2 DEF Finalize
  <2> QED
    BY <1>1, <2>1, OverOnlySlots
<1>3. CASE active[e] # NoEntry
  <2>1. Settle(e, Over(call, c)) /\ (IF d = c THEN UNCHANGED lost ELSE CountLost(call, c))
    BY <1>3 DEF Finalize
  <2>2. /\ Over(call, c) \in [Calls -> Call]
        /\ \A x \in Calls : Sound(Over(call, c)[x])
        /\ QueueOf(Over(call, c), queue) /\ Over(call, c)[c] = Idle
        /\ \A x \in Calls : x # c => Over(call, c)[x] = call[x]
    BY <1>1, OverShape
  <2>3. d \in 0..MaxCalls /\ (d # 0 => d \in Calls) /\ c # 0
    BY <1>1, ExecutionAssumption DEF Shape, TypeOK, Calls
  <2>4. /\ Taken = Holders(call) + lost /\ Holders(call) \in Nat /\ lost \in Nat
    BY TakenFacts, HoldersFinite DEF Shape, TypeOK
  <2>5. Holders(Over(call, c)) = Holders(call) - (IF call[c].held THEN 1 ELSE 0)
    BY <1>1, OverSlots
  <2> DEFINE calls == Over(call, c)
  <2> HIDE DEF calls, d
  <2>6. /\ lost' \in Nat
        /\ \/ /\ d = 0 \/ ~call[d].held \/ calls[d].held
              /\ Holders(calls) + lost' = Taken
           \/ /\ d # 0 /\ call[d].held /\ ~calls[d].held
              /\ Holders(calls) + lost' = Taken - 1
    <3>1. CASE d = c
      <4>1. lost' = lost /\ ~calls[c].held
        BY <2>1, <2>2, <3>1, IdleFacts DEF calls
      <4>2. CASE call[c].held
        <5>1. Holders(calls) = Holders(call) - 1
          BY <2>5, <4>2 DEF calls
        <5> QED
          BY <2>3, <2>4, <3>1, <4>1, <4>2, <5>1
      <4>3. CASE ~call[c].held
        <5>1. Holders(calls) = Holders(call)
          BY <2>4, <2>5, <4>3 DEF calls
        <5> QED
          BY <2>4, <3>1, <4>1, <4>3, <5>1
      <4> QED
        BY <4>2, <4>3
    <3>2. CASE d # c
      <4>1. Holders(calls) + lost' = Taken /\ lost' \in Nat
        BY <1>1, <2>1, <3>2, LostSlots DEF calls
      <4>2. d = 0 \/ calls[d] = call[d]
        BY <2>2, <2>3, <3>2 DEF calls
      <4>3. d = 0 \/ ~call[d].held \/ calls[d].held
        BY <4>2
      <4> QED
        BY <4>1, <4>3
    <3> QED
      BY <3>1, <3>2
  <2>7. /\ calls \in [Calls -> Call] /\ \A x \in Calls : Sound(calls[x])
        /\ QueueOf(calls, queue) /\ Settle(e, calls)
        /\ \A x \in Calls : call[x].pc = "stuck" => calls[x] = call[x]
    BY <1>1, <2>1, <2>2 DEF calls
  <2> QED
    BY <1>1, <2>6, <2>7, SettleSlots DEF d
<1> QED
  BY <1>2, <1>3

\* A stop releases the slot of the entry it drops.
LEMMA StopEntrySlots ==
  ASSUME Shape, NEW e \in Executions, StopEntry(e), UNCHANGED <<enabled, lost, removed>>
  PROVE  SlotStep
<1> DEFINE run == active[e].run
           d == active[e].call
           told == IF run # 0 /\ call[run].pc \in {"executing", "parking", "saved"}
                     THEN [call EXCEPT ![run].pc = "cancelling"] ELSE call
<1>1. CASE active[e] = NoEntry \/ active[e].status = "waiting"
  <2>1. UNCHANGED <<call, capacity, queue>>
    BY <1>1 DEF StopEntry
  <2> QED
    BY <2>1, HeldKept DEF slots
<1>2. CASE active[e] # NoEntry /\ active[e].status # "waiting"
  <2>1. Settle(e, told)
    BY <1>2 DEF StopEntry
  <2>2. /\ call \in [Calls -> Call] /\ run \in 0..MaxCalls /\ d \in 0..MaxCalls
        /\ lost \in Nat /\ queue \in Seq(Calls) /\ CallsSound /\ QueueOf(call, queue)
        /\ Taken = Holders(call) + lost
    BY TakenFacts DEF Shape, TypeOK
  <2>3. 0 \notin Calls /\ (run # 0 => run \in Calls) /\ (d # 0 => d \in Calls)
    BY <2>2, ExecutionAssumption DEF Calls
  <2>4. /\ told \in [Calls -> Call]
        /\ \A x \in Calls :
             /\ told[x].held = call[x].held /\ told[x].exec = call[x].exec
             /\ told[x] = call[x] \/ (told[x].pc = "cancelling" /\
                                      call[x].pc \in {"executing", "parking", "saved"})
    <3>1. CASE run # 0 /\ call[run].pc \in {"executing", "parking", "saved"}
      <4>1. told = [call EXCEPT ![run].pc = "cancelling"] /\ run \in Calls
        BY <2>3, <3>1
      <4> HIDE DEF told, run
      <4> QED
        BY <2>2, <3>1, <4>1 DEF Call, Places
    <3>2. CASE ~(run # 0 /\ call[run].pc \in {"executing", "parking", "saved"})
      BY <2>2, <3>2
    <3> QED
      BY <3>1, <3>2
  <2> HIDE DEF told, run, d
  <2>5. \A x \in Calls : Sound(told[x])
    BY <2>2, <2>4 DEF CallsSound, Sound
  <2>6. QueueOf(told, queue)
    <3>1. \A x \in Calls : call[x].pc = "queued" => told[x].pc = "queued"
      BY <2>4
    <3> QED
      BY <2>2, <3>1, KeptQueue
  <2>7. Holders(told) + lost' = Taken /\ lost' \in Nat
    <3>1. \A x \in Calls : told[x].held = call[x].held
      BY <2>4
    <3>2. Holders(told) = Holders(call)
      BY <3>1, HoldersSame
    <3> QED
      BY <2>2, <3>2
  <2>8. d = 0 \/ ~call[d].held \/ told[d].held
    BY <2>3, <2>4
  <2>9. \A x \in Calls : call[x].pc = "stuck" => told[x] = call[x]
    BY <2>4
  <2> QED
    BY <2>1, <2>4, <2>5, <2>6, <2>7, <2>8, <2>9, SettleSlots DEF d
<1> QED
  BY <1>1, <1>2

LEMMA ProcessErrorSlots ==
  ASSUME Shape, NEW c \in Calls, ProcessError(c)
  PROVE  SlotStep
<1> DEFINE e == call[c].exec
           d == active[e].call
           place == IF call[c].pc = "starting" THEN "aborted" ELSE "failed"
           thrown == [call EXCEPT ![c].pc = place]
<1>1. /\ call[c].pc \in {"starting", "executing", "parking"} /\ e \in Executions
      /\ call \in [Calls -> Call] /\ queue \in Seq(Calls) /\ QueueOf(call, queue)
      /\ lost \in Nat /\ Taken = Holders(call) + lost
      /\ UNCHANGED <<enabled, lost, removed>> /\ d \in 0..MaxCalls
  BY TakenFacts DEF ProcessError, Shape, TypeOK, CallsSound, Sound
<1>2. place \in {"aborted", "failed"} /\ place \in Places
  BY DEF Places
<1>3. \/ call' = thrown /\ UNCHANGED <<capacity, queue>>
      \/ Settle(e, thrown)
  BY DEF ProcessError
<1> HIDE DEF place
<1>4. /\ thrown \in [Calls -> Call] /\ \A x \in Calls : x # c => thrown[x] = call[x]
      /\ thrown[c].pc = place /\ thrown[c].exec = call[c].exec
      /\ thrown[c].held = call[c].held
  BY <1>1, <1>2 DEF Call
<1> HIDE DEF thrown
<1>5. \A x \in Calls : thrown[x].held = call[x].held
  BY <1>4
<1>6. CASE call' = thrown /\ UNCHANGED <<capacity, queue>>
  BY <1>1, <1>5, <1>6, HeldKept DEF slots
<1>7. CASE Settle(e, thrown)
  <2>1. \A x \in Calls : Sound(thrown[x])
    <3>1. Sound(thrown[c])
      BY <1>1, <1>2, <1>4 DEF Sound
    <3> QED
      BY <1>4, <3>1 DEF Shape, CallsSound
  <2>2. QueueOf(thrown, queue)
    <3>1. \A x \in Calls : call[x].pc = "queued" => thrown[x].pc = "queued"
      BY <1>1, <1>4
    <3> QED
      BY <1>1, <3>1, KeptQueue
  <2>3. \A x \in Calls : call[x].pc = "stuck" => thrown[x] = call[x]
    BY <1>1, <1>4
  <2>4. Holders(thrown) + lost' = Taken /\ lost' \in Nat
    BY <1>1, <1>5, HoldersSame
  <2>5. d = 0 \/ ~call[d].held \/ thrown[d].held
    <3>1. d = 0 \/ d \in Calls
      BY <1>1, ExecutionAssumption DEF Calls
    <3> QED
      BY <1>5, <3>1
  <2> QED
    BY <1>1, <1>4, <1>7, <2>1, <2>2, <2>3, <2>4, <2>5, SettleSlots
<1> QED
  BY <1>3, <1>6, <1>7

LEMMA RemoveQueuedSlots ==
  ASSUME Shape, NEW e \in Executions, RemoveQueued(e), enabled, UNCHANGED lost
  PROVE  SlotStep
<1>1. /\ call \in [Calls -> Call] /\ queue \in Seq(Calls) /\ QueueOf(call, queue)
      /\ CallsSound /\ Taken = Holders(call) + lost /\ Len(queue) \in Nat
  BY TakenFacts, LenProperties DEF Shape, TypeOK
<1>2. PICK i \in FirstOf(e) :
        /\ GiveBack(Over(call, queue[i]), RemoveAt(queue, i))
        /\ removed' = removed + 1
  BY DEF RemoveQueued
<1> DEFINE c == queue[i]
           rest == RemoveAt(queue, i)
           calls == Over(call, c)
<1>3. i \in 1..Len(queue)
  BY DEF FirstOf
<1>4. c \in Calls /\ call[c].pc = "queued"
  BY <1>1, <1>3, ElementOfSeq DEF QueueOf
<1>5. calls \in [Calls -> Call] /\ calls[c] = Idle /\ \A d \in Calls : d # c => calls[d] = call[d]
  BY <1>1, <1>4, OverFacts
<1>6. rest \in Seq(Calls) /\ Len(rest) = Len(queue) - 1
  BY <1>1, <1>3, RemoveFacts
<1> HIDE DEF calls
<1>7. QueueOf(calls, rest)
  BY <1>1, <1>3, <1>5, RemovedQueue
<1>8. GiveBack(calls, rest)
  BY <1>2 DEF calls
<1> HIDE DEF rest
<1>9. \A d \in Calls : Sound(calls[d])
  <2>1. Sound(Idle)
    BY IdleFacts DEF Sound
  <2> QED
    BY <1>1, <1>5, <2>1 DEF CallsSound
<1>10. /\ capacity' = capacity + 1
       /\ \/ rest = <<>> /\ queue' = <<>> /\ Holders(call') = Holders(calls)
          \/ /\ rest # <<>> /\ Len(queue') = Len(rest) - 1
             /\ Holders(call') = Holders(calls) + 1
  BY <1>5, <1>6, <1>7, <1>8, <1>9, GiveBackSlots
<1>11. Holders(calls) = Holders(call) /\ Holders(call) \in Nat /\ lost \in Nat
  <2>1. call[c].held = FALSE /\ calls[c].held = FALSE
    BY <1>1, <1>4, <1>5, IdleFacts DEF CallsSound, Sound, Call, Idle
  <2>2. Holders(calls) = Holders(call)
    BY <1>5, <2>1, HoldersSame
  <2> QED
    BY <2>2, HoldersFinite DEF Shape, TypeOK
<1>12. queue # <<>> /\ (rest = <<>> => Len(queue) = 1)
  BY <1>1, <1>3, <1>6
<1>13. Removes
  <2>1. CASE rest = <<>>
    <3>1. Len(queue) = 1 /\ queue' = <<>> /\ Holders(call') = Holders(calls)
      BY <1>10, <1>12, <2>1
    <3> QED
      BY <1>1, <1>2, <1>10, <1>11, <1>12, <3>1 DEF Removes, Taken2
  <2>2. CASE rest # <<>>
    <3>1. Len(queue') = Len(queue) - 2 /\ Holders(call') = Holders(calls) + 1
      BY <1>1, <1>6, <1>10, <2>2
    <3> QED
      BY <1>1, <1>2, <1>10, <1>11, <1>12, <3>1 DEF Removes, Taken2
  <2> QED
    BY <2>1, <2>2
<1> QED
  BY <1>13 DEF SlotStep

LEMMA StopInProcessSlots ==
  ASSUME Shape, StopInProcess
  PROVE  SlotStep
<1>1. stop.exec \in Executions /\ UNCHANGED <<enabled, lost>>
  BY DEF StopInProcess, Shape
<1>2. CASE enabled /\ FirstOf(stop.exec) # {}
  <2>1. RemoveQueued(stop.exec)
    BY <1>2 DEF StopInProcess
  <2> QED
    BY <1>1, <1>2, <2>1, RemoveQueuedSlots
<1>3. CASE ~(enabled /\ FirstOf(stop.exec) # {})
  <2>1. StopEntry(stop.exec) /\ UNCHANGED removed
    BY <1>3 DEF StopInProcess
  <2> QED
    BY <1>1, <2>1, StopEntrySlots
<1> QED
  BY <1>2, <1>3

LEMMA TimeoutSlots ==
  ASSUME Shape, NEW c \in Calls, Timeout(c)
  PROVE  SlotStep
<1>1. call[c].exec \in Executions
  BY DEF Timeout, Shape, CallsSound, Sound
<1>2. StopEntry(call[c].exec) /\ UNCHANGED <<enabled, lost, removed>>
  BY DEF Timeout
<1> QED
  BY <1>1, <1>2, StopEntrySlots

\* A call that begins holds no slot, and the idle call it was held none.
LEMMA BegunSlots ==
  ASSUME Shape, NEW c \in Calls, NEW e \in Executions, Free(c),
         NEW x \in {"none", "new", "waiting"}, NEW w \in Nat,
         call' = [call EXCEPT ![c] = Begun(e, x, w)], UNCHANGED slots
  PROVE  SlotStep
<1>1. call[c].held = FALSE /\ call \in [Calls -> Call]
  BY DEF Free, Idle, Shape, TypeOK
<1>2. call'[c].held = FALSE
  BY <1>1 DEF Begun
<1>3. \A d \in Calls : d # c => call'[d].held = call[d].held
  BY <1>1
<1> QED
  BY <1>1, <1>2, <1>3, HeldKept

LEMMA CreateSlots ==
  ASSUME Shape, NEW c \in Calls, NEW e \in Executions, Create(c, e)
  PROVE  SlotStep
BY BegunSlots DEF Create

LEMMA TakeOverSlots ==
  ASSUME Shape, NEW c \in Calls, NEW e \in Executions,
         Resume(c, e) \/ TimerFires(c, e) \/ Recover(c, e)
  PROVE  SlotStep
<1>1. row[e].waits \in Nat
  BY DEF Shape, TypeOK
<1>2. UNCHANGED slots
  BY DEF Resume, TimerFires, Recover
<1>3. CASE Resume(c, e)
  BY <1>1, <1>2, <1>3, BegunSlots DEF Resume, TakeOver
<1>4. CASE TimerFires(c, e)
  <2>1. CASE row[e].status = "success"
    BY <1>2, <1>4, <2>1, HeldKept DEF TimerFires
  <2>2. CASE row[e].status # "success"
    BY <1>1, <1>2, <1>4, <2>2, BegunSlots DEF TimerFires, TakeOver
  <2> QED
    BY <2>1, <2>2
<1>5. CASE Recover(c, e)
  BY <1>2, <1>5, BegunSlots DEF Recover, TakeOver
<1> QED
  BY <1>3, <1>4, <1>5

\* A new process has nothing reserved.
LEMMA RebootSlots ==
  ASSUME Reboot
  PROVE  SlotStep
<1>1. \A d \in Calls : ~call'[d].held
  BY IdleFacts DEF Reboot
<1>2. HolderSet(call') = {}
  BY <1>1 DEF HolderSet
<1>3. Holders(call') = 0
  BY <1>2, FS_EmptySet DEF Holders
<1> QED
  BY <1>3 DEF Reboot, SlotStep, Resets, Taken2

LEMMA AdvanceSlots ==
  ASSUME Shape, NEW c \in Calls, Advance(c)
  PROVE  SlotStep
<1>1. CASE Reserve(c)
  BY <1>1, ReserveSlots
<1>2. CASE Claim(c)
  BY <1>2, ClaimSlots
<1>3. CASE MarkStarted(c)
  BY <1>3, GotoSlots DEF MarkStarted, Places
<1>4. CASE Register(c)
  BY <1>4, GotoSlots DEF Register, Places
<1>5. CASE MarkRunning(c)
  BY <1>5, GotoSlots DEF MarkRunning, Places
<1>6. CASE Launch(c)
  <2>1. Goto(c, "stray") \/ Goto(c, "executing")
    BY <1>6 DEF Launch
  <2> QED
    BY <1>6, <2>1, GotoSlots DEF Launch, Places
<1>7. CASE PutToWait(c)
  BY <1>7, GotoSlots DEF PutToWait, Places
<1>8. CASE \E s \in Ended \cup {"waiting"} : Save(c, s)
  BY <1>8, SaveSlots
<1>9. CASE Finalize(c)
  BY <1>9, FinalizeSlots
<1>10. CASE EndCancelled(c)
  BY <1>10, EndCancelledSlots
<1>11. CASE SaveFailed(c)
  BY <1>11, SaveFailedSlots
<1> QED
  BY <1>1, <1>2, <1>3, <1>4, <1>5, <1>6, <1>7, <1>8, <1>9, <1>10, <1>11 DEF Advance

\* Every step does to the slots what one of the kinds above says.
LEMMA NextSlots ==
  ASSUME Shape, [Next]_vars
  PROVE  SlotStep
<1>1. ASSUME NEW c \in Calls, Advance(c) \/ Disturbed(c) PROVE SlotStep
  BY <1>1, AdvanceSlots, WriteFailsSlots, StickSlots, ProcessErrorSlots, TimeoutSlots
     DEF Disturbed
<1>2. ASSUME NEW c \in Calls, NEW e \in Executions,
             Create(c, e) \/ Resume(c, e) \/ TimerFires(c, e) \/ Recover(c, e)
      PROVE  SlotStep
  BY <1>2, CreateSlots, TakeOverSlots
<1>3. CASE \/ \E S \in SUBSET Executions : PollRead(S)
           \/ PollSet
           \/ \E e \in Executions : StopRead(e) \/ RecoverFails(e) \/ CrashUnstartable(e)
           \/ StopWrite \/ RecoveryRead \/ UNCHANGED vars
  <2>1. UNCHANGED <<call, capacity, queue, enabled, lost, removed>>
    BY <1>3 DEF PollRead, PollSet, StopRead, RecoverFails, CrashUnstartable, StopWrite,
                RecoveryRead, vars, slots
  <2> QED
    BY <2>1, HeldKept DEF slots
<1>4. CASE StopInProcess
  BY <1>4, StopInProcessSlots
<1>5. CASE Shutdown
  BY <1>5 DEF Shutdown, SlotStep
<1>6. CASE Crash \/ Exit
  BY <1>6, RebootSlots DEF Crash, Exit
<1> QED
  BY <1>1, <1>2, <1>3, <1>4, <1>5, <1>6 DEF Next

-----------------------------------------------------------------------------
(* The theorems.                                                           *)

LEMMA InitSlots == Init => SlotsInv
<1> SUFFICES ASSUME Init PROVE SlotsInv
  OBVIOUS
<1>1. Held = {}
  BY IdleFacts DEF Init, Held
<1>2. Taken = 0
  BY <1>1, FS_EmptySet DEF Init, Taken
<1>3. Len(queue) = 0 /\ capacity = Limit /\ removed = 0 /\ Limit \in Nat /\ queue = <<>>
  BY ExecutionAssumption DEF Init
<1> QED
  BY <1>2, <1>3 DEF SlotsInv, SlotsAccounted, QueueOnlyWhenFull, OversubscribedByRemovals

\* The three invariants of the limit hold in every reachable state.
LEMMA SlotsCorrect == Spec => []SlotsInv
<1> DEFINE Inv == Shape /\ SlotsInv
<1>1. Init => Inv
  BY InitShape, InitSlots
<1>2. Inv /\ [Next]_vars => Inv'
  <2> SUFFICES ASSUME Inv, [Next]_vars PROVE Inv'
    OBVIOUS
  <2>1. Shape' /\ SlotStep
    BY NextStep, NextSlots
  <2>2. TypeOK /\ TypeOK'
    BY <2>1 DEF Shape
  <2> QED
    BY <2>1, <2>2, SlotsInvStep
<1> QED
  BY <1>1, <1>2, PTL DEF Spec

\* While the service is enabled its capacity is the limit less the slots taken
\* and the calls queued: no release is done twice, and none is forgotten but by
\* a call whose entry somebody else has dropped.
THEOREM CapacityAccounted == Spec => []SlotsAccounted
<1>1. SlotsInv => SlotsAccounted
  BY DEF SlotsInv
<1> QED
  BY <1>1, SlotsCorrect, PTL

\* No call is throttled while a slot is free.
THEOREM ThrottledOnlyWhenFull == Spec => []QueueOnlyWhenFull
<1>1. SlotsInv => QueueOnlyWhenFull
  BY DEF SlotsInv
<1> QED
  BY <1>1, SlotsCorrect, PTL

\* The limit is passed by at most one slot for each execution a stop took out of
\* the queue.
THEOREM LimitPassedByRemovals == Spec => []OversubscribedByRemovals
<1>1. SlotsInv => OversubscribedByRemovals
  BY DEF SlotsInv
<1> QED
  BY <1>1, SlotsCorrect, PTL
=============================================================================
