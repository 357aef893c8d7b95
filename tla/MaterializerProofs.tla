-------------------------- MODULE MaterializerProofs --------------------------
(***************************************************************************)
(* Theorems about Materializer, for any jobs, passes, activations and      *)
(* schedules and every window, cap and grace: types, what the queue of a   *)
(* job may become, and what its clock leaves behind.                       *)
(***************************************************************************)
EXTENDS Materializer, FiniteSetTheorems, WellFoundedInduction, TLAPS

-----------------------------------------------------------------------------
(* Least and greatest instants.                                            *)

\* Every set of natural numbers that is not empty has a least element.
LEMMA LeastNat ==
  ASSUME NEW S \in SUBSET Nat, S # {}
  PROVE  \E m \in S : \A k \in S : m =< k
<1> DEFINE R == {ss \in Nat \X Nat : ss[1] < ss[2]}
<1>1. IsWellFoundedOn(R, Nat)
  BY NatLessThanWellFounded DEF OpToRel
<1> HIDE DEF R
<1>2. \E m \in S : \A k \in S : <<k, m>> \notin R
  BY <1>1, WFMin
<1>3. \A k, m \in Nat : <<k, m>> \notin R => m =< k
  BY DEF R
<1> QED
  BY <1>2, <1>3

\* Least of a set of instants that is bounded below.
LEMMA LeastFacts ==
  ASSUME NEW S \in SUBSET Int, S # {}, NEW low \in Int, \A i \in S : low =< i
  PROVE  Least(S) \in S /\ \A k \in S : Least(S) =< k
<1> DEFINE T == {i - low : i \in S}
<1>0. \A i \in S : i - low \in Nat
  OBVIOUS
<1>1. T \in SUBSET Nat /\ T # {}
  BY <1>0
<1>2. PICK m \in T : \A k \in T : m =< k
  BY <1>1, LeastNat
<1>3. m + low \in S /\ \A k \in S : m + low =< k
  BY <1>2
<1> QED
  BY <1>3 DEF Least

\* Greatest of a set of instants that is bounded above.
LEMMA GreatestFacts ==
  ASSUME NEW S \in SUBSET Int, S # {}, NEW high \in Int, \A i \in S : i =< high
  PROVE  Greatest(S) \in S /\ \A k \in S : k =< Greatest(S)
<1> DEFINE T == {high - i : i \in S}
<1>0. \A i \in S : high - i \in Nat
  OBVIOUS
<1>1. T \in SUBSET Nat /\ T # {}
  BY <1>0
<1>2. PICK m \in T : \A k \in T : m =< k
  BY <1>1, LeastNat
<1>3. high - m \in S /\ \A k \in S : k =< high - m
  <2>1. PICK i \in S : m = high - i
    BY <1>2
  <2>2. \A k \in S : m =< high - k
    BY <1>2
  <2> QED
    BY <2>1, <2>2
<1> QED
  BY <1>3 DEF Greatest

-----------------------------------------------------------------------------
(* Instants of a schedule.                                                 *)

\* Division with remainder.
LEMMA DivMod ==
  ASSUME NEW a \in Int, NEW n \in Nat \ {0}
  PROVE  /\ a \div n \in Int /\ a % n \in 0..(n - 1)
         /\ a = n * (a \div n) + (a % n)
OBVIOUS

\* And back.
LEMMA ModUnique ==
  ASSUME NEW q \in Int, NEW n \in Nat \ {0}, NEW r \in 0..(n - 1)
  PROVE  (n * q + r) % n = r
OBVIOUS

\* Multiples of an interval are closed under difference and sum.
LEMMA Multiples ==
  ASSUME NEW a \in Int, NEW b \in Int, NEW n \in Nat \ {0}, a % n = 0, b % n = 0
  PROVE  (a - b) % n = 0 /\ (a + b) % n = 0
<1> DEFINE p == a \div n
           q == b \div n
<1>1. p \in Int /\ q \in Int /\ a = n * p /\ b = n * q
  BY DivMod
<1> HIDE DEF p, q
<1>2. a - b = n * (p - q) + 0 /\ a + b = n * (p + q) + 0
  BY <1>1
<1>3. p - q \in Int /\ p + q \in Int /\ 0 \in 0..(n - 1)
  BY <1>1
<1> QED
  BY <1>2, <1>3, ModUnique

\* The instants of a cron in the period that follows `at`.
InPeriod(at, n, phase) == {i \in (at + 1)..(at + n) : i % n = phase}

\* A cron has an instant in every period.
LEMMA CronInPeriod ==
  ASSUME NEW at \in Int, NEW n \in Nat \ {0}, NEW phase \in Nat, phase < n
  PROVE  InPeriod(at, n, phase) # {}
<1>0. PICK a \in Int : a = phase - (at + 1)
  OBVIOUS
<1> DEFINE d == a % n
           q == a \div n
<1>1. q \in Int /\ d \in 0..(n - 1) /\ phase - (at + 1) = n * q + d
  BY <1>0, DivMod
<1> HIDE DEF d, q
<1>2. at + 1 + d = n * (0 - q) + phase
  <2> DEFINE x == n * q
             y == n * (0 - q)
  <2>1. x \in Int /\ y = 0 - x
    BY <1>1
  <2>2. phase - (at + 1) = x + d /\ d \in Int
    BY <1>1
  <2> HIDE DEF x, y
  <2>3. at + 1 + d = y + phase
    BY <2>1, <2>2
  <2> QED
    BY <2>3 DEF y
<1>3. 0 - q \in Int /\ phase \in 0..(n - 1)
  BY <1>1
<1>4. (at + 1 + d) % n = phase
  BY <1>2, <1>3, ModUnique
<1>5. at + 1 + d \in (at + 1)..(at + n)
  BY <1>1
<1> QED
  BY <1>4, <1>5 DEF InPeriod

\* The first instant of a definition, when it has one, is after the present.
LEMMA FirstRun ==
  ASSUME MaterializerAssumption, NEW s \in Schedules, NEW at \in Nat
  PROVE  LET first == ComputeFirstRunAt(s, at)
         IN  first = Never \/ (first \in Int /\ first > at)
<1>0. s \in Schedule /\ s.every \in Nat \ {0} /\ s.phase \in Nat /\ s.kind \in Kinds
  BY DEF MaterializerAssumption, Schedule
<1>1. CASE s.kind = "cron"
  <2> DEFINE S == {i \in (at + 1)..(at + s.every) : i % s.every = s.phase}
  <2> HIDE DEF S
  <2>1. s.phase < s.every
    BY <1>1 DEF MaterializerAssumption
  <2>2. S # {}
    <3>1. InPeriod(at, s.every, s.phase) # {}
      <4> DEFINE n == s.every
                 phase == s.phase
      <4>1. n \in Nat \ {0} /\ phase \in Nat /\ phase < n /\ at \in Int
        BY <1>0, <2>1
      <4> HIDE DEF n, phase
      <4>2. InPeriod(at, n, phase) # {}
        BY <4>1, CronInPeriod
      <4> QED
        BY <4>2 DEF n, phase
    <3> QED
      BY <3>1 DEF InPeriod, S
  <2>3. S \in SUBSET Int /\ at + 1 \in Int /\ \A i \in S : at + 1 =< i
    BY <1>0 DEF S
  <2>4. Least(S) \in S
    BY <2>2, <2>3, LeastFacts
  <2>5. ComputeFirstRunAt(s, at) = Least(S)
    BY <1>1 DEF ComputeFirstRunAt, S
  <2>6. ComputeFirstRunAt(s, at) \in Int /\ at + 1 =< ComputeFirstRunAt(s, at)
    BY <2>3, <2>4, <2>5
  <2> QED
    BY <2>6
<1>2. CASE s.kind = "interval"
  BY <1>0, <1>2 DEF ComputeFirstRunAt
<1>3. CASE s.kind = "one_off"
  BY <1>0, <1>3 DEF ComputeFirstRunAt
<1> QED
  BY <1>0, <1>1, <1>2, <1>3 DEF Kinds

\* i is an instant of schedule s walked from `first`.
IsFire(s, first, i) ==
  /\ i \in Int /\ first =< i
  /\ \/ i = first
     \/ s.kind = "cron" /\ i % s.every = s.phase
     \/ s.kind = "interval" /\ (i - first) % s.every = 0

\* A walk is the fires up to its end.
LEMMA WalkIsFires ==
  ASSUME NEW s, NEW first \in Int, NEW until \in Int, NEW i
  PROVE  i \in OccurrencesFrom(s, first, until) <=> IsFire(s, first, i) /\ i =< until
BY DEF OccurrencesFrom, IsFire

\* Walking on from a fire of a definition yields the fires of the definition.
LEMMA FireOfFire ==
  ASSUME NEW s \in Schedule, NEW first \in Int, NEW mid, IsFire(s, first, mid), NEW i
  PROVE  /\ IsFire(s, mid, i) => IsFire(s, first, i)
         /\ IsFire(s, first, i) /\ mid =< i => IsFire(s, mid, i)
<1>0. s.every \in Nat \ {0} /\ s.phase \in Nat /\ mid \in Int /\ first =< mid
  BY DEF Schedule, IsFire
<1>1. ASSUME IsFire(s, mid, i)
      PROVE  IsFire(s, first, i)
  <2>1. i \in Int /\ mid =< i /\ first =< i
    BY <1>0, <1>1 DEF IsFire
  <2>2. CASE i = mid
    BY <2>2
  <2>3. CASE i # mid /\ s.kind = "cron"
    BY <1>1, <2>1, <2>3 DEF IsFire
  <2>4. CASE i # mid /\ s.kind # "cron"
    <3>1. s.kind = "interval" /\ (i - mid) % s.every = 0
      BY <1>1, <2>4 DEF IsFire
    <3>2. (mid - first) % s.every = 0
      BY <1>0, <3>1 DEF IsFire
    <3>3. PICK x \in Int : x = i - mid
      BY <1>0, <2>1
    <3>4. PICK y \in Int : y = mid - first
      BY <1>0
    <3>5. (x + y) % s.every = 0
      BY <1>0, <3>1, <3>2, <3>3, <3>4, Multiples
    <3>6. x + y = i - first
      BY <1>0, <2>1, <3>3, <3>4
    <3> QED
      BY <2>1, <3>1, <3>5, <3>6 DEF IsFire
  <2> QED
    BY <2>2, <2>3, <2>4
<1>2. ASSUME IsFire(s, first, i), mid =< i
      PROVE  IsFire(s, mid, i)
  <2>1. i \in Int
    BY <1>2 DEF IsFire
  <2>2. CASE i = first
    BY <1>0, <1>2, <2>1, <2>2 DEF IsFire
  <2>3. CASE i # first /\ s.kind = "cron"
    BY <1>2, <2>1, <2>3 DEF IsFire
  <2>4. CASE i # first /\ s.kind # "cron"
    <3>1. s.kind = "interval" /\ (i - first) % s.every = 0
      BY <1>2, <2>4 DEF IsFire
    <3>2. (mid - first) % s.every = 0
      BY <1>0, <3>1 DEF IsFire
    <3>3. PICK x \in Int : x = i - first
      BY <2>1
    <3>4. PICK y \in Int : y = mid - first
      BY <1>0
    <3>5. (x - y) % s.every = 0
      BY <1>0, <3>1, <3>2, <3>3, <3>4, Multiples
    <3>6. x - y = i - mid
      BY <1>0, <2>1, <3>3, <3>4
    <3> QED
      BY <1>2, <2>1, <3>1, <3>5, <3>6 DEF IsFire
  <2> QED
    BY <2>2, <2>3, <2>4
<1> QED
  BY <1>1, <1>2

-----------------------------------------------------------------------------
(* What a plan is.                                                         *)

\* What a policy keeps of a walk, and the run it makes a catch-up.
LEMMA PolicyFacts ==
  ASSUME MaterializerAssumption, NEW due \in SUBSET Int, NEW low \in Int,
         \A i \in due : low =< i, NEW at \in Int, NEW policy, NEW truncated
  PROVE  LET kept == ApplyMisfirePolicy(due, at, policy, truncated)
         IN  /\ kept.occurrences \in SUBSET due
             /\ \/ kept.catchUp = Never
                \/ /\ kept.catchUp \in kept.occurrences /\ kept.catchUp =< at
                   /\ \A i \in kept.occurrences : kept.catchUp =< i
<1> DEFINE behind == {i \in due : i =< at}
           ahead  == due \ behind
           kept   == ApplyMisfirePolicy(due, at, policy, truncated)
<1>1. \/ kept = [occurrences |-> due, catchUp |-> Never]
      \/ kept = [occurrences |-> ahead, catchUp |-> Never]
      \/ /\ behind # {}
         /\ kept = [occurrences |-> {Greatest(behind)} \cup ahead,
                    catchUp |-> Greatest(behind)]
  BY DEF ApplyMisfirePolicy
<1>2. behind # {} => Greatest(behind) \in behind
  <2>1. behind \in SUBSET Int /\ \A i \in behind : i =< at
    OBVIOUS
  <2> HIDE DEF behind
  <2> QED
    BY <2>1, GreatestFacts
<1>3. \A i \in behind, k \in ahead : i =< k
  OBVIOUS
<1>4. ahead \in SUBSET due /\ behind \in SUBSET due /\ \A i \in behind : i \in Int /\ i =< at
  OBVIOUS
<1> HIDE DEF behind, ahead, kept
<1> SUFFICES /\ kept.occurrences \in SUBSET due
             /\ \/ kept.catchUp = Never
                \/ /\ kept.catchUp \in kept.occurrences /\ kept.catchUp =< at
                   /\ \A i \in kept.occurrences : kept.catchUp =< i
  BY DEF kept
<1>5. CASE kept.catchUp = Never
  <2>1. behind # {} => {Greatest(behind)} \cup ahead \in SUBSET due
    BY <1>2, <1>4
  <2>2. \/ kept.occurrences = due \/ kept.occurrences = ahead
        \/ behind # {} /\ kept.occurrences = {Greatest(behind)} \cup ahead
    BY <1>1
  <2>3. kept.occurrences \in SUBSET due
    BY <1>4, <2>1, <2>2
  <2> QED
    BY <1>5, <2>3
<1>6. CASE kept.catchUp # Never
  <2>1. /\ behind # {}
        /\ kept = [occurrences |-> {Greatest(behind)} \cup ahead,
                   catchUp |-> Greatest(behind)]
    BY <1>1, <1>6
  <2>2. PICK g \in behind : g = Greatest(behind)
    BY <1>2, <2>1
  <2>3. kept.occurrences = {g} \cup ahead /\ kept.catchUp = g
    BY <2>1, <2>2
  <2>4. \A i \in {g} \cup ahead : g =< i
    BY <1>3, <1>4, <2>2
  <2> QED
    BY <1>4, <2>2, <2>3, <2>4
<1> QED
  BY <1>5, <1>6

\* The instants the plan of a job takes, and those it leaves to the next pass.
Walk(b, at) == OccurrencesFrom(b.schedule, b.next, at + Window)
Due(b, at) ==
  {i \in Walk(b, at) : Cardinality({k \in Walk(b, at) : k < i}) < MaxPerJob}
LongWalk(b, at) ==
  OccurrencesFrom(b.schedule, b.next,
    (IF b.next > at + Window THEN b.next ELSE at + Window) + b.schedule.every)
Left(b, at) == LongWalk(b, at) \ Due(b, at)
Kept(b, at) == ApplyMisfirePolicy(Due(b, at), at, b.policy, Walk(b, at) # Due(b, at))

\* A plan, in those terms.
LEMMA PlanIs ==
  ASSUME NEW b, NEW at
  PROVE  PlanOccurrences(b, at) =
           [occurrences |-> Kept(b, at).occurrences, catchUp |-> Kept(b, at).catchUp,
            dropped |-> Due(b, at) \ Kept(b, at).occurrences,
            next |-> IF Left(b, at) = {} THEN Never ELSE Least(Left(b, at)),
            last |-> IF Due(b, at) = {} THEN b.last ELSE Greatest(Due(b, at))]
BY DEF PlanOccurrences, Walk, Due, LongWalk, Left, Kept

\* The instants taken are fires within the window, the first ones first: no fire
\* taken is later than one of the walk that is left.
LEMMA DueFacts ==
  ASSUME MaterializerAssumption, NEW b, b.schedule \in Schedule, b.next \in Int,
         NEW at \in Int
  PROVE  /\ \A i \in Due(b, at) : i \in Int /\ b.next =< i /\ i =< at + Window
         /\ \A i \in Due(b, at) : IsFire(b.schedule, b.next, i)
         /\ \A i \in LongWalk(b, at) : IsFire(b.schedule, b.next, i)
         /\ \A i \in Due(b, at), k \in Left(b, at) : i < k
         /\ b.next \in LongWalk(b, at)
<1> DEFINE W == Walk(b, at)
           until == (IF b.next > at + Window THEN b.next ELSE at + Window) + b.schedule.every
<1>0. Window \in Nat /\ MaxPerJob \in Nat /\ b.schedule.every \in Nat
  BY DEF MaterializerAssumption, Schedule
<1>1. at + Window \in Int /\ until \in Int /\ at + Window =< until /\ b.next =< until
  BY <1>0
<1>2. \A i : i \in W <=> IsFire(b.schedule, b.next, i) /\ i =< at + Window
  BY <1>1, WalkIsFires DEF Walk
<1>3. \A i : i \in LongWalk(b, at) <=> IsFire(b.schedule, b.next, i) /\ i =< until
  BY <1>1, WalkIsFires DEF LongWalk
<1>4. \A i \in Due(b, at) : i \in W
  BY DEF Due
<1>5. W \in SUBSET (b.next..(at + Window))
  BY <1>1, <1>2 DEF IsFire
<1>6. IsFiniteSet(W)
  BY <1>1, <1>5, FS_Interval, FS_Subset
<1> HIDE DEF W, until
<1>7. ASSUME NEW i \in Due(b, at), NEW k \in Left(b, at)
      PROVE  i < k
  <2>1. k \in Int /\ i \in Int /\ i \in W /\ k \notin Due(b, at) /\ IsFire(b.schedule, b.next, k)
    BY <1>2, <1>3, <1>4, <1>7 DEF Left, IsFire
  <2>2. SUFFICES ASSUME k =< i
                 PROVE  FALSE
    BY <2>1
  <2>3. k \in W
    BY <1>1, <1>2, <2>1, <2>2
  <2> DEFINE A == {m \in W : m < k}
             B == {m \in W : m < i}
  <2>4. A \subseteq B /\ B \subseteq W
    <3>1. \A m \in W : m \in Int
      BY <1>2 DEF IsFire
    <3>2. \A m \in W : m < k => m < i
      BY <2>1, <2>2, <3>1
    <3> QED
      BY <3>2
  <2>5. IsFiniteSet(B) /\ Cardinality(A) =< Cardinality(B)
    BY <1>6, <2>4, FS_Subset
  <2>6. IsFiniteSet(A) /\ Cardinality(A) \in Nat /\ Cardinality(B) \in Nat
    BY <2>4, <2>5, FS_Subset, FS_CardinalityType
  <2>7. Cardinality(B) < MaxPerJob /\ ~(Cardinality(A) < MaxPerJob)
    BY <2>1, <2>3 DEF Due, W
  <2> QED
    BY <1>0, <2>5, <2>6, <2>7
<1>8. \A i \in Due(b, at) : i \in Int /\ b.next =< i /\ i =< at + Window
  BY <1>2, <1>4 DEF IsFire
<1>9. \A i \in Due(b, at) : IsFire(b.schedule, b.next, i)
  BY <1>2, <1>4
<1>10. IsFire(b.schedule, b.next, b.next)
  BY DEF IsFire
<1> QED
  BY <1>1, <1>3, <1>7, <1>8, <1>9, <1>10

\* What a plan takes, and where it leaves the clock: on the next fire that it did
\* not take, with every fire before that taken.
LEMMA PlanFacts ==
  ASSUME MaterializerAssumption, NEW b \in Job, b.next \in Int, NEW at \in Int
  PROVE  LET plan == PlanOccurrences(b, at)
             taken == plan.occurrences \cup plan.dropped
         IN  /\ plan.occurrences \in SUBSET Int /\ plan.dropped \in SUBSET Int
             /\ plan.next \in Int \cup {Never} /\ plan.last \in Int \cup {Never}
             /\ plan.catchUp \in Int \cup {Never}
             /\ plan.catchUp # Never =>
                  /\ plan.catchUp \in plan.occurrences /\ plan.catchUp =< at
                  /\ \A i \in plan.occurrences : plan.catchUp =< i
             /\ \A i \in taken : IsFire(b.schedule, b.next, i)
             /\ plan.next = Never => b.next \in taken
             /\ plan.next # Never =>
                  /\ IsFire(b.schedule, b.next, plan.next)
                  /\ \A i \in taken : i < plan.next
                  /\ \A i : IsFire(b.schedule, b.next, i) /\ i < plan.next => i \in taken
<1> DEFINE plan == PlanOccurrences(b, at)
           taken == plan.occurrences \cup plan.dropped
           D == Due(b, at)
           L == Left(b, at)
           K == Kept(b, at)
<1>0. b.schedule \in Schedule /\ b.last \in Int \cup {Never} /\ Never \notin Int
  BY DEF Job, MaterializerAssumption
<1>1. /\ \A i \in D : i \in Int /\ b.next =< i /\ i =< at + Window
      /\ \A i \in D : IsFire(b.schedule, b.next, i)
      /\ \A i \in LongWalk(b, at) : IsFire(b.schedule, b.next, i)
      /\ \A i \in D, k \in L : i < k
      /\ b.next \in LongWalk(b, at)
  BY <1>0, DueFacts
<1>2. at + Window \in Int
  BY DEF MaterializerAssumption
<1> HIDE DEF D
<1>3. /\ K.occurrences \in SUBSET D
      /\ \/ K.catchUp = Never
         \/ /\ K.catchUp \in K.occurrences /\ K.catchUp =< at
            /\ \A i \in K.occurrences : K.catchUp =< i
  <2>1. D \in SUBSET Int /\ \A i \in D : b.next =< i
    BY <1>1
  <2> QED
    BY <2>1, PolicyFacts DEF Kept, D
<1>4. /\ plan.occurrences = K.occurrences /\ plan.catchUp = K.catchUp
      /\ plan.dropped = D \ K.occurrences
      /\ plan.next = IF L = {} THEN Never ELSE Least(L)
      /\ plan.last = IF D = {} THEN b.last ELSE Greatest(D)
  BY PlanIs DEF D
<1>5. taken = D
  BY <1>3, <1>4
<1>6. L \in SUBSET LongWalk(b, at) /\ \A i \in LongWalk(b, at) : i \in D \/ i \in L
  BY DEF Left, D
<1>7. L # {} => Least(L) \in L /\ \A k \in L : Least(L) =< k
  <2>1. L \in SUBSET Int /\ \A i \in L : b.next =< i
    BY <1>1, <1>6 DEF IsFire
  <2> QED
    BY <2>1, LeastFacts
<1>8. D # {} => Greatest(D) \in D
  <2>1. D \in SUBSET Int /\ \A i \in D : i =< at + Window
    BY <1>1
  <2> QED
    BY <1>2, <2>1, GreatestFacts
<1> HIDE DEF plan, L, K
<1> SUFFICES /\ plan.occurrences \in SUBSET Int /\ plan.dropped \in SUBSET Int
             /\ plan.next \in Int \cup {Never} /\ plan.last \in Int \cup {Never}
             /\ plan.catchUp \in Int \cup {Never}
             /\ plan.catchUp # Never =>
                  /\ plan.catchUp \in plan.occurrences /\ plan.catchUp =< at
                  /\ \A i \in plan.occurrences : plan.catchUp =< i
             /\ \A i \in D : IsFire(b.schedule, b.next, i)
             /\ plan.next = Never => b.next \in D
             /\ plan.next # Never =>
                  /\ IsFire(b.schedule, b.next, plan.next)
                  /\ \A i \in D : i < plan.next
                  /\ \A i : IsFire(b.schedule, b.next, i) /\ i < plan.next => i \in D
  BY <1>5 DEF plan
<1>9. plan.occurrences \in SUBSET Int /\ plan.dropped \in SUBSET Int
  BY <1>1, <1>3, <1>4
<1>10. plan.last \in Int \cup {Never}
  BY <1>0, <1>1, <1>4, <1>8
<1>11. /\ plan.catchUp \in Int \cup {Never}
       /\ plan.catchUp # Never =>
            /\ plan.catchUp \in plan.occurrences /\ plan.catchUp =< at
            /\ \A i \in plan.occurrences : plan.catchUp =< i
  BY <1>3, <1>4, <1>9
<1>12. CASE L = {}
  <2>1. plan.next = Never /\ b.next \in D
    BY <1>1, <1>4, <1>6, <1>12
  <2> QED
    BY <1>1, <1>9, <1>10, <1>11, <2>1
<1>13. CASE L # {}
  <2>1. plan.next \in L /\ \A k \in L : plan.next =< k
    BY <1>4, <1>7, <1>13
  <2>2. IsFire(b.schedule, b.next, plan.next) /\ plan.next \in Int
    BY <1>1, <1>6, <2>1 DEF IsFire
  <2>3. plan.next # Never /\ \A i \in D : i < plan.next
    BY <1>0, <1>1, <2>1, <2>2
  <2>4. ASSUME NEW i, IsFire(b.schedule, b.next, i), i < plan.next
        PROVE  i \in D
    <3> DEFINE until == (IF b.next > at + Window THEN b.next ELSE at + Window)
                          + b.schedule.every
    <3>1. b.schedule.every \in Int
      BY <1>0 DEF Schedule
    <3>2. until \in Int
      BY <1>2, <3>1
    <3>3. plan.next \in LongWalk(b, at)
      BY <1>6, <2>1
    <3>4. \A k : k \in LongWalk(b, at) <=> IsFire(b.schedule, b.next, k) /\ k =< until
      BY <3>2, WalkIsFires DEF LongWalk
    <3> HIDE DEF until
    <3>5. i \in Int /\ i =< until
      BY <2>2, <2>4, <3>2, <3>3, <3>4 DEF IsFire
    <3>6. i \in LongWalk(b, at)
      BY <2>4, <3>4, <3>5
    <3> QED
      BY <1>6, <2>1, <2>2, <2>4, <3>5, <3>6
  <2> QED
    BY <1>1, <1>9, <1>10, <1>11, <2>2, <2>3, <2>4
<1> QED
  BY <1>12, <1>13

-----------------------------------------------------------------------------
(* What a pass makes of a queue.                                           *)

\* At most one row per instant: the (scheduleId, occurrenceAt) index.
OnePerInstant(queued) == \A o, n \in queued : o.at = n.at => o = n

\* A row that runs or may yet run.
Live(o) == o.status \in {"pending", "taken"}

\* One catch-up and its retirement change no instant, and only give rows up.
LEMMA RetireFacts ==
  ASSUME NEW queued \in SUBSET Occurrence, OnePerInstant(queued),
         Never \notin Int, NEW catchUp \in Int \cup {Never}
  PROVE  LET w == RetireSuperseded(queued, catchUp)
         IN  /\ w \in SUBSET Occurrence /\ OnePerInstant(w)
             /\ \A o \in queued : \E n \in w : n.at = o.at
             /\ \A n \in w : \E o \in queued :
                  /\ n.at = o.at
                  /\ n = o \/ n.status = "missed"
                  /\ catchUp # Never /\ n.status = "pending" => catchUp =< n.at
<1> DEFINE R(o) == IF o.status = "pending" /\ o.at < catchUp
                     THEN [o EXCEPT !.status = "missed"] ELSE o
           w == RetireSuperseded(queued, catchUp)
<1>1. CASE catchUp = Never
  <2>1. w = queued
    BY <1>1 DEF RetireSuperseded
  <2> QED
    BY <1>1, <2>1
<1>2. CASE catchUp # Never
  <2>0. catchUp \in Int
    BY <1>2
  <2>1. w = {R(o) : o \in queued}
    BY <1>2 DEF RetireSuperseded
  <2>2. ASSUME NEW o \in queued
        PROVE  /\ R(o) \in Occurrence /\ R(o).at = o.at
               /\ R(o) = o \/ R(o).status = "missed"
               /\ R(o).status = "pending" => catchUp =< R(o).at
    <3>1. CASE o.status = "pending" /\ o.at < catchUp
      BY <2>0, <2>2, <3>1 DEF Occurrence
    <3>2. CASE ~(o.status = "pending" /\ o.at < catchUp)
      <4>1. R(o) = o /\ o.at \in Int
        BY <3>2 DEF Occurrence
      <4> QED
        BY <2>0, <3>2, <4>1
    <3> QED
      BY <3>1, <3>2
  <2> HIDE DEF R, w
  <2>3. w \in SUBSET Occurrence
    BY <2>1, <2>2
  <2>4. OnePerInstant(w)
    BY <2>1, <2>2 DEF OnePerInstant
  <2>5. \A o \in queued : \E n \in w : n.at = o.at
    BY <2>1, <2>2
  <2>6. \A n \in w : \E o \in queued :
                  /\ n.at = o.at
                  /\ n = o \/ n.status = "missed"
                  /\ n.status = "pending" => catchUp =< n.at
    BY <2>1, <2>2
  <2> QED
    BY <2>3, <2>4, <2>5, <2>6 DEF w
<1> QED
  BY <1>1, <1>2

\* Recording adds the instants of the plan that the queue does not have.
LEMMA RecordFacts ==
  ASSUME MaterializerAssumption, NEW queued \in SUBSET Occurrence, OnePerInstant(queued),
         NEW plan, plan.occurrences \in SUBSET Int, NEW at \in Int, NEW grace \in Int
  PROVE  LET w == RecordOccurrences(queued, plan, at, grace)
         IN  /\ w \in SUBSET Occurrence /\ OnePerInstant(w) /\ queued \in SUBSET w
             /\ \A i \in plan.occurrences : \E n \in w : n.at = i
             /\ \A n \in w : \/ n \in queued
                             \/ /\ n.at \in plan.occurrences /\ n.status = "pending"
                                /\ \A o \in queued : o.at # n.at
<1> DEFINE New(i) == NewOccurrence(i, plan, at, grace)
           fresh == plan.occurrences \ {o.at : o \in queued}
           w == RecordOccurrences(queued, plan, at, grace)
<1>1. \A i \in plan.occurrences :
        New(i) \in Occurrence /\ New(i).at = i /\ New(i).status = "pending"
  BY DEF NewOccurrence, Occurrence
<1>2. w = queued \cup {New(i) : i \in fresh}
  BY DEF RecordOccurrences
<1>3. \A i \in fresh : i \in plan.occurrences /\ \A o \in queued : o.at # i
  OBVIOUS
<1>4. \A i \in plan.occurrences : i \in fresh \/ \E o \in queued : o.at = i
  OBVIOUS
<1> HIDE DEF New, fresh, w
<1>5. w \in SUBSET Occurrence /\ queued \in SUBSET w
  BY <1>1, <1>2, <1>3
<1>6. \A i \in plan.occurrences : \E n \in w : n.at = i
  BY <1>1, <1>2, <1>4
<1>7. \A n \in w : \/ n \in queued
                   \/ \E i \in fresh : n = New(i)
  BY <1>2
<1>8. \A n \in w : \/ n \in queued
                   \/ /\ n.at \in plan.occurrences /\ n.status = "pending"
                      /\ \A o \in queued : o.at # n.at
  BY <1>1, <1>3, <1>7
<1>9. OnePerInstant(w)
  BY <1>1, <1>3, <1>7 DEF OnePerInstant
<1> QED
  BY <1>5, <1>6, <1>8, <1>9 DEF w

\* What a pass writes: no instant leaves the queue, those of the plan are in it,
\* none is there twice, what had left "pending" does not come back, and after a
\* catch-up nothing older is live but what was in flight.
LEMMA WrittenFacts ==
  ASSUME MaterializerAssumption, NEW queued \in SUBSET Occurrence, OnePerInstant(queued),
         NEW b \in Job, NEW plan, plan.occurrences \in SUBSET Int,
         plan.catchUp \in Int \cup {Never}, NEW at \in Int
  PROVE  LET w == Written(queued, b, plan, at)
         IN  /\ w \in SUBSET Occurrence /\ OnePerInstant(w)
             /\ \A o \in queued : \E n \in w : n.at = o.at
             /\ \A i \in plan.occurrences : \E n \in w : n.at = i
             /\ \A n \in w : n.at \in plan.occurrences \/ \E o \in queued : o.at = n.at
             /\ \A n \in w : Live(n) => n \in queued \/ n.at \in plan.occurrences
             /\ \A o \in queued : o.status # "pending" =>
                  \A n \in w : n.at = o.at => n.status # "pending"
             /\ plan.catchUp # Never =>
                  \A n \in w : Live(n) =>
                    plan.catchUp =< n.at \/ n.at \in Overtaken(queued, plan.catchUp)
<1> DEFINE r == RecordOccurrences(queued, plan, at, b.policy.grace)
           w == Written(queued, b, plan, at)
<1>1. Never \notin Int /\ b.policy.grace \in Int
  BY DEF Job, MaterializerAssumption, Policy
<1>2. /\ r \in SUBSET Occurrence /\ OnePerInstant(r) /\ queued \in SUBSET r
      /\ \A i \in plan.occurrences : \E n \in r : n.at = i
      /\ \A n \in r : \/ n \in queued
                      \/ /\ n.at \in plan.occurrences /\ n.status = "pending"
                         /\ \A o \in queued : o.at # n.at
  BY <1>1, RecordFacts
<1>3. w = RetireSuperseded(r, plan.catchUp)
  BY DEF Written
<1> HIDE DEF r, w
<1>4. /\ w \in SUBSET Occurrence /\ OnePerInstant(w)
      /\ \A o \in r : \E n \in w : n.at = o.at
      /\ \A n \in w : \E o \in r :
           /\ n.at = o.at
           /\ n = o \/ n.status = "missed"
           /\ plan.catchUp # Never /\ n.status = "pending" => plan.catchUp =< n.at
  <2> DEFINE c == plan.catchUp
  <2>1. r \in SUBSET Occurrence /\ OnePerInstant(r) /\ c \in Int \cup {Never}
    BY <1>2
  <2>2. w = RetireSuperseded(r, c)
    BY <1>3
  <2> HIDE DEF c
  <2>3. /\ w \in SUBSET Occurrence /\ OnePerInstant(w)
        /\ \A o \in r : \E n \in w : n.at = o.at
        /\ \A n \in w : \E o \in r :
             /\ n.at = o.at
             /\ n = o \/ n.status = "missed"
             /\ c # Never /\ n.status = "pending" => c =< n.at
    BY <1>1, <2>1, <2>2, RetireFacts
  <2> QED
    BY <2>3 DEF c
<1>5. \A o \in queued : \E n \in w : n.at = o.at
  BY <1>2, <1>4
<1>6. \A i \in plan.occurrences : \E n \in w : n.at = i
  BY <1>2, <1>4
<1>7. \A n \in w : n.at \in plan.occurrences \/ \E o \in queued : o.at = n.at
  BY <1>2, <1>4
<1>8. \A n \in w : Live(n) => n \in queued \/ n.at \in plan.occurrences
  BY <1>2, <1>4 DEF Live
<1>9. ASSUME NEW o \in queued, o.status # "pending", NEW n \in w, n.at = o.at
      PROVE  n.status # "pending"
  <2>1. PICK m \in r : n.at = m.at /\ (n = m \/ n.status = "missed")
    BY <1>4
  <2>2. m = o
    BY <1>2, <1>9, <2>1 DEF OnePerInstant
  <2> QED
    BY <1>9, <2>1, <2>2
<1>10. ASSUME plan.catchUp # Never, NEW n \in w, Live(n)
       PROVE  plan.catchUp =< n.at \/ n.at \in Overtaken(queued, plan.catchUp)
  <2>1. CASE n.status = "pending"
    BY <1>4, <1>10, <2>1
  <2>2. CASE n.status = "taken"
    <3>1. n \in r
      BY <1>4, <2>2
    <3>2. n \in queued
      BY <1>2, <2>2, <3>1
    <3>3. n.at \in InFlight(queued)
      BY <2>2, <3>2 DEF InFlight
    <3>4. n.at \in Int /\ plan.catchUp \in Int
      BY <1>4, <1>10 DEF Occurrence
    <3> QED
      BY <1>10, <3>3, <3>4 DEF Overtaken
  <2> QED
    BY <1>10, <2>1, <2>2 DEF Live
<1> QED
  BY <1>4, <1>5, <1>6, <1>7, <1>8, <1>9, <1>10 DEF w

-----------------------------------------------------------------------------
(* What a step is for one job.                                             *)

\* The histories and the tables of a job have their types.
JobTyped(j) ==
  /\ job[j] \in Job \cup {Absent}
  /\ rows[j] \in SUBSET Occurrence /\ OnePerInstant(rows[j])
  /\ job[j] = Absent => rows[j] = {}
  /\ origin[j] \in Int \cup {Never}
  /\ dropped[j] \in SUBSET Int
  /\ caughtUp[j] \in Int \cup {Never}
  /\ passedOver[j] \in SUBSET Int

\* The tables have a row for every job.
Tables ==
  /\ DOMAIN job = Jobs /\ DOMAIN rows = Jobs /\ DOMAIN origin = Jobs
  /\ DOMAIN dropped = Jobs /\ DOMAIN caughtUp = Jobs
  /\ job = [j \in Jobs |-> job[j]]
  /\ passedOver = [j \in Jobs |-> passedOver[j]]
  /\ drifted \subseteq Jobs

\* A pass holds jobs whose clock is live, and no two passes hold the same job.
LocksSound ==
  /\ \A p \in Passes : pass[p] # Idle => pass[p].at =< now
  /\ \A p \in Passes : \A j \in pass[p].jobs : job[j].next # Never
  /\ \A p, q \in Passes : p # q => pass[p].jobs \cap pass[q].jobs = {}

\* An activation that inserts or seeds has a job in mind; one that seeds read a
\* live clock, of a job that still exists.
SeedsSound ==
  \A a \in Activators :
    /\ activation[a].pc # "idle" => activation[a].name \in Jobs
    /\ activation[a].pc = "seeding" =>
         /\ activation[a].at \in Nat /\ activation[a].at =< now
         /\ activation[a].read \in Job /\ activation[a].read.next # Never
         /\ job[activation[a].name] # Absent

\* The types, with what makes them inductive.
Shape ==
  /\ Tables
  /\ \A j \in Jobs : JobTyped(j)
  /\ TypeOK
  /\ LocksSound
  /\ SeedsSound

\* A job that has drifted off its definition does so still.
StillDrifted(j) == j \in drifted' <=> j \in drifted

\* The job is left alone.
Untouched(j) ==
  /\ job'[j] = job[j] /\ rows'[j] = rows[j]
  /\ origin'[j] = origin[j] /\ dropped'[j] = dropped[j] /\ caughtUp'[j] = caughtUp[j]
  /\ passedOver'[j] = passedOver[j] /\ StillDrifted(j)

\* A plan made of b at a time is written.
Planned(j, b, plan, at) ==
  /\ rows'[j] = Written(rows[j], b, plan, at)
  /\ job'[j] = Advanced(job[j], plan)
  /\ dropped'[j] = dropped[j] \cup plan.dropped
  /\ caughtUp'[j] = IF plan.catchUp = Never /\ job[j].next = b.next
                       THEN caughtUp[j] ELSE plan.catchUp
  /\ passedOver'[j] = passedOver[j] \cup Overtaken(rows[j], plan.catchUp)
  /\ origin'[j] = origin[j]

\* By a materializer pass, of the job it holds.
PlannedByPass(j) ==
  /\ StillDrifted(j)
  /\ \E p \in Passes :
       /\ j \in pass[p].jobs
       /\ Planned(j, job[j], PlanOccurrences(job[j], pass[p].at), pass[p].at)

\* The pass could not plan the job, and defers it.
DeferredByPass(j) ==
  /\ j \in drifted'
  /\ \E p \in Passes :
       /\ j \in pass[p].jobs
       /\ Planned(j, job[j], Deferred(job[j], pass[p].at), pass[p].at)

\* By the seed pass of an activation, of the job it read.
Seeded(j) ==
  /\ StillDrifted(j)
  /\ \E a \in Activators :
       /\ SeedCommit(a) /\ activation[a].name = j
       /\ Planned(j, activation[a].read,
            PlanOccurrences(activation[a].read, activation[a].at), activation[a].at)

\* A definition is written, over the rows that stay queued.
Defined(j, s, policy, queued) ==
  LET first == ComputeFirstRunAt(s, now)
      fresh == [schedule |-> s, policy |-> policy, next |-> first, last |-> job[j].last]
      plan  == PlanOccurrences(fresh, now)
  IN  /\ job'[j] = IF first = Never THEN fresh ELSE Advanced(fresh, plan)
      /\ rows'[j] = IF first = Never THEN queued ELSE Written(queued, fresh, plan, now)
      /\ origin'[j] = first /\ dropped'[j] = {} /\ caughtUp'[j] = Never
      /\ passedOver'[j] = passedOver[j] \cup InFlight(queued)
      /\ j \in drifted' <=> Seeding(j)

\* By an activation whose insert takes.
Inserted(j) ==
  /\ job[j] = Absent
  /\ \E s \in Schedules, policy \in Policies : Defined(j, s, policy, {})

\* By an edit of the rule.
Redefined(j) ==
  \E s \in Schedules, policy \in Policies :
    /\ Redefine(j, s, policy)
    /\ Defined(j, s, policy, {o \in rows[j] : o.status # "pending"})

\* The same instants, and none that is live again.
SameInstants(queued, w) ==
  /\ w \in SUBSET Occurrence /\ OnePerInstant(w)
  /\ \A m \in queued : \E n \in w : n.at = m.at
  /\ \A n \in w : \E m \in queued : n.at = m.at /\ (Live(n) => Live(m))

\* None that was claimed is handed back either.
NoneHandedBack(queued, w) ==
  \A m \in queued, n \in w : n.at = m.at /\ n.status = "pending" => m.status = "pending"

\* Rows change, but not their instants, and none is live again; the clock stays, and
\* a claim is handed back only if nothing else of the job changes.
Requeued(j) ==
  /\ job[j] # Absent /\ job'[j] \in Job
  /\ job'[j].schedule = job[j].schedule /\ job'[j].next = job[j].next
  /\ SameInstants(rows[j], rows'[j])
  /\ job'[j] = job[j] \/ NoneHandedBack(rows[j], rows'[j])
  /\ origin'[j] = origin[j] /\ dropped'[j] = dropped[j] /\ caughtUp'[j] = caughtUp[j]
  /\ passedOver'[j] = passedOver[j] /\ StillDrifted(j)

\* The job is deleted, and no seed pass of it is left.
Removed(j) ==
  /\ job'[j] = Absent /\ rows'[j] = {}
  /\ origin'[j] = Never /\ dropped'[j] = {} /\ caughtUp'[j] = Never
  /\ passedOver'[j] = {}
  /\ \A a \in Activators : activation'[a].pc = "seeding" => activation'[a].name # j

JobStep(j) ==
  \/ Untouched(j)
  \/ PlannedByPass(j)
  \/ DeferredByPass(j)
  \/ Seeded(j)
  \/ Inserted(j)
  \/ Redefined(j)
  \/ Requeued(j)
  \/ Removed(j)

\* A queue of which the pending rows get a new deadline.
Retimed(queued, at, grace) ==
  {IF o.status = "pending"
     THEN [o EXCEPT !.missedAfter = (IF o.runAt > at THEN o.runAt ELSE at) + grace]
     ELSE o : o \in queued}

\* What an executor or a reaper does to a row.
RowStep(j, o) ==
  Take(j, o) \/ Settle(j, o) \/ Release(j, o) \/ Retry(j, o) \/ RetireMissed(j, o)

\* The row keeps its instant, and is live only if it was.
LEMMA RowSteps ==
  ASSUME MaterializerAssumption, now \in Nat, NEW j, NEW o \in Occurrence, RowStep(j, o)
  PROVE  \E n \in Occurrence : Restamp(j, o, n) /\ n.at = o.at /\ (Live(n) => Live(o))
<1>1. now + Backoff \in Int
  BY DEF MaterializerAssumption
<1> DEFINE N == {[o EXCEPT !.status = "taken"], [o EXCEPT !.status = "done"],
                 [o EXCEPT !.status = "pending"], [o EXCEPT !.status = "missed"],
                 [o EXCEPT !.status = "pending", !.attempted = TRUE,
                           !.runAt = now + Backoff]}
<1>2. \A n \in N : n \in Occurrence /\ n.at = o.at
  BY <1>1 DEF Occurrence
<1>3. \E n \in N : Restamp(j, o, n) /\ (Live(n) => Live(o))
  BY DEF RowStep, Take, Settle, Release, Retry, RetireMissed, Live, Occurrence
<1> QED
  BY <1>2, <1>3

\* A row that is updated in place keeps its instant.
LEMMA RestampedQueue ==
  ASSUME NEW queued \in SUBSET Occurrence, OnePerInstant(queued), NEW o \in queued,
         NEW u \in Occurrence, u.at = o.at, Live(u) => Live(o)
  PROVE  SameInstants(queued, (queued \ {o}) \cup {u})
<1> DEFINE w == (queued \ {o}) \cup {u}
<1>1. w \in SUBSET Occurrence
  OBVIOUS
<1>2. OnePerInstant(w)
  BY DEF OnePerInstant
<1>3. \A m \in queued : \E n \in w : n.at = m.at
  OBVIOUS
<1>4. \A n \in w : \E m \in queued : n.at = m.at /\ (Live(n) => Live(m))
  OBVIOUS
<1> QED
  BY <1>1, <1>2, <1>3, <1>4 DEF SameInstants

\* A new deadline changes nothing else of a row.
LEMMA RetimedQueue ==
  ASSUME NEW queued \in SUBSET Occurrence, OnePerInstant(queued), NEW at \in Int,
         NEW grace \in Int
  PROVE  /\ SameInstants(queued, Retimed(queued, at, grace))
         /\ NoneHandedBack(queued, Retimed(queued, at, grace))
<1> DEFINE w == Retimed(queued, at, grace)
           R(o) == IF o.status = "pending"
                     THEN [o EXCEPT !.missedAfter =
                             (IF o.runAt > at THEN o.runAt ELSE at) + grace]
                     ELSE o
<1>1. w = {R(o) : o \in queued}
  BY DEF Retimed
<1>2. \A o \in queued : R(o) \in Occurrence /\ R(o).at = o.at /\ R(o).status = o.status
  BY DEF Occurrence
<1> HIDE DEF R, w
<1>3. w \in SUBSET Occurrence
  BY <1>1, <1>2
<1>4. OnePerInstant(w)
  BY <1>1, <1>2 DEF OnePerInstant
<1>5. \A m \in queued : \E n \in w : n.at = m.at
  BY <1>1, <1>2
<1>6. \A n \in w : \E m \in queued : n.at = m.at /\ n.status = m.status
  BY <1>1, <1>2
<1>7. NoneHandedBack(queued, w)
  BY <1>6 DEF NoneHandedBack, OnePerInstant
<1>8. \A n \in w : \E m \in queued : n.at = m.at /\ (Live(n) => Live(m))
  BY <1>6 DEF Live
<1> QED
  BY <1>3, <1>4, <1>5, <1>7, <1>8 DEF SameInstants, w

\* Nulls are no values.
LEMMA Nulls ==
  ASSUME MaterializerAssumption
  PROVE  /\ Never \notin Int /\ Absent \notin Job
         /\ Absent.next = Never /\ Absent.last = Never
         /\ Idle.jobs = {} /\ Idle.at = Never
         /\ NoActivation.pc = "idle"
BY DEF MaterializerAssumption, Absent, Job, Idle, NoActivation

\* A job that a pass holds exists.
LEMMA LockedExists ==
  ASSUME MaterializerAssumption, Shape, NEW j \in Jobs, Locked(j)
  PROVE  job[j] # Absent
BY Nulls DEF Shape, LocksSound, Locked

\* The steps of the passes.
LEMMA CommitJobs ==
  ASSUME MaterializerAssumption, Shape, NEW p \in Passes, NEW failing, Commit(p, failing)
  PROVE  Tables' /\ \A j \in Jobs : JobStep(j)
<1> DEFINE at == pass[p].at
           plan == [j \in pass[p].jobs |->
                      IF j \in failing THEN Deferred(job[j], at)
                                       ELSE PlanOccurrences(job[j], at)]
<1>1. /\ rows' = [j \in Jobs |-> IF j \in pass[p].jobs
                    THEN Written(rows[j], job[j], plan[j], at) ELSE rows[j]]
      /\ job' = [j \in Jobs |-> IF j \in pass[p].jobs
                    THEN Advanced(job[j], plan[j]) ELSE job[j]]
      /\ dropped' = [j \in Jobs |-> IF j \in pass[p].jobs
                       THEN dropped[j] \cup plan[j].dropped ELSE dropped[j]]
      /\ caughtUp' = [j \in Jobs |-> IF j \in pass[p].jobs /\ plan[j].catchUp # Never
                        THEN plan[j].catchUp ELSE caughtUp[j]]
      /\ passedOver' = [j \in Jobs |-> IF j \in pass[p].jobs
                          THEN passedOver[j] \cup Overtaken(rows[j], plan[j].catchUp)
                          ELSE passedOver[j]]
      /\ origin' = origin
  BY DEF Commit
<1>2. drifted' = drifted \cup failing /\ failing \subseteq pass[p].jobs
  BY DEF Commit
<1>j. pass[p].jobs \subseteq Jobs
  BY Nulls DEF Shape, TypeOK
<1>3. \A j \in pass[p].jobs :
        plan[j] = IF j \in failing THEN Deferred(job[j], at)
                                   ELSE PlanOccurrences(job[j], at)
  OBVIOUS
<1> HIDE DEF plan
<1>4. Tables'
  BY <1>1, <1>2, <1>j DEF Tables, Shape
<1>5. ASSUME NEW j \in Jobs
      PROVE  JobStep(j)
  <2>1. CASE j \notin pass[p].jobs
    <3>1. Untouched(j)
      BY <1>1, <1>2, <2>1 DEF Untouched, StillDrifted
    <3> QED
      BY <3>1 DEF JobStep
  <2>2. CASE j \in pass[p].jobs
    <3>1. Planned(j, job[j], plan[j], at)
      BY <1>1, <2>2 DEF Planned
    <3>2. CASE j \in failing
      BY <1>2, <1>3, <2>2, <3>1, <3>2 DEF JobStep, DeferredByPass
    <3>3. CASE j \notin failing
      BY <1>2, <1>3, <2>2, <3>1, <3>3 DEF JobStep, PlannedByPass, StillDrifted
    <3> QED
      BY <3>2, <3>3
  <2> QED
    BY <2>1, <2>2
<1> QED
  BY <1>4, <1>5

\* The commit of a seed pass, job by job.
LEMMA SeedJobs ==
  ASSUME MaterializerAssumption, Shape, NEW a \in Activators, SeedCommit(a)
  PROVE  Tables' /\ \A j \in Jobs : JobStep(j)
<1> DEFINE i == activation[a].name
           plan == PlanOccurrences(activation[a].read, activation[a].at)
<1>1. i \in Jobs
  BY DEF SeedCommit, Shape, SeedsSound
<1>2. /\ rows' = [rows EXCEPT ![i] =
           Written(rows[i], activation[a].read, plan, activation[a].at)]
      /\ job' = [job EXCEPT ![i] = Advanced(job[i], plan)]
      /\ dropped' = [dropped EXCEPT ![i] = dropped[i] \cup plan.dropped]
      /\ caughtUp' = [caughtUp EXCEPT ![i] =
           IF plan.catchUp = Never /\ job[i].next = activation[a].read.next
             THEN caughtUp[i] ELSE plan.catchUp]
      /\ passedOver' = [passedOver EXCEPT ![i] =
           passedOver[i] \cup Overtaken(rows[i], plan.catchUp)]
      /\ origin' = origin /\ drifted' = drifted
  BY DEF SeedCommit
<1> HIDE DEF plan, i
<1>3. Tables'
  BY <1>2 DEF Tables, Shape
<1>4. ASSUME NEW j \in Jobs, j # i
      PROVE  JobStep(j)
  BY <1>1, <1>2, <1>4 DEF Untouched, StillDrifted, JobStep, Shape, Tables
<1>5. JobStep(i)
  <2>1. Planned(i, activation[a].read, plan, activation[a].at)
    BY <1>1, <1>2 DEF Planned, Shape, Tables
  <2>2. Seeded(i)
    BY <1>2, <2>1 DEF Seeded, StillDrifted, plan, i
  <2> QED
    BY <2>2 DEF JobStep
<1> QED
  BY <1>3, <1>4, <1>5

\* A definition is written: the other jobs are left alone.
LEMMA DefineJobs ==
  ASSUME Shape, NEW i \in Jobs, NEW s, NEW policy, NEW queued,
         Define(i, s, policy, queued)
  PROVE  /\ Tables' /\ Defined(i, s, policy, queued)
         /\ \A j \in Jobs : j # i => Untouched(j)
<1> DEFINE first == ComputeFirstRunAt(s, now)
           fresh == [schedule |-> s, policy |-> policy, next |-> first, last |-> job[i].last]
           plan  == PlanOccurrences(fresh, now)
           newJob == IF first = Never THEN fresh ELSE Advanced(fresh, plan)
           newRows == IF first = Never THEN queued ELSE Written(queued, fresh, plan, now)
<1>1. /\ job' = [job EXCEPT ![i] = newJob]
      /\ rows' = [rows EXCEPT ![i] = newRows]
      /\ origin' = [origin EXCEPT ![i] = first]
      /\ dropped' = [dropped EXCEPT ![i] = {}]
      /\ caughtUp' = [caughtUp EXCEPT ![i] = Never]
      /\ passedOver' = [passedOver EXCEPT ![i] = passedOver[i] \cup InFlight(queued)]
      /\ drifted' = IF Seeding(i) THEN drifted \cup {i} ELSE drifted \ {i}
  BY DEF Define
<1>2. Defined(i, s, policy, queued) <=>
         /\ job'[i] = newJob /\ rows'[i] = newRows
         /\ origin'[i] = first /\ dropped'[i] = {} /\ caughtUp'[i] = Never
         /\ passedOver'[i] = passedOver[i] \cup InFlight(queued)
         /\ i \in drifted' <=> Seeding(i)
  BY DEF Defined
<1> HIDE DEF first, newJob, newRows
<1>3. Tables'
  BY <1>1 DEF Tables, Shape
<1>4. Defined(i, s, policy, queued)
  BY <1>1, <1>2 DEF Tables, Shape
<1>5. \A j \in Jobs : j # i => Untouched(j)
  BY <1>1 DEF Tables, Shape, Untouched, StillDrifted
<1> QED
  BY <1>3, <1>4, <1>5

\* A row is claimed, settled, handed back or retired.
LEMMA QueueJobs ==
  ASSUME MaterializerAssumption, Shape, NEW i \in Jobs, NEW o \in rows[i], RowStep(i, o)
  PROVE  Tables' /\ \A j \in Jobs : JobStep(j)
<1>0. JobTyped(i) /\ now \in Nat
  BY DEF Shape, TypeOK
<1>o. o \in Occurrence
  BY <1>0 DEF JobTyped
<1>n. PICK n \in Occurrence : Restamp(i, o, n) /\ n.at = o.at /\ (Live(n) => Live(o))
  BY <1>0, <1>o, RowSteps
<1>1. /\ rows' = [rows EXCEPT ![i] = (rows[i] \ {o}) \cup {n}]
      /\ job' = job /\ origin' = origin /\ dropped' = dropped /\ caughtUp' = caughtUp
      /\ passedOver' = passedOver /\ drifted' = drifted
  BY <1>n DEF Restamp, history
<1>2. Tables'
  BY <1>1 DEF Tables, Shape
<1>3. ASSUME NEW j \in Jobs, j # i
      PROVE  JobStep(j)
  BY <1>1, <1>3 DEF JobStep, Untouched, StillDrifted, Shape, Tables
<1>4. Requeued(i)
  <2>1. rows'[i] = (rows[i] \ {o}) \cup {n}
    BY <1>1 DEF Shape, Tables
  <2>2. SameInstants(rows[i], rows'[i])
    BY <1>0, <1>n, <2>1, RestampedQueue DEF JobTyped
  <2>3. job[i] # Absent /\ job[i] \in Job
    BY <1>0 DEF JobTyped
  <2> QED
    BY <1>1, <2>2, <2>3 DEF Requeued, StillDrifted
<1> QED
  BY <1>2, <1>3, <1>4 DEF JobStep

\* An edit of the misfire policy, job by job.
LEMMA PolicyJobs ==
  ASSUME MaterializerAssumption, Shape, NEW i \in Jobs, NEW policy \in Policies,
         UpdateMisfirePolicy(i, policy)
  PROVE  Tables' /\ \A j \in Jobs : JobStep(j)
<1> DEFINE queue == Retimed(rows[i], now, policy.grace)
<1>1. /\ rows' = [rows EXCEPT ![i] = queue]
      /\ job' = [job EXCEPT ![i].policy = policy]
      /\ origin' = origin /\ dropped' = dropped /\ caughtUp' = caughtUp
      /\ passedOver' = passedOver /\ drifted' = drifted
      /\ job[i] # Absent
  BY DEF UpdateMisfirePolicy, history, Retimed
<1>2. JobTyped(i) /\ now \in Int
  BY DEF Shape, TypeOK
<1>3. SameInstants(rows[i], queue) /\ NoneHandedBack(rows[i], queue)
  <2>1. policy.grace \in Int
    BY DEF MaterializerAssumption, Policy
  <2> QED
    BY <1>2, <2>1, RetimedQueue DEF JobTyped
<1> HIDE DEF queue
<1>4. Tables'
  BY <1>1 DEF Tables, Shape
<1>5. ASSUME NEW j \in Jobs, j # i
      PROVE  JobStep(j)
  BY <1>1, <1>5 DEF JobStep, Untouched, StillDrifted, Shape, Tables
<1>6. Requeued(i)
  <2>1. rows'[i] = queue /\ job'[i] = [job[i] EXCEPT !.policy = policy]
    BY <1>1 DEF Shape, Tables
  <2>2. job[i] \in Job
    BY <1>1, <1>2 DEF JobTyped
  <2>3. /\ job'[i] \in Job /\ job'[i].schedule = job[i].schedule
        /\ job'[i].next = job[i].next
    BY <2>1, <2>2 DEF Job
  <2> QED
    BY <1>1, <1>3, <2>1, <2>3 DEF Requeued, StillDrifted
<1> QED
  BY <1>4, <1>5, <1>6 DEF JobStep

\* Every step is, for each job, one of those of JobStep.
LEMMA JobSteps ==
  ASSUME MaterializerAssumption, Shape, [Next]_vars
  PROVE  Tables' /\ \A j \in Jobs : JobStep(j)
<1>0. ASSUME UNCHANGED <<job, rows, origin, dropped, caughtUp, passedOver, drifted>>
      PROVE  Tables' /\ \A j \in Jobs : JobStep(j)
  BY <1>0 DEF Shape, Tables, JobStep, Untouched, StillDrifted
<1>1. CASE UNCHANGED vars
  BY <1>0, <1>1 DEF vars, history
<1>2. ASSUME NEW p \in Passes, NEW S, Claim(p, S)
      PROVE  Tables' /\ \A j \in Jobs : JobStep(j)
  BY <1>0, <1>2 DEF Claim, history
<1>3. ASSUME NEW p \in Passes, NEW S, Commit(p, S)
      PROVE  Tables' /\ \A j \in Jobs : JobStep(j)
  BY <1>3, CommitJobs
<1>4. ASSUME NEW p \in Passes, Rollback(p)
      PROVE  Tables' /\ \A j \in Jobs : JobStep(j)
  BY <1>0, <1>4 DEF Rollback, history
<1>5. ASSUME NEW a \in Activators, NEW j \in Jobs, FindExisting(a, j)
      PROVE  Tables' /\ \A k \in Jobs : JobStep(k)
  BY <1>0, <1>5 DEF FindExisting, history
<1>6. ASSUME NEW a \in Activators, NEW s \in Schedules, NEW policy \in Policies,
             InsertMany(a, s, policy)
      PROVE  Tables' /\ \A j \in Jobs : JobStep(j)
  <2> DEFINE i == activation[a].name
  <2>1. i \in Jobs /\ job[i] = Absent /\ Define(i, s, policy, {})
    BY <1>6 DEF InsertMany, Shape, SeedsSound
  <2> HIDE DEF i
  <2>2. /\ Tables' /\ Defined(i, s, policy, {})
        /\ \A j \in Jobs : j # i => Untouched(j)
    BY <2>1, DefineJobs
  <2>3. Inserted(i)
    BY <2>1, <2>2 DEF Inserted
  <2> QED
    BY <2>2, <2>3 DEF JobStep
<1>7. ASSUME NEW a \in Activators, SeedRead(a)
      PROVE  Tables' /\ \A j \in Jobs : JobStep(j)
  BY <1>0, <1>7 DEF SeedRead, history
<1>8. ASSUME NEW a \in Activators, SeedCommit(a)
      PROVE  Tables' /\ \A j \in Jobs : JobStep(j)
  BY <1>8, SeedJobs
<1>9. ASSUME NEW i \in Jobs, NEW s \in Schedules, NEW policy \in Policies,
             Redefine(i, s, policy)
      PROVE  Tables' /\ \A j \in Jobs : JobStep(j)
  <2> DEFINE queued == {o \in rows[i] : o.status # "pending"}
  <2>1. Define(i, s, policy, queued)
    BY <1>9 DEF Redefine
  <2>2. /\ Tables' /\ Defined(i, s, policy, queued)
        /\ \A j \in Jobs : j # i => Untouched(j)
    BY <2>1, DefineJobs
  <2>3. Redefined(i)
    BY <1>9, <2>2 DEF Redefined
  <2> QED
    BY <2>2, <2>3 DEF JobStep
<1>10. ASSUME NEW i \in Jobs, NEW policy \in Policies, UpdateMisfirePolicy(i, policy)
       PROVE  Tables' /\ \A j \in Jobs : JobStep(j)
  BY <1>10, PolicyJobs
<1>11. ASSUME NEW i \in Jobs, DeleteJob(i)
       PROVE  Tables' /\ \A j \in Jobs : JobStep(j)
  <2>1. /\ job' = [job EXCEPT ![i] = Absent] /\ rows' = [rows EXCEPT ![i] = {}]
        /\ origin' = [origin EXCEPT ![i] = Never]
        /\ dropped' = [dropped EXCEPT ![i] = {}]
        /\ caughtUp' = [caughtUp EXCEPT ![i] = Never]
        /\ passedOver' = [passedOver EXCEPT ![i] = {}] /\ drifted' = drifted \ {i}
        /\ activation' = [a \in Activators |->
             IF activation[a].pc = "seeding" /\ activation[a].name = i
               THEN NoActivation ELSE activation[a]]
    BY <1>11 DEF DeleteJob
  <2>2. Tables'
    BY <2>1 DEF Shape, Tables
  <2>3. \A j \in Jobs : j # i => Untouched(j)
    BY <2>1 DEF Shape, Tables, Untouched, StillDrifted
  <2>4. \A a \in Activators : activation'[a].pc = "seeding" => activation'[a].name # i
    BY <2>1, Nulls
  <2>5. Removed(i)
    BY <2>1, <2>4 DEF Shape, Tables, Removed
  <2> QED
    BY <2>2, <2>3, <2>5 DEF JobStep
<1>12. ASSUME NEW i \in Jobs, NEW o \in rows[i], RowStep(i, o)
       PROVE  Tables' /\ \A j \in Jobs : JobStep(j)
  BY <1>12, QueueJobs
<1>13. CASE Tick
  BY <1>0, <1>13 DEF Tick, history
<1> QED
  BY <1>1, <1>2, <1>3, <1>4, <1>5, <1>6, <1>7, <1>8, <1>9, <1>10, <1>11, <1>12, <1>13
  DEF Next, RowStep

\* The plans that a step writes have their types.
LEMMA PlanTyped ==
  ASSUME MaterializerAssumption, NEW b \in Job, b.next # Never, NEW at \in Nat,
         NEW plan, plan = PlanOccurrences(b, at) \/ plan = Deferred(b, at)
  PROVE  /\ plan.occurrences \in SUBSET Int /\ plan.dropped \in SUBSET Int
         /\ plan.next \in Int \cup {Never} /\ plan.last \in Int \cup {Never}
         /\ plan.catchUp \in Int \cup {Never}
<1>1. b.next \in Int /\ at \in Int /\ b.last \in Int \cup {Never}
  BY DEF Job
<1>2. CASE plan = PlanOccurrences(b, at)
  BY <1>1, <1>2, PlanFacts
<1>3. CASE plan = Deferred(b, at)
  BY <1>1, <1>3 DEF Deferred, MaterializerAssumption
<1> QED
  BY <1>2, <1>3

\* A written plan leaves a job typed.
LEMMA PlannedTyped ==
  ASSUME MaterializerAssumption, NEW j \in Jobs, JobTyped(j), job[j] # Absent,
         NEW b \in Job, b.next # Never, NEW at \in Nat,
         NEW plan, plan = PlanOccurrences(b, at) \/ plan = Deferred(b, at),
         Planned(j, b, plan, at)
  PROVE  JobTyped(j)' /\ job'[j] \in Job
<1>1. /\ plan.occurrences \in SUBSET Int /\ plan.dropped \in SUBSET Int
      /\ plan.next \in Int \cup {Never} /\ plan.last \in Int \cup {Never}
      /\ plan.catchUp \in Int \cup {Never}
  BY PlanTyped
<1>2. rows'[j] \in SUBSET Occurrence /\ OnePerInstant(rows'[j])
  <2>1. rows'[j] = Written(rows[j], b, plan, at)
    BY DEF Planned
  <2>2. rows[j] \in SUBSET Occurrence /\ OnePerInstant(rows[j]) /\ at \in Int
    BY DEF JobTyped
  <2> HIDE DEF Planned
  <2>3. /\ Written(rows[j], b, plan, at) \in SUBSET Occurrence
        /\ OnePerInstant(Written(rows[j], b, plan, at))
    BY <1>1, <2>2, WrittenFacts
  <2> QED
    BY <2>1, <2>3
<1>3. job'[j] \in Job
  <2>1. job[j] \in Job /\ job'[j] = [job[j] EXCEPT !.next = plan.next, !.last = plan.last]
    BY DEF JobTyped, Planned, Advanced
  <2> QED
    BY <1>1, <2>1 DEF Job
<1>4. job'[j] # Absent
  BY <1>3, Nulls
<1>5. /\ origin'[j] \in Int \cup {Never} /\ dropped'[j] \in SUBSET Int
      /\ caughtUp'[j] \in Int \cup {Never}
  BY <1>1 DEF Planned, JobTyped
<1>6. passedOver'[j] \in SUBSET Int
  BY DEF Planned, JobTyped, Overtaken, InFlight, Occurrence
<1> QED
  BY <1>2, <1>3, <1>4, <1>5, <1>6 DEF JobTyped

\* So does a definition that is written.
LEMMA DefinedTyped ==
  ASSUME MaterializerAssumption, NEW j \in Jobs, JobTyped(j), now \in Nat,
         NEW s \in Schedules, NEW policy \in Policies,
         NEW queued \in SUBSET rows[j], Defined(j, s, policy, queued)
  PROVE  JobTyped(j)' /\ job'[j] \in Job
<1> DEFINE first == ComputeFirstRunAt(s, now)
           fresh == [schedule |-> s, policy |-> policy, next |-> first, last |-> job[j].last]
           plan  == PlanOccurrences(fresh, now)
<1>1. /\ job'[j] = IF first = Never THEN fresh ELSE Advanced(fresh, plan)
      /\ rows'[j] = IF first = Never THEN queued ELSE Written(queued, fresh, plan, now)
      /\ origin'[j] = first /\ dropped'[j] = {} /\ caughtUp'[j] = Never
  BY DEF Defined
<1>p. passedOver'[j] \in SUBSET Int
  BY DEF Defined, JobTyped, InFlight, Occurrence
<1>2. first = Never \/ first \in Int
  BY FirstRun
<1>3. fresh \in Job /\ fresh.next = first
  <2>1. job[j].last \in Int \cup {Never}
    BY Nulls DEF JobTyped, Job
  <2> HIDE DEF first
  <2> QED
    BY <1>2, <2>1 DEF Job
<1>4. queued \in SUBSET Occurrence /\ OnePerInstant(queued)
  BY DEF JobTyped, OnePerInstant
<1> HIDE DEF first, fresh
<1>5. CASE first = Never
  <2>1. job'[j] \in Job /\ job'[j] # Absent
    BY <1>1, <1>3, <1>5, Nulls
  <2>2. rows'[j] = queued
    BY <1>1, <1>5
  <2> QED
    BY <1>p, <1>1, <1>2, <1>4, <2>1, <2>2 DEF JobTyped
<1>6. CASE first # Never
  <2>1. /\ plan.occurrences \in SUBSET Int /\ plan.dropped \in SUBSET Int
        /\ plan.next \in Int \cup {Never} /\ plan.last \in Int \cup {Never}
        /\ plan.catchUp \in Int \cup {Never}
    BY <1>3, <1>6, PlanTyped
  <2> HIDE DEF plan
  <2>2. now \in Int
    OBVIOUS
  <2>3. /\ Written(queued, fresh, plan, now) \in SUBSET Occurrence
        /\ OnePerInstant(Written(queued, fresh, plan, now))
    BY <1>3, <1>4, <2>1, <2>2, WrittenFacts
  <2>4. rows'[j] \in SUBSET Occurrence /\ OnePerInstant(rows'[j])
    BY <1>1, <1>6, <2>3
  <2>5. job'[j] \in Job
    BY <1>1, <1>3, <1>6, <2>1 DEF Job, Advanced
  <2>6. job'[j] # Absent
    BY <2>5, Nulls
  <2> QED
    BY <1>p, <1>1, <1>2, <2>4, <2>5, <2>6 DEF JobTyped
<1> QED
  BY <1>5, <1>6

\* What the steps know of a pass or an activation that writes a plan.
LEMMA PassHolds ==
  ASSUME MaterializerAssumption, Shape, NEW p \in Passes, NEW j \in pass[p].jobs
  PROVE  /\ j \in Jobs /\ pass[p].at \in Nat /\ pass[p] # Idle
         /\ pass[p].at =< now
         /\ job[j] \in Job /\ job[j].next # Never /\ job[j] # Absent
<1>1. pass[p] # Idle
  BY Nulls
<1>2. pass[p] \in [at : Nat, jobs : SUBSET Jobs]
  BY <1>1 DEF Shape, TypeOK
<1>3. j \in Jobs /\ pass[p].at \in Nat
  BY <1>2
<1>4. job[j].next # Never /\ pass[p].at =< now
  BY <1>1 DEF Shape, LocksSound
<1>5. job[j] # Absent
  BY <1>4, Nulls
<1>6. job[j] \in Job
  BY <1>3, <1>5 DEF Shape, JobTyped
<1> QED
  BY <1>1, <1>3, <1>4, <1>5, <1>6

\* What a seed pass that has yet to commit works on.
LEMMA SeedHolds ==
  ASSUME MaterializerAssumption, Shape, NEW a \in Activators,
         activation[a].pc = "seeding"
  PROVE  /\ activation[a].name \in Jobs /\ activation[a].at \in Nat
         /\ activation[a].read \in Job /\ activation[a].read.next # Never
         /\ job[activation[a].name] # Absent /\ job[activation[a].name] \in Job
<1>1. /\ activation[a].name \in Jobs /\ activation[a].at \in Nat
      /\ activation[a].read \in Job /\ activation[a].read.next # Never
      /\ job[activation[a].name] # Absent
  BY DEF Shape, SeedsSound
<1> QED
  BY <1>1 DEF Shape, JobTyped

\* Every step of a job leaves it typed, and only its deletion leaves it absent.
LEMMA JobStepTyped ==
  ASSUME MaterializerAssumption, Shape, NEW j \in Jobs, JobStep(j)
  PROVE  JobTyped(j)' /\ (job[j] # Absent => job'[j] \in Job \/ Removed(j))
<1>0. JobTyped(j) /\ now \in Nat
  BY DEF Shape, TypeOK
<1>1. CASE Untouched(j)
  <2>1. JobTyped(j)'
    BY <1>0, <1>1 DEF Untouched, JobTyped
  <2>2. job[j] # Absent => job'[j] \in Job
    BY <1>0, <1>1 DEF Untouched, JobTyped
  <2> QED
    BY <2>1, <2>2
<1>2. CASE PlannedByPass(j) \/ DeferredByPass(j)
  <2>1. PICK p \in Passes :
          /\ j \in pass[p].jobs
          /\ \/ Planned(j, job[j], PlanOccurrences(job[j], pass[p].at), pass[p].at)
             \/ Planned(j, job[j], Deferred(job[j], pass[p].at), pass[p].at)
    BY <1>2 DEF PlannedByPass, DeferredByPass
  <2>2. pass[p].at \in Nat /\ job[j] \in Job /\ job[j].next # Never /\ job[j] # Absent
    BY <2>1, PassHolds
  <2> QED
    BY <1>0, <2>1, <2>2, PlannedTyped
<1>3. CASE Seeded(j)
  <2>1. PICK a \in Activators :
          /\ SeedCommit(a) /\ activation[a].name = j
          /\ Planned(j, activation[a].read,
               PlanOccurrences(activation[a].read, activation[a].at), activation[a].at)
    BY <1>3 DEF Seeded
  <2>2. activation[a].pc = "seeding"
    BY <2>1 DEF SeedCommit
  <2>3. /\ activation[a].at \in Nat /\ activation[a].read \in Job
        /\ activation[a].read.next # Never /\ job[j] # Absent
    BY <2>1, <2>2, SeedHolds
  <2> QED
    BY <1>0, <2>1, <2>3, PlannedTyped
<1>4. CASE Inserted(j)
  <2>1. PICK s \in Schedules, policy \in Policies : Defined(j, s, policy, {})
    BY <1>4 DEF Inserted
  <2> QED
    BY <1>0, <2>1, DefinedTyped
<1>5. CASE Redefined(j)
  <2>1. PICK s \in Schedules, policy \in Policies :
          Defined(j, s, policy, {o \in rows[j] : o.status # "pending"})
    BY <1>5 DEF Redefined
  <2> QED
    BY <1>0, <2>1, DefinedTyped
<1>6. CASE Requeued(j)
  <2>1. job'[j] # Absent
    BY <1>6, Nulls DEF Requeued
  <2> QED
    BY <1>0, <1>6, <2>1 DEF Requeued, SameInstants, JobTyped
<1>7. CASE Removed(j)
  BY <1>7 DEF Removed, JobTyped, OnePerInstant
<1> QED
  BY <1>1, <1>2, <1>3, <1>4, <1>5, <1>6, <1>7 DEF JobStep

\* The variables of a step that moves no pass and no activation.
LEMMA LocksKept ==
  ASSUME MaterializerAssumption, Shape, now' \in Nat, now =< now', pass' = pass,
         \A j \in Jobs : Locked(j) => job'[j] = job[j] \/ job'[j].next = job[j].next
  PROVE  LocksSound'
<1>1. now \in Nat
  BY DEF Shape, TypeOK
<1>2. ASSUME NEW p \in Passes, pass[p] # Idle
      PROVE  pass[p].at =< now'
  <2>1. pass[p].at \in Nat /\ pass[p].at =< now
    BY <1>2 DEF Shape, TypeOK, LocksSound
  <2> QED
    BY <1>1, <2>1
<1>3. ASSUME NEW p \in Passes, NEW j \in pass[p].jobs
      PROVE  job'[j].next # Never
  <2>1. j \in Jobs /\ job[j].next # Never
    BY PassHolds
  <2> QED
    BY <1>3, <2>1 DEF Locked
<1> QED
  BY <1>2, <1>3 DEF LocksSound, Shape

\* The passes stay typed, and their locks sound.
LEMMA LocksStep ==
  ASSUME MaterializerAssumption, Shape, [Next]_vars
  PROVE  /\ LocksSound' /\ now' \in Nat /\ now =< now' /\ faults' \in Nat
         /\ pass' \in [Passes -> {Idle} \cup [at : Nat, jobs : SUBSET Jobs]]
<1> DEFINE Goal == /\ LocksSound' /\ now' \in Nat /\ now =< now' /\ faults' \in Nat
                   /\ pass' \in [Passes -> {Idle} \cup [at : Nat, jobs : SUBSET Jobs]]
<1> SUFFICES Goal
  OBVIOUS
<1>0. /\ now \in Nat /\ faults \in Nat
      /\ pass \in [Passes -> {Idle} \cup [at : Nat, jobs : SUBSET Jobs]]
  BY DEF Shape, TypeOK
<1>f. Fault => faults' \in Nat
  BY <1>0 DEF Fault
<1>k. ASSUME now' = now, pass' = pass, faults' \in Nat,
             \A j \in Jobs : Locked(j) => job'[j] = job[j]
      PROVE  Goal
  BY <1>0, <1>k, LocksKept
<1>o. ASSUME NEW i \in Jobs, ~Locked(i), \A j \in Jobs : j # i => job'[j] = job[j]
      PROVE  \A j \in Jobs : Locked(j) => job'[j] = job[j]
  BY <1>o
<1>1. CASE UNCHANGED vars
  BY <1>0, <1>1, <1>k DEF vars
<1>2. ASSUME NEW p \in Passes, NEW S \in SUBSET Jobs, Claim(p, S)
      PROVE  Goal
  <2>1. /\ pass' = [pass EXCEPT ![p] = [at |-> now, jobs |-> S]]
        /\ now' = now /\ job' = job /\ faults' = faults
        /\ \A j \in S : DueJob(j) /\ ~Locked(j)
    BY <1>2 DEF Claim
  <2>2. pass' \in [Passes -> {Idle} \cup [at : Nat, jobs : SUBSET Jobs]]
    BY <1>0, <2>1
  <2>3. /\ pass'[p].jobs = S /\ pass'[p].at = now
        /\ \A q \in Passes : q # p => pass'[q] = pass[q]
    BY <1>0, <2>1
  <2>4. \A q \in Passes : pass'[q] # Idle => pass'[q].at =< now'
    BY <1>0, <2>1, <2>3 DEF Shape, LocksSound
  <2>5. \A q \in Passes : \A j \in pass'[q].jobs : job'[j].next # Never
    BY <2>1, <2>3 DEF DueJob, Shape, LocksSound
  <2>6. \A q, r \in Passes : q # r => pass'[q].jobs \cap pass'[r].jobs = {}
    BY <2>1, <2>3 DEF Locked, Shape, LocksSound
  <2> QED
    BY <1>0, <2>1, <2>2, <2>4, <2>5, <2>6 DEF LocksSound
<1>3. ASSUME NEW p \in Passes, Rollback(p) \/ \E S \in SUBSET Jobs : Commit(p, S)
      PROVE  Goal
  <2>1. /\ pass' = [pass EXCEPT ![p] = Idle] /\ now' = now
        /\ \A j \in Jobs : j \notin pass[p].jobs => job'[j] = job[j]
    BY <1>3 DEF Commit, Rollback
  <2>2. faults' \in Nat
    BY <1>0, <1>3, <1>f DEF Commit, Rollback
  <2>3. pass' \in [Passes -> {Idle} \cup [at : Nat, jobs : SUBSET Jobs]]
    BY <1>0, <2>1
  <2>4. /\ pass'[p] = Idle /\ pass'[p].jobs = {}
        /\ \A q \in Passes : q # p => pass'[q] = pass[q]
    BY <1>0, <2>1, Nulls
  <2>5. \A q \in Passes : pass'[q] # Idle => pass'[q].at =< now'
    BY <2>1, <2>4 DEF Shape, LocksSound
  <2>6. ASSUME NEW q \in Passes, NEW j \in pass'[q].jobs
        PROVE  job'[j].next # Never
    <3>1. q # p /\ j \in pass[q].jobs
      BY <2>4, <2>6
    <3>2. j \in Jobs /\ job[j].next # Never
      BY <3>1, PassHolds
    <3>3. j \notin pass[p].jobs
      BY <3>1 DEF Shape, LocksSound
    <3> QED
      BY <2>1, <3>2, <3>3
  <2>7. \A q, r \in Passes : q # r => pass'[q].jobs \cap pass'[r].jobs = {}
    BY <2>4 DEF Shape, LocksSound
  <2> QED
    BY <1>0, <2>1, <2>2, <2>3, <2>5, <2>6, <2>7 DEF LocksSound
<1>4. ASSUME NEW a \in Activators, NEW j \in Jobs, FindExisting(a, j)
      PROVE  Goal
  BY <1>0, <1>4, <1>k DEF FindExisting
<1>5. ASSUME NEW a \in Activators, SeedRead(a)
      PROVE  Goal
  BY <1>0, <1>5, <1>k DEF SeedRead
<1>6. ASSUME NEW a \in Activators, NEW s \in Schedules, NEW policy \in Policies,
             InsertMany(a, s, policy)
      PROVE  Goal
  <2> DEFINE i == activation[a].name
  <2>1. i \in Jobs /\ job[i] = Absent /\ Define(i, s, policy, {})
    BY <1>6 DEF InsertMany, Shape, SeedsSound
  <2>2. now' = now /\ pass' = pass /\ faults' = faults
    BY <1>6 DEF InsertMany
  <2> HIDE DEF i
  <2>3. \A j \in Jobs : j # i => job'[j] = job[j]
    BY <2>1, DefineJobs DEF Untouched
  <2>4. ~Locked(i)
    BY <2>1, LockedExists
  <2> QED
    BY <1>0, <1>k, <1>o, <2>1, <2>2, <2>3, <2>4
<1>7. ASSUME NEW a \in Activators, SeedCommit(a)
      PROVE  Goal
  <2> DEFINE i == activation[a].name
  <2>1. /\ i \in Jobs /\ ~Locked(i)
        /\ now' = now /\ pass' = pass /\ faults' = faults
    BY <1>7 DEF SeedCommit, Shape, SeedsSound
  <2>2. \A j \in Jobs : j # i => job'[j] = job[j]
    BY <1>7 DEF SeedCommit, Shape, Tables
  <2> HIDE DEF i
  <2> QED
    BY <1>0, <1>k, <1>o, <2>1, <2>2
<1>8. ASSUME NEW i \in Jobs, NEW s \in Schedules, NEW policy \in Policies,
             Redefine(i, s, policy)
      PROVE  Goal
  <2>1. /\ ~Locked(i) /\ now' = now /\ pass' = pass /\ faults' \in Nat
        /\ Define(i, s, policy, {o \in rows[i] : o.status # "pending"})
    BY <1>8, <1>f DEF Redefine
  <2>2. \A j \in Jobs : j # i => job'[j] = job[j]
    BY <2>1, DefineJobs DEF Untouched
  <2> QED
    BY <1>k, <1>o, <2>1, <2>2
<1>9. ASSUME NEW i \in Jobs, NEW policy \in Policies, UpdateMisfirePolicy(i, policy)
      PROVE  Goal
  <2>1. /\ ~Locked(i) /\ now' = now /\ pass' = pass /\ faults' \in Nat
        /\ \A j \in Jobs : j # i => job'[j] = job[j]
    BY <1>9, <1>f DEF UpdateMisfirePolicy, Shape, Tables
  <2> QED
    BY <1>k, <1>o, <2>1
<1>10. ASSUME NEW i \in Jobs, DeleteJob(i)
       PROVE  Goal
  <2>1. /\ ~Locked(i) /\ now' = now /\ pass' = pass /\ faults' \in Nat
        /\ \A j \in Jobs : j # i => job'[j] = job[j]
    BY <1>10, <1>f DEF DeleteJob, Shape, Tables
  <2> QED
    BY <1>k, <1>o, <2>1
<1>11. ASSUME NEW i \in Jobs, NEW o \in rows[i], RowStep(i, o)
       PROVE  Goal
  BY <1>0, <1>11, <1>k DEF RowStep, Take, Settle, Release, Retry, RetireMissed, Restamp
<1>12. CASE Tick
  <2>1. /\ now' = now + 1 /\ pass' = pass /\ job' = job /\ faults' = faults
    BY <1>12 DEF Tick
  <2> QED
    BY <1>0, <2>1, LocksKept
<1> HIDE DEF Goal
<1> QED
  BY <1>1, <1>2, <1>3, <1>4, <1>5, <1>6, <1>7, <1>8, <1>9, <1>10, <1>11, <1>12 DEF Next, RowStep

\* The activations stay typed, and their seeds sound.
LEMMA SeedsStep ==
  ASSUME MaterializerAssumption, Shape, [Next]_vars
  PROVE  /\ SeedsSound'
         /\ activation' \in [Activators ->
              [pc : {"idle", "inserting", "seeding"}, name : Jobs \cup {Never},
               at : Nat \cup {Never}, read : Job \cup {Absent}]]
<1> DEFINE Act == [pc : {"idle", "inserting", "seeding"}, name : Jobs \cup {Never},
                   at : Nat \cup {Never}, read : Job \cup {Absent}]
           Sound(b) ==
             /\ b.pc # "idle" => b.name \in Jobs
             /\ b.pc = "seeding" =>
                  /\ b.at \in Nat /\ b.at =< now' /\ b.read \in Job /\ b.read.next # Never
                  /\ job'[b.name] # Absent
           Goal == activation' \in [Activators -> Act] /\ SeedsSound'
<1> SUFFICES Goal
  BY DEF Act
<1>0. activation \in [Activators -> Act] /\ now \in Nat /\ now' \in Nat /\ now =< now'
  BY LocksStep DEF Shape, TypeOK
<1>1. \A j \in Jobs : JobStep(j)
  BY JobSteps
<1>n. NoActivation \in Act /\ Sound(NoActivation)
  BY DEF NoActivation
\* What is left alone stays sound: a seed pass of a job that goes goes with it.
<1>2. ASSUME NEW a \in Activators, activation'[a] = activation[a]
      PROVE  Sound(activation'[a])
  <2>1. activation[a].pc # "idle" => activation[a].name \in Jobs
    BY DEF Shape, SeedsSound
  <2>2. ASSUME activation[a].pc = "seeding"
        PROVE  /\ activation[a].at \in Nat /\ activation[a].at =< now'
               /\ activation[a].read \in Job /\ activation[a].read.next # Never
               /\ job'[activation[a].name] # Absent
    <3> DEFINE i == activation[a].name
    <3>1. /\ i \in Jobs /\ activation[a].at \in Nat
          /\ activation[a].read \in Job /\ activation[a].read.next # Never
          /\ job[i] # Absent
      BY <2>2, SeedHolds
    <3>2. activation[a].at =< now'
      BY <1>0, <2>2, <3>1 DEF Shape, SeedsSound
    <3>3. ~Removed(i)
      BY <1>2, <2>2 DEF Removed
    <3> HIDE DEF i
    <3>4. job'[i] \in Job
      BY <1>1, <3>1, <3>3, JobStepTyped
    <3>5. job'[i] # Absent
      BY <3>4, Nulls
    <3> QED
      BY <3>1, <3>2, <3>5 DEF i
  <2> QED
    BY <1>2, <2>1, <2>2
<1> HIDE DEF Act, Sound
<1>3. ASSUME activation' \in [Activators -> Act],
             \A a \in Activators : activation'[a] = activation[a] \/ Sound(activation'[a])
      PROVE  Goal
  <2>1. \A a \in Activators : Sound(activation'[a])
    BY <1>2, <1>3
  <2> QED
    BY <1>3, <2>1 DEF Sound, SeedsSound
<1> HIDE DEF Goal
<1>u. activation' = activation => Goal
  BY <1>0, <1>3
<1>e. ASSUME NEW a \in Activators, NEW b \in Act, Sound(b),
             activation' = [activation EXCEPT ![a] = b]
      PROVE  Goal
  <2>1. activation' \in [Activators -> Act]
    BY <1>0, <1>e
  <2>2. \A c \in Activators : activation'[c] = activation[c] \/ Sound(activation'[c])
    BY <1>0, <1>e
  <2> QED
    BY <1>3, <2>1, <2>2
<1>4. CASE UNCHANGED vars
  BY <1>4, <1>u DEF vars
<1>5. ASSUME NEW p \in Passes,
             Rollback(p) \/ \E S \in SUBSET Jobs : Claim(p, S) \/ Commit(p, S)
      PROVE  Goal
  BY <1>5, <1>u DEF Claim, Commit, Rollback
<1>6. ASSUME NEW a \in Activators, NEW j \in Jobs, FindExisting(a, j)
      PROVE  Goal
  <2> DEFINE b == [NoActivation EXCEPT !.pc = "inserting", !.name = j]
  <2>1. activation' = [activation EXCEPT ![a] = b]
    BY <1>6 DEF FindExisting
  <2>2. b \in Act /\ Sound(b)
    BY DEF NoActivation, Act, Sound
  <2> HIDE DEF b
  <2> QED
    BY <1>e, <2>1, <2>2
<1>7. ASSUME NEW a \in Activators, NEW s \in Schedules, NEW policy \in Policies,
             InsertMany(a, s, policy)
      PROVE  Goal
  <2>1. activation' = [activation EXCEPT ![a] = NoActivation]
    BY <1>7 DEF InsertMany
  <2> QED
    BY <1>e, <1>n, <2>1
<1>8. ASSUME NEW a \in Activators, SeedCommit(a)
      PROVE  Goal
  <2>1. activation' = [activation EXCEPT ![a] = NoActivation]
    BY <1>8 DEF SeedCommit
  <2> QED
    BY <1>e, <1>n, <2>1
<1>9. ASSUME NEW a \in Activators, SeedRead(a)
      PROVE  Goal
  <2> DEFINE i == activation[a].name
             b == IF job[i].next = Never THEN NoActivation
                  ELSE [pc |-> "seeding", name |-> i, at |-> now, read |-> job[i]]
  <2>1. activation' = [activation EXCEPT ![a] = b] /\ now' = now /\ job' = job
    BY <1>9 DEF SeedRead
  <2>2. i \in Jobs /\ job[i] # Absent
    BY <1>9 DEF SeedRead, Shape, SeedsSound
  <2>3. job[i] \in Job
    BY <2>2 DEF Shape, JobTyped
  <2> HIDE DEF i
  <2>4. b \in Act /\ Sound(b)
    <3>1. CASE job[i].next = Never
      BY <1>n, <3>1
    <3>2. CASE job[i].next # Never
      <4>1. b = [pc |-> "seeding", name |-> i, at |-> now, read |-> job[i]]
        BY <3>2
      <4> HIDE DEF b
      <4>2. b \in Act
        BY <1>0, <2>2, <2>3, <4>1 DEF Act
      <4>3. Sound(b)
        BY <1>0, <2>1, <2>2, <2>3, <3>2, <4>1 DEF Sound
      <4> QED
        BY <4>2, <4>3
    <3> QED
      BY <3>1, <3>2
  <2> HIDE DEF b
  <2> QED
    BY <1>e, <2>1, <2>4
<1>10. ASSUME NEW i \in Jobs, DeleteJob(i)
       PROVE  Goal
  <2>1. activation' = [a \in Activators |->
           IF activation[a].pc = "seeding" /\ activation[a].name = i
             THEN NoActivation ELSE activation[a]]
    BY <1>10 DEF DeleteJob
  <2>2. activation' \in [Activators -> Act]
    BY <1>0, <1>n, <2>1
  <2>3. \A a \in Activators : activation'[a] = activation[a] \/ Sound(activation'[a])
    BY <1>n, <2>1
  <2> QED
    BY <1>3, <2>2, <2>3
<1>11. ASSUME NEW i \in Jobs,
              NEW policy \in Policies, UpdateMisfirePolicy(i, policy)
                \/ \E s \in Schedules : Redefine(i, s, policy)
       PROVE  Goal
  BY <1>11, <1>u DEF Redefine, UpdateMisfirePolicy
<1>12. ASSUME NEW i \in Jobs, NEW o \in rows[i], RowStep(i, o)
       PROVE  Goal
  BY <1>12, <1>u DEF RowStep, Take, Settle, Release, Retry, RetireMissed, Restamp
<1>13. CASE Tick
  BY <1>13, <1>u DEF Tick
<1> QED
  BY <1>4, <1>5, <1>6, <1>7, <1>8, <1>9, <1>10, <1>11, <1>12, <1>13 DEF Next, RowStep

-----------------------------------------------------------------------------
(* Types and queues, whatever the bounds.                                  *)

\* The shape holds at the start.
LEMMA ShapeInit == ASSUME MaterializerAssumption, Init PROVE Shape
<1>1. Tables /\ \A j \in Jobs : JobTyped(j)
  BY DEF Init, Tables, JobTyped, OnePerInstant
<1>2. TypeOK
  BY DEF Init, TypeOK, MaterializerAssumption, NoActivation
<1>3. LocksSound /\ SeedsSound
  BY Nulls DEF Init, LocksSound, SeedsSound
<1> QED
  BY <1>1, <1>2, <1>3 DEF Shape

\* Every step keeps it.
LEMMA ShapeStep ==
  ASSUME MaterializerAssumption, Shape, [Next]_vars
  PROVE  Shape'
<1>1. Tables' /\ \A j \in Jobs : JobStep(j)
  BY JobSteps
<1>2. \A j \in Jobs : JobTyped(j)'
  BY <1>1, JobStepTyped
<1>3. job' \in [Jobs -> Job \cup {Absent}] /\ \A j \in Jobs : rows'[j] \subseteq Occurrence
  BY <1>1, <1>2 DEF Tables, JobTyped
<1>4. passedOver' \in [Jobs -> SUBSET Int] /\ drifted' \subseteq Jobs
  BY <1>1, <1>2 DEF Tables, JobTyped
<1>5. TypeOK'
  BY <1>3, <1>4, LocksStep, SeedsStep DEF TypeOK
<1> QED
  BY <1>1, <1>2, <1>5, LocksStep, SeedsStep DEF Shape

\* The shape of jobs, rows and plans never breaks.
LEMMA ShapeAlways == Spec => []Shape
<1>1. Init => Shape
  BY ShapeInit, MaterializerAssumption
<1>2. Shape /\ [Next]_vars => Shape'
  BY ShapeStep, MaterializerAssumption
<1> QED
  BY <1>1, <1>2, PTL DEF Spec

\* Every variable has its type, however many passes, activations and edits run
\* at once and however often they fail.
THEOREM TypeCorrect == Spec => []TypeOK
<1>1. Shape => TypeOK
  BY DEF Shape
<1> QED
  BY <1>1, ShapeAlways, PTL


\* A written plan, seen from the queue and the histories of the job.
LEMMA PlannedQueue ==
  ASSUME MaterializerAssumption, NEW j \in Jobs, JobTyped(j),
         NEW b \in Job, b.next # Never, NEW at \in Nat,
         NEW plan, plan = PlanOccurrences(b, at) \/ plan = Deferred(b, at),
         Planned(j, b, plan, at)
  PROVE  LET w == rows'[j]
         IN  /\ \A o \in rows[j] : \E n \in w : n.at = o.at
             /\ \A i \in plan.occurrences : \E n \in w : n.at = i
             /\ \A n \in w : n.at \in plan.occurrences \/ \E o \in rows[j] : o.at = n.at
             /\ \A n \in w : Live(n) => n \in rows[j] \/ n.at \in plan.occurrences
             /\ \A o \in rows[j] : o.status # "pending" =>
                  \A n \in w : n.at = o.at => n.status # "pending"
             /\ plan.catchUp # Never =>
                  \A n \in w : Live(n) =>
                    plan.catchUp =< n.at \/ n.at \in Overtaken(rows[j], plan.catchUp)
<1>1. plan.occurrences \in SUBSET Int /\ plan.catchUp \in Int \cup {Never}
  BY PlanTyped
<1>2. rows[j] \in SUBSET Occurrence /\ OnePerInstant(rows[j]) /\ at \in Int
  BY DEF JobTyped
<1>3. rows'[j] = Written(rows[j], b, plan, at)
  BY DEF Planned
<1> QED
  BY <1>1, <1>2, <1>3, WrittenFacts

\* A clock that is not yet due has no backlog: nothing is dropped or caught up.
LEMMA NoBacklog ==
  ASSUME MaterializerAssumption, NEW b \in Job, b.next \in Int, NEW at \in Int,
         at < b.next
  PROVE  /\ PlanOccurrences(b, at).dropped = {}
         /\ PlanOccurrences(b, at).catchUp = Never
<1>1. \A i \in Due(b, at) : i \in Int /\ b.next =< i
  BY DueFacts DEF Job, MaterializerAssumption
<1>2. {i \in Due(b, at) : i =< at} = {}
  BY <1>1
<1>3. Kept(b, at) = [occurrences |-> Due(b, at), catchUp |-> Never]
  BY <1>2 DEF Kept, ApplyMisfirePolicy
<1> QED
  BY <1>3, PlanIs

\* A written definition, seen the same way: one without a clock, or one whose first
\* instant is to come.
DefinedFresh(j, s, queued) ==
  /\ job'[j].schedule = s /\ dropped'[j] = {} /\ caughtUp'[j] = Never
  /\ \A o \in queued : \E n \in rows'[j] : n.at = o.at
  /\ \A o \in queued : o.status # "pending" =>
       \A n \in rows'[j] : n.at = o.at => n.status # "pending"
  /\ \/ job'[j].next = Never /\ origin'[j] = Never /\ rows'[j] = queued
     \/ \E fresh \in Job : \E plan :
          /\ plan = PlanOccurrences(fresh, now) /\ plan.dropped = {}
          /\ fresh.schedule = s /\ fresh.next \in Int /\ now < fresh.next
          /\ origin'[j] = fresh.next /\ job'[j].next = plan.next
          /\ \A i \in plan.occurrences : \E n \in rows'[j] : n.at = i
          /\ \A n \in rows'[j] : Live(n) => n \in queued \/ n.at \in plan.occurrences

\* A definition leaves its job, clock and queue like that.
LEMMA DefinedQueue ==
  ASSUME MaterializerAssumption, NEW j \in Jobs, JobTyped(j), now \in Nat,
         NEW s \in Schedules, NEW policy \in Policies,
         NEW queued \in SUBSET rows[j], Defined(j, s, policy, queued)
  PROVE  DefinedFresh(j, s, queued)
<1> DEFINE first == ComputeFirstRunAt(s, now)
           fresh == [schedule |-> s, policy |-> policy, next |-> first, last |-> job[j].last]
           plan  == PlanOccurrences(fresh, now)
           w     == rows'[j]
<1>1. /\ job'[j] = IF first = Never THEN fresh ELSE Advanced(fresh, plan)
      /\ w = IF first = Never THEN queued ELSE Written(queued, fresh, plan, now)
      /\ origin'[j] = first /\ dropped'[j] = {} /\ caughtUp'[j] = Never
  BY DEF Defined
<1>2. first = Never \/ (first \in Int /\ now < first)
  BY FirstRun
<1>3. fresh \in Job /\ fresh.next = first /\ fresh.schedule = s
  <2>1. job[j].last \in Int \cup {Never}
    BY Nulls DEF JobTyped, Job
  <2> HIDE DEF first
  <2> QED
    BY <1>2, <2>1 DEF Job
<1>4. queued \in SUBSET Occurrence /\ OnePerInstant(queued)
  BY DEF JobTyped, OnePerInstant
<1> HIDE DEF first, fresh, plan, w
<1>5. job'[j].schedule = s
  BY <1>1, <1>3 DEF Advanced, fresh
<1> SUFFICES
      /\ \A o \in queued : \E n \in w : n.at = o.at
      /\ \A o \in queued : o.status # "pending" =>
           \A n \in w : n.at = o.at => n.status # "pending"
      /\ \/ job'[j].next = Never /\ origin'[j] = Never /\ w = queued
         \/ \E fr \in Job : \E pl :
              /\ pl = PlanOccurrences(fr, now) /\ pl.dropped = {}
              /\ fr.schedule = s /\ fr.next \in Int /\ now < fr.next
              /\ origin'[j] = fr.next /\ job'[j].next = pl.next
              /\ \A i \in pl.occurrences : \E n \in w : n.at = i
              /\ \A n \in w : Live(n) => n \in queued \/ n.at \in pl.occurrences
  BY <1>1, <1>5 DEF DefinedFresh, w
<1>6. CASE first = Never
  <2>1. w = queued /\ job'[j].next = Never
    BY <1>1, <1>3, <1>6
  <2> QED
    BY <1>1, <1>4, <1>6, <2>1 DEF OnePerInstant
<1>7. CASE first # Never
  <2>1. w = Written(queued, fresh, plan, now) /\ job'[j].next = plan.next
    BY <1>1, <1>7 DEF Advanced, fresh
  <2>2. now \in Int /\ first \in Int /\ now < first
    BY <1>2, <1>7
  <2>3. plan.dropped = {} /\ plan.catchUp = Never
    BY <1>3, <2>2, NoBacklog DEF plan
  <2>4. plan.occurrences \in SUBSET Int
    BY <1>3, <2>2, PlanFacts DEF plan
  <2>5. /\ \A o \in queued : \E n \in w : n.at = o.at
        /\ \A i \in plan.occurrences : \E n \in w : n.at = i
        /\ \A n \in w : Live(n) => n \in queued \/ n.at \in plan.occurrences
        /\ \A o \in queued : o.status # "pending" =>
             \A n \in w : n.at = o.at => n.status # "pending"
    <3>1. plan.catchUp \in Int \cup {Never}
      BY <2>3
    <3> QED
      BY <1>3, <1>4, <2>1, <2>2, <2>4, <3>1, WrittenFacts
  <2>6. plan = PlanOccurrences(fresh, now)
    BY DEF plan
  <2> QED
    BY <1>1, <1>3, <2>1, <2>2, <2>3, <2>5, <2>6
<1> QED
  BY <1>6, <1>7

\* A queue never takes back what was settled, and what was claimed only from the one
\* who hands it back.
LEMMA NoRerunOfJob ==
  ASSUME MaterializerAssumption, Shape, NEW j \in Jobs, JobStep(j),
         NEW o \in rows[j],
         o.status \in {"done", "missed"} \/ (o.status = "taken" /\ job'[j] # job[j]),
         NEW n \in rows'[j], n.at = o.at
  PROVE  n.status # "pending"
<1>0. JobTyped(j) /\ now \in Nat
  BY DEF Shape, TypeOK
<1>1. CASE Untouched(j)
  BY <1>0, <1>1 DEF Untouched, JobTyped, OnePerInstant
<1>2. CASE PlannedByPass(j) \/ DeferredByPass(j)
  <2>1. PICK p \in Passes :
          /\ j \in pass[p].jobs
          /\ \/ Planned(j, job[j], PlanOccurrences(job[j], pass[p].at), pass[p].at)
             \/ Planned(j, job[j], Deferred(job[j], pass[p].at), pass[p].at)
    BY <1>2 DEF PlannedByPass, DeferredByPass
  <2>2. pass[p].at \in Nat /\ job[j] \in Job /\ job[j].next # Never
    BY <2>1, PassHolds
  <2> QED
    BY <1>0, <2>1, <2>2, PlannedQueue
<1>3. CASE Seeded(j)
  <2>1. PICK a \in Activators :
          /\ SeedCommit(a) /\ activation[a].name = j
          /\ Planned(j, activation[a].read,
               PlanOccurrences(activation[a].read, activation[a].at), activation[a].at)
    BY <1>3 DEF Seeded
  <2>2. activation[a].pc = "seeding"
    BY <2>1 DEF SeedCommit
  <2>3. /\ activation[a].at \in Nat /\ activation[a].read \in Job
        /\ activation[a].read.next # Never
    BY <2>2, SeedHolds
  <2> QED
    BY <1>0, <2>1, <2>3, PlannedQueue
<1>4. CASE Inserted(j)
  BY <1>0, <1>4 DEF Inserted, JobTyped
<1>5. CASE Redefined(j)
  <2> DEFINE queued == {q \in rows[j] : q.status # "pending"}
  <2>1. PICK s \in Schedules, policy \in Policies : Defined(j, s, policy, queued)
    BY <1>5 DEF Redefined
  <2>2. queued \in SUBSET rows[j] /\ o \in queued
    OBVIOUS
  <2> HIDE DEF queued
  <2>3. \A q \in queued : q.status # "pending" =>
          \A m \in rows'[j] : m.at = q.at => m.status # "pending"
    BY <1>0, <2>1, <2>2, DefinedQueue DEF DefinedFresh
  <2> QED
    BY <2>2, <2>3
<1>6. CASE Requeued(j)
  <2>1. PICK m \in rows[j] : n.at = m.at /\ (Live(n) => Live(m))
    BY <1>6 DEF Requeued, SameInstants
  <2>2. m = o
    BY <1>0, <2>1 DEF JobTyped, OnePerInstant
  <2>3. job'[j] = job[j] \/ NoneHandedBack(rows[j], rows'[j])
    BY <1>6 DEF Requeued
  <2>4. CASE o.status \in {"done", "missed"}
    BY <2>1, <2>2, <2>4 DEF Live
  <2>5. CASE o.status = "taken" /\ job'[j] # job[j]
    BY <2>3, <2>5 DEF NoneHandedBack
  <2> QED
    BY <2>4, <2>5
<1>7. CASE Removed(j)
  BY <1>7 DEF Removed
<1> QED
  BY <1>1, <1>2, <1>3, <1>4, <1>5, <1>6, <1>7 DEF JobStep

\* An occurrence that was settled or given up is never queued again, and no pass, seed,
\* edit or deletion queues again one that is claimed, even one that plans from a clock
\* that has moved back: only its executor or the reaper hands it back.
THEOREM NothingQueuedAgain == Spec => NoRerun
<1>1. Shape /\ [Next]_vars =>
        [\A j \in Jobs : \A o \in rows[j] :
           o.status \in {"done", "missed"} \/ (o.status = "taken" /\ job'[j] # job[j]) =>
             \A n \in rows'[j] : n.at = o.at => n.status # "pending"]_vars
  BY JobSteps, NoRerunOfJob, MaterializerAssumption
<1> QED
  BY <1>1, ShapeAlways, PTL DEF Spec, NoRerun

-----------------------------------------------------------------------------
(* What a clock leaves behind.                                             *)

\* The instant is recorded, or a misfire policy discarded it.
Accounted(j, i) == i \in dropped[j] \/ \E o \in rows[j] : o.at = i

\* u is a fire of the definition of a job, and every fire before it is accounted.
Behind(j, u) ==
  /\ origin[j] \in Int
  /\ IsFire(job[j].schedule, origin[j], u)
  /\ \A i : IsFire(job[j].schedule, origin[j], i) /\ i < u => Accounted(j, i)

\* A live clock stands on a fire with nothing unaccounted behind it; a clock that has
\* run out leaves the first fire accounted; what is live is a fire, or was in flight
\* when the definition or a catch-up came by.
ClockSound(j) ==
  job[j] # Absent /\ j \notin drifted =>
    /\ job[j].next # Never => Behind(j, job[j].next)
    /\ job[j].next = Never /\ origin[j] # Never => Accounted(j, origin[j])
    /\ \A o \in rows[j] : Live(o) =>
         \/ o.at \in passedOver[j]
         \/ origin[j] \in Int /\ IsFire(job[j].schedule, origin[j], o.at)

\* The clock a seed pass read, however stale, is one the job has left behind, unless the
\* job was edited since.
SeedsBehind ==
  \A a \in Activators :
    activation[a].pc = "seeding" /\ activation[a].name \notin drifted =>
    /\ activation[a].read.schedule = job[activation[a].name].schedule
    /\ Behind(activation[a].name, activation[a].read.next)

\* Every plan made of a clock like that accounts for what it passes.
LEMMA PlannedClock ==
  ASSUME MaterializerAssumption, NEW j \in Jobs, JobTyped(j), job[j] # Absent,
         ClockSound(j), j \notin drifted, NEW b \in Job, b.next # Never,
         b.schedule = job[j].schedule, Behind(j, b.next), NEW at \in Nat,
         Planned(j, b, PlanOccurrences(b, at), at)
  PROVE  ClockSound(j)'
<1>s. PICK s : s = job[j].schedule
  OBVIOUS
<1>from. PICK from : from = origin[j]
  OBVIOUS
<1>plan. PICK plan : plan = PlanOccurrences(b, at)
  OBVIOUS
<1> DEFINE taken == plan.occurrences \cup plan.dropped
<1>1. /\ s \in Schedule /\ from \in Int /\ b.next \in Int /\ at \in Int
      /\ IsFire(s, from, b.next) /\ b.schedule = s
  BY <1>s, <1>from DEF JobTyped, Job, Behind, MaterializerAssumption
<1>2. /\ \A i \in taken : IsFire(s, b.next, i)
      /\ plan.next = Never => b.next \in taken
      /\ plan.next # Never =>
           /\ IsFire(s, b.next, plan.next)
           /\ \A i : IsFire(s, b.next, i) /\ i < plan.next => i \in taken
  BY <1>1, <1>plan, PlanFacts
<1>3. /\ \A o \in rows[j] : \E n \in rows'[j] : n.at = o.at
      /\ \A i \in plan.occurrences : \E n \in rows'[j] : n.at = i
      /\ \A n \in rows'[j] : Live(n) => n \in rows[j] \/ n.at \in plan.occurrences
  BY <1>plan, PlannedQueue
<1>4. /\ job'[j].schedule = s /\ job'[j].next = plan.next /\ origin'[j] = from
      /\ dropped'[j] = dropped[j] \cup plan.dropped /\ passedOver[j] \subseteq passedOver'[j]
  <2>1. job[j] \in Job
    BY DEF JobTyped
  <2> QED
    BY <1>s, <1>from, <1>plan, <2>1 DEF Planned, Advanced, Job
<1>5. \A i : Accounted(j, i) \/ i \in taken => Accounted(j, i)'
  BY <1>3, <1>4 DEF Accounted
<1> HIDE DEF taken
<1>6. \A i : IsFire(s, from, i) /\ i < b.next => Accounted(j, i)
  BY <1>s, <1>from DEF Behind
<1>7. \A i : IsFire(s, b.next, i) => IsFire(s, from, i)
  BY <1>1, FireOfFire
<1>8. ASSUME NEW i, IsFire(s, from, i), plan.next # Never, i < plan.next
      PROVE  Accounted(j, i)'
  <2>1. i \in Int
    BY <1>8 DEF IsFire
  <2>2. CASE i < b.next
    BY <1>5, <1>6, <1>8, <2>2
  <2>3. CASE b.next =< i
    <3>1. IsFire(s, b.next, i)
      BY <1>1, <1>8, <2>3, FireOfFire
    <3> QED
      BY <1>2, <1>5, <1>8, <3>1
  <2> QED
    BY <1>1, <2>1, <2>2, <2>3
<1>9. plan.next # Never => Behind(j, plan.next)'
  BY <1>1, <1>2, <1>4, <1>7, <1>8 DEF Behind
<1>10. plan.next = Never => Accounted(j, from)'
  <2>1. CASE from = b.next
    BY <1>2, <1>5, <2>1
  <2>2. CASE from # b.next
    <3>1. from < b.next
      BY <1>1, <2>2 DEF IsFire
    <3>2. IsFire(s, from, from)
      BY <1>1 DEF IsFire
    <3> QED
      BY <1>5, <1>6, <3>1, <3>2
  <2> QED
    BY <2>1, <2>2
<1>11. ASSUME NEW n \in rows'[j], Live(n)
       PROVE  n.at \in passedOver'[j] \/ IsFire(s, from, n.at)
  <2>1. CASE n \in rows[j]
    BY <1>s, <1>from, <1>4, <1>11, <2>1 DEF ClockSound
  <2>2. CASE n.at \in plan.occurrences
    BY <1>2, <1>7, <2>2 DEF taken
  <2> QED
    BY <1>3, <1>11, <2>1, <2>2
<1>12. Behind(j, job[j].next)' <=> Behind(j, plan.next)'
  BY <1>4 DEF Behind
<1> QED
  BY <1>1, <1>4, <1>9, <1>10, <1>11, <1>12 DEF ClockSound

\* A definition that is written starts with nothing behind it.
LEMMA DefinedClock ==
  ASSUME MaterializerAssumption, NEW j \in Jobs, JobTyped(j), now \in Nat,
         NEW s \in Schedules, NEW policy \in Policies,
         NEW queued \in SUBSET rows[j], \A o \in queued : o.status # "pending",
         Defined(j, s, policy, queued)
  PROVE  ClockSound(j)'
<1> DEFINE w == rows'[j]
<1>0. DefinedFresh(j, s, queued)
  BY DefinedQueue
<1>1. /\ job'[j].schedule = s /\ dropped'[j] = {} /\ caughtUp'[j] = Never
      /\ \A o \in queued : \E n \in w : n.at = o.at
      /\ \A o \in queued : o.status # "pending" =>
           \A n \in w : n.at = o.at => n.status # "pending"
      /\ \/ job'[j].next = Never /\ origin'[j] = Never /\ w = queued
         \/ \E fresh \in Job : \E plan :
              /\ plan = PlanOccurrences(fresh, now) /\ plan.dropped = {}
              /\ fresh.schedule = s /\ fresh.next \in Int /\ now < fresh.next
              /\ origin'[j] = fresh.next /\ job'[j].next = plan.next
              /\ \A i \in plan.occurrences : \E n \in w : n.at = i
              /\ \A n \in w : Live(n) => n \in queued \/ n.at \in plan.occurrences
  BY <1>0 DEF DefinedFresh
<1> HIDE DEF w
<1>i. \A o \in queued : Live(o) => o.at \in passedOver'[j]
  BY DEF Defined, InFlight, Live
<1>2. CASE job'[j].next = Never /\ origin'[j] = Never /\ w = queued
  BY <1>i, <1>2 DEF ClockSound, w
<1>3. ASSUME NEW fresh \in Job, NEW plan,
             plan = PlanOccurrences(fresh, now), plan.dropped = {},
             fresh.schedule = s, fresh.next \in Int,
             origin'[j] = fresh.next, job'[j].next = plan.next,
             \A i \in plan.occurrences : \E n \in w : n.at = i,
             \A n \in w : Live(n) => n \in queued \/ n.at \in plan.occurrences
      PROVE  ClockSound(j)'
  <2> DEFINE first == fresh.next
             taken == plan.occurrences \cup plan.dropped
  <2>0. now \in Int
    OBVIOUS
  <2>1. /\ \A i \in taken : IsFire(s, first, i)
        /\ plan.next = Never => first \in taken
        /\ plan.next # Never =>
             /\ IsFire(s, first, plan.next)
             /\ \A i : IsFire(s, first, i) /\ i < plan.next => i \in taken
    BY <1>3, <2>0, PlanFacts
  <2>2. taken = plan.occurrences
    BY <1>3
  <2> HIDE DEF taken
  <2>3. \A i \in taken : Accounted(j, i)'
    BY <1>3, <2>2 DEF Accounted, w
  <2>4. plan.next # Never => Behind(j, job[j].next)'
    BY <1>1, <1>3, <2>1, <2>3 DEF Behind
  <2>5. plan.next = Never => Accounted(j, origin[j])'
    <3>1. plan.next = Never => Accounted(j, first)'
      BY <2>1, <2>3
    <3> QED
      BY <1>3, <3>1 DEF Accounted
  <2>6. \A n \in w : Live(n) => n.at \in passedOver'[j] \/ IsFire(s, first, n.at)
    BY <1>i, <1>3, <2>1, <2>2
  <2> QED
    BY <1>1, <1>3, <2>4, <2>5, <2>6 DEF ClockSound, w
<1> QED
  BY <1>1, <1>2, <1>3

\* Passes and seeds keep the definition of a job, and forget no instant of it.
LEMMA DefinitionKept ==
  ASSUME MaterializerAssumption, Shape, NEW j \in Jobs, JobStep(j), job[j] # Absent,
         ~Redefined(j), ~Removed(j)
  PROVE  /\ job'[j].schedule = job[j].schedule /\ origin'[j] = origin[j]
         /\ \A i : Accounted(j, i) => Accounted(j, i)'
<1>0. JobTyped(j) /\ job[j] \in Job
  BY DEF Shape, JobTyped
<1>1. CASE Untouched(j)
  BY <1>1 DEF Untouched, Accounted
<1>2. CASE PlannedByPass(j) \/ DeferredByPass(j) \/ Seeded(j)
  <2>1. PICK b \in Job, at \in Nat :
          /\ b.next # Never
          /\ \/ Planned(j, b, PlanOccurrences(b, at), at)
             \/ Planned(j, b, Deferred(b, at), at)
    <3>1. CASE PlannedByPass(j) \/ DeferredByPass(j)
      BY <3>1, PassHolds DEF PlannedByPass, DeferredByPass
    <3>2. CASE Seeded(j)
      BY <3>2, SeedHolds DEF Seeded, SeedCommit
    <3> QED
      BY <1>2, <3>1, <3>2
  <2>2. PICK plan : /\ plan = PlanOccurrences(b, at) \/ plan = Deferred(b, at)
                    /\ Planned(j, b, plan, at)
    BY <2>1
  <2>3. \A o \in rows[j] : \E n \in rows'[j] : n.at = o.at
    BY <1>0, <2>1, <2>2, PlannedQueue
  <2>4. /\ job'[j].schedule = job[j].schedule /\ origin'[j] = origin[j]
        /\ dropped[j] \subseteq dropped'[j]
    BY <1>0, <2>2 DEF Planned, Advanced, Job
  <2> QED
    BY <2>3, <2>4 DEF Accounted
<1>3. CASE Inserted(j)
  BY <1>3 DEF Inserted
<1>4. CASE Requeued(j)
  BY <1>4 DEF Requeued, SameInstants, Accounted
<1> QED
  BY <1>1, <1>2, <1>3, <1>4 DEF JobStep

\* What the clock of a job leaves behind stays accounted, step by step.
LEMMA ClockStep ==
  ASSUME MaterializerAssumption, Shape, NEW j \in Jobs, ClockSound(j),
         SeedsBehind, JobStep(j)
  PROVE  ClockSound(j)'
<1> SUFFICES ASSUME j \notin drifted' PROVE ClockSound(j)'
  BY DEF ClockSound
<1>0. JobTyped(j) /\ now \in Nat
  BY DEF Shape, TypeOK
<1>1. CASE Untouched(j)
  <2>0. j \notin drifted
    BY <1>1 DEF Untouched, StillDrifted
  <2>1. \A i : Accounted(j, i)' <=> Accounted(j, i)
    BY <1>1 DEF Untouched, Accounted
  <2>2. \A u : Behind(j, u) => Behind(j, u)'
    BY <1>1, <2>1 DEF Untouched, Behind
  <2>3. job[j].next # Never /\ job[j] # Absent => Behind(j, job[j].next)'
    <3>1. PICK u : u = job[j].next
      OBVIOUS
    <3>2. job'[j].next = u
      BY <1>1, <3>1 DEF Untouched
    <3>3. job[j].next # Never /\ job[j] # Absent => Behind(j, u)'
      BY <2>0, <2>2, <3>1 DEF ClockSound
    <3> QED
      BY <3>2, <3>3 DEF Behind
  <2>4. PICK f : f = origin[j]
    OBVIOUS
  <2>5. Accounted(j, f) => Accounted(j, origin[j])'
    BY <1>1, <2>1, <2>4 DEF Untouched, Accounted
  <2> QED
    BY <1>1, <2>0, <2>3, <2>4, <2>5 DEF Untouched, ClockSound
<1>2. CASE PlannedByPass(j)
  <2>1. PICK p \in Passes :
          /\ j \in pass[p].jobs
          /\ Planned(j, job[j], PlanOccurrences(job[j], pass[p].at), pass[p].at)
    BY <1>2 DEF PlannedByPass
  <2>2. /\ pass[p].at \in Nat /\ job[j] \in Job /\ job[j].next # Never
        /\ job[j] # Absent
    BY <2>1, PassHolds
  <2>3. j \notin drifted
    BY <1>2 DEF PlannedByPass, StillDrifted
  <2>4. Behind(j, job[j].next)
    BY <2>2, <2>3 DEF ClockSound
  <2> QED
    BY <1>0, <2>1, <2>2, <2>3, <2>4, PlannedClock
<1>3. CASE DeferredByPass(j)
  BY <1>3 DEF DeferredByPass
<1>4. CASE Seeded(j)
  <2>1. PICK a \in Activators :
          /\ SeedCommit(a) /\ activation[a].name = j
          /\ Planned(j, activation[a].read,
               PlanOccurrences(activation[a].read, activation[a].at), activation[a].at)
    BY <1>4 DEF Seeded
  <2>2. activation[a].pc = "seeding"
    BY <2>1 DEF SeedCommit
  <2>3. /\ activation[a].at \in Nat /\ activation[a].read \in Job
        /\ activation[a].read.next # Never /\ job[j] # Absent
    BY <2>1, <2>2, SeedHolds
  <2>4. j \notin drifted
    BY <1>4 DEF Seeded, StillDrifted
  <2>5. activation[a].read.schedule = job[j].schedule /\ Behind(j, activation[a].read.next)
    BY <2>1, <2>2, <2>4 DEF SeedsBehind
  <2> QED
    BY <1>0, <2>1, <2>3, <2>4, <2>5, PlannedClock
<1>5. CASE Inserted(j)
  <2>1. PICK s \in Schedules, policy \in Policies : Defined(j, s, policy, {})
    BY <1>5 DEF Inserted
  <2> QED
    BY <1>0, <2>1, DefinedClock
<1>6. CASE Redefined(j)
  <2> DEFINE queued == {q \in rows[j] : q.status # "pending"}
  <2>1. PICK s \in Schedules, policy \in Policies : Defined(j, s, policy, queued)
    BY <1>6 DEF Redefined
  <2>2. queued \in SUBSET rows[j] /\ \A o \in queued : o.status # "pending"
    OBVIOUS
  <2> HIDE DEF queued
  <2> QED
    BY <1>0, <2>1, <2>2, DefinedClock
<1>7. CASE Requeued(j)
  <2>1. /\ job[j] # Absent /\ job'[j].schedule = job[j].schedule
        /\ job'[j].next = job[j].next /\ origin'[j] = origin[j]
        /\ SameInstants(rows[j], rows'[j]) /\ dropped'[j] = dropped[j]
        /\ passedOver'[j] = passedOver[j] /\ j \notin drifted
    BY <1>7 DEF Requeued, StillDrifted
  <2>2. \A i : Accounted(j, i) => Accounted(j, i)'
    BY <2>1 DEF SameInstants, Accounted
  <2>3. \A u : Behind(j, u) => Behind(j, u)'
    BY <2>1, <2>2 DEF Behind
  <2>4. PICK u, f : u = job[j].next /\ f = origin[j]
    OBVIOUS
  <2>5. u # Never => Behind(j, u)'
    BY <2>1, <2>3, <2>4 DEF ClockSound
  <2>6. u = Never /\ f # Never => Accounted(j, f)'
    BY <2>1, <2>2, <2>4 DEF ClockSound
  <2>7. ASSUME NEW n \in rows'[j], Live(n)
        PROVE  \/ n.at \in passedOver[j]
               \/ f \in Int /\ IsFire(job[j].schedule, f, n.at)
    BY <2>1, <2>4, <2>7 DEF ClockSound, SameInstants
  <2>8. (Behind(j, u)' => Behind(j, job[j].next)') /\ (Accounted(j, f)' => Accounted(j, origin[j])')
    BY <2>1, <2>4 DEF Behind, Accounted
  <2> QED
    BY <2>1, <2>4, <2>5, <2>6, <2>7, <2>8 DEF ClockSound
<1>8. CASE Removed(j)
  BY <1>8 DEF Removed, ClockSound
<1> QED
  BY <1>1, <1>2, <1>3, <1>4, <1>5, <1>6, <1>7, <1>8 DEF JobStep

\* An activation is seeding because it was, or because it just read.
LEMMA SeedingSince ==
  ASSUME MaterializerAssumption, Shape, [Next]_vars, NEW a \in Activators,
         activation'[a].pc = "seeding"
  PROVE  activation'[a] = activation[a] \/ SeedRead(a)
<1>0. DOMAIN activation = Activators /\ NoActivation.pc # "seeding"
  BY Nulls DEF Shape, TypeOK
<1>1. CASE UNCHANGED vars
  BY <1>1 DEF vars
<1>2. ASSUME NEW p \in Passes,
             Rollback(p) \/ \E S \in SUBSET Jobs : Claim(p, S) \/ Commit(p, S)
      PROVE  activation' = activation
  BY <1>2 DEF Claim, Commit, Rollback
<1>3. ASSUME NEW b \in Activators, NEW j \in Jobs, FindExisting(b, j)
      PROVE  activation'[a] = activation[a]
  <2>1. activation' = [activation EXCEPT ![b] =
                         [NoActivation EXCEPT !.pc = "inserting", !.name = j]]
    BY <1>3 DEF FindExisting
  <2>2. [NoActivation EXCEPT !.pc = "inserting", !.name = j].pc = "inserting"
    BY DEF NoActivation
  <2> QED
    BY <1>0, <2>1, <2>2
<1>4. ASSUME NEW b \in Activators,
             SeedCommit(b) \/ \E s \in Schedules, policy \in Policies : InsertMany(b, s, policy)
      PROVE  activation'[a] = activation[a]
  <2>1. activation' = [activation EXCEPT ![b] = NoActivation]
    BY <1>4 DEF SeedCommit, InsertMany
  <2> QED
    BY <1>0, <2>1
<1>5. ASSUME NEW b \in Activators, SeedRead(b)
      PROVE  activation'[a] = activation[a] \/ SeedRead(a)
  BY <1>0, <1>5 DEF SeedRead
<1>6. ASSUME NEW j \in Jobs, NEW policy \in Policies,
             UpdateMisfirePolicy(j, policy) \/ \E s \in Schedules : Redefine(j, s, policy)
      PROVE  activation' = activation
  BY <1>6 DEF Redefine, UpdateMisfirePolicy
<1>7. ASSUME NEW j \in Jobs, DeleteJob(j)
      PROVE  activation'[a] = activation[a]
  BY <1>0, <1>7 DEF DeleteJob
<1>8. ASSUME NEW j \in Jobs, NEW o \in rows[j], RowStep(j, o)
      PROVE  activation' = activation
  BY <1>8 DEF RowStep, Take, Settle, Release, Retry, RetireMissed, Restamp
<1>9. CASE Tick
  BY <1>9 DEF Tick
<1> QED
  BY <1>1, <1>2, <1>3, <1>4, <1>5, <1>6, <1>7, <1>8, <1>9 DEF Next, RowStep

\* What a seed pass read stays behind the clock, unless the rule is edited.
LEMMA SeedsBehindStep ==
  ASSUME MaterializerAssumption, Shape, \A j \in Jobs : ClockSound(j), SeedsBehind,
         [Next]_vars
  PROVE  SeedsBehind'
<1> SUFFICES ASSUME NEW a \in Activators, activation'[a].pc = "seeding",
                    activation'[a].name \notin drifted'
             PROVE  /\ activation'[a].read.schedule = job'[activation'[a].name].schedule
                    /\ Behind(activation[a].name, activation[a].read.next)'
  BY DEF SeedsBehind
<1>1. CASE activation'[a] = activation[a]
  <2>0. activation[a].pc = "seeding"
    BY <1>1
  <2>1. PICK j, r : j = activation[a].name /\ r = activation[a].read
    OBVIOUS
  <2>a. j \in Jobs /\ job[j] # Absent
    BY <2>0, <2>1, SeedHolds
  <2>3. ~Removed(j)
    BY <1>1, <2>0, <2>1 DEF Removed
  <2>b. Seeding(j) /\ j \notin drifted'
    BY <1>1, <2>0, <2>1 DEF Seeding
  <2>4. ~Redefined(j)
    BY <2>b DEF Redefined, Defined
  <2>5. JobStep(j)
    BY <2>a, JobSteps
  <2>6. /\ job'[j].schedule = job[j].schedule /\ origin'[j] = origin[j]
        /\ \A i : Accounted(j, i) => Accounted(j, i)'
    BY <2>a, <2>3, <2>4, <2>5, DefinitionKept
  <2>c. j \notin drifted
    BY <2>a, <2>b, <2>3, <2>4, <2>5
    DEF JobStep, Untouched, PlannedByPass, DeferredByPass, Seeded, Inserted, Requeued,
        StillDrifted
  <2>2. r.schedule = job[j].schedule /\ Behind(j, r.next)
    BY <2>0, <2>1, <2>c DEF SeedsBehind
  <2>7. Behind(j, r.next)'
    BY <2>2, <2>6 DEF Behind
  <2>8. activation'[a].name = j /\ activation'[a].read = r
    BY <1>1, <2>1
  <2> QED
    BY <2>2, <2>6, <2>7, <2>8 DEF Behind
<1>2. CASE SeedRead(a)
  <2>1. PICK j, r : j = activation[a].name /\ r = job[activation[a].name]
    OBVIOUS
  <2>2. /\ job[j] # Absent /\ activation[a].pc = "inserting"
        /\ job' = job /\ rows' = rows /\ origin' = origin /\ dropped' = dropped
        /\ drifted' = drifted
        /\ activation' = [activation EXCEPT ![a] =
             IF r.next = Never THEN NoActivation
             ELSE [pc |-> "seeding", name |-> j, at |-> now, read |-> r]]
    BY <1>2, <2>1 DEF SeedRead, history
  <2>3. j \in Jobs /\ DOMAIN activation = Activators
    BY <2>1, <2>2 DEF Shape, SeedsSound, TypeOK
  <2>4. r.next # Never /\ activation'[a].name = j /\ activation'[a].read = r
    BY <2>2, <2>3, Nulls
  <2>5. Behind(j, r.next)
    BY <2>1, <2>2, <2>3, <2>4 DEF ClockSound
  <2>6. Behind(j, r.next)'
    BY <2>2, <2>5 DEF Behind, Accounted
  <2> QED
    BY <2>1, <2>2, <2>4, <2>6 DEF Behind
<1> QED
  BY <1>1, <1>2, SeedingSince

\* The invariant of the accounts.
Accounts == Shape /\ (\A j \in Jobs : ClockSound(j)) /\ SeedsBehind

\* The accounts are right in every state.
LEMMA AccountsAlways == Spec => []Accounts
<1>1. Init => Accounts
  <2> SUFFICES ASSUME Init PROVE Accounts
    OBVIOUS
  <2>1. Shape
    BY ShapeInit, MaterializerAssumption
  <2>2. (\A j \in Jobs : ClockSound(j)) /\ SeedsBehind
    BY Nulls, MaterializerAssumption DEF Init, ClockSound, SeedsBehind
  <2> QED
    BY <2>1, <2>2 DEF Accounts
<1>2. Accounts /\ [Next]_vars => Accounts'
  <2> SUFFICES ASSUME Accounts, [Next]_vars PROVE Accounts'
    OBVIOUS
  <2>1. Shape'
    BY ShapeStep, MaterializerAssumption DEF Accounts
  <2>2. \A j \in Jobs : ClockSound(j)'
    BY JobSteps, ClockStep, MaterializerAssumption DEF Accounts
  <2>3. SeedsBehind'
    BY SeedsBehindStep, MaterializerAssumption DEF Accounts
  <2> QED
    BY <2>1, <2>2, <2>3 DEF Accounts
<1> QED
  BY <1>1, <1>2, PTL DEF Spec

\* The clock of a job moves past no instant unaccounted: every fire behind it is
\* recorded, or a misfire policy discarded it.  Whatever the window, the lookaheads,
\* the caps and the policies; whichever passes and activations run at once, are rolled
\* back, or plan from a clock that has moved on; and for however many jobs, some of
\* which may fail to be planned or be edited under an activation that seeds them.
THEOREM ClockLosesNothing == Spec => []EveryFireAccounted
<1>1. Accounts => EveryFireAccounted
  <2> SUFFICES ASSUME Accounts, NEW j \in Jobs, j \notin drifted,
                      job[j] # Absent, origin[j] # Never,
                      NEW i \in OccurrencesFrom(job[j].schedule, origin[j],
                                  IF job[j].next = Never THEN origin[j] ELSE job[j].next - 1)
               PROVE  Accounted(j, i)
    BY DEF EveryFireAccounted, Fires, Accounted
  <2>1. JobTyped(j) /\ ClockSound(j)
    BY DEF Accounts, Shape
  <2>2. origin[j] \in Int /\ (job[j].next = Never \/ job[j].next \in Int)
    BY <2>1 DEF JobTyped, Job
  <2>3. CASE job[j].next = Never
    <3>1. i = origin[j]
      BY <2>2, <2>3 DEF OccurrencesFrom
    <3> QED
      BY <2>1, <2>3, <3>1 DEF ClockSound
  <2>4. CASE job[j].next # Never
    <3>1. IsFire(job[j].schedule, origin[j], i) /\ i =< job[j].next - 1
      BY <2>2, <2>4, WalkIsFires
    <3>2. i < job[j].next
      BY <2>2, <2>4, <3>1 DEF IsFire
    <3>3. Behind(j, job[j].next)
      BY <2>1, <2>4 DEF ClockSound
    <3> QED
      BY <3>1, <3>2, <3>3 DEF Behind
  <2> QED
    BY <2>3, <2>4
<1> QED
  BY <1>1, AccountsAlways, PTL

\* What waits to run is a fire of the present definition of its job, but what was in
\* flight when an edit or a catch-up came by: no pass records an instant the schedule
\* does not have, and an edit leaves none of the old one queued.
THEOREM QueueHoldsFires == Spec => []EditsWithdraw
<1>1. Accounts => EditsWithdraw
  <2> SUFFICES ASSUME Accounts, NEW j \in Jobs, j \notin drifted,
                      NEW o \in rows[j], o.status = "pending",
                      o.at \notin passedOver[j]
               PROVE  o.at \in Fires(j, o.at)
    BY DEF EditsWithdraw
  <2>1. JobTyped(j) /\ ClockSound(j)
    BY DEF Accounts, Shape
  <2>2. origin[j] \in Int /\ IsFire(job[j].schedule, origin[j], o.at)
    BY <2>1 DEF ClockSound, JobTyped, Live
  <2>3. o.at \in Int /\ origin[j] # Never
    BY <2>2, Nulls, MaterializerAssumption DEF IsFire
  <2> QED
    BY <2>2, <2>3, WalkIsFires DEF Fires
<1> QED
  BY <1>1, AccountsAlways, PTL

-----------------------------------------------------------------------------
(* After a catch-up run.                                                   *)

\* A job caught up: the clock is past the catch-up run, and nothing older is live but
\* what was in flight.
CaughtUpSound(j) ==
  caughtUp[j] # Never =>
    /\ caughtUp[j] =< now
    /\ job[j].next = Never \/ caughtUp[j] < job[j].next
    /\ \A o \in rows[j] : Live(o) => caughtUp[j] =< o.at \/ o.at \in passedOver[j]

\* A pass that holds a job read the time after the job's latest catch-up.
LocksAfterCatchUp ==
  \A p \in Passes : \A j \in pass[p].jobs :
    caughtUp[j] # Never => caughtUp[j] =< pass[p].at

\* A job that a pass holds was held before, and left alone, or is claimed now.
LEMMA HeldSince ==
  ASSUME MaterializerAssumption, Shape, [Next]_vars,
         NEW p \in Passes, NEW j \in pass'[p].jobs
  PROVE  \/ /\ pass'[p] = pass[p]
            /\ j \in Jobs => caughtUp'[j] = caughtUp[j]
         \/ pass'[p].at = now /\ caughtUp' = caughtUp
<1> DEFINE Kept_ == pass'[p] = pass[p] /\ (j \in Jobs => caughtUp'[j] = caughtUp[j])
           New_ == pass'[p].at = now /\ caughtUp' = caughtUp
<1> SUFFICES Kept_ \/ New_
  OBVIOUS
<1>0. DOMAIN pass = Passes /\ DOMAIN caughtUp = Jobs
  BY DEF Shape, TypeOK, Tables
<1>l. ASSUME pass' = pass, NEW i \in Jobs, ~Locked(i),
             \A k \in Jobs : k # i => caughtUp'[k] = caughtUp[k]
      PROVE  Kept_
  <2>1. j # i
    BY <1>l DEF Locked
  <2> QED
    BY <1>l, <2>1
<1>2. ASSUME NEW q \in Passes, NEW S \in SUBSET Jobs, Claim(q, S)
      PROVE  Kept_ \/ New_
  <2>1. /\ pass' = [pass EXCEPT ![q] = [at |-> now, jobs |-> S]]
        /\ caughtUp' = caughtUp
    BY <1>2 DEF Claim, history
  <2> QED
    BY <1>0, <2>1
<1>3. ASSUME NEW q \in Passes, Rollback(q) \/ \E S \in SUBSET Jobs : Commit(q, S)
      PROVE  Kept_
  <2>1. /\ pass' = [pass EXCEPT ![q] = Idle]
        /\ \A k \in Jobs : k \notin pass[q].jobs => caughtUp'[k] = caughtUp[k]
    BY <1>3 DEF Commit, Rollback, history
  <2>2. p # q /\ pass'[p] = pass[p]
    BY <1>0, <2>1, Nulls
  <2>3. j \notin pass[q].jobs
    BY <2>2 DEF Shape, LocksSound
  <2> QED
    BY <2>1, <2>2, <2>3
<1>4. ASSUME NEW a \in Activators, SeedRead(a) \/ \E i \in Jobs : FindExisting(a, i)
      PROVE  Kept_
  BY <1>4 DEF FindExisting, SeedRead, history
<1>5. ASSUME NEW a \in Activators, NEW s \in Schedules, NEW policy \in Policies,
             InsertMany(a, s, policy)
      PROVE  Kept_
  <2>1. PICK i : i = activation[a].name
    OBVIOUS
  <2>2. /\ i \in Jobs /\ job[i] = Absent /\ Define(i, s, policy, {})
        /\ pass' = pass
    BY <1>5, <2>1 DEF InsertMany, Shape, SeedsSound
  <2>3. \A k \in Jobs : k # i => caughtUp'[k] = caughtUp[k]
    BY <2>2, DefineJobs DEF Untouched
  <2>4. ~Locked(i)
    BY <2>2, LockedExists
  <2> QED
    BY <1>l, <2>2, <2>3, <2>4
<1>6. ASSUME NEW a \in Activators, SeedCommit(a)
      PROVE  Kept_
  <2>1. PICK i : i = activation[a].name
    OBVIOUS
  <2>2. /\ i \in Jobs /\ ~Locked(i) /\ pass' = pass
        /\ \A k \in Jobs : k # i => caughtUp'[k] = caughtUp[k]
    BY <1>0, <1>6, <2>1 DEF SeedCommit, Shape, SeedsSound
  <2> QED
    BY <1>l, <2>2
<1>7. ASSUME NEW i \in Jobs, NEW s \in Schedules, NEW policy \in Policies,
             Redefine(i, s, policy)
      PROVE  Kept_
  <2>1. /\ ~Locked(i) /\ pass' = pass
        /\ Define(i, s, policy, {o \in rows[i] : o.status # "pending"})
    BY <1>7 DEF Redefine
  <2>2. \A k \in Jobs : k # i => caughtUp'[k] = caughtUp[k]
    BY <2>1, DefineJobs DEF Untouched
  <2> QED
    BY <1>l, <2>1, <2>2
<1>8. ASSUME NEW i \in Jobs, DeleteJob(i) \/ \E policy \in Policies : UpdateMisfirePolicy(i, policy)
      PROVE  Kept_
  <2>1. /\ ~Locked(i) /\ pass' = pass
        /\ \A k \in Jobs : k # i => caughtUp'[k] = caughtUp[k]
    BY <1>0, <1>8 DEF DeleteJob, UpdateMisfirePolicy, history
  <2> QED
    BY <1>l, <2>1
<1>9. ASSUME NEW i \in Jobs, NEW o \in rows[i], RowStep(i, o)
      PROVE  Kept_
  BY <1>9 DEF RowStep, Take, Settle, Release, Retry, RetireMissed, Restamp, history
<1>10. ASSUME Tick
       PROVE  Kept_
  BY <1>10 DEF Tick, history
<1> HIDE DEF Kept_, New_
<1>11. ASSUME UNCHANGED vars
       PROVE  Kept_
  BY <1>11 DEF vars, history, Kept_
<1> QED
  BY <1>2, <1>3, <1>4, <1>5, <1>6, <1>7, <1>8, <1>9, <1>10, <1>11 DEF Next, RowStep

\* A plan of a clock past the catch-up keeps the queue and the clock past it.
LEMMA PlannedCaughtUp ==
  ASSUME MaterializerAssumption, NEW j \in Jobs, JobTyped(j), CaughtUpSound(j),
         NEW b \in Job, b.next # Never, now \in Nat,
         now' \in Nat, now =< now',
         NEW at \in Nat, at =< now, NEW plan,
         \/ plan = PlanOccurrences(b, at)
         \/ /\ plan = Deferred(b, at) /\ b.next = job[j].next
            /\ caughtUp[j] # Never => caughtUp[j] =< at,
         Planned(j, b, plan, at), job[j] # Absent
  PROVE  CaughtUpSound(j)'
<1>1. b.next \in Int /\ at \in Int /\ caughtUp[j] \in Int \cup {Never} /\ Never \notin Int
  BY Nulls DEF Job, JobTyped
<1>2. /\ job'[j].next = plan.next
      /\ caughtUp'[j] = IF plan.catchUp = Never /\ job[j].next = b.next
                          THEN caughtUp[j] ELSE plan.catchUp
  <2>1. job[j] \in Job
    BY DEF JobTyped
  <2> QED
    BY <2>1 DEF Planned, Advanced, Job
<1>3. /\ plan.occurrences \in SUBSET Int /\ plan.next \in Int \cup {Never}
      /\ plan.catchUp \in Int \cup {Never}
  BY PlanTyped
<1>4. /\ \A n \in rows'[j] : Live(n) => n \in rows[j] \/ n.at \in plan.occurrences
      /\ plan.catchUp # Never =>
           \A n \in rows'[j] : Live(n) =>
             plan.catchUp =< n.at \/ n.at \in Overtaken(rows[j], plan.catchUp)
  BY PlannedQueue
<1>p. passedOver'[j] = passedOver[j] \cup Overtaken(rows[j], plan.catchUp)
  BY DEF Planned
<1>5. /\ plan.catchUp # Never =>
           plan.catchUp =< at /\ (plan.next = Never \/ plan.catchUp < plan.next)
      /\ \A i \in plan.occurrences : b.next =< i
      /\ \/ plan.next = Never \/ b.next =< plan.next
         \/ at < plan.next /\ (caughtUp[j] # Never => caughtUp[j] =< at)
  <2>1. CASE plan = PlanOccurrences(b, at)
    <3>1. /\ plan.catchUp # Never => plan.catchUp \in plan.occurrences /\ plan.catchUp =< at
          /\ \A i \in plan.occurrences \cup plan.dropped : IsFire(b.schedule, b.next, i)
          /\ plan.next # Never =>
               /\ IsFire(b.schedule, b.next, plan.next)
               /\ \A i \in plan.occurrences \cup plan.dropped : i < plan.next
      BY <1>1, <2>1, PlanFacts
    <3> QED
      BY <3>1 DEF IsFire
  <2>2. CASE plan = Deferred(b, at) /\ (caughtUp[j] # Never => caughtUp[j] =< at)
    BY <1>1, <2>2 DEF Deferred, MaterializerAssumption
  <2> QED
    BY <2>1, <2>2
<1>6. CASE plan.catchUp # Never
  <2>1. caughtUp'[j] = plan.catchUp /\ plan.catchUp \in Int
    BY <1>2, <1>3, <1>6
  <2>2. plan.catchUp =< now'
    BY <1>1, <1>5, <1>6, <2>1
  <2> QED
    BY <1>p, <1>2, <1>4, <1>5, <1>6, <2>1, <2>2 DEF CaughtUpSound
<1>8. CASE plan.catchUp = Never /\ job[j].next # b.next
  BY <1>2, <1>8 DEF CaughtUpSound
<1>7. CASE plan.catchUp = Never /\ job[j].next = b.next
  <2>1. caughtUp'[j] = caughtUp[j]
    BY <1>2, <1>7
  <2>2. ASSUME caughtUp[j] # Never
        PROVE  /\ caughtUp[j] =< now'
               /\ plan.next = Never \/ caughtUp[j] < plan.next
               /\ \A n \in rows'[j] : Live(n) =>
                    caughtUp[j] =< n.at \/ n.at \in passedOver'[j]
    <3>1. PICK c \in Int : c = caughtUp[j]
      BY <1>1, <2>2
    <3>2. c =< now /\ c < b.next
      BY <1>7, <2>2, <3>1 DEF CaughtUpSound
    <3>3. c =< now'
      BY <3>2
    <3>4. plan.next = Never \/ c < plan.next
      BY <1>1, <1>3, <1>5, <3>1, <3>2
    <3>5. ASSUME NEW n \in rows'[j], Live(n)
          PROVE  c =< n.at \/ n.at \in passedOver'[j]
      <4>1. CASE n \in rows[j]
        BY <1>p, <2>2, <3>1, <3>5, <4>1 DEF CaughtUpSound
      <4>2. CASE n.at \in plan.occurrences
        <5>1. n.at \in Int /\ b.next =< n.at
          BY <1>3, <1>5, <4>2
        <5> QED
          BY <1>1, <3>2, <5>1
      <4> QED
        BY <1>4, <3>5, <4>1, <4>2
    <3> QED
      BY <3>1, <3>3, <3>4, <3>5
  <2> QED
    BY <1>2, <2>1, <2>2 DEF CaughtUpSound
<1> QED
  BY <1>6, <1>7, <1>8

\* A step of one job keeps its catch-ups.
LEMMA CaughtUpStep ==
  ASSUME MaterializerAssumption, Shape, NEW j \in Jobs, CaughtUpSound(j),
         LocksAfterCatchUp, now' \in Nat, now =< now', JobStep(j)
  PROVE  CaughtUpSound(j)'
<1>0. JobTyped(j) /\ now \in Nat
  BY DEF Shape, TypeOK
<1>1. ASSUME caughtUp'[j] = caughtUp[j], job'[j].next = job[j].next,
             passedOver'[j] = passedOver[j],
             \A n \in rows'[j] : \E o \in rows[j] : n.at = o.at /\ (Live(n) => Live(o))
      PROVE  CaughtUpSound(j)'
  <2>1. caughtUp[j] \in Int \cup {Never}
    BY <1>0 DEF JobTyped
  <2>2. caughtUp[j] # Never => caughtUp[j] =< now'
    BY <1>0, <2>1 DEF CaughtUpSound
  <2> QED
    BY <1>1, <2>2 DEF CaughtUpSound
<1>2. CASE Untouched(j)
  BY <1>1, <1>2 DEF Untouched
<1>3. CASE Requeued(j)
  BY <1>1, <1>3 DEF Requeued, SameInstants
<1>4. CASE PlannedByPass(j) \/ DeferredByPass(j)
  <2>1. PICK p \in Passes :
          /\ j \in pass[p].jobs
          /\ \/ Planned(j, job[j], PlanOccurrences(job[j], pass[p].at), pass[p].at)
             \/ Planned(j, job[j], Deferred(job[j], pass[p].at), pass[p].at)
    BY <1>4 DEF PlannedByPass, DeferredByPass
  <2>2. /\ pass[p].at \in Nat /\ pass[p].at =< now
        /\ job[j] \in Job /\ job[j].next # Never /\ job[j] # Absent
    BY <2>1, PassHolds
  <2>3. caughtUp[j] # Never => caughtUp[j] =< pass[p].at
    BY <2>1 DEF LocksAfterCatchUp
  <2> QED
    BY <1>0, <2>1, <2>2, <2>3, PlannedCaughtUp
<1>5. CASE Seeded(j)
  <2>1. PICK a \in Activators :
          /\ SeedCommit(a) /\ activation[a].name = j
          /\ Planned(j, activation[a].read,
               PlanOccurrences(activation[a].read, activation[a].at), activation[a].at)
    BY <1>5 DEF Seeded
  <2>2. activation[a].pc = "seeding"
    BY <2>1 DEF SeedCommit
  <2>3. /\ activation[a].at \in Nat /\ activation[a].read \in Job
        /\ activation[a].read.next # Never /\ job[j] # Absent
        /\ activation[a].at =< now
    BY <2>1, <2>2, SeedHolds DEF Shape, SeedsSound
  <2> QED
    BY <1>0, <2>1, <2>3, PlannedCaughtUp
<1>6. CASE Inserted(j) \/ Redefined(j)
  BY <1>6 DEF Inserted, Redefined, Defined, CaughtUpSound
<1>7. CASE Removed(j)
  BY <1>7 DEF Removed, CaughtUpSound
<1> QED
  BY <1>2, <1>3, <1>4, <1>5, <1>6, <1>7 DEF JobStep

\* The invariant of the catch-ups.
CatchUps == Shape /\ (\A j \in Jobs : CaughtUpSound(j)) /\ LocksAfterCatchUp

\* Catch-ups are right in every state.
LEMMA CatchUpsAlways == Spec => []CatchUps
<1>1. Init => CatchUps
  <2> SUFFICES ASSUME Init PROVE CatchUps
    OBVIOUS
  <2>1. Shape
    BY ShapeInit, MaterializerAssumption
  <2>2. (\A j \in Jobs : CaughtUpSound(j)) /\ LocksAfterCatchUp
    BY Nulls, MaterializerAssumption DEF Init, CaughtUpSound, LocksAfterCatchUp
  <2> QED
    BY <2>1, <2>2 DEF CatchUps
<1>2. CatchUps /\ [Next]_vars => CatchUps'
  <2> SUFFICES ASSUME CatchUps, [Next]_vars PROVE CatchUps'
    OBVIOUS
  <2>1. Shape /\ Shape' /\ now' \in Nat /\ now =< now'
    BY ShapeStep, LocksStep, MaterializerAssumption DEF CatchUps
  <2>2. ASSUME NEW j \in Jobs
        PROVE  CaughtUpSound(j)'
    BY <2>1, JobSteps, CaughtUpStep, MaterializerAssumption DEF CatchUps
  <2>3. LocksAfterCatchUp'
    <3> SUFFICES ASSUME NEW p \in Passes, NEW j \in pass'[p].jobs, caughtUp'[j] # Never
                 PROVE  caughtUp'[j] =< pass'[p].at
      BY DEF LocksAfterCatchUp
    <3>1. j \in Jobs
      BY <2>1, Nulls, MaterializerAssumption DEF Shape, TypeOK
    <3>2. CASE pass'[p] = pass[p] /\ caughtUp'[j] = caughtUp[j]
      BY <3>2 DEF CatchUps, LocksAfterCatchUp
    <3>3. CASE pass'[p].at = now /\ caughtUp' = caughtUp
      BY <3>1, <3>3 DEF CatchUps, CaughtUpSound
    <3> QED
      BY <2>1, <3>1, <3>2, <3>3, HeldSince, MaterializerAssumption
  <2> QED
    BY <2>1, <2>2, <2>3 DEF CatchUps
<1> QED
  BY <1>1, <1>2, PTL DEF Spec

\* Once a catch-up run stands in for a backlog nothing older is left to run, but what was
\* in flight when it was recorded; whatever the policies, caps and deferrals, whichever
\* passes are rolled back, and until the job is edited or a late seed moves the clock.
THEOREM NothingOlderWaits == Spec => []SupersededRetired
<1>1. CatchUps => SupersededRetired
  <2> SUFFICES ASSUME CatchUps, NEW j \in Jobs, caughtUp[j] # Never,
                      NEW o \in rows[j], o.at < caughtUp[j], o.status = "pending",
                      o.at \notin passedOver[j]
               PROVE  FALSE
    BY DEF SupersededRetired
  <2>1. JobTyped(j) /\ CaughtUpSound(j)
    BY DEF CatchUps, Shape
  <2>2. caughtUp[j] \in Int /\ o.at \in Int /\ caughtUp[j] =< o.at
    BY <2>1 DEF JobTyped, CaughtUpSound, Occurrence, Live
  <2> QED
    BY <2>2
<1> QED
  BY <1>1, CatchUpsAlways, PTL

-----------------------------------------------------------------------------
(* A backlog under coalesce.                                               *)

\* The instants due to a plan in flight fit under the cap of a pass.
WalksFit ==
  /\ \A p \in Passes : \A j \in pass[p].jobs :
       Walk(job[j], pass[p].at) = Due(job[j], pass[p].at)
  /\ \A a \in Activators : activation[a].pc = "seeding" =>
       Walk(activation[a].read, activation[a].at) = Due(activation[a].read, activation[a].at)

\* What a policy of coalesce drops of a walk under the cap is older than the run it keeps.
LEMMA CoalesceKeepsLatest ==
  ASSUME MaterializerAssumption, NEW b \in Job, b.next \in Int, NEW at \in Int,
         b.policy.misfire = "coalesce", Walk(b, at) = Due(b, at),
         PlanOccurrences(b, at).dropped # {}
  PROVE  \E g \in PlanOccurrences(b, at).occurrences :
           \A i \in PlanOccurrences(b, at).dropped : i < g
<1> DEFINE D == Due(b, at)
           behind == {i \in D : i =< at}
           ahead  == D \ behind
           K == Kept(b, at)
<1>1. \A i \in D : i \in Int /\ b.next =< i
  BY DueFacts DEF Job, MaterializerAssumption
<1>2. /\ PlanOccurrences(b, at).occurrences = K.occurrences
      /\ PlanOccurrences(b, at).dropped = D \ K.occurrences
  BY PlanIs
<1>3. \/ K.occurrences = D
      \/ behind # {} /\ K.occurrences = {Greatest(behind)} \cup ahead
  <2>1. b.policy.misfire # "skip" /\ ~(Walk(b, at) # Due(b, at))
    OBVIOUS
  <2> QED
    BY <2>1 DEF Kept, ApplyMisfirePolicy
<1>4. behind # {} /\ K.occurrences = {Greatest(behind)} \cup ahead
  BY <1>2, <1>3
<1>5. Greatest(behind) \in behind /\ \A k \in behind : k =< Greatest(behind)
  <2>1. behind \in SUBSET Int /\ \A i \in behind : i =< at
    BY <1>1
  <2> HIDE DEF behind
  <2> QED
    BY <1>4, <2>1, GreatestFacts
<1>6. \A i \in D \ K.occurrences : i \in behind /\ i # Greatest(behind)
  BY <1>4
<1>7. \A i \in behind : i \in Int
  BY <1>1
<1> HIDE DEF D, behind, ahead, K
<1>8. \A i \in D \ K.occurrences : i < Greatest(behind)
  BY <1>5, <1>6, <1>7
<1>9. Greatest(behind) \in K.occurrences
  BY <1>4
<1> QED
  BY <1>2, <1>8, <1>9

\* Of a job, a run newer than everything dropped is recorded.
BacklogSound(j) ==
  dropped[j] # {} => \E o \in rows[j] : \A i \in dropped[j] : i < o.at

\* A step of one job keeps its backlog covered.
LEMMA BacklogStep ==
  ASSUME MaterializerAssumption, \A policy \in Policies : policy.misfire = "coalesce",
         Shape, WalksFit, NEW j \in Jobs, BacklogSound(j), JobStep(j)
  PROVE  BacklogSound(j)'
<1>0. JobTyped(j) /\ now \in Nat
  BY DEF Shape, TypeOK
<1>1. CASE Untouched(j)
  BY <1>1 DEF Untouched, BacklogSound
<1>2. CASE PlannedByPass(j) \/ DeferredByPass(j) \/ Seeded(j)
  <2>1. PICK b \in Job, at \in Nat :
          /\ b.next # Never
          /\ \/ Walk(b, at) = Due(b, at) /\ Planned(j, b, PlanOccurrences(b, at), at)
             \/ Planned(j, b, Deferred(b, at), at)
    <3>1. CASE PlannedByPass(j) \/ DeferredByPass(j)
      BY <3>1, PassHolds DEF PlannedByPass, DeferredByPass, WalksFit
    <3>2. CASE Seeded(j)
      BY <3>2, SeedHolds DEF Seeded, SeedCommit, WalksFit
    <3> QED
      BY <1>2, <3>1, <3>2
  <2>2. PICK plan : /\ \/ Walk(b, at) = Due(b, at) /\ plan = PlanOccurrences(b, at)
                       \/ plan = Deferred(b, at)
                    /\ Planned(j, b, plan, at)
    BY <2>1
  <2>3. /\ \A o \in rows[j] : \E n \in rows'[j] : n.at = o.at
        /\ \A i \in plan.occurrences : \E n \in rows'[j] : n.at = i
    BY <1>0, <2>1, <2>2, PlannedQueue
  <2>4. plan.dropped # {} => \E g \in plan.occurrences : \A i \in plan.dropped : i < g
    <3>1. CASE Walk(b, at) = Due(b, at) /\ plan = PlanOccurrences(b, at)
      <4>1. b.next \in Int /\ at \in Int /\ b.policy.misfire = "coalesce"
        BY <2>1 DEF Job
      <4> QED
        BY <3>1, <4>1, CoalesceKeepsLatest
    <3>2. CASE plan = Deferred(b, at)
      BY <3>2 DEF Deferred
    <3> QED
      BY <2>2, <3>1, <3>2
  <2>5. dropped'[j] = dropped[j] \cup plan.dropped
    BY <2>2 DEF Planned
  <2>6. /\ plan.occurrences \in SUBSET Int /\ plan.dropped \in SUBSET Int
        /\ dropped[j] \in SUBSET Int /\ \A o \in rows[j] : o.at \in Int
    BY <1>0, <2>1, <2>2, PlanTyped DEF JobTyped, Occurrence
  <2>7. CASE plan.dropped = {}
    BY <2>3, <2>5, <2>7 DEF BacklogSound
  <2>8. CASE plan.dropped # {}
    <3>1. PICK g \in plan.occurrences : \A i \in plan.dropped : i < g
      BY <2>4, <2>8
    <3>2. CASE \A i \in dropped[j] : i < g
      BY <2>3, <2>5, <3>1, <3>2 DEF BacklogSound
    <3>3. CASE \E i \in dropped[j] : ~(i < g)
      <4>1. PICK o \in rows[j] : \A i \in dropped[j] : i < o.at
        BY <3>3 DEF BacklogSound
      <4>2. g < o.at
        BY <2>6, <3>3, <4>1
      <4>3. \A i \in dropped'[j] : i < o.at
        BY <2>5, <2>6, <3>1, <4>1, <4>2
      <4> QED
        BY <2>3, <4>3 DEF BacklogSound
    <3> QED
      BY <3>2, <3>3
  <2> QED
    BY <2>7, <2>8
<1>3. CASE Inserted(j) \/ Redefined(j)
  BY <1>3 DEF Inserted, Redefined, Defined, BacklogSound
<1>4. CASE Requeued(j)
  BY <1>4 DEF Requeued, SameInstants, BacklogSound
<1>5. CASE Removed(j)
  BY <1>5 DEF Removed, BacklogSound
<1> QED
  BY <1>1, <1>2, <1>3, <1>4, <1>5 DEF JobStep

\* coalesce runs the most recent missed instant and drops the rest: whatever a job has
\* had discarded, a newer run was recorded; as long as no backlog, in a pass or in a
\* seed, is longer than a pass may take of one job, and every policy is coalesce.
THEOREM LatestIsKept ==
  ASSUME \A policy \in Policies : policy.misfire = "coalesce"
  PROVE  Spec /\ []WalksFit => []BacklogCovered
<1> DEFINE Inv == Shape /\ \A j \in Jobs : BacklogSound(j)
<1>1. Init => Inv
  BY ShapeInit, MaterializerAssumption DEF Init, BacklogSound
<1>2. Inv /\ WalksFit /\ [Next]_vars => Inv'
  BY ShapeStep, JobSteps, BacklogStep, MaterializerAssumption
<1>3. Inv => BacklogCovered
  <2> SUFFICES ASSUME Inv, NEW j \in Jobs, dropped[j] # {}
               PROVE  \E o \in rows[j] : \A i \in dropped[j] : o.at > i
    BY DEF BacklogCovered
  <2>1. PICK o \in rows[j] : \A i \in dropped[j] : i < o.at
    BY DEF BacklogSound
  <2>2. o.at \in Int /\ dropped[j] \in SUBSET Int
    BY DEF Shape, JobTyped, Occurrence
  <2> QED
    BY <2>1, <2>2
<1> QED
  BY <1>1, <1>2, <1>3, PTL DEF Spec
=============================================================================
