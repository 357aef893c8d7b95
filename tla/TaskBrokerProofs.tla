-------------------------- MODULE TaskBrokerProofs --------------------------
(***************************************************************************)
(* Safety of the task broker, for any number of requests, runners, slots   *)
(* and names of offers.                                                    *)
(*                                                                         *)
(* Types           every variable and every message has its type, and no   *)
(*                 runner has more out than its slots                      *)
(* SlotLife        what the name of an offer stands for, at the runner, in *)
(*                 both channels and at the broker                         *)
(* QueueSound      what the broker tracks of each caller                   *)
(* OnceSound       the settings of a request, on their way or arrived      *)
(* Owed            whom settings on their way are for                      *)
(***************************************************************************)
EXTENDS TaskBroker, TLAPS, FiniteSetTheorems, SequenceTheorems

Distinct(s) == \A i, j \in DOMAIN s : s[i] = s[j] => i = j

\* A message of this kind about this offer is in the channel.
Mail(s, kind, o) == \E i \in DOMAIN s : s[i].kind = kind /\ s[i].offer = o
Mentions(s, o) == \E i \in DOMAIN s : s[i].offer = o
\* No message about the offer is ahead of one of this kind.
Leads(s, kind, o) ==
  \A i \in DOMAIN s : s[i].kind = kind /\ s[i].offer = o =>
       \A j \in DOMAIN s : j < i => s[j].offer # o
\* A message of this kind is the only one about the offer.
Sole(s, kind, o) ==
  \A i, j \in DOMAIN s : s[i].kind = kind /\ s[i].offer = o /\ s[j].offer = o => i = j

-----------------------------------------------------------------------------
(* Sequences.                                                              *)

\* The members of a set of naturals, counted from the least.
LEMMA NthFacts ==
  ASSUME NEW N \in Nat, NEW I \in SUBSET (1..N)
  PROVE  /\ IsFiniteSet(I) /\ Cardinality(I) \in Nat
         /\ \A n \in 1..Cardinality(I) :
              Nth(I, n) \in I /\ Cardinality({k \in I : k =< Nth(I, n)}) = n
         /\ \A i \in I : \E n \in 1..Cardinality(I) : Nth(I, n) = i
<1> DEFINE Upto(i) == {k \in I : k =< i}
           C == Cardinality(I)
           rank == [i \in I |-> Cardinality(Upto(i))]
<1>1. IsFiniteSet(I) /\ C \in Nat
  <2>1. IsFiniteSet(1..N)
    BY FS_Interval
  <2> QED
    BY <2>1, FS_Subset, FS_CardinalityType
<1>2. \A i \in I : /\ IsFiniteSet(Upto(i)) /\ Cardinality(Upto(i)) \in Nat
                   /\ Cardinality(Upto(i)) =< C /\ Cardinality(Upto(i)) >= 1
  <2> SUFFICES ASSUME NEW i \in I
               PROVE  /\ IsFiniteSet(Upto(i)) /\ Cardinality(Upto(i)) \in Nat
                      /\ Cardinality(Upto(i)) =< C /\ Cardinality(Upto(i)) >= 1
    OBVIOUS
  <2>1. Upto(i) \in SUBSET I
    OBVIOUS
  <2>2. IsFiniteSet(Upto(i)) /\ Cardinality(Upto(i)) =< C /\ Cardinality(Upto(i)) \in Nat
    BY <2>1, <1>1, FS_Subset, FS_CardinalityType
  <2>3. Upto(i) # {}
    OBVIOUS
  <2> QED
    BY <2>2, <2>3, FS_EmptySet
<1>3. \A i, j \in I : i < j => Cardinality(Upto(i)) < Cardinality(Upto(j))
  <2> SUFFICES ASSUME NEW i \in I, NEW j \in I, i < j
               PROVE  Cardinality(Upto(i)) < Cardinality(Upto(j))
    OBVIOUS
  <2>0. i \in Int /\ j \in Int /\ \A k \in I : k \in Int
    OBVIOUS
  <2>3. \A k \in Upto(i) : k \in Upto(j)
    BY <2>0
  <2>4. j \in Upto(j) /\ j \notin Upto(i)
    BY <2>0
  <2>1. Upto(i) \in SUBSET Upto(j) /\ j \in Upto(j) /\ j \notin Upto(i)
    <3> HIDE DEF Upto
    <3> QED
      BY <2>3, <2>4
  <2>2. Upto(i) # Upto(j)
    BY <2>1
  <2> QED
    BY <2>1, <2>2, <1>2, FS_Subset
<1>4. rank \in Injection(I, 1..C)
  <2>1. rank \in [I -> 1..C]
    BY <1>1, <1>2
  <2>2. \A i, j \in I : rank[i] = rank[j] => i = j
    BY <1>2, <1>3
  <2> QED
    BY <2>1, <2>2 DEF Injection, IsInjective
<1>5. IsFiniteSet(1..C) /\ Cardinality(1..C) = C
  BY <1>1, FS_Interval
<1>6. rank \in Surjection(I, 1..C)
  BY <1>4, <1>5, FS_Injection
<1>7. \A n \in 1..C : \E i \in I : Cardinality(Upto(i)) = n
  BY <1>6 DEF Surjection
<1>8. \A n \in 1..C : Nth(I, n) \in I /\ Cardinality(Upto(Nth(I, n))) = n
  BY <1>7 DEF Nth
<1>9. \A i \in I : Nth(I, Cardinality(Upto(i))) = i
  <2> SUFFICES ASSUME NEW i \in I PROVE Nth(I, Cardinality(Upto(i))) = i
    OBVIOUS
  <2>1. Cardinality(Upto(i)) \in 1..C
    BY <1>1, <1>2
  <2>2. /\ Nth(I, Cardinality(Upto(i))) \in I
        /\ Cardinality(Upto(Nth(I, Cardinality(Upto(i))))) = Cardinality(Upto(i))
    BY <2>1, <1>8
  <2>3. PICK m \in I : m = Nth(I, Cardinality(Upto(i))) /\ Cardinality(Upto(m)) = Cardinality(Upto(i))
    BY <2>2
  <2> HIDE DEF Upto
  <2>4. m \in Int /\ i \in Int
    OBVIOUS
  <2>5. ~(m < i) /\ ~(i < m)
    BY <2>3, <1>3, <1>2
  <2> QED
    BY <2>3, <2>4, <2>5
<1>10. \A i \in I : \E n \in 1..C : Nth(I, n) = i
  <2> HIDE DEF Upto, C
  <2> QED
    BY <1>1, <1>2, <1>9
<1> QED
  BY <1>1, <1>8, <1>10

\* What is left of a sequence when only the members of S are kept.
LEMMA OnlyFacts ==
  ASSUME NEW T, NEW s \in Seq(T), NEW S
  PROVE  /\ Only(s, S) \in Seq(T)
         /\ \A x : Contains(Only(s, S), x) <=> Contains(s, x) /\ x \in S
         /\ Distinct(s) => Distinct(Only(s, S))
<1> DEFINE I == {i \in DOMAIN s : s[i] \in S}
           C == Cardinality(I)
           t == Only(s, S)
<1>1. Len(s) \in Nat /\ DOMAIN s = 1..Len(s) /\ \A i \in DOMAIN s : s[i] \in T
  OBVIOUS
<1>2. I \in SUBSET (1..Len(s))
  BY <1>1
<1>3. /\ IsFiniteSet(I) /\ C \in Nat
      /\ \A n \in 1..C : Nth(I, n) \in I /\ Cardinality({k \in I : k =< Nth(I, n)}) = n
      /\ \A i \in I : \E n \in 1..C : Nth(I, n) = i
  BY <1>1, <1>2, NthFacts
<1>4. t = [n \in 1..C |-> s[Nth(I, n)]]
  BY DEF Only
<1> HIDE DEF I, C, t
<1>0. I \subseteq DOMAIN s /\ \A i \in DOMAIN s : i \in I <=> s[i] \in S
  BY DEF I
<1>5. \A n \in 1..C : Nth(I, n) \in DOMAIN s /\ s[Nth(I, n)] \in T
  BY <1>0, <1>1, <1>3
<1>6. t \in Seq(T) /\ DOMAIN t = 1..C /\ Len(t) = C
  BY <1>3, <1>4, <1>5
<1>7. ASSUME NEW x PROVE Contains(t, x) <=> Contains(s, x) /\ x \in S
  <2>1. ASSUME Contains(t, x) PROVE Contains(s, x) /\ x \in S
    <3>1. PICK n \in 1..C : t[n] = x
      BY <2>1, <1>6 DEF Contains
    <3>2. x = s[Nth(I, n)] /\ Nth(I, n) \in I
      BY <3>1, <1>3, <1>4
    <3> QED
      BY <3>2, <1>0, <1>1 DEF Contains
  <2>2. ASSUME Contains(s, x), x \in S PROVE Contains(t, x)
    <3>1. PICK i \in 1..Len(s) : s[i] = x
      BY <2>2 DEF Contains
    <3>2. i \in I
      BY <3>1, <2>2, <1>0, <1>1
    <3>3. PICK n \in 1..C : Nth(I, n) = i
      BY <3>2, <1>3
    <3>4. t[n] = x
      BY <3>1, <3>3, <1>4
    <3> QED
      BY <3>4, <1>6 DEF Contains
  <2> QED
    BY <2>1, <2>2
<1>8. ASSUME Distinct(s) PROVE Distinct(t)
  <2> SUFFICES ASSUME NEW m \in 1..C, NEW n \in 1..C, t[m] = t[n] PROVE m = n
    BY <1>6 DEF Distinct
  <2>1. s[Nth(I, m)] = s[Nth(I, n)]
    BY <1>4
  <2>2. Nth(I, m) = Nth(I, n)
    BY <2>1, <1>5, <1>8 DEF Distinct
  <2> QED
    BY <2>2, <1>3
<1> QED
  BY <1>6, <1>7, <1>8 DEF t

\* A sequence without one of its elements.
LEMMA WithoutFacts ==
  ASSUME NEW T, NEW s \in Seq(T), NEW x
  PROVE  /\ Without(s, x) \in Seq(T)
         /\ \A y : Contains(Without(s, x), y) <=> Contains(s, y) /\ y # x
         /\ Distinct(s) => Distinct(Without(s, x))
<1>1. \A y : Contains(s, y) => y \in Range(s)
  BY DEF Contains, Range
<1> QED
  BY <1>1, OnlyFacts DEF Without

\* Adding an element at the end.
LEMMA AppendFacts ==
  ASSUME NEW T, NEW s \in Seq(T), NEW x \in T
  PROVE  /\ Append(s, x) \in Seq(T)
         /\ \A y : Contains(Append(s, x), y) <=> Contains(s, y) \/ y = x
         /\ Distinct(s) /\ ~Contains(s, x) => Distinct(Append(s, x))
<1>1. /\ Append(s, x) \in Seq(T) /\ Len(Append(s, x)) = Len(s) + 1
      /\ \A i \in 1..Len(s) : Append(s, x)[i] = s[i]
      /\ Append(s, x)[Len(s) + 1] = x
      /\ Len(s) \in Nat /\ DOMAIN s = 1..Len(s)
      /\ DOMAIN Append(s, x) = 1..(Len(s) + 1)
  OBVIOUS
<1>2. ASSUME NEW y PROVE Contains(Append(s, x), y) <=> Contains(s, y) \/ y = x
  BY <1>1 DEF Contains
<1>3. ASSUME Distinct(s), ~Contains(s, x) PROVE Distinct(Append(s, x))
  BY <1>1, <1>3 DEF Contains, Distinct
<1> QED
  BY <1>1, <1>2, <1>3

\* The front and the rest of a sequence.
LEMMA SplitFacts ==
  ASSUME NEW T, NEW s \in Seq(T), NEW n \in 0..Len(s)
  PROVE  /\ SubSeq(s, 1, n) \in Seq(T) /\ Len(SubSeq(s, 1, n)) = n
         /\ \A i \in 1..n : SubSeq(s, 1, n)[i] = s[i]
         /\ SubSeq(s, n + 1, Len(s)) \in Seq(T)
         /\ Distinct(s) => /\ Distinct(SubSeq(s, 1, n))
                           /\ Distinct(SubSeq(s, n + 1, Len(s)))
         /\ \A x : Contains(SubSeq(s, 1, n), x) => Contains(s, x)
         /\ \A x : Contains(SubSeq(s, n + 1, Len(s)), x) => Contains(s, x)
         /\ Distinct(s) => \A x : Contains(SubSeq(s, 1, n), x) =>
                                    ~Contains(SubSeq(s, n + 1, Len(s)), x)
<1> DEFINE u == SubSeq(s, 1, n)
           v == SubSeq(s, n + 1, Len(s))
<1>1. Len(s) \in Nat /\ DOMAIN s = 1..Len(s) /\ \A i \in 1..Len(s) : s[i] \in T
  OBVIOUS
<1>2. /\ u \in Seq(T) /\ Len(u) = n /\ DOMAIN u = 1..n
      /\ \A i \in 1..n : u[i] = s[i]
  <2>1. \A i \in 1..n : s[i] \in T
    BY <1>1
  <2>2. /\ u \in Seq(T) /\ Len(u) = IF 1 =< n THEN n - 1 + 1 ELSE 0
        /\ \A i \in 1..(n - 1 + 1) : u[i] = s[1 + i - 1]
    BY <2>1, <1>1, SubSeqProperties
  <2> QED
    BY <2>2, <1>1
<1>3. /\ v \in Seq(T) /\ Len(v) = Len(s) - n /\ DOMAIN v = 1..(Len(s) - n)
      /\ \A i \in 1..(Len(s) - n) : v[i] = s[n + i]
  <2>1. \A i \in (n + 1)..Len(s) : s[i] \in T
    BY <1>1
  <2>2. /\ v \in Seq(T) /\ Len(v) = IF n + 1 =< Len(s) THEN Len(s) - (n + 1) + 1 ELSE 0
        /\ \A i \in 1..(Len(s) - (n + 1) + 1) : v[i] = s[(n + 1) + i - 1]
    BY <2>1, <1>1, SubSeqProperties
  <2> QED
    BY <2>2, <1>1
<1> HIDE DEF u, v
<1>4. \A x : Contains(u, x) => Contains(s, x)
  BY <1>1, <1>2 DEF Contains
<1>5. \A x : Contains(v, x) => Contains(s, x)
  BY <1>1, <1>3 DEF Contains
<1>6. ASSUME Distinct(s)
      PROVE  Distinct(u) /\ Distinct(v) /\ \A x : Contains(u, x) => ~Contains(v, x)
  <2>1. Distinct(u)
    BY <1>6, <1>1, <1>2 DEF Distinct
  <2>2. Distinct(v)
    BY <1>6, <1>1, <1>3 DEF Distinct
  <2>3. ASSUME NEW x, Contains(u, x), Contains(v, x) PROVE FALSE
    <3>1. PICK i \in 1..n : s[i] = x
      BY <2>3, <1>2 DEF Contains
    <3>2. PICK j \in 1..(Len(s) - n) : s[n + j] = x
      BY <2>3, <1>3 DEF Contains
    <3> QED
      BY <3>1, <3>2, <1>6, <1>1 DEF Distinct
  <2> QED
    BY <2>1, <2>2, <2>3
<1> QED
  BY <1>2, <1>3, <1>4, <1>5, <1>6 DEF u, v

-----------------------------------------------------------------------------
(* Channels.                                                               *)

\* What a message added at the end of a channel changes for an offer.
LEMMA MailAppend ==
  ASSUME NEW T, NEW s \in Seq(T), NEW m \in T, NEW o
  PROVE  /\ \A k : Mail(Append(s, m), k, o) <=> Mail(s, k, o) \/ (m.kind = k /\ m.offer = o)
         /\ Mentions(Append(s, m), o) <=> Mentions(s, o) \/ m.offer = o
         /\ \A k : /\ Leads(s, k, o)
                   /\ m.kind = k /\ m.offer = o => ~Mentions(s, o)
                   => Leads(Append(s, m), k, o)
         /\ \A k : /\ Sole(s, k, o)
                   /\ m.kind = k /\ m.offer = o => ~Mentions(s, o)
                   /\ Mail(s, k, o) => m.offer # o
                   => Sole(Append(s, m), k, o)
<1> DEFINE t == Append(s, m)
<1>1. /\ \A i \in 1..Len(s) : t[i] = s[i]
      /\ t[Len(s) + 1] = m
      /\ Len(s) \in Nat /\ DOMAIN s = 1..Len(s)
      /\ DOMAIN t = 1..(Len(s) + 1)
  OBVIOUS
<1> HIDE DEF t
<1>2. ASSUME NEW k PROVE Mail(t, k, o) <=> Mail(s, k, o) \/ (m.kind = k /\ m.offer = o)
  BY <1>1 DEF Mail
<1>3. Mentions(t, o) <=> Mentions(s, o) \/ m.offer = o
  BY <1>1 DEF Mentions
<1>4. ASSUME NEW k, Leads(s, k, o), m.kind = k /\ m.offer = o => ~Mentions(s, o)
      PROVE  Leads(t, k, o)
  BY <1>1, <1>4 DEF Leads, Mentions
<1>5. ASSUME NEW k, Sole(s, k, o), m.kind = k /\ m.offer = o => ~Mentions(s, o),
             Mail(s, k, o) => m.offer # o
      PROVE  Sole(t, k, o)
  BY <1>1, <1>5 DEF Sole, Mentions, Mail
<1> QED
  BY <1>2, <1>3, <1>4, <1>5 DEF t

\* What several messages added at the end change.
LEMMA MailConcat ==
  ASSUME NEW T, NEW s \in Seq(T), NEW t \in Seq(T), NEW o
  PROVE  /\ \A k : Mail(s \o t, k, o) <=> Mail(s, k, o) \/ Mail(t, k, o)
         /\ Mentions(s \o t, o) <=> Mentions(s, o) \/ Mentions(t, o)
         /\ \A k : /\ Leads(s, k, o) /\ Leads(t, k, o)
                   /\ Mail(t, k, o) => ~Mentions(s, o)
                   => Leads(s \o t, k, o)
         /\ \A k : /\ Sole(s, k, o) /\ Sole(t, k, o)
                   /\ Mail(t, k, o) => ~Mentions(s, o)
                   /\ Mail(s, k, o) => ~Mentions(t, o)
                   => Sole(s \o t, k, o)
<1> DEFINE u == s \o t
<1>1. /\ \A i \in 1..Len(s) : u[i] = s[i]
      /\ \A i \in 1..Len(t) : u[Len(s) + i] = t[i]
      /\ Len(s) \in Nat /\ DOMAIN s = 1..Len(s)
      /\ Len(t) \in Nat /\ DOMAIN t = 1..Len(t)
      /\ DOMAIN u = 1..(Len(s) + Len(t))
  OBVIOUS
<1>2. \A i \in DOMAIN u : i \in 1..Len(s) \/ (i - Len(s) \in 1..Len(t) /\ u[i] = t[i - Len(s)])
  OBVIOUS
<1> HIDE DEF u
<1>3. ASSUME NEW k PROVE Mail(u, k, o) <=> Mail(s, k, o) \/ Mail(t, k, o)
  <2>1. Mail(s, k, o) => Mail(u, k, o)
    BY <1>1 DEF Mail
  <2>2. ASSUME Mail(t, k, o) PROVE Mail(u, k, o)
    <3>1. PICK i \in 1..Len(t) : t[i].kind = k /\ t[i].offer = o
      BY <2>2, <1>1 DEF Mail
    <3>2. Len(s) + i \in DOMAIN u /\ u[Len(s) + i] = t[i]
      BY <1>1
    <3> QED
      BY <3>1, <3>2 DEF Mail
  <2>3. Mail(u, k, o) => Mail(s, k, o) \/ Mail(t, k, o)
    BY <1>1, <1>2 DEF Mail
  <2> QED
    BY <2>1, <2>2, <2>3
<1>4. Mentions(u, o) <=> Mentions(s, o) \/ Mentions(t, o)
  <2>1. Mentions(s, o) => Mentions(u, o)
    BY <1>1 DEF Mentions
  <2>2. ASSUME Mentions(t, o) PROVE Mentions(u, o)
    <3>1. PICK i \in 1..Len(t) : t[i].offer = o
      BY <2>2, <1>1 DEF Mentions
    <3>2. Len(s) + i \in DOMAIN u /\ u[Len(s) + i] = t[i]
      BY <1>1
    <3> QED
      BY <3>1, <3>2 DEF Mentions
  <2>3. Mentions(u, o) => Mentions(s, o) \/ Mentions(t, o)
    BY <1>1, <1>2 DEF Mentions
  <2> QED
    BY <2>1, <2>2, <2>3
<1>5. ASSUME NEW k, Leads(s, k, o), Leads(t, k, o), Mail(t, k, o) => ~Mentions(s, o)
      PROVE  Leads(u, k, o)
  <2> SUFFICES ASSUME NEW i \in DOMAIN u, u[i].kind = k, u[i].offer = o,
                      NEW j \in DOMAIN u, j < i
               PROVE  u[j].offer # o
    BY DEF Leads
  <2>1. CASE i \in 1..Len(s)
    <3>1. j \in 1..Len(s)
      BY <2>1, <1>1
    <3> QED
      BY <2>1, <3>1, <1>1, <1>5 DEF Leads
  <2>2. CASE i - Len(s) \in 1..Len(t) /\ u[i] = t[i - Len(s)]
    <3>1. ~Mentions(s, o)
      BY <2>2, <1>5, <1>1 DEF Mail
    <3>2. CASE j \in 1..Len(s)
      BY <3>1, <3>2, <1>1 DEF Mentions
    <3>3. CASE j - Len(s) \in 1..Len(t) /\ u[j] = t[j - Len(s)]
      <4>1. j - Len(s) < i - Len(s)
        BY <1>1
      <4> QED
        BY <2>2, <3>3, <4>1, <1>5, <1>1 DEF Leads
    <3> QED
      BY <3>2, <3>3, <1>2
  <2> QED
    BY <2>1, <2>2, <1>2
<1>6. ASSUME NEW k, Sole(s, k, o), Sole(t, k, o),
             Mail(t, k, o) => ~Mentions(s, o), Mail(s, k, o) => ~Mentions(t, o)
      PROVE  Sole(u, k, o)
  <2> SUFFICES ASSUME NEW i \in DOMAIN u, u[i].kind = k, u[i].offer = o,
                      NEW j \in DOMAIN u, u[j].offer = o
               PROVE  i = j
    BY DEF Sole
  <2>1. CASE i \in 1..Len(s)
    <3>1. Mail(s, k, o)
      BY <2>1, <1>1 DEF Mail
    <3>2. j \in 1..Len(s)
      BY <3>1, <1>1, <1>2, <1>6 DEF Mentions
    <3> QED
      BY <2>1, <3>2, <1>1, <1>6 DEF Sole
  <2>2. CASE i - Len(s) \in 1..Len(t) /\ u[i] = t[i - Len(s)]
    <3>1. Mail(t, k, o)
      BY <2>2, <1>1 DEF Mail
    <3>2. j - Len(s) \in 1..Len(t) /\ u[j] = t[j - Len(s)]
      BY <3>1, <1>1, <1>2, <1>6 DEF Mentions
    <3>3. i - Len(s) = j - Len(s)
      BY <2>2, <3>2, <1>1, <1>6 DEF Sole
    <3> QED
      BY <3>3, <1>1
  <2> QED
    BY <2>1, <2>2, <1>2
<1> QED
  BY <1>3, <1>4, <1>5, <1>6 DEF u

\* What the first message of a channel is, and what the others are.
LEMMA MailTail ==
  ASSUME NEW T, NEW s \in Seq(T), s # <<>>, NEW o
  PROVE  /\ Head(s) \in T /\ Tail(s) \in Seq(T)
         /\ \A k : Mail(s, k, o) <=> Mail(Tail(s), k, o) \/ (Head(s).kind = k /\ Head(s).offer = o)
         /\ Mentions(s, o) <=> Mentions(Tail(s), o) \/ Head(s).offer = o
         /\ \A k : Leads(s, k, o) =>
                     Leads(Tail(s), k, o) /\ (Head(s).offer = o => ~Mail(Tail(s), k, o))
         /\ \A k : Sole(s, k, o) =>
                     /\ Sole(Tail(s), k, o)
                     /\ Head(s).offer = o =>
                          /\ ~Mail(Tail(s), k, o)
                          /\ Head(s).kind = k => ~Mentions(Tail(s), o)
<1> DEFINE t == Tail(s)
           h == Head(s)
<1>1. /\ h \in T /\ t \in Seq(T) /\ Len(s) \in Nat /\ Len(s) > 0
      /\ DOMAIN s = 1..Len(s) /\ DOMAIN t = 1..(Len(s) - 1) /\ h = s[1]
      /\ \A i \in 1..(Len(s) - 1) : t[i] = s[i + 1]
  BY HeadTailProperties, LenProperties
<1>2. \A i \in DOMAIN s : i = 1 \/ (i - 1 \in DOMAIN t /\ t[i - 1] = s[i])
  BY <1>1
<1>3. \A i \in DOMAIN t : i + 1 \in DOMAIN s /\ t[i] = s[i + 1]
  BY <1>1
<1>4. 1 \in DOMAIN s /\ h = s[1]
  BY <1>1
<1>0. DOMAIN t \subseteq Nat \ {0} /\ DOMAIN s \subseteq Nat
  BY <1>1
<1> HIDE DEF t, h
<1>5. ASSUME NEW k PROVE Mail(s, k, o) <=> Mail(t, k, o) \/ (h.kind = k /\ h.offer = o)
  BY <1>2, <1>3, <1>4 DEF Mail
<1>6. Mentions(s, o) <=> Mentions(t, o) \/ h.offer = o
  BY <1>2, <1>3, <1>4 DEF Mentions
<1>7. ASSUME NEW k, Leads(s, k, o) PROVE Leads(t, k, o) /\ (h.offer = o => ~Mail(t, k, o))
  <2>1. Leads(t, k, o)
    <3> SUFFICES ASSUME NEW i \in DOMAIN t, t[i].kind = k, t[i].offer = o,
                        NEW j \in DOMAIN t, j < i
                 PROVE  t[j].offer # o
      BY DEF Leads
    <3>1. j + 1 < i + 1
      BY <1>0
    <3> QED
      BY <3>1, <1>3, <1>7 DEF Leads
  <2>2. ASSUME h.offer = o, Mail(t, k, o) PROVE FALSE
    <3>1. PICK i \in DOMAIN t : t[i].kind = k /\ t[i].offer = o
      BY <2>2 DEF Mail
    <3>2. 1 < i + 1
      BY <1>0
    <3> QED
      BY <3>1, <3>2, <2>2, <1>3, <1>4, <1>7 DEF Leads
  <2> QED
    BY <2>1, <2>2
<1>8. ASSUME NEW k, Sole(s, k, o)
      PROVE  /\ Sole(t, k, o)
             /\ h.offer = o => ~Mail(t, k, o) /\ (h.kind = k => ~Mentions(t, o))
  <2>1. Sole(t, k, o)
    <3> SUFFICES ASSUME NEW i \in DOMAIN t, t[i].kind = k, t[i].offer = o,
                        NEW j \in DOMAIN t, t[j].offer = o
                 PROVE  i = j
      BY DEF Sole
    <3>1. i + 1 = j + 1
      BY <1>3, <1>8 DEF Sole
    <3> QED
      BY <3>1, <1>0
  <2>2. ASSUME h.offer = o, Mail(t, k, o) PROVE FALSE
    <3>1. PICK i \in DOMAIN t : t[i].kind = k /\ t[i].offer = o
      BY <2>2 DEF Mail
    <3>2. i + 1 = 1
      BY <3>1, <2>2, <1>3, <1>4, <1>8 DEF Sole
    <3> QED
      BY <3>2, <1>0
  <2>3. ASSUME h.offer = o, h.kind = k, Mentions(t, o) PROVE FALSE
    <3>1. PICK i \in DOMAIN t : t[i].offer = o
      BY <2>3 DEF Mentions
    <3>2. i + 1 = 1
      BY <3>1, <2>3, <1>3, <1>4, <1>8 DEF Sole
    <3> QED
      BY <3>2, <1>0
  <2> QED
    BY <2>1, <2>2, <2>3
<1> QED
  BY <1>1, <1>5, <1>6, <1>7, <1>8 DEF t, h

\* An empty channel.
LEMMA MailNone ==
  ASSUME NEW o
  PROVE  /\ \A k : ~Mail(<<>>, k, o) /\ Leads(<<>>, k, o) /\ Sole(<<>>, k, o)
         /\ ~Mentions(<<>>, o)
BY DEF Mail, Mentions, Leads, Sole

-----------------------------------------------------------------------------
(* Types.                                                                  *)

\* The messages a runner, and the broker from a runner, may receive.
Calls(r) ==
  {Message(k, o) : k \in {"accept", "cancel"}, o \in OffersOf({r})}
    \cup {Settings(o, q) : o \in OffersOf({r}), q \in Requests}
    \cup {Notice(k) : k \in {"registered", "drain"}}
Answers(r) ==
  {Message(k, o) : k \in {"offer", "accepted", "rejected", "deferred", "result"},
                   o \in OffersOf({r})}

ChannelsTyped(channels) ==
  /\ channels = [r \in Runners |-> channels[r]]
  /\ \A r \in Runners : channels[r] \in Seq(Calls(r))

AnswersTyped(channels) ==
  /\ channels = [r \in Runners |-> channels[r]]
  /\ \A r \in Runners : channels[r] \in Seq(Answers(r))

Types ==
  /\ TypeOK
  /\ ChannelsTyped(toRunner)
  /\ AnswersTyped(toBroker)
  /\ SlotsRespected

\* The name of an offer is that of its runner and a number; it is not that of a notice.
LEMMA OfferFacts ==
  ASSUME NEW o \in Offers
  PROVE  RunnerOf(o) \in Runners /\ o \in OffersOf({RunnerOf(o)}) /\ o # <<>>
<1>1. PICK r \in Runners, i \in 1..NumOffers : o = <<r, i>>
  BY DEF Offers
<1>2. Len(o) = 2 /\ Len(<<>>) = 0
  BY <1>1
<1> QED
  BY <1>1, <1>2 DEF RunnerOf, OffersOf

\* What a runner may be told.
LEMMA CallFacts ==
  ASSUME NEW r \in Runners, NEW m \in Calls(r)
  PROVE  /\ m.kind \in {"accept", "cancel", "settings", "registered", "drain"}
         /\ m.kind \in {"accept", "cancel"} =>
              m.offer \in OffersOf({r}) /\ m = Message(m.kind, m.offer) /\ m.request = 0
         /\ m.kind = "settings" =>
              /\ m.offer \in OffersOf({r}) /\ m.request \in Requests
              /\ m = Settings(m.offer, m.request)
         /\ m.kind \in {"registered", "drain"} => m.offer = <<>>
<1> DEFINE Told == {Message(k, o) : k \in {"accept", "cancel"}, o \in OffersOf({r})}
           Given == {Settings(o, q) : o \in OffersOf({r}), q \in Requests}
           Noticed == {Notice(k) : k \in {"registered", "drain"}}
<1>1. CASE m \in Told
  <2>1. PICK k \in {"accept", "cancel"}, o \in OffersOf({r}) : m = Message(k, o)
    BY <1>1
  <2> QED
    BY <2>1 DEF Message
<1>2. CASE m \in Given
  <2>1. PICK o \in OffersOf({r}), q \in Requests : m = Settings(o, q)
    BY <1>2
  <2> QED
    BY <2>1 DEF Settings
<1>3. CASE m \in Noticed
  <2>1. PICK k \in {"registered", "drain"} : m = Notice(k)
    BY <1>3
  <2> QED
    BY <2>1 DEF Notice
<1>4. \/ m \in Told
      \/ m \in Given
      \/ m \in Noticed
  BY DEF Calls
<1> HIDE DEF Told, Given, Noticed
<1> QED
  BY <1>1, <1>2, <1>3, <1>4

\* Its fields, and that a runner may be told it.
LEMMA CallMade ==
  ASSUME NEW r \in Runners, NEW o \in OffersOf({r})
  PROVE  /\ \A k \in {"accept", "cancel"} :
              /\ Message(k, o) \in Calls(r)
              /\ Message(k, o).kind = k /\ Message(k, o).offer = o
         /\ \A q \in Requests :
              /\ Settings(o, q) \in Calls(r)
              /\ Settings(o, q).kind = "settings" /\ Settings(o, q).offer = o
              /\ Settings(o, q).request = q
         /\ \A k \in {"registered", "drain"} :
              Notice(k) \in Calls(r) /\ Notice(k).kind = k /\ Notice(k).offer = <<>>
<1>1. \A k \in {"accept", "cancel"} : Message(k, o) \in Calls(r)
  <2> TAKE k \in {"accept", "cancel"}
  <2>1. Message(k, o) \in {Message(kind, p) : kind \in {"accept", "cancel"}, p \in OffersOf({r})}
    OBVIOUS
  <2> QED
    BY <2>1 DEF Calls
<1>2. \A q \in Requests : Settings(o, q) \in Calls(r)
  <2> TAKE q \in Requests
  <2>1. Settings(o, q) \in {Settings(p, a) : p \in OffersOf({r}), a \in Requests}
    OBVIOUS
  <2> QED
    BY <2>1 DEF Calls
<1>3. \A k \in {"registered", "drain"} : Notice(k) \in Calls(r)
  BY DEF Calls
<1> QED
  BY <1>1, <1>2, <1>3 DEF Message, Settings, Notice

\* What the broker may be told.
LEMMA AnswerFacts ==
  ASSUME NEW r \in Runners, NEW m \in Answers(r)
  PROVE  /\ m.kind \in {"offer", "accepted", "rejected", "deferred", "result"}
         /\ m.offer \in OffersOf({r}) /\ m = Message(m.kind, m.offer)
         /\ m.offer \in Offers /\ RunnerOf(m.offer) = r
BY DEF Answers, Message, OffersOf

\* And what the broker may.
LEMMA AnswerMade ==
  ASSUME NEW r \in Runners, NEW o \in OffersOf({r}),
         NEW k \in {"offer", "accepted", "rejected", "deferred", "result"}
  PROVE  Message(k, o) \in Answers(r) /\ Message(k, o).kind = k /\ Message(k, o).offer = o
<1>1. Message(k, o) \in
        {Message(kind, p) : kind \in {"offer", "accepted", "rejected", "deferred", "result"},
                            p \in OffersOf({r})}
  OBVIOUS
<1>2. Message(k, o) \in Answers(r)
  BY <1>1 DEF Answers
<1> QED
  BY <1>2 DEF Message

-----------------------------------------------------------------------------
(* Matching.                                                               *)

\* What a runner is asked when the offers in T are taken.
Asks(t, T, r) ==
  /\ \A i \in DOMAIN t : t[i].kind = "accept" /\ t[i].offer \in T /\ RunnerOf(t[i].offer) = r
  /\ \A o \in T : RunnerOf(o) = r => Mail(t, "accept", o)

\* The offers in T are taken, each for the request f gives it.
Matching(queue, inProgress, pool, accepts, channels, T, f) ==
  /\ pending' = queue
  /\ \A o \in T : Contains(pool, o) /\ Contains(queue, f[o]) /\ f[o] \notin inProgress
  /\ \A o : Contains(offers', o) => Contains(pool, o)
  /\ offers' \in Seq(Offers) /\ matched' \subseteq Requests
  /\ accepting' = [o \in Offers |-> IF o \in T THEN f[o] ELSE accepts[o]]
  /\ toRunner' = [r \in Runners |-> toRunner'[r]]
  /\ \A r \in Runners :
       \/ mode[r] = "gone" /\ toRunner'[r] = channels[r]
       \/ /\ mode[r] # "gone"
          /\ \E t \in Seq(Calls(r)) :
               /\ toRunner'[r] = channels[r] \o t
               /\ Asks(t, T, r)
               /\ Distinct(pool) => \A i, j \in DOMAIN t : t[i].offer = t[j].offer => i = j
  /\ Distinct(pool) =>
       /\ Distinct(offers')
       /\ \A o \in T : ~Contains(offers', o)
       /\ matched' = inProgress \cup {f[o] : o \in T}
  /\ Distinct(queue) => \A o, p \in T : f[o] = f[p] => o = p

\* settleTasks takes offers one for one for the requests not matched.
LEMMA SettleFacts ==
  ASSUME NEW queue \in Seq(Requests), NEW inProgress \in SUBSET Requests,
         NEW pool \in Seq(Offers), NEW accepts, NEW channels, NEW reachable,
         Settle(queue, inProgress, pool, accepts, channels, reachable)
  PROVE  \E T \in SUBSET Offers : \E f \in [T -> Requests] :
           Matching(queue, inProgress, pool, accepts, channels, T, f)
<1> DEFINE usable == Only(pool, OffersOf(reachable))
           free == Only(queue, Requests \ inProgress)
           n == IF Len(usable) < Len(free) THEN Len(usable) ELSE Len(free)
           taken == SubSeq(usable, 1, n)
           rest == SubSeq(usable, n + 1, Len(usable))
           Taken(r) == Only(taken, OffersOf({r}))
           T == {o \in Offers : Contains(taken, o)}
           place(o) == CHOOSE i \in 1..n : taken[i] = o
           f == [o \in T |-> free[place(o)]]
           Ask(r) == [i \in 1..Len(Taken(r)) |-> Message("accept", Taken(r)[i])]
<1>1. /\ usable \in Seq(Offers) /\ \A o : Contains(usable, o) => Contains(pool, o)
      /\ Distinct(pool) => Distinct(usable)
  BY OnlyFacts
<1>2. /\ free \in Seq(Requests)
      /\ Distinct(queue) => Distinct(free)
      /\ \A q : Contains(free, q) => Contains(queue, q) /\ q \notin inProgress
  BY OnlyFacts
<1>s. /\ pending' = queue
      /\ matched' = inProgress \cup {free[i] : i \in 1..n}
      /\ offers' = rest
      /\ accepting' = [o \in Offers |->
           IF Contains(taken, o) THEN free[place(o)] ELSE accepts[o]]
      /\ toRunner' = [r \in Runners |->
           IF mode[r] = "gone" THEN channels[r] ELSE channels[r] \o Ask(r)]
  BY DEF Settle
<1> HIDE DEF usable, free
<1>3. Len(usable) \in Nat /\ Len(free) \in Nat /\ n \in 0..Len(usable) /\ n =< Len(free)
  BY <1>1, <1>2
<1> HIDE DEF n
<1>4. /\ taken \in Seq(Offers) /\ Len(taken) = n /\ DOMAIN taken = 1..n
      /\ rest \in Seq(Offers)
      /\ Distinct(usable) => Distinct(taken) /\ Distinct(rest)
      /\ \A o : Contains(taken, o) => Contains(usable, o)
      /\ \A o : Contains(rest, o) => Contains(usable, o)
      /\ Distinct(usable) => \A o : Contains(taken, o) => ~Contains(rest, o)
  BY <1>1, <1>3, SplitFacts
<1> HIDE DEF taken, rest
<1>5. \A o \in T : place(o) \in 1..n /\ taken[place(o)] = o
  BY <1>4 DEF Contains
<1>6. \A i \in 1..n : /\ Contains(free, free[i]) /\ free[i] \in Requests
                      /\ taken[i] \in T /\ Contains(taken, taken[i])
  <2> TAKE i \in 1..n
  <2>1. i \in 1..Len(free) /\ free[i] \in Requests
    BY <1>2, <1>3
  <2>2. Contains(free, free[i])
    BY <2>1 DEF Contains
  <2>3. taken[i] \in Offers /\ Contains(taken, taken[i])
    BY <1>4 DEF Contains
  <2> QED
    BY <2>1, <2>2, <2>3
<1> HIDE DEF place
<1>7. f \in [T -> Requests]
  BY <1>5, <1>6
<1>8. \A o \in T : Contains(pool, o) /\ Contains(queue, f[o]) /\ f[o] \notin inProgress
  <2> TAKE o \in T
  <2>1. Contains(pool, o)
    BY <1>1, <1>4
  <2>2. Contains(free, f[o])
    BY <1>5, <1>6
  <2> QED
    BY <2>1, <2>2, <1>2
<1>9. matched' \subseteq Requests
  BY <1>s, <1>6
<1>10. accepting' = [o \in Offers |-> IF o \in T THEN f[o] ELSE accepts[o]]
  BY <1>s
<1>11. ASSUME NEW r \in Runners
       PROVE  /\ Ask(r) \in Seq(Calls(r)) /\ Asks(Ask(r), T, r)
              /\ Distinct(pool) =>
                   \A i, j \in DOMAIN Ask(r) : Ask(r)[i].offer = Ask(r)[j].offer => i = j
  <2> DEFINE w == Taken(r)
  <2>1. /\ w \in Seq(Offers)
        /\ \A o : Contains(w, o) <=> Contains(taken, o) /\ o \in OffersOf({r})
        /\ Distinct(taken) => Distinct(w)
    BY <1>4, OnlyFacts
  <2>a. Ask(r) = [i \in 1..Len(w) |-> Message("accept", w[i])]
    OBVIOUS
  <2> HIDE DEF w, Ask, Taken, T, f
  <2>2. Len(w) \in Nat /\ DOMAIN w = 1..Len(w)
    BY <2>1
  <2>3. \A i \in 1..Len(w) : Contains(w, w[i])
    BY <2>2 DEF Contains
  <2>4. \A i \in 1..Len(w) : w[i] \in OffersOf({r}) /\ w[i] \in T /\ RunnerOf(w[i]) = r
    BY <2>1, <2>2, <2>3 DEF OffersOf, T
  <2>5. \A i \in 1..Len(w) : Message("accept", w[i]) \in Calls(r)
    BY <2>4, CallMade
  <2>6. Ask(r) \in Seq(Calls(r)) /\ DOMAIN Ask(r) = 1..Len(w)
    BY <2>a, <2>2, <2>5
  <2>7. \A i \in 1..Len(w) : Ask(r)[i].kind = "accept" /\ Ask(r)[i].offer = w[i]
    BY <2>a DEF Message
  <2>8. ASSUME NEW o \in T, RunnerOf(o) = r PROVE Mail(Ask(r), "accept", o)
    <3>1. Contains(w, o)
      BY <2>8, <2>1 DEF OffersOf, T
    <3>2. PICK i \in 1..Len(w) : w[i] = o
      BY <3>1 DEF Contains
    <3> QED
      BY <3>2, <2>6, <2>7 DEF Mail
  <2>9. Asks(Ask(r), T, r)
    BY <2>4, <2>6, <2>7, <2>8 DEF Asks
  <2>10. ASSUME Distinct(pool), NEW i \in 1..Len(w), NEW j \in 1..Len(w),
                Ask(r)[i].offer = Ask(r)[j].offer
         PROVE  i = j
    <3>1. Distinct(w)
      BY <2>10, <2>1, <1>1, <1>4
    <3>2. w[i] = w[j]
      BY <2>10, <2>7
    <3> QED
      BY <3>1, <3>2, <2>2 DEF Distinct
  <2> QED
    BY <2>6, <2>9, <2>10
<1>12. \A r \in Runners :
       \/ mode[r] = "gone" /\ toRunner'[r] = channels[r]
       \/ /\ mode[r] # "gone"
          /\ \E t \in Seq(Calls(r)) :
               /\ toRunner'[r] = channels[r] \o t
               /\ Asks(t, T, r)
               /\ Distinct(pool) => \A i, j \in DOMAIN t : t[i].offer = t[j].offer => i = j
  <2> TAKE r \in Runners
  <2> HIDE DEF Ask, T
  <2>1. toRunner'[r] = IF mode[r] = "gone" THEN channels[r] ELSE channels[r] \o Ask(r)
    BY <1>s
  <2> QED
    BY <2>1, <1>11
<1>13. ASSUME Distinct(pool)
       PROVE  /\ Distinct(offers') /\ \A o \in T : ~Contains(offers', o)
              /\ matched' = inProgress \cup {f[o] : o \in T}
  <2>1. Distinct(offers') /\ \A o \in T : ~Contains(offers', o)
    BY <1>13, <1>1, <1>4, <1>s
  <2>2. {free[i] : i \in 1..n} = {f[o] : o \in T}
    <3>1. \A i \in 1..n : place(taken[i]) = i
      BY <1>13, <1>1, <1>4, <1>5, <1>6 DEF Distinct
    <3>2. \A i \in 1..n : taken[i] \in T /\ f[taken[i]] = free[i]
      BY <3>1, <1>6
    <3>3. \A o \in T : f[o] = free[place(o)] /\ place(o) \in 1..n
      BY <1>5
    <3> HIDE DEF f, T
    <3> QED
      BY <3>2, <3>3
  <2> QED
    BY <2>1, <2>2, <1>s
<1>14. ASSUME Distinct(queue), NEW o \in T, NEW p \in T, f[o] = f[p] PROVE o = p
  <2>1. free[place(o)] = free[place(p)]
    BY <1>14
  <2>2. place(o) = place(p)
    <3>1. place(o) \in 1..Len(free) /\ place(p) \in 1..Len(free)
      BY <1>3, <1>5
    <3>2. DOMAIN free = 1..Len(free)
      BY <1>2
    <3> QED
      BY <3>1, <3>2, <2>1, <1>14, <1>2 DEF Distinct
  <2> QED
    BY <2>2, <1>5
<1> HIDE DEF f
<1>15. \A o : Contains(offers', o) => Contains(pool, o)
  BY <1>s, <1>4, <1>1
<1>16. offers' \in Seq(Offers) /\ pending' = queue
  BY <1>s, <1>4
<1>17. toRunner' = [r \in Runners |-> toRunner'[r]]
  <2> HIDE DEF Ask
  <2> QED
    BY <1>s
<1>18. T \in SUBSET Offers
  OBVIOUS
<1>19. Matching(queue, inProgress, pool, accepts, channels, T, f)
  <2> HIDE DEF T
  <2> QED
    BY <1>8, <1>9, <1>10, <1>12, <1>13, <1>14, <1>15, <1>16, <1>17 DEF Matching
<1> QED
  BY <1>7, <1>18, <1>19

-----------------------------------------------------------------------------
(* Slots.                                                                  *)

Out == Held \cup {"open"}

\* A runner has finitely many names, told apart by their number.
LEMMA NamesFinite ==
  ASSUME NEW r \in Runners
  PROVE  /\ IsFiniteSet(OffersOf({r}))
         /\ \A o, p \in OffersOf({r}) : o[2] \in 1..NumOffers /\ (o[2] = p[2] => o = p)
         /\ \A i \in 1..NumOffers : <<r, i>> \in OffersOf({r}) /\ <<r, i>>[2] = i
         /\ \A o \in OffersOf({r}) : \E i \in 1..NumOffers : o = <<r, i>>
<1>1. NumOffers \in Nat
  BY BrokerAssumption
<1>2. \A o \in OffersOf({r}) : \E i \in 1..NumOffers : o = <<r, i>>
  BY DEF OffersOf, Offers, RunnerOf
<1>3. OffersOf({r}) \subseteq {r} \X (1..NumOffers)
  BY <1>2
<1>4. IsFiniteSet({r} \X (1..NumOffers))
  <2>1. IsFiniteSet({r})
    BY FS_Singleton
  <2>2. IsFiniteSet(1..NumOffers)
    BY <1>1, FS_Interval
  <2> QED
    BY <2>1, <2>2, FS_Product
<1>5. IsFiniteSet(OffersOf({r}))
  BY <1>3, <1>4, FS_Subset
<1>6. \A i \in 1..NumOffers : <<r, i>> \in OffersOf({r})
  BY DEF OffersOf, Offers, RunnerOf
<1> QED
  BY <1>2, <1>5, <1>6

\* The tasks and offers of a runner, however many it has out.
LEMMA AtFinite ==
  ASSUME NEW r \in Runners, NEW S \in SUBSET OffersOf({r})
  PROVE  IsFiniteSet(S) /\ Cardinality(S) \in Nat
<1>1. IsFiniteSet(S)
  BY NamesFinite, FS_Subset
<1> QED
  BY <1>1, FS_CardinalityType

\* As many of a set of names as are counted off, and no more.
LEMMA FewerFirst ==
  ASSUME NEW r \in Runners, NEW names \in SUBSET OffersOf({r}), NEW n \in Int
  PROVE  LET new == {o \in names : Cardinality({p \in names : p[2] < o[2]}) < n}
         IN  Cardinality(new) =< IF n > 0 THEN n ELSE 0
<1> DEFINE Before(o) == {p \in names : p[2] < o[2]}
           new == {o \in names : Cardinality(Before(o)) < n}
           rank == [o \in new |-> Cardinality(Before(o))]
<1>1. \A o \in names : IsFiniteSet(Before(o)) /\ Cardinality(Before(o)) \in Nat
  <2> TAKE o \in names
  <2>1. Before(o) \in SUBSET OffersOf({r})
    OBVIOUS
  <2> QED
    BY <2>1, AtFinite
<1>2. ASSUME NEW o \in names, NEW p \in names, o[2] < p[2]
      PROVE  Cardinality(Before(o)) < Cardinality(Before(p))
  <2>0. o[2] \in Int /\ p[2] \in Int /\ \A x \in names : x[2] \in Int
    BY NamesFinite
  <2>1. \A x \in Before(o) : x \in Before(p)
    BY <2>0, <1>2
  <2>2. o \in Before(p) /\ o \notin Before(o)
    BY <2>0, <1>2
  <2> HIDE DEF Before
  <2>3. Before(o) \in SUBSET Before(p) /\ Before(o) # Before(p)
    BY <2>1, <2>2
  <2> QED
    BY <2>3, <1>1, FS_Subset
<1>3. \A o \in new : o \in names /\ Cardinality(Before(o)) < n
  OBVIOUS
<1> HIDE DEF Before, new
<1>4. CASE n > 0
  <2>1. IsFiniteSet(0..(n - 1)) /\ Cardinality(0..(n - 1)) = n
    BY <1>4, FS_Interval
  <2>2. rank \in [new -> 0..(n - 1)]
    BY <1>1, <1>3
  <2>3. ASSUME NEW o \in new, NEW p \in new, rank[o] = rank[p] PROVE o = p
    <3>1. o \in names /\ p \in names /\ Cardinality(Before(o)) = Cardinality(Before(p))
      BY <2>3, <1>3
    <3>2. ~(o[2] < p[2]) /\ ~(p[2] < o[2])
      BY <3>1, <1>1, <1>2
    <3>3. o[2] \in Int /\ p[2] \in Int
      BY <3>1, NamesFinite
    <3> QED
      BY <3>1, <3>2, <3>3, NamesFinite
  <2>4. rank \in Injection(new, 0..(n - 1))
    BY <2>2, <2>3 DEF Injection, IsInjective
  <2>5. Cardinality(new) =< n
    BY <2>1, <2>4, FS_Injection
  <2> QED
    BY <2>5, <1>4 DEF new, Before
<1>5. CASE ~(n > 0)
  <2>1. new = {}
    BY <1>1, <1>3, <1>5
  <2>2. Cardinality(new) = 0
    BY <2>1, FS_EmptySet
  <2> QED
    BY <2>2, <1>5 DEF new, Before
<1> QED
  BY <1>4, <1>5

\* The runner gives the names in `new` to as many slots as are free.
Offering(r, at, sent, stale, new, batch) ==
  /\ \A o \in new : Fresh(o)
  /\ new # {} => mode[r] = "offering"
  /\ atRunner' = [o \in Offers |-> IF o \in new THEN "open"
                                   ELSE IF o \in stale THEN "none" ELSE at[o]]
  /\ toBroker' = IF link[r] # "open" THEN toBroker
                 ELSE [toBroker EXCEPT ![r] = (@ \o sent) \o batch]
  /\ \A i \in DOMAIN batch : batch[i].kind = "offer" /\ batch[i].offer \in new
  /\ \A i, j \in DOMAIN batch : batch[i].offer = batch[j].offer => i = j

\* sendOffers never has more out than the runner has slots.
LEMMA SendOffersFacts ==
  ASSUME NEW r \in Runners, NEW at, NEW sent, NEW stale \in SUBSET At(r, {"open"}),
         SlotsRespected, SendOffers(r, at, sent, stale),
         \A o \in OffersOf({r}) : at[o] \in Out => atRunner[o] \in Out
  PROVE  /\ \E new \in SUBSET OffersOf({r}) : \E batch \in Seq(Answers(r)) :
              Offering(r, at, sent, stale, new, batch)
         /\ Cardinality(At(r, Out)') =< MaxConcurrency
<1> DEFINE mine == {o \in Offers : RunnerOf(o) = r}
           busy == {o \in mine : at[o] \in Held}
           open == {o \in mine : at[o] = "open"} \ stale
           n == IF mode[r] = "offering" THEN OffersToSend(Cardinality(busy), Cardinality(open)) ELSE 0
           names == {o \in mine : Fresh(o)}
           new == {o \in names : Cardinality({p \in names : p[2] < o[2]}) < n}
           line == [i \in 1..NumOffers |-> <<r, i>>]
           order == Only(line, new)
           batch == [i \in 1..Len(order) |-> Message("offer", order[i])]
<1>1. /\ atRunner' = [o \in Offers |-> IF o \in new THEN "open"
                                       ELSE IF o \in stale THEN "none" ELSE at[o]]
      /\ toBroker' = IF link[r] # "open" THEN toBroker
                     ELSE [toBroker EXCEPT ![r] = (@ \o sent) \o batch]
  BY DEF SendOffers
<1>2. mine = OffersOf({r})
  BY DEF OffersOf
<1>3. /\ IsFiniteSet(busy) /\ Cardinality(busy) \in Nat
      /\ IsFiniteSet(open) /\ Cardinality(open) \in Nat
  <2>1. busy \in SUBSET OffersOf({r}) /\ open \in SUBSET OffersOf({r})
    BY <1>2
  <2> QED
    BY <2>1, AtFinite
<1>4. MaxConcurrency \in Nat /\ NumOffers \in Nat
  BY BrokerAssumption
<1>5. n \in Int
  BY <1>3, <1>4 DEF OffersToSend
<1>6. names \in SUBSET OffersOf({r}) /\ new \in SUBSET OffersOf({r})
  BY <1>2
<1>7. Cardinality(new) =< IF n > 0 THEN n ELSE 0
  <2> HIDE DEF names, n
  <2> QED
    BY <1>5, <1>6, FewerFirst
<1>8. IsFiniteSet(new) /\ Cardinality(new) \in Nat
  BY <1>6, AtFinite
<1>9. \A o \in new : Fresh(o)
  OBVIOUS
<1>a. n = IF mode[r] = "offering" THEN MaxConcurrency - (Cardinality(busy) + Cardinality(open)) ELSE 0
  BY DEF OffersToSend
<1>b. /\ \A o \in busy : o \in OffersOf({r}) /\ at[o] \in Held
      /\ \A o \in open : o \in OffersOf({r}) /\ at[o] = "open" /\ o \notin stale
      /\ \A o \in OffersOf({r}) : at[o] \in Held => o \in busy
      /\ \A o \in OffersOf({r}) : at[o] = "open" /\ o \notin stale => o \in open
  BY <1>2
<1> HIDE DEF busy, open, n, new, names, mine
<1>10. new # {} => mode[r] = "offering"
  <2>1. CASE mode[r] # "offering"
    <3>1. Cardinality(new) = 0
      BY <2>1, <1>7, <1>8, <1>a
    <3> QED
      BY <3>1, <1>8, FS_EmptySet
  <2> QED
    BY <2>1
<1>11. /\ order \in Seq(Offers) /\ Distinct(order)
       /\ \A o : Contains(order, o) => o \in new
  <2>1. line \in Seq(Offers)
    <3>1. \A i \in 1..NumOffers : <<r, i>> \in Offers
      BY DEF Offers
    <3> HIDE DEF order, batch
    <3> QED
      BY <3>1, <1>4
  <2>2. Distinct(line)
    BY <1>4, NamesFinite DEF Distinct
  <2> HIDE DEF line
  <2> QED
    BY <2>1, <2>2, OnlyFacts
<1> HIDE DEF order
<1>12. /\ batch \in Seq(Answers(r))
       /\ \A i \in DOMAIN batch : batch[i].kind = "offer" /\ batch[i].offer \in new
       /\ \A i, j \in DOMAIN batch : batch[i].offer = batch[j].offer => i = j
  <2>1. Len(order) \in Nat /\ DOMAIN order = 1..Len(order)
    BY <1>11
  <2>2. \A i \in 1..Len(order) : order[i] \in new
    BY <2>1, <1>11 DEF Contains
  <2>3. \A i \in 1..Len(order) : Message("offer", order[i]) \in Answers(r)
    <3> TAKE i \in 1..Len(order)
    <3>1. order[i] \in OffersOf({r})
      BY <2>2, <1>6
    <3> QED
      BY <3>1, AnswerMade
  <2>4. batch \in Seq(Answers(r)) /\ DOMAIN batch = 1..Len(order)
    BY <2>1, <2>3
  <2>5. \A i \in 1..Len(order) : batch[i].kind = "offer" /\ batch[i].offer = order[i]
    BY DEF Message
  <2> HIDE DEF batch
  <2>6. \A i, j \in DOMAIN batch : batch[i].offer = batch[j].offer => i = j
    BY <2>1, <2>4, <2>5, <1>11 DEF Distinct
  <2> QED
    BY <2>2, <2>4, <2>5, <2>6
<1> HIDE DEF batch
<1>13. Offering(r, at, sent, stale, new, batch)
  BY <1>1, <1>9, <1>10, <1>12 DEF Offering
<1>14. Cardinality(At(r, Out)') =< MaxConcurrency
  <2>1. \A o \in At(r, Out)' : o \in OffersOf({r}) /\ (o \in busy \/ o \in open \/ o \in new)
    <3> SUFFICES ASSUME NEW o \in At(r, Out)'
                 PROVE  o \in OffersOf({r}) /\ (o \in busy \/ o \in open \/ o \in new)
      OBVIOUS
    <3>1. o \in Offers /\ o \in OffersOf({r}) /\ atRunner'[o] \in Out
      BY DEF At, OffersOf
    <3>2. CASE o \in new
      BY <3>1, <3>2
    <3>3. CASE o \notin new /\ o \in stale
      BY <3>1, <3>3, <1>1 DEF Out, Held
    <3>4. CASE o \notin new /\ o \notin stale
      <4>1. at[o] \in Out
        BY <3>1, <3>4, <1>1
      <4> QED
        BY <4>1, <3>1, <3>4, <1>b DEF Out
    <3> QED
      BY <3>2, <3>3, <3>4
  <2>2. CASE new = {}
    <3>1. \A o \in At(r, Out)' : o \in At(r, Out)
      <4> TAKE o \in At(r, Out)'
      <4>1. o \in OffersOf({r}) /\ at[o] \in Out
        BY <2>1, <2>2, <1>b DEF Out
      <4>2. atRunner[o] \in Out
        BY <4>1
      <4> QED
        BY <4>1, <4>2 DEF At, OffersOf
    <3>2. At(r, Out) \in SUBSET OffersOf({r})
      BY DEF At, OffersOf
    <3>3. At(r, Out)' \in SUBSET At(r, Out)
      BY <3>1
    <3>4. IsFiniteSet(At(r, Out)) /\ Cardinality(At(r, Out)) \in Nat
      BY <3>2, AtFinite
    <3>5. Cardinality(At(r, Out)) =< MaxConcurrency
      BY DEF SlotsRespected, Out
    <3>6. Cardinality(At(r, Out)') =< Cardinality(At(r, Out)) /\ IsFiniteSet(At(r, Out)')
      BY <3>3, <3>4, FS_Subset
    <3>7. Cardinality(At(r, Out)') \in Nat
      BY <3>6, FS_CardinalityType
    <3> QED
      BY <3>4, <3>5, <3>6, <3>7, <1>4
  <2>3. CASE new # {}
    <3>1. n > 0 /\ Cardinality(new) =< n
      <4>1. Cardinality(new) # 0
        BY <2>3, <1>8, FS_EmptySet
      <4> QED
        BY <4>1, <1>5, <1>7, <1>8
    <3>2. /\ IsFiniteSet(busy \cup open)
          /\ Cardinality(busy \cup open) =< Cardinality(busy) + Cardinality(open)
          /\ Cardinality(busy \cup open) \in Nat
      <4>1. IsFiniteSet(busy \cap open) /\ IsFiniteSet(busy \cup open)
        BY <1>3, FS_Union, FS_Intersection
      <4>2. Cardinality(busy \cap open) \in Nat /\ Cardinality(busy \cup open) \in Nat
        BY <4>1, FS_CardinalityType
      <4>3. Cardinality(busy \cup open) = Cardinality(busy) + Cardinality(open) - Cardinality(busy \cap open)
        BY <1>3, FS_Union
      <4> QED
        BY <4>1, <4>2, <4>3, <1>3
    <3> DEFINE part == busy \cup open
    <3> HIDE DEF part
    <3>3. /\ IsFiniteSet(part \cup new)
          /\ Cardinality(part \cup new) =< Cardinality(part) + Cardinality(new)
      <4>0. IsFiniteSet(part) /\ Cardinality(part) \in Nat
        BY <3>2 DEF part
      <4>1. IsFiniteSet(part \cap new) /\ IsFiniteSet(part \cup new)
        BY <4>0, <1>8, FS_Union, FS_Intersection
      <4>2. Cardinality(part \cap new) \in Nat /\ Cardinality(part \cup new) \in Nat
        BY <4>1, FS_CardinalityType
      <4>3. Cardinality(part \cup new) = Cardinality(part) + Cardinality(new) - Cardinality(part \cap new)
        BY <4>0, <1>8, FS_Union
      <4> QED
        BY <4>0, <4>1, <4>2, <4>3, <1>8
    <3>4. At(r, Out)' \in SUBSET (part \cup new)
      BY <2>1 DEF part
    <3>5. IsFiniteSet(At(r, Out)') /\ Cardinality(At(r, Out)') =< Cardinality(part \cup new)
      BY <3>3, <3>4, FS_Subset
    <3>6. Cardinality(At(r, Out)') \in Nat /\ Cardinality(part \cup new) \in Nat
      BY <3>3, <3>5, FS_CardinalityType
    <3>7. n = MaxConcurrency - (Cardinality(busy) + Cardinality(open))
      BY <1>10, <2>3, <1>a
    <3> QED
      BY <3>1, <3>2, <3>3, <3>5, <3>6, <3>7, <1>3, <1>4, <1>5, <1>8 DEF part
  <2> QED
    BY <2>2, <2>3
<1> QED
  BY <1>6, <1>12, <1>13, <1>14

-----------------------------------------------------------------------------
(* Every variable keeps its type, and every runner its slots.              *)

\* Matching keeps the types.
LEMMA SettleTypes ==
  ASSUME NEW queue \in Seq(Requests), NEW inProgress \in SUBSET Requests,
         NEW pool \in Seq(Offers), NEW accepts \in [Offers -> 0..NumRequests],
         NEW channels, ChannelsTyped(channels), NEW reachable,
         Settle(queue, inProgress, pool, accepts, channels, reachable)
  PROVE  /\ pending' \in Seq(Requests) /\ matched' \subseteq Requests
         /\ offers' \in Seq(Offers) /\ accepting' \in [Offers -> 0..NumRequests]
         /\ ChannelsTyped(toRunner)'
<1>1. PICK T \in SUBSET Offers :
        \E f \in [T -> Requests] : Matching(queue, inProgress, pool, accepts, channels, T, f)
  BY SettleFacts
<1>2. PICK f \in [T -> Requests] : Matching(queue, inProgress, pool, accepts, channels, T, f)
  BY <1>1
<1>3. pending' = queue /\ offers' \in Seq(Offers) /\ matched' \subseteq Requests
  BY <1>2 DEF Matching
<1>4. accepting' \in [Offers -> 0..NumRequests]
  <2>1. accepting' = [o \in Offers |-> IF o \in T THEN f[o] ELSE accepts[o]]
    BY <1>2 DEF Matching
  <2>2. \A o \in T : f[o] \in 0..NumRequests
    BY BrokerAssumption DEF Requests
  <2> QED
    BY <2>1, <2>2
<1>5. toRunner' = [r \in Runners |-> toRunner'[r]]
  BY <1>2 DEF Matching
<1>6. ASSUME NEW r \in Runners PROVE toRunner'[r] \in Seq(Calls(r))
  <2>0. channels[r] \in Seq(Calls(r))
    BY DEF ChannelsTyped
  <2>1. CASE mode[r] = "gone" /\ toRunner'[r] = channels[r]
    BY <2>0, <2>1
  <2>2. CASE \E t \in Seq(Calls(r)) : toRunner'[r] = channels[r] \o t
    BY <2>0, <2>2, ConcatProperties
  <2> QED
    BY <2>1, <2>2, <1>2 DEF Matching
<1> QED
  BY <1>3, <1>4, <1>5, <1>6 DEF ChannelsTyped

\* A message to one runner.
LEMMA TellFacts ==
  ASSUME NEW channels, ChannelsTyped(channels), NEW r \in Runners, NEW m \in Calls(r)
  PROVE  /\ ChannelsTyped(Tell(channels, r, m))
         /\ \A s \in Runners : s # r => Tell(channels, r, m)[s] = channels[s]
         /\ Tell(channels, r, m)[r] =
              IF Listening(r) THEN Append(channels[r], m) ELSE channels[r]
<1> DEFINE after == Tell(channels, r, m)
           more == Append(channels[r], m)
<1>1. channels = [s \in Runners |-> channels[s]] /\ \A s \in Runners : channels[s] \in Seq(Calls(s))
  BY DEF ChannelsTyped
<1>2. more \in Seq(Calls(r))
  BY <1>1, AppendProperties
<1>3. after = IF Listening(r) THEN [channels EXCEPT ![r] = more] ELSE channels
  BY DEF Tell
<1> HIDE DEF after, more
<1>4. CASE Listening(r)
  <2>1. after = [s \in Runners |-> IF s = r THEN more ELSE channels[s]]
    BY <1>1, <1>3, <1>4
  <2> QED
    BY <2>1, <1>1, <1>2, <1>4 DEF ChannelsTyped, after, more
<1>5. CASE ~Listening(r)
  BY <1>1, <1>3, <1>5 DEF ChannelsTyped, after
<1> QED
  BY <1>4, <1>5

\* The broker cuts off the runners in rs.
LEMMA DisconnectFacts ==
  ASSUME Types, NEW rs, Disconnect(rs)
  PROVE  /\ link' \in [Runners -> Links] /\ AnswersTyped(toBroker)'
         /\ \A r \in Runners : link'[r] = IF r \in rs THEN "removed" ELSE link[r]
         /\ \A r \in Runners : toBroker'[r] = IF r \in rs THEN <<>> ELSE toBroker[r]
<1>1. /\ link' = [r \in Runners |-> IF r \in rs THEN "removed" ELSE link[r]]
      /\ toBroker' = [r \in Runners |-> IF r \in rs THEN <<>> ELSE toBroker[r]]
  BY DEF Disconnect
<1>2. link \in [Runners -> Links] /\ \A r \in Runners : toBroker[r] \in Seq(Answers(r))
  BY DEF Types, TypeOK, AnswersTyped
<1>3. link' \in [Runners -> Links]
  BY <1>1, <1>2 DEF Links
<1>4. \A r \in Runners : toBroker'[r] \in Seq(Answers(r))
  BY <1>1, <1>2
<1> QED
  BY <1>1, <1>3, <1>4 DEF AnswersTyped

\* The broker reads the first message from r.
LEMMA ReceivesFacts ==
  ASSUME Types, NEW r \in Runners, NEW kind, Receives(r, kind)
  PROVE  /\ AnswersTyped(toBroker)'
         /\ Named(r) \in Offers /\ RunnerOf(Named(r)) = r /\ Named(r) \in OffersOf({r})
         /\ toBroker[r] \in Seq(Answers(r)) /\ toBroker[r] # <<>>
         /\ Head(toBroker[r]).kind = kind
         /\ \A s \in Runners : toBroker'[s] = IF s = r THEN Tail(toBroker[r]) ELSE toBroker[s]
<1>1. /\ toBroker[r] # <<>> /\ Head(toBroker[r]).kind = kind
      /\ toBroker' = [toBroker EXCEPT ![r] = Tail(toBroker[r])]
  BY DEF Receives
<1>2. toBroker = [s \in Runners |-> toBroker[s]] /\ \A s \in Runners : toBroker[s] \in Seq(Answers(s))
  BY DEF Types, AnswersTyped
<1>3. Head(toBroker[r]) \in Answers(r) /\ Tail(toBroker[r]) \in Seq(Answers(r))
  BY <1>1, <1>2, HeadTailProperties
<1> DEFINE rest == Tail(toBroker[r])
<1> HIDE DEF rest
<1>4. toBroker' = [s \in Runners |-> IF s = r THEN rest ELSE toBroker[s]]
  BY <1>1, <1>2 DEF rest
<1>5. rest \in Seq(Answers(r))
  BY <1>3 DEF rest
<1>6. AnswersTyped(toBroker)'
  BY <1>2, <1>4, <1>5 DEF AnswersTyped
<1>7. Named(r) \in Offers /\ RunnerOf(Named(r)) = r /\ Named(r) \in OffersOf({r})
  BY <1>3, AnswerFacts DEF Named
<1> QED
  BY <1>1, <1>2, <1>4, <1>6, <1>7 DEF rest

\* r reads the first message for it.
LEMMA ReadsFacts ==
  ASSUME Types, NEW r \in Runners, NEW kind, Reads(r, kind)
  PROVE  /\ ChannelsTyped(toRunner)' /\ mode[r] # "gone"
         /\ toRunner[r] \in Seq(Calls(r)) /\ toRunner[r] # <<>>
         /\ Head(toRunner[r]) \in Calls(r) /\ Head(toRunner[r]).kind = kind
         /\ kind \in {"accept", "cancel", "settings"} =>
              Meant(r) \in Offers /\ RunnerOf(Meant(r)) = r /\ Meant(r) \in OffersOf({r})
         /\ \A s \in Runners : toRunner'[s] = IF s = r THEN Tail(toRunner[r]) ELSE toRunner[s]
<1>1. /\ toRunner[r] # <<>> /\ Head(toRunner[r]).kind = kind /\ mode[r] # "gone"
      /\ toRunner' = [toRunner EXCEPT ![r] = Tail(toRunner[r])]
  BY DEF Reads
<1>2. toRunner = [s \in Runners |-> toRunner[s]] /\ \A s \in Runners : toRunner[s] \in Seq(Calls(s))
  BY DEF Types, ChannelsTyped
<1>3. Head(toRunner[r]) \in Calls(r) /\ Tail(toRunner[r]) \in Seq(Calls(r))
  BY <1>1, <1>2, HeadTailProperties
<1> DEFINE rest == Tail(toRunner[r])
<1> HIDE DEF rest
<1>4. toRunner' = [s \in Runners |-> IF s = r THEN rest ELSE toRunner[s]]
  BY <1>1, <1>2 DEF rest
<1>5. rest \in Seq(Calls(r))
  BY <1>3 DEF rest
<1>6. ChannelsTyped(toRunner)'
  BY <1>2, <1>4, <1>5 DEF ChannelsTyped
<1>7. ASSUME kind \in {"accept", "cancel", "settings"} PROVE Meant(r) \in OffersOf({r})
  BY <1>1, <1>3, <1>7, CallFacts DEF Meant
<1> QED
  BY <1>1, <1>2, <1>3, <1>4, <1>6, <1>7 DEF rest, OffersOf

\* r says something.
LEMMA SaysFacts ==
  ASSUME Types, NEW r \in Runners, NEW m \in Answers(r), Says(r, m)
  PROVE  /\ AnswersTyped(toBroker)'
         /\ \A s \in Runners : s # r => toBroker'[s] = toBroker[s]
         /\ toBroker'[r] = IF link[r] = "open" THEN Append(toBroker[r], m) ELSE toBroker[r]
<1> DEFINE more == Append(toBroker[r], m)
<1>1. toBroker' = IF link[r] = "open" THEN [toBroker EXCEPT ![r] = more] ELSE toBroker
  BY DEF Says
<1>2. toBroker = [s \in Runners |-> toBroker[s]] /\ \A s \in Runners : toBroker[s] \in Seq(Answers(s))
  BY DEF Types, AnswersTyped
<1>3. more \in Seq(Answers(r))
  BY <1>2, AppendProperties
<1> HIDE DEF more
<1>4. CASE link[r] = "open"
  <2>1. toBroker' = [s \in Runners |-> IF s = r THEN more ELSE toBroker[s]]
    BY <1>1, <1>2, <1>4
  <2> QED
    BY <2>1, <1>2, <1>3, <1>4 DEF AnswersTyped, more
<1>5. CASE link[r] # "open"
  BY <1>1, <1>2, <1>5 DEF AnswersTyped
<1> QED
  BY <1>4, <1>5

\* The slots of a runner, when no more of its names are out.
LEMMA SlotsKept ==
  ASSUME Types, NEW r \in Runners,
         \A o \in OffersOf({r}) : atRunner'[o] \in Out => atRunner[o] \in Out
  PROVE  Cardinality(At(r, Out)') =< MaxConcurrency
<1>1. At(r, Out) \in SUBSET OffersOf({r}) /\ At(r, Out)' \in SUBSET At(r, Out)
  BY DEF At, OffersOf
<1>2. IsFiniteSet(At(r, Out)) /\ Cardinality(At(r, Out)) \in Nat
  BY <1>1, AtFinite
<1>3. Cardinality(At(r, Out)) =< MaxConcurrency
  BY DEF Types, SlotsRespected, Out
<1>4. Cardinality(At(r, Out)') =< Cardinality(At(r, Out)) /\ IsFiniteSet(At(r, Out)')
  BY <1>1, <1>2, FS_Subset
<1>5. Cardinality(At(r, Out)') \in Nat
  BY <1>4, FS_CardinalityType
<1> QED
  BY <1>2, <1>3, <1>4, <1>5, BrokerAssumption

\* The same for all of them.
LEMMA AllSlotsKept ==
  ASSUME Types, \A o \in Offers : atRunner'[o] \in Out => atRunner[o] \in Out
  PROVE  SlotsRespected'
<1>1. \A r \in Runners : Cardinality(At(r, Out)') =< MaxConcurrency
  BY SlotsKept DEF OffersOf
<1> QED
  BY <1>1 DEF SlotsRespected, Out

\* A runner offers slots.
LEMMA SendOffersTypes ==
  ASSUME Types, NEW r \in Runners, NEW at \in [Offers -> Places], NEW sent \in Seq(Answers(r)),
         NEW stale \in SUBSET At(r, {"open"}), SendOffers(r, at, sent, stale),
         \A o \in Offers : at[o] = atRunner[o] \/ at[o] = "none"
  PROVE  atRunner' \in [Offers -> Places] /\ AnswersTyped(toBroker)' /\ SlotsRespected'
<1>1. \A o \in Offers : at[o] \in Out => atRunner[o] \in Out
  BY DEF Out, Held
<1>2. SlotsRespected
  BY DEF Types
<1>3. \A o \in OffersOf({r}) : at[o] \in Out => atRunner[o] \in Out
  BY <1>1 DEF OffersOf
<1>4. /\ \E new \in SUBSET OffersOf({r}) : \E batch \in Seq(Answers(r)) :
           Offering(r, at, sent, stale, new, batch)
      /\ Cardinality(At(r, Out)') =< MaxConcurrency
  BY <1>2, <1>3, SendOffersFacts
<1>5. PICK new \in SUBSET OffersOf({r}), batch \in Seq(Answers(r)) :
        Offering(r, at, sent, stale, new, batch)
  BY <1>4
<1>6. atRunner' = [o \in Offers |-> IF o \in new THEN "open"
                                    ELSE IF o \in stale THEN "none" ELSE at[o]]
  BY <1>5 DEF Offering
<1>7. atRunner' \in [Offers -> Places]
  BY <1>6 DEF Places
<1>8. ASSUME NEW s \in Runners, s # r PROVE Cardinality(At(s, Out)') =< MaxConcurrency
  <2>1. \A o \in OffersOf({s}) : o \in Offers /\ o \notin new /\ o \notin stale
    BY <1>8 DEF OffersOf, At
  <2>2. \A o \in OffersOf({s}) : atRunner'[o] = at[o]
    BY <2>1, <1>6
  <2>3. \A o \in OffersOf({s}) : atRunner'[o] \in Out => atRunner[o] \in Out
    BY <2>1, <2>2, <1>1
  <2> QED
    BY <2>3, SlotsKept
<1>9. SlotsRespected'
  BY <1>4, <1>8 DEF SlotsRespected, Out
<1>10. AnswersTyped(toBroker)'
  <2> DEFINE more == (toBroker[r] \o sent) \o batch
  <2>1. toBroker' = IF link[r] # "open" THEN toBroker ELSE [toBroker EXCEPT ![r] = more]
    BY <1>5 DEF Offering
  <2>2. toBroker = [s \in Runners |-> toBroker[s]] /\ \A s \in Runners : toBroker[s] \in Seq(Answers(s))
    BY DEF Types, AnswersTyped
  <2>3. toBroker[r] \o sent \in Seq(Answers(r))
    BY <2>2, ConcatProperties
  <2>4. more \in Seq(Answers(r))
    BY <2>3, ConcatProperties
  <2> HIDE DEF more
  <2>5. CASE link[r] = "open"
    <3>1. toBroker' = [s \in Runners |-> IF s = r THEN more ELSE toBroker[s]]
      BY <2>1, <2>2, <2>5
    <3> QED
      BY <3>1, <2>2, <2>4 DEF AnswersTyped
  <2>6. CASE link[r] # "open"
    BY <2>1, <2>2, <2>6 DEF AnswersTyped
  <2> QED
    BY <2>5, <2>6
<1> QED
  BY <1>7, <1>9, <1>10

\* One value of a function changes.
LEMMA Assigned ==
  ASSUME NEW S, NEW T, NEW f \in [S -> T], NEW x, NEW v \in T
  PROVE  [f EXCEPT ![x] = v] \in [S -> T]
OBVIOUS

\* 0 stands for no request.
LEMMA Bounds ==
  /\ 0 \in 0..NumRequests /\ Requests \subseteq 0..NumRequests
  /\ \A n \in 0..NumRequests : n # 0 => n \in Requests
  /\ 0 \notin Requests
  /\ 0 \in 0..(MaxAcceptTimeouts - 1)
BY BrokerAssumption DEF Requests

\* A request gets no more new timers than it may.
LEMMA RefreshTypes ==
  ASSUME TypeOK, NEW q, Refresh(q)
  PROVE  refreshes' \in [Requests -> 0..MaxRefreshes]
<1>1. pending \in Seq(Requests) /\ refreshes \in [Requests -> 0..MaxRefreshes]
  BY DEF TypeOK
<1>2. CASE Contains(pending, q) /\ refreshes[q] < MaxRefreshes
  <2>1. q \in Requests
    BY <1>1, <1>2 DEF Contains
  <2>2. refreshes[q] + 1 \in 0..MaxRefreshes
    BY <1>1, <1>2, <2>1, BrokerAssumption
  <2>3. refreshes' = [refreshes EXCEPT ![q] = refreshes[q] + 1]
    BY <1>2 DEF Refresh
  <2> QED
    BY <1>1, <2>2, <2>3, Assigned
<1>3. CASE ~(Contains(pending, q) /\ refreshes[q] < MaxRefreshes)
  BY <1>1, <1>3 DEF Refresh
<1> QED
  BY <1>2, <1>3

\* Steps of the broker with its queue.
LEMMA QueueTypes ==
  ASSUME Types, NEW q \in Requests, Request(q) \/ RequestTimeout(q)
  PROVE  Types'
<1> USE DEF requests, broker
<1>0. TypeOK /\ ChannelsTyped(toRunner) /\ AnswersTyped(toBroker)
  BY DEF Types
<1>1. CASE Request(q) /\ phase = "serving"
  <2>1. /\ Settle(Append(pending, q), matched, offers, accepting, toRunner, Reachable)
        /\ result' = [result EXCEPT ![q] = "queued"]
        /\ UNCHANGED <<refreshes, tasks, failures, phase, link, mode, atRunner, toBroker,
                       begun, faults>>
    BY <1>1 DEF Request
  <2>2. Append(pending, q) \in Seq(Requests)
    BY <1>0 DEF TypeOK
  <2>3. /\ pending' \in Seq(Requests) /\ matched' \subseteq Requests
        /\ offers' \in Seq(Offers) /\ accepting' \in [Offers -> 0..NumRequests]
        /\ ChannelsTyped(toRunner)'
    BY <1>0, <2>1, <2>2, SettleTypes DEF TypeOK
  <2>4. SlotsRespected'
    BY <2>1, AllSlotsKept
  <2> QED
    BY <1>0, <2>1, <2>3, <2>4 DEF Types, TypeOK, AnswersTyped, Results
<1>2. CASE Request(q) /\ phase # "serving"
  <2>1. /\ result' = [result EXCEPT ![q] = "expired"]
        /\ UNCHANGED <<pending, matched, offers, accepting, toRunner>>
        /\ UNCHANGED <<refreshes, tasks, failures, phase, link, mode, atRunner, toBroker,
                       begun, faults>>
    BY <1>2 DEF Request
  <2>4. SlotsRespected'
    BY <2>1, AllSlotsKept
  <2> QED
    BY <1>0, <2>1, <2>4 DEF Types, TypeOK, AnswersTyped, ChannelsTyped, Results
<1>3. CASE RequestTimeout(q)
  <2>1. /\ Disconnect({r \in Reachable : Heeded /\ Silent(r)})
        /\ pending' = Without(pending, q)
        /\ matched' = matched \ {q}
        /\ result' = [result EXCEPT ![q] = "expired"]
        /\ UNCHANGED <<refreshes, offers, accepting, tasks, failures, phase, mode, atRunner,
                       toRunner, begun, faults>>
    BY <1>3 DEF RequestTimeout
  <2>2. link' \in [Runners -> Links] /\ AnswersTyped(toBroker)'
    BY <2>1, DisconnectFacts
  <2>3. Without(pending, q) \in Seq(Requests)
    BY <1>0, WithoutFacts DEF TypeOK
  <2>4. SlotsRespected'
    BY <2>1, AllSlotsKept
  <2> QED
    BY <1>0, <2>1, <2>2, <2>3, <2>4 DEF Types, TypeOK, ChannelsTyped, Results
<1> QED
  BY <1>1, <1>2, <1>3

\* Steps of the broker with an offer.
LEMMA OfferTypes ==
  ASSUME Types, NEW o \in Offers,
         OfferExpires(o) \/ AcceptTimeout(o) \/ TaskTimeout(o) \/ Cancel(o)
  PROVE  Types'
<1> USE DEF requests, broker
<1>0. TypeOK /\ ChannelsTyped(toRunner) /\ AnswersTyped(toBroker)
  BY DEF Types
<1>r. RunnerOf(o) \in Runners /\ o \in OffersOf({RunnerOf(o)})
  BY OfferFacts
<1>c. ChannelsTyped(CancelAtRunner(o))
  <2>1. Message("cancel", o) \in Calls(RunnerOf(o))
    BY <1>r, CallMade
  <2> QED
    BY <1>0, <1>r, <2>1, TellFacts DEF CancelAtRunner
<1>1. CASE OfferExpires(o)
  <2>1. /\ offers' = Without(offers, o)
        /\ UNCHANGED <<requests, accepting, tasks, failures, phase, link, mode, atRunner,
                       toRunner, toBroker, begun, faults>>
    BY <1>1 DEF OfferExpires
  <2>2. Without(offers, o) \in Seq(Offers)
    BY <1>0, WithoutFacts DEF TypeOK
  <2>3. SlotsRespected'
    BY <2>1, AllSlotsKept
  <2> QED
    BY <1>0, <2>1, <2>2, <2>3 DEF Types, TypeOK, AnswersTyped, ChannelsTyped
<1>2. CASE AcceptTimeout(o)
  <2> DEFINE q == accepting[o]
             r == RunnerOf(o)
             reported == failures[r] + 1 >= MaxAcceptTimeouts
             gone == reported /\ Heeded
             cut == IF gone THEN {r} \cap {s \in Runners : link[s] \in {"open", "closing"}} ELSE {}
             left == Only(offers, OffersOf(Runners \ {r}))
             near == IF gone THEN Reachable \ {r} ELSE Reachable
  <2>1. /\ q # 0 /\ Refresh(q)
        /\ failures' = [failures EXCEPT ![r] = IF reported THEN 0 ELSE @ + 1]
        /\ Disconnect(cut)
        /\ Settle(pending, matched \ {q}, left, GivenUp(o), CancelAtRunner(o), near)
        /\ UNCHANGED <<result, tasks, phase, mode, atRunner, begun, faults>>
    BY <1>2 DEF AcceptTimeout
  <2>2. link' \in [Runners -> Links] /\ AnswersTyped(toBroker)'
    BY <2>1, DisconnectFacts
  <2>3. left \in Seq(Offers)
    BY <1>0, OnlyFacts DEF TypeOK
  <2>4. GivenUp(o) \in [Offers -> 0..NumRequests]
    BY <1>0, BrokerAssumption DEF TypeOK, GivenUp
  <2>5. pending \in Seq(Requests) /\ matched \ {q} \in SUBSET Requests
    BY <1>0 DEF TypeOK
  <2>6. q \in Requests
    BY <1>0, <2>1, Bounds DEF TypeOK
  <2>7. refreshes' \in [Requests -> 0..MaxRefreshes]
    BY <1>0, <2>1, RefreshTypes
  <2>8. failures' \in [Runners -> 0..(MaxAcceptTimeouts - 1)]
    BY <1>0, <1>r, <2>1, BrokerAssumption DEF TypeOK
  <2> HIDE DEF q, r, reported, gone, cut, left, near
  <2>9. /\ pending' \in Seq(Requests) /\ matched' \subseteq Requests
        /\ offers' \in Seq(Offers) /\ accepting' \in [Offers -> 0..NumRequests]
        /\ ChannelsTyped(toRunner)'
    BY <1>c, <2>1, <2>3, <2>4, <2>5, SettleTypes
  <2>10. SlotsRespected'
    BY <2>1, AllSlotsKept
  <2> QED
    BY <1>0, <2>1, <2>2, <2>7, <2>8, <2>9, <2>10 DEF Types, TypeOK
<1>3. CASE TaskTimeout(o)
  <2>1. /\ tasks[o] # 0
        /\ tasks' = [tasks EXCEPT ![o] = 0]
        /\ result' = [result EXCEPT ![tasks[o]] = "failed"]
        /\ UNCHANGED <<pending, matched, refreshes, offers, accepting, failures, phase, link,
                       toBroker, begun, faults>>
    BY <1>3 DEF TaskTimeout
  <2>2. tasks' \in [Offers -> 0..NumRequests] /\ result' \in [Requests -> Results]
    <3>1. tasks' \in [Offers -> 0..NumRequests]
      BY <1>0, <2>1, Bounds, Assigned DEF TypeOK
    <3>2. result' \in [Requests -> Results]
      BY <1>0, <2>1 DEF TypeOK, Results
    <3> QED
      BY <3>1, <3>2
  <2>3. CASE Internal
    <3>1. Dies(RunnerOf(o))
      BY <1>3, <2>3 DEF TaskTimeout
    <3>2. mode' \in [Runners -> Modes] /\ atRunner' \in [Offers -> Places]
      BY <1>0, <3>1 DEF TypeOK, Dies, Modes, Places
    <3>3. ChannelsTyped(toRunner)'
      BY <1>0, <3>1 DEF ChannelsTyped, Dies
    <3>4. SlotsRespected'
      BY <3>1, AllSlotsKept DEF Dies, Out, Held
    <3> QED
      BY <1>0, <2>1, <2>2, <3>2, <3>3, <3>4 DEF Types, TypeOK, AnswersTyped
  <2>4. CASE ~Internal
    <3>1. toRunner' = CancelAtRunner(o) /\ UNCHANGED <<mode, atRunner>>
      BY <1>3, <2>4 DEF TaskTimeout
    <3>3. ChannelsTyped(toRunner)'
      BY <1>c, <3>1 DEF ChannelsTyped
    <3>4. SlotsRespected'
      BY <3>1, AllSlotsKept
    <3> QED
      BY <1>0, <2>1, <2>2, <3>1, <3>3, <3>4 DEF Types, TypeOK, AnswersTyped
  <2> QED
    BY <2>3, <2>4
<1>4. CASE Cancel(o)
  <2>1. /\ tasks[o] # 0 /\ Fault
        /\ tasks' = [tasks EXCEPT ![o] = 0]
        /\ result' = [result EXCEPT ![tasks[o]] = "cancelled"]
        /\ toRunner' = CancelAtRunner(o)
        /\ UNCHANGED <<pending, matched, refreshes, offers, accepting, failures, phase, link,
                       mode, atRunner, toBroker, begun>>
    BY <1>4 DEF Cancel
  <2>2. tasks' \in [Offers -> 0..NumRequests] /\ result' \in [Requests -> Results]
    <3>1. tasks' \in [Offers -> 0..NumRequests]
      BY <1>0, <2>1, Bounds, Assigned DEF TypeOK
    <3>2. result' \in [Requests -> Results]
      BY <1>0, <2>1 DEF TypeOK, Results
    <3> QED
      BY <3>1, <3>2
  <2>3. ChannelsTyped(toRunner)'
    BY <1>c, <2>1 DEF ChannelsTyped
  <2>4. SlotsRespected'
    BY <2>1, AllSlotsKept
  <2>5. faults' \in Nat
    BY <1>0, <2>1 DEF TypeOK, Fault
  <2> QED
    BY <1>0, <2>1, <2>2, <2>3, <2>4, <2>5 DEF Types, TypeOK, AnswersTyped
<1> QED
  BY <1>1, <1>2, <1>3, <1>4

\* What the broker does with a message from a runner.
LEMMA BrokerReadsTypes ==
  ASSUME Types, NEW r \in Runners, BrokerReads(r)
  PROVE  Types'
<1> USE DEF requests, broker
<1>0. TypeOK /\ ChannelsTyped(toRunner) /\ AnswersTyped(toBroker)
  BY DEF Types
<1> DEFINE o == Named(r)
<1>1. CASE TaskOffered(r)
  <2>1. /\ Receives(r, "offer")
        /\ Settle(pending, matched, Append(offers, o), accepting, toRunner, Reachable)
        /\ UNCHANGED <<result, refreshes, tasks, failures, phase, link, mode, atRunner,
                       begun, faults>>
    BY <1>1 DEF TaskOffered
  <2>2. o \in Offers /\ AnswersTyped(toBroker)'
    BY <2>1, ReceivesFacts
  <2> HIDE DEF o
  <2>3. Append(offers, o) \in Seq(Offers)
    BY <1>0, <2>2 DEF TypeOK
  <2>4. /\ pending' \in Seq(Requests) /\ matched' \subseteq Requests
        /\ offers' \in Seq(Offers) /\ accepting' \in [Offers -> 0..NumRequests]
        /\ ChannelsTyped(toRunner)'
    BY <1>0, <2>1, <2>3, SettleTypes DEF TypeOK
  <2>5. SlotsRespected'
    BY <2>1, AllSlotsKept
  <2> QED
    BY <1>0, <2>1, <2>2, <2>4, <2>5 DEF Types, TypeOK
<1>2. CASE RunnerAccept(r)
  <2>1. /\ Receives(r, "accepted")
        /\ UNCHANGED <<refreshes, offers, phase, link, mode, atRunner, begun, faults>>
    BY <1>2 DEF RunnerAccept
  <2>2. /\ o \in Offers /\ AnswersTyped(toBroker)' /\ RunnerOf(o) = r /\ o \in OffersOf({r})
    BY <2>1, ReceivesFacts
  <2>3. SlotsRespected'
    BY <2>1, AllSlotsKept
  <2> HIDE DEF o
  <2>4. CASE accepting[o] = 0
    <3>1. UNCHANGED <<result, pending, matched, accepting, tasks, failures, toRunner>>
      BY <1>2, <2>4 DEF RunnerAccept, o
    <3> QED
      BY <1>0, <2>1, <2>2, <2>3, <3>1 DEF Types, TypeOK, ChannelsTyped
  <2>5. CASE accepting[o] # 0
    <3> DEFINE q == accepting[o]
    <3>1. /\ failures' = [failures EXCEPT ![r] = 0]
          /\ accepting' = [accepting EXCEPT ![o] = 0]
          /\ Accepted(o, q)
      BY <1>2, <2>5 DEF RunnerAccept, o
    <3>2. q \in Requests
      BY <1>0, <2>2, <2>5, Bounds DEF TypeOK
    <3>3. failures' \in [Runners -> 0..(MaxAcceptTimeouts - 1)]
      BY <1>0, <3>1, Bounds, Assigned DEF TypeOK
    <3>4. accepting' \in [Offers -> 0..NumRequests]
      BY <1>0, <3>1, Bounds, Assigned DEF TypeOK
    <3> HIDE DEF q
    <3>5. Without(pending, q) \in Seq(Requests)
      BY <1>0, WithoutFacts DEF TypeOK
    <3>6. /\ result' \in [Requests -> Results] /\ pending' \in Seq(Requests)
          /\ matched' \subseteq Requests /\ tasks' \in [Offers -> 0..NumRequests]
          /\ ChannelsTyped(toRunner)'
      <4>1. CASE ~Contains(pending, q)
        <5>1. toRunner' = CancelAtRunner(o) /\ UNCHANGED <<result, pending, matched, tasks>>
          BY <3>1, <4>1 DEF Accepted
        <5>2. Message("cancel", o) \in Calls(r)
          BY <2>2, CallMade
        <5>3. ChannelsTyped(CancelAtRunner(o))
          BY <1>0, <2>2, <5>2, TellFacts DEF CancelAtRunner
        <5> QED
          BY <1>0, <5>1, <5>3 DEF TypeOK, ChannelsTyped
      <4>2. CASE Contains(pending, q) /\ link[r] = "open"
        <5>1. /\ pending' = Without(pending, q) /\ matched' = matched \ {q}
              /\ tasks' = [tasks EXCEPT ![o] = q]
              /\ result' = [result EXCEPT ![q] = "tasked"]
              /\ toRunner' = Tell(toRunner, r, Settings(o, q))
          BY <3>1, <4>2, <2>2 DEF Accepted
        <5>2. Settings(o, q) \in Calls(r)
          BY <2>2, <3>2, CallMade
        <5>3. ChannelsTyped(Tell(toRunner, r, Settings(o, q)))
          BY <1>0, <5>2, TellFacts
        <5>4. tasks' \in [Offers -> 0..NumRequests]
          BY <1>0, <3>2, <5>1, Bounds, Assigned DEF TypeOK
        <5> QED
          BY <1>0, <3>5, <5>1, <5>3, <5>4 DEF TypeOK, ChannelsTyped, Results
      <4>3. CASE Contains(pending, q) /\ link[r] # "open"
        <5>1. /\ pending' = Without(pending, q) /\ matched' = matched \ {q}
              /\ result' = [result EXCEPT ![q] = "failed"]
              /\ UNCHANGED <<tasks, toRunner>>
          BY <3>1, <4>3, <2>2 DEF Accepted
        <5> QED
          BY <1>0, <3>5, <5>1 DEF TypeOK, ChannelsTyped, Results
      <4> QED
        BY <4>1, <4>2, <4>3
    <3> QED
      BY <1>0, <2>1, <2>2, <2>3, <3>3, <3>4, <3>6 DEF Types, TypeOK
  <2> QED
    BY <2>4, <2>5
<1>3. CASE RunnerReject(r)
  <2>1. /\ Receives(r, "rejected")
        /\ UNCHANGED <<result, refreshes, tasks, phase, link, mode, atRunner, begun, faults>>
    BY <1>3 DEF RunnerReject
  <2>2. o \in Offers /\ AnswersTyped(toBroker)'
    BY <2>1, ReceivesFacts
  <2>3. SlotsRespected'
    BY <2>1, AllSlotsKept
  <2> HIDE DEF o
  <2>4. CASE accepting[o] = 0
    <3>1. UNCHANGED <<pending, matched, offers, accepting, failures, toRunner>>
      BY <1>3, <2>4 DEF RunnerReject, o
    <3> QED
      BY <1>0, <2>1, <2>2, <2>3, <3>1 DEF Types, TypeOK, ChannelsTyped
  <2>5. CASE accepting[o] # 0
    <3>1. /\ failures' = [failures EXCEPT ![r] = 0]
          /\ Settle(pending, matched \ {accepting[o]}, offers,
                    [accepting EXCEPT ![o] = 0], toRunner, Reachable)
      BY <1>3, <2>5 DEF RunnerReject, o
    <3>2. failures' \in [Runners -> 0..(MaxAcceptTimeouts - 1)]
      BY <1>0, <3>1, Bounds, Assigned DEF TypeOK
    <3>3. [accepting EXCEPT ![o] = 0] \in [Offers -> 0..NumRequests]
      BY <1>0, Bounds, Assigned DEF TypeOK
    <3>4. matched \ {accepting[o]} \in SUBSET Requests
      BY <1>0 DEF TypeOK
    <3>5. /\ pending' \in Seq(Requests) /\ matched' \subseteq Requests
          /\ offers' \in Seq(Offers) /\ accepting' \in [Offers -> 0..NumRequests]
          /\ ChannelsTyped(toRunner)'
      BY <1>0, <3>1, <3>3, <3>4, SettleTypes DEF TypeOK
    <3> QED
      BY <1>0, <2>1, <2>2, <2>3, <3>2, <3>5 DEF Types, TypeOK
  <2> QED
    BY <2>4, <2>5
<1>4. CASE RunnerDeferred(r)
  <2>1. /\ Receives(r, "deferred")
        /\ UNCHANGED <<result, pending, offers, tasks, phase, link, mode, atRunner,
                       toRunner, begun, faults>>
    BY <1>4 DEF RunnerDeferred
  <2>2. o \in Offers /\ AnswersTyped(toBroker)'
    BY <2>1, ReceivesFacts
  <2>3. SlotsRespected'
    BY <2>1, AllSlotsKept
  <2> HIDE DEF o
  <2>4. CASE accepting[o] = 0
    <3>1. UNCHANGED <<matched, refreshes, accepting, failures>>
      BY <1>4, <2>4 DEF RunnerDeferred, o
    <3> QED
      BY <1>0, <2>1, <2>2, <2>3, <3>1 DEF Types, TypeOK, ChannelsTyped
  <2>5. CASE accepting[o] # 0
    <3>1. /\ failures' = [failures EXCEPT ![r] = 0]
          /\ accepting' = [accepting EXCEPT ![o] = 0]
          /\ matched' = matched \ {accepting[o]}
          /\ Refresh(accepting[o])
      BY <1>4, <2>5 DEF RunnerDeferred, o
    <3>2. failures' \in [Runners -> 0..(MaxAcceptTimeouts - 1)]
      BY <1>0, <3>1, Bounds, Assigned DEF TypeOK
    <3>3. accepting' \in [Offers -> 0..NumRequests]
      BY <1>0, <3>1, Bounds, Assigned DEF TypeOK
    <3>4. refreshes' \in [Requests -> 0..MaxRefreshes]
      BY <1>0, <3>1, RefreshTypes
    <3> QED
      BY <1>0, <2>1, <2>2, <2>3, <3>1, <3>2, <3>3, <3>4 DEF Types, TypeOK, ChannelsTyped
  <2> QED
    BY <2>4, <2>5
<1>5. CASE TaskResult(r)
  <2>1. /\ Receives(r, "result")
        /\ UNCHANGED <<pending, matched, refreshes, offers, accepting, failures, phase,
                       link, mode, atRunner, toRunner, begun, faults>>
    BY <1>5 DEF TaskResult
  <2>2. o \in Offers /\ AnswersTyped(toBroker)'
    BY <2>1, ReceivesFacts
  <2>3. SlotsRespected'
    BY <2>1, AllSlotsKept
  <2>4. \/ UNCHANGED <<result, tasks>>
        \/ /\ tasks' = [tasks EXCEPT ![o] = 0]
           /\ result' = [result EXCEPT ![tasks[o]] = "returned"]
    BY <1>5 DEF TaskResult
  <2> HIDE DEF o
  <2>5. tasks' \in [Offers -> 0..NumRequests] /\ result' \in [Requests -> Results]
    <3>0. tasks' = tasks \/ tasks' = [tasks EXCEPT ![o] = 0]
      BY <2>4
    <3>a. tasks \in [Offers -> 0..NumRequests]
      BY <1>0 DEF TypeOK
    <3>b. [tasks EXCEPT ![o] = 0] \in [Offers -> 0..NumRequests]
      BY <3>a, Bounds, Assigned
    <3>1. tasks' \in [Offers -> 0..NumRequests]
      BY <3>0, <3>a, <3>b
    <3>2. result' \in [Requests -> Results]
      BY <1>0, <2>4 DEF TypeOK, Results
    <3> QED
      BY <3>1, <3>2
  <2> QED
    BY <1>0, <2>1, <2>2, <2>3, <2>5 DEF Types, TypeOK, ChannelsTyped
<1> QED
  BY <1>1, <1>2, <1>3, <1>4, <1>5 DEF BrokerReads

\* Connections, and the drain of the broker.
LEMMA ConnectionTypes ==
  ASSUME Types, StartDraining \/ CloseConnections \/ \E r \in Runners : Connections(r)
  PROVE  Types'
<1> USE DEF requests, broker
<1>0. TypeOK /\ ChannelsTyped(toRunner) /\ AnswersTyped(toBroker)
  BY DEF Types
<1>1. ASSUME NEW r \in Runners, Connect(r) PROVE Types'
  <2>1. /\ link' = [link EXCEPT ![r] = "open"]
        /\ mode' = [mode EXCEPT ![r] = "new"]
        /\ toRunner' = [toRunner EXCEPT ![r] = <<Notice("registered")>>]
        /\ UNCHANGED <<broker, atRunner, toBroker, begun, faults>>
    BY <1>1 DEF Connect
  <2>2. link' \in [Runners -> Links] /\ mode' \in [Runners -> Modes]
    BY <1>0, <2>1 DEF TypeOK, Links, Modes
  <2>3. Notice("registered") \in Calls(r)
    BY DEF Calls
  <2> DEFINE first == <<Notice("registered")>>
  <2>4. first \in Seq(Calls(r))
    BY <2>3
  <2> HIDE DEF first
  <2>5. toRunner' = [s \in Runners |-> IF s = r THEN first ELSE toRunner[s]]
    BY <1>0, <2>1 DEF ChannelsTyped, first
  <2>6. ChannelsTyped(toRunner)'
    BY <1>0, <2>4, <2>5 DEF ChannelsTyped
  <2>7. SlotsRespected'
    BY <2>1, AllSlotsKept
  <2> QED
    BY <1>0, <2>1, <2>2, <2>6, <2>7 DEF Types, TypeOK, AnswersTyped
<1>2. ASSUME NEW r \in Runners, SocketCloses(r) PROVE Types'
  <2>1. /\ link' = [link EXCEPT ![r] = "closing"]
        /\ UNCHANGED <<broker, mode, atRunner, toRunner, toBroker, begun, faults>>
    BY <1>2 DEF SocketCloses
  <2>2. link' \in [Runners -> Links]
    BY <1>0, <2>1 DEF TypeOK, Links
  <2>3. SlotsRespected'
    BY <2>1, AllSlotsKept
  <2> QED
    BY <1>0, <2>1, <2>2, <2>3 DEF Types, TypeOK, AnswersTyped, ChannelsTyped
<1>3. ASSUME NEW r \in Runners, ConnectionLost(r) PROVE Types'
  <2>1. /\ UNCHANGED faults \/ Fault
        /\ Disconnect({r})
        /\ UNCHANGED <<broker, mode, atRunner, toRunner, begun>>
    BY <1>3 DEF ConnectionLost
  <2>2. link' \in [Runners -> Links] /\ AnswersTyped(toBroker)'
    BY <2>1, DisconnectFacts
  <2>3. SlotsRespected'
    BY <2>1, AllSlotsKept
  <2>4. faults' \in Nat
    BY <1>0, <2>1 DEF TypeOK, Fault
  <2> QED
    BY <1>0, <2>1, <2>2, <2>3, <2>4 DEF Types, TypeOK, ChannelsTyped
<1>4. ASSUME NEW r \in Runners, Deregister(r) PROVE Types'
  <2> DEFINE mine == {o \in Offers : RunnerOf(o) = r}
             left == Only(offers, OffersOf(Runners \ {r}))
             asked == {accepting[o] : o \in mine}
             after == [o \in Offers |-> IF o \in mine THEN 0 ELSE accepting[o]]
  <2>1. /\ link' = [link EXCEPT ![r] = "off"]
        /\ failures' = [failures EXCEPT ![r] = 0]
        /\ Failed(mine)
        /\ \/ offers' = left /\ UNCHANGED <<pending, matched, accepting, toRunner>>
           \/ Settle(pending, matched \ asked, left, after, toRunner, Reachable)
        /\ UNCHANGED <<refreshes, phase, mode, atRunner, toBroker, begun, faults>>
    BY <1>4 DEF Deregister
  <2>2. left \in Seq(Offers)
    BY <1>0, OnlyFacts DEF TypeOK
  <2>3. after \in [Offers -> 0..NumRequests]
    BY <1>0, Bounds DEF TypeOK
  <2>4. matched \ asked \in SUBSET Requests
    BY <1>0 DEF TypeOK
  <2>5. tasks' \in [Offers -> 0..NumRequests] /\ result' \in [Requests -> Results]
    <3>1. tasks' = [o \in Offers |-> IF o \in mine THEN 0 ELSE tasks[o]]
      BY <2>1 DEF Failed
    <3>2. result' = [q \in Requests |->
                       IF \E o \in mine : tasks[o] = q THEN "failed" ELSE result[q]]
      BY <2>1 DEF Failed
    <3>3. tasks' \in [Offers -> 0..NumRequests]
      BY <1>0, <3>1, Bounds DEF TypeOK
    <3>4. result' \in [Requests -> Results]
      BY <1>0, <3>2 DEF TypeOK, Results
    <3> QED
      BY <3>3, <3>4
  <2>6. link' \in [Runners -> Links]
    BY <1>0, <2>1 DEF TypeOK, Links
  <2>7. failures' \in [Runners -> 0..(MaxAcceptTimeouts - 1)]
    BY <1>0, <2>1, Bounds, Assigned DEF TypeOK
  <2> HIDE DEF mine, left, asked, after
  <2>8. /\ pending' \in Seq(Requests) /\ matched' \subseteq Requests
        /\ offers' \in Seq(Offers) /\ accepting' \in [Offers -> 0..NumRequests]
        /\ ChannelsTyped(toRunner)'
    <3>1. CASE offers' = left /\ UNCHANGED <<pending, matched, accepting, toRunner>>
      BY <1>0, <2>2, <3>1 DEF TypeOK, ChannelsTyped
    <3>2. CASE Settle(pending, matched \ asked, left, after, toRunner, Reachable)
      BY <1>0, <2>2, <2>3, <2>4, <3>2, SettleTypes DEF TypeOK
    <3> QED
      BY <2>1, <3>1, <3>2
  <2>9. SlotsRespected'
    BY <2>1, AllSlotsKept
  <2> QED
    BY <1>0, <2>1, <2>5, <2>6, <2>7, <2>8, <2>9 DEF Types, TypeOK, AnswersTyped
<1>5. ASSUME StartDraining PROVE Types'
  <2> DEFINE told(r) == Append(toRunner[r], Notice("drain"))
  <2>1. /\ phase' = "draining" /\ Fault
        /\ toRunner' = [r \in Runners |-> IF Listening(r) THEN told(r) ELSE toRunner[r]]
        /\ UNCHANGED <<requests, offers, accepting, tasks, failures, link, mode, atRunner,
                       toBroker, begun>>
    BY <1>5 DEF StartDraining
  <2>2. \A r \in Runners : told(r) \in Seq(Calls(r))
    <3> TAKE r \in Runners
    <3>1. Notice("drain") \in Calls(r)
      BY DEF Calls
    <3>2. toRunner[r] \in Seq(Calls(r))
      BY <1>0 DEF ChannelsTyped
    <3> QED
      BY <3>1, <3>2, AppendProperties
  <2> HIDE DEF told
  <2>3. ChannelsTyped(toRunner)'
    BY <1>0, <2>1, <2>2 DEF ChannelsTyped
  <2>4. SlotsRespected'
    BY <2>1, AllSlotsKept
  <2>5. faults' \in Nat
    BY <1>0, <2>1 DEF TypeOK, Fault
  <2> QED
    BY <1>0, <2>1, <2>3, <2>4, <2>5 DEF Types, TypeOK, AnswersTyped
<1>6. ASSUME CloseConnections PROVE Types'
  <2>1. /\ phase' = "stopped"
        /\ Disconnect({r \in Runners : link[r] \in {"open", "closing"}})
        /\ UNCHANGED <<requests, offers, accepting, tasks, failures, mode, atRunner, toRunner,
                       begun, faults>>
    BY <1>6 DEF CloseConnections
  <2>2. link' \in [Runners -> Links] /\ AnswersTyped(toBroker)'
    BY <2>1, DisconnectFacts
  <2>3. SlotsRespected'
    BY <2>1, AllSlotsKept
  <2> QED
    BY <1>0, <2>1, <2>2, <2>3 DEF Types, TypeOK, ChannelsTyped
<1> QED
  BY <1>1, <1>2, <1>3, <1>4, <1>5, <1>6 DEF Connections

\* A runner finishes a task, and offers its slot again.
LEMMA FinishTypes ==
  ASSUME Types, NEW o \in Offers, NEW sent \in Seq(Answers(RunnerOf(o))), FinishTask(o, sent)
  PROVE  atRunner' \in [Offers -> Places] /\ AnswersTyped(toBroker)' /\ SlotsRespected'
<1> DEFINE r == RunnerOf(o)
           at == [atRunner EXCEPT ![o] = "none"]
<1>1. PICK stale \in SUBSET At(r, {"open"}) : SendOffers(r, at, sent, stale)
  BY DEF FinishTask
<1>2. atRunner \in [Offers -> Places]
  BY DEF Types, TypeOK
<1>3. at \in [Offers -> Places] /\ \A p \in Offers : at[p] = atRunner[p] \/ at[p] = "none"
  BY <1>2 DEF Places
<1>4. r \in Runners
  BY OfferFacts
<1> HIDE DEF at
<1> QED
  BY <1>1, <1>3, <1>4, SendOffersTypes

\* A slot is taken by a task whose offer was open.
LEMMA SlotTaken ==
  ASSUME Types, NEW o \in Offers, NEW p \in Places, atRunner[o] \in Out \/ p = "none",
         atRunner' = [atRunner EXCEPT ![o] = p]
  PROVE  atRunner' \in [Offers -> Places] /\ SlotsRespected'
<1>1. atRunner \in [Offers -> Places]
  BY DEF Types, TypeOK
<1>2. \A x \in Offers : atRunner'[x] \in Out => atRunner[x] \in Out
  BY <1>1 DEF Out, Held
<1> QED
  BY <1>1, <1>2, AllSlotsKept, Assigned

\* Steps of a runner.
LEMMA RunnerTypes ==
  ASSUME Types, NEW r \in Runners, RunnerSteps(r)
  PROVE  Types'
<1> USE DEF requests, broker
<1>0. TypeOK /\ ChannelsTyped(toRunner) /\ AnswersTyped(toBroker)
  BY DEF Types
<1>1. CASE OfferSlots(r)
  <2>1. UNCHANGED <<broker, link, mode, toRunner, begun, faults>>
    BY <1>1 DEF OfferSlots
  <2>2. PICK stale \in SUBSET At(r, {"open"}) : SendOffers(r, atRunner, <<>>, stale)
    BY <1>1 DEF OfferSlots
  <2>3. atRunner \in [Offers -> Places] /\ <<>> \in Seq(Answers(r))
    BY <1>0 DEF TypeOK
  <2>4. atRunner' \in [Offers -> Places] /\ AnswersTyped(toBroker)' /\ SlotsRespected'
    BY <2>2, <2>3, SendOffersTypes
  <2> QED
    BY <1>0, <2>1, <2>4 DEF Types, TypeOK, ChannelsTyped
<1>2. CASE RunnerRegistered(r) \/ BrokerDrains(r)
  <2>1. PICK kind \in {"registered", "drain"} : Reads(r, kind)
    BY <1>2 DEF RunnerRegistered, BrokerDrains
  <2>2. /\ mode' \in [Runners -> Modes]
        /\ UNCHANGED <<broker, link, atRunner, toBroker, begun, faults>>
    BY <1>0, <1>2 DEF RunnerRegistered, BrokerDrains, TypeOK, Modes
  <2>3. ChannelsTyped(toRunner)'
    BY <2>1, ReadsFacts
  <2>4. SlotsRespected'
    BY <2>2, AllSlotsKept
  <2> QED
    BY <1>0, <2>2, <2>3, <2>4 DEF Types, TypeOK, AnswersTyped
<1>3. CASE OfferAccepted(r) \/ OfferDeferred(r)
  <2> DEFINE o == Meant(r)
  <2>1. Reads(r, "accept") /\ UNCHANGED <<broker, link, mode, begun, faults>>
    BY <1>3 DEF OfferAccepted, OfferDeferred
  <2>2. \E kind \in {"rejected", "accepted", "deferred"} : Says(r, Message(kind, o))
    BY <1>3 DEF OfferAccepted, OfferDeferred
  <2>3. \/ atRunner' = atRunner
        \/ atRunner' = [atRunner EXCEPT ![o] = "none"]
        \/ atRunner[o] = "open" /\ atRunner' = [atRunner EXCEPT ![o] = "waiting"]
    BY <1>3 DEF OfferAccepted, OfferDeferred
  <2>4. ChannelsTyped(toRunner)' /\ o \in Offers /\ o \in OffersOf({r})
    BY <2>1, ReadsFacts
  <2> HIDE DEF o
  <2>5. AnswersTyped(toBroker)'
    <3>1. PICK kind \in {"rejected", "accepted", "deferred"} : Says(r, Message(kind, o))
      BY <2>2
    <3>2. Message(kind, o) \in Answers(r)
      BY <2>4, AnswerMade
    <3> QED
      BY <3>1, <3>2, SaysFacts
  <2>6. atRunner' \in [Offers -> Places] /\ SlotsRespected'
    <3>1. CASE atRunner' = atRunner
      BY <1>0, <3>1, AllSlotsKept DEF TypeOK
    <3>2. CASE atRunner' = [atRunner EXCEPT ![o] = "none"]
      BY <2>4, <3>2, SlotTaken DEF Places
    <3>3. CASE atRunner[o] = "open" /\ atRunner' = [atRunner EXCEPT ![o] = "waiting"]
      BY <2>4, <3>3, SlotTaken DEF Places, Out
    <3> QED
      BY <2>3, <3>1, <3>2, <3>3
  <2> QED
    BY <1>0, <2>1, <2>4, <2>5, <2>6 DEF Types, TypeOK
<1>4. CASE ReceivedSettings(r)
  <2> DEFINE m == Head(toRunner[r])
  <2>1. Reads(r, "settings") /\ UNCHANGED <<broker, link, mode, toBroker, faults>>
    BY <1>4 DEF ReceivedSettings
  <2>2. \/ UNCHANGED <<atRunner, begun>>
        \/ /\ atRunner[m.offer] = "waiting"
           /\ atRunner' = [atRunner EXCEPT ![m.offer] = "running"]
           /\ begun' = [begun EXCEPT ![m.request] = @ + 1]
    BY <1>4 DEF ReceivedSettings
  <2>3. ChannelsTyped(toRunner)' /\ m \in Calls(r) /\ m.kind = "settings" /\ m.offer \in Offers
    BY <2>1, ReadsFacts DEF Meant
  <2>4. m.request \in Requests
    BY <2>3, CallFacts
  <2> HIDE DEF m
  <2>5. begun' \in [Requests -> Nat]
    <3>1. begun \in [Requests -> Nat]
      BY <1>0 DEF TypeOK
    <3>2. begun[m.request] + 1 \in Nat
      BY <3>1, <2>4
    <3>3. begun' = begun \/ begun' = [begun EXCEPT ![m.request] = begun[m.request] + 1]
      BY <2>2
    <3>4. [begun EXCEPT ![m.request] = begun[m.request] + 1] \in [Requests -> Nat]
      BY <3>1, <3>2, Assigned
    <3> QED
      BY <3>1, <3>3, <3>4
  <2>6. atRunner' \in [Offers -> Places] /\ SlotsRespected'
    <3>1. CASE UNCHANGED <<atRunner, begun>>
      BY <1>0, <3>1, AllSlotsKept DEF TypeOK
    <3>2. CASE atRunner[m.offer] = "waiting" /\ atRunner' = [atRunner EXCEPT ![m.offer] = "running"]
      BY <2>3, <3>2, SlotTaken DEF Places, Out, Held
    <3> QED
      BY <2>2, <3>1, <3>2
  <2> QED
    BY <1>0, <2>1, <2>3, <2>5, <2>6 DEF Types, TypeOK, AnswersTyped
<1>5. CASE TaskCancelled(r)
  <2> DEFINE o == Meant(r)
  <2>1. Reads(r, "cancel") /\ UNCHANGED <<broker, link, mode, begun, faults>>
    BY <1>5 DEF TaskCancelled
  <2>2. \/ FinishTask(o, <<>>)
        \/ /\ UNCHANGED toBroker
           /\ \/ atRunner' = atRunner
              \/ atRunner[o] = "running" /\ atRunner' = [atRunner EXCEPT ![o] = "aborting"]
    BY <1>5 DEF TaskCancelled
  <2>3. ChannelsTyped(toRunner)' /\ o \in Offers /\ RunnerOf(o) = r
    BY <2>1, ReadsFacts
  <2> HIDE DEF o
  <2>4. atRunner' \in [Offers -> Places] /\ AnswersTyped(toBroker)' /\ SlotsRespected'
    <3>1. CASE FinishTask(o, <<>>)
      <4>1. <<>> \in Seq(Answers(RunnerOf(o)))
        OBVIOUS
      <4> QED
        BY <2>3, <3>1, <4>1, FinishTypes
    <3>2. CASE UNCHANGED toBroker /\ atRunner' = atRunner
      BY <1>0, <3>2, AllSlotsKept DEF TypeOK, AnswersTyped
    <3>3. CASE UNCHANGED toBroker /\ atRunner[o] = "running"
                 /\ atRunner' = [atRunner EXCEPT ![o] = "aborting"]
      <4>1. atRunner' \in [Offers -> Places] /\ SlotsRespected'
        BY <2>3, <3>3, SlotTaken DEF Places, Out, Held
      <4> QED
        BY <1>0, <3>3, <4>1 DEF AnswersTyped
    <3> QED
      BY <2>2, <3>1, <3>2, <3>3
  <2> QED
    BY <1>0, <2>1, <2>3, <2>4 DEF Types, TypeOK
<1>6. CASE RunnerStops(r)
  <2>1. /\ mode' = [mode EXCEPT ![r] = "stopping"] /\ Fault
        /\ atRunner' = [o \in Offers |->
             IF RunnerOf(o) = r /\ atRunner[o] = "open" THEN "none" ELSE atRunner[o]]
        /\ UNCHANGED <<broker, link, toRunner, toBroker, begun>>
    BY <1>6 DEF RunnerStops
  <2>2. mode' \in [Runners -> Modes] /\ atRunner' \in [Offers -> Places] /\ faults' \in Nat
    BY <1>0, <2>1 DEF TypeOK, Modes, Places, Fault
  <2>3. SlotsRespected'
    BY <2>1, AllSlotsKept DEF Out, Held
  <2> QED
    BY <1>0, <2>1, <2>2, <2>3 DEF Types, TypeOK, AnswersTyped, ChannelsTyped
<1>7. CASE RunnerCloses(r) \/ RunnerCrashes(r) \/ RunnerExits(r)
  <2>1. /\ Dies(r)
        /\ link' = link \/ link' = [link EXCEPT ![r] = "closing"]
        /\ UNCHANGED faults \/ Fault
        /\ UNCHANGED <<broker, toBroker, begun>>
    BY <1>7 DEF RunnerCloses, RunnerCrashes, RunnerExits
  <2>2. mode' \in [Runners -> Modes] /\ atRunner' \in [Offers -> Places]
    BY <1>0, <2>1 DEF TypeOK, Dies, Modes, Places
  <2>3. ChannelsTyped(toRunner)'
    BY <1>0, <2>1 DEF ChannelsTyped, Dies
  <2>4. SlotsRespected'
    BY <2>1, AllSlotsKept DEF Dies, Out, Held
  <2>5. link' \in [Runners -> Links]
    BY <1>0, <2>1 DEF TypeOK, Links
  <2>6. faults' \in Nat
    BY <1>0, <2>1 DEF TypeOK, Fault
  <2> QED
    BY <1>0, <2>1, <2>2, <2>3, <2>4, <2>5, <2>6 DEF Types, TypeOK, AnswersTyped
<1> QED
  BY <1>1, <1>2, <1>3, <1>4, <1>5, <1>6, <1>7 DEF RunnerSteps

\* Tasks at a runner end.
LEMMA TaskTypes ==
  ASSUME Types, NEW o \in Offers, TaskFinishes(o) \/ TaskTimedOut(o)
  PROVE  Types'
<1> USE DEF requests, broker
<1>0. TypeOK /\ ChannelsTyped(toRunner) /\ AnswersTyped(toBroker)
  BY DEF Types
<1>1. UNCHANGED <<broker, link, mode, toRunner, begun, faults>>
  BY DEF TaskFinishes, TaskTimedOut
<1>2. \/ FinishTask(o, <<>>)
      \/ FinishTask(o, <<Message("result", o)>>)
      \/ /\ UNCHANGED toBroker /\ atRunner[o] = "running"
         /\ atRunner' = [atRunner EXCEPT ![o] = "overdue"]
  BY DEF TaskFinishes, TaskTimedOut
<1>3. <<>> \in Seq(Answers(RunnerOf(o))) /\ <<Message("result", o)>> \in Seq(Answers(RunnerOf(o)))
  <2>1. Message("result", o) \in Answers(RunnerOf(o))
    BY OfferFacts, AnswerMade
  <2> QED
    BY <2>1
<1>4. atRunner' \in [Offers -> Places] /\ AnswersTyped(toBroker)' /\ SlotsRespected'
  <2>1. CASE FinishTask(o, <<>>)
    BY <1>3, <2>1, FinishTypes
  <2>2. CASE FinishTask(o, <<Message("result", o)>>)
    BY <1>3, <2>2, FinishTypes
  <2>3. CASE UNCHANGED toBroker /\ atRunner[o] = "running"
               /\ atRunner' = [atRunner EXCEPT ![o] = "overdue"]
    <3>1. atRunner' \in [Offers -> Places] /\ SlotsRespected'
      BY <2>3, SlotTaken DEF Places, Out, Held
    <3> QED
      BY <1>0, <2>3, <3>1 DEF AnswersTyped
  <2> QED
    BY <1>2, <2>1, <2>2, <2>3
<1> QED
  BY <1>0, <1>1, <1>4 DEF Types, TypeOK, ChannelsTyped

\* The initial state.
LEMMA InitTypes ==
  ASSUME Init
  PROVE  Types
<1>1. TypeOK
  BY BrokerAssumption DEF Init, TypeOK, Results, Links, Modes, Places, Requests
<1>2. ChannelsTyped(toRunner) /\ AnswersTyped(toBroker)
  BY DEF Init, ChannelsTyped, AnswersTyped
<1>3. SlotsRespected
  <2> SUFFICES ASSUME NEW r \in Runners PROVE Cardinality(At(r, Out)) =< MaxConcurrency
    BY DEF SlotsRespected, Out
  <2>1. At(r, Out) = {}
    BY DEF Init, At, Out, Held
  <2> QED
    BY <2>1, FS_EmptySet, BrokerAssumption
<1> QED
  BY <1>1, <1>2, <1>3 DEF Types

\* Every step keeps the types.
LEMMA TypesStep ==
  ASSUME Types, [Next]_vars
  PROVE  Types'
<1>1. CASE UNCHANGED vars
  <2>1. UNCHANGED atRunner
    BY <1>1 DEF vars
  <2>2. SlotsRespected'
    BY <2>1, AllSlotsKept
  <2> QED
    BY <1>1, <2>2 DEF Types, TypeOK, ChannelsTyped, AnswersTyped, vars
<1>2. CASE Next
  BY <1>2, QueueTypes, OfferTypes, BrokerReadsTypes, ConnectionTypes, RunnerTypes, TaskTypes
     DEF Next
<1> QED
  BY <1>1, <1>2

\* Types are right in every state.
LEMMA TypesAlways == Spec => []Types
<1>1. Init => Types
  BY InitTypes
<1>2. Types /\ [Next]_vars => Types'
  BY TypesStep
<1> QED
  BY <1>1, <1>2, PTL DEF Spec

\* Every variable of the broker and of the runners keeps its type, however messages
\* cross and whatever times out or goes away.
THEOREM TypeCorrect == Spec => []TypeOK
<1>1. Types => TypeOK
  BY DEF Types
<1> QED
  BY <1>1, TypesAlways, PTL

\* No runner ever has more tasks and offers out than slots: neither acceptances of stale
\* offers nor the batches of new ones that cross them take it over.
THEOREM SlotsNeverExceeded == Spec => []SlotsRespected
<1>1. Types => SlotsRespected
  BY DEF Types
<1> QED
  BY <1>1, TypesAlways, PTL

-----------------------------------------------------------------------------
(* The life of a slot's name.                                              *)

\* listed, a, t: the broker has the offer, waits for an answer, tracks a task;
\* R and B: what is on its way to and from the runner; l and m: its link and mode.
Life(o, listed, a, t, place, R, B, l, m) ==
  \* An offer on its way, or listed, is nothing else, nor is it mentioned anywhere.
  /\ Sole(B, "offer", o)
  /\ Mail(B, "offer", o) => ~listed
  /\ Mail(B, "offer", o) \/ listed =>
       a = 0 /\ t = 0 /\ ~Mentions(R, o) /\ place \in {"none", "open"}
  /\ listed => ~Mentions(B, o)
  \* The runner is asked once, before anything else it is told of the offer, and as
  \* long as it has not answered the broker waits, or has told it to drop the task.
  /\ Leads(R, "accept", o)
  /\ Mail(R, "accept", o) => t = 0 /\ place \in {"none", "open"} /\ ~Mentions(B, o)
  /\ Mail(R, "accept", o) /\ l = "open" => a # 0 \/ Mail(R, "cancel", o)
  \* No slot is held once one of these is said.
  /\ Mail(B, "rejected", o) \/ Mail(B, "deferred", o) \/ Mail(B, "result", o) =>
       place \in {"none", "open"}
  /\ a = 0 \/ t = 0
  \* What a runner that is gone, or disconnected, leaves.
  /\ m = "gone" => place = "none" /\ R = <<>>
  /\ l \in {"removed", "off"} => B = <<>>
  /\ l = "off" => ~listed /\ a = 0 /\ t = 0
  \* SlotsOwned, of this slot.
  /\ place \in {"waiting", "running"} /\ l = "open" =>
       a # 0 \/ t # 0 \/ Mail(R, "cancel", o)

LifeOf(o) ==
  Life(o, Contains(offers, o), accepting[o], tasks[o], atRunner[o],
       toRunner[RunnerOf(o)], toBroker[RunnerOf(o)], link[RunnerOf(o)], mode[RunnerOf(o)])

SlotLife ==
  /\ Distinct(offers)
  /\ \A o \in Offers : LifeOf(o)

\* A message about an offer mentions it.
LEMMA MailMentions ==
  ASSUME NEW s, NEW k, NEW o, Mail(s, k, o)
  PROVE  Mentions(s, o)
BY DEF Mail, Mentions

\* What r has read, for an offer x.
LEMMA ReadsMail ==
  ASSUME Types, NEW r \in Runners, NEW kind, Reads(r, kind), NEW x \in Offers
  PROVE  /\ RunnerOf(x) # r => toRunner'[RunnerOf(x)] = toRunner[RunnerOf(x)]
         /\ RunnerOf(x) = r =>
              /\ mode[r] # "gone"
              /\ \A k : Mail(toRunner[r], k, x) <=>
                          Mail(toRunner'[r], k, x) \/ (k = kind /\ Meant(r) = x)
              /\ Mentions(toRunner'[r], x) => Mentions(toRunner[r], x)
              /\ Leads(toRunner[r], "accept", x) =>
                   /\ Leads(toRunner'[r], "accept", x)
                   /\ Meant(r) = x => ~Mail(toRunner'[r], "accept", x)
<1>1. /\ toRunner[r] \in Seq(Calls(r)) /\ toRunner[r] # <<>>
      /\ Head(toRunner[r]).kind = kind /\ mode[r] # "gone"
      /\ \A s \in Runners : toRunner'[s] = IF s = r THEN Tail(toRunner[r]) ELSE toRunner[s]
  BY ReadsFacts
<1>2. RunnerOf(x) \in Runners
  BY OfferFacts
<1> DEFINE R == toRunner[r]
           h == Head(R)
<1>3. /\ \A k : Mail(R, k, x) <=> Mail(Tail(R), k, x) \/ (h.kind = k /\ h.offer = x)
      /\ Mentions(R, x) <=> Mentions(Tail(R), x) \/ h.offer = x
      /\ \A k : Leads(R, k, x) =>
                  Leads(Tail(R), k, x) /\ (h.offer = x => ~Mail(Tail(R), k, x))
  BY <1>1, MailTail
<1>4. toRunner'[r] = Tail(R) /\ Meant(r) = h.offer
  BY <1>1 DEF Meant
<1> HIDE DEF h
<1> QED
  BY <1>1, <1>2, <1>3, <1>4 DEF h

\* What the broker has read from r, for an offer x.
LEMMA ReceivesMail ==
  ASSUME Types, NEW r \in Runners, NEW kind, Receives(r, kind), NEW x \in Offers
  PROVE  /\ link[r] \in {"open", "closing"}
         /\ RunnerOf(x) # r => toBroker'[RunnerOf(x)] = toBroker[RunnerOf(x)]
         /\ RunnerOf(x) = r =>
              /\ \A k : Mail(toBroker[r], k, x) <=>
                          Mail(toBroker'[r], k, x) \/ (k = kind /\ Named(r) = x)
              /\ Mentions(toBroker[r], x) <=> Mentions(toBroker'[r], x) \/ Named(r) = x
              /\ Sole(toBroker[r], "offer", x) =>
                   /\ Sole(toBroker'[r], "offer", x)
                   /\ Named(r) = x =>
                        /\ ~Mail(toBroker'[r], "offer", x)
                        /\ kind = "offer" => ~Mentions(toBroker'[r], x)
<1>1. /\ toBroker[r] \in Seq(Answers(r)) /\ toBroker[r] # <<>>
      /\ Head(toBroker[r]).kind = kind
      /\ \A s \in Runners : toBroker'[s] = IF s = r THEN Tail(toBroker[r]) ELSE toBroker[s]
  BY ReceivesFacts
<1>2. RunnerOf(x) \in Runners
  BY OfferFacts
<1> DEFINE B == toBroker[r]
           h == Head(B)
<1>3. /\ \A k : Mail(B, k, x) <=> Mail(Tail(B), k, x) \/ (h.kind = k /\ h.offer = x)
      /\ Mentions(B, x) <=> Mentions(Tail(B), x) \/ h.offer = x
      /\ \A k : Sole(B, k, x) =>
                  /\ Sole(Tail(B), k, x)
                  /\ h.offer = x =>
                       /\ ~Mail(Tail(B), k, x)
                       /\ h.kind = k => ~Mentions(Tail(B), x)
  BY <1>1, MailTail
<1>4. toBroker'[r] = Tail(B) /\ Named(r) = h.offer
  BY <1>1 DEF Named
<1>5. link[r] \in {"open", "closing"}
  BY DEF Receives
<1> HIDE DEF h
<1> QED
  BY <1>1, <1>2, <1>3, <1>4, <1>5 DEF h

\* What r is told, for an offer x: not to accept something.
LEMMA TellMail ==
  ASSUME Types, NEW r \in Runners, NEW m \in Calls(r), m.kind # "accept", NEW x \in Offers,
         NEW after, after = Tell(toRunner, r, m)[RunnerOf(x)]
  PROVE  /\ RunnerOf(x) # r => after = toRunner[RunnerOf(x)]
         /\ RunnerOf(x) = r =>
              /\ \A k : Mail(after, k, x) <=> \/ Mail(toRunner[r], k, x)
                                              \/ Listening(r) /\ m.kind = k /\ m.offer = x
              /\ Mentions(after, x) <=> Mentions(toRunner[r], x) \/ (Listening(r) /\ m.offer = x)
              /\ Leads(toRunner[r], "accept", x) => Leads(after, "accept", x)
              /\ mode[r] = "gone" => after = toRunner[r]
<1>0. ChannelsTyped(toRunner) /\ toRunner[r] \in Seq(Calls(r))
  BY DEF Types, ChannelsTyped
<1>1. /\ \A s \in Runners : s # r => Tell(toRunner, r, m)[s] = toRunner[s]
      /\ Tell(toRunner, r, m)[r] =
           IF Listening(r) THEN Append(toRunner[r], m) ELSE toRunner[r]
  BY <1>0, TellFacts
<1>2. RunnerOf(x) \in Runners
  BY OfferFacts
<1> DEFINE more == Append(toRunner[r], m)
<1>3. /\ \A k : Mail(more, k, x) <=> Mail(toRunner[r], k, x) \/ (m.kind = k /\ m.offer = x)
      /\ Mentions(more, x) <=> Mentions(toRunner[r], x) \/ m.offer = x
      /\ Leads(toRunner[r], "accept", x) => Leads(more, "accept", x)
  BY <1>0, MailAppend
<1> HIDE DEF more
<1>4. CASE Listening(r)
  BY <1>1, <1>2, <1>3, <1>4 DEF Listening, more
<1>5. CASE ~Listening(r)
  BY <1>1, <1>2, <1>5
<1> QED
  BY <1>4, <1>5

\* Matching keeps the life of every offer, from what the step before it made of it.
LEMMA SettleLife ==
  ASSUME Types, NEW queue \in Seq(Requests), NEW inProgress \in SUBSET Requests,
         NEW pool \in Seq(Offers), Distinct(pool), NEW accepts,
         NEW channels, ChannelsTyped(channels), NEW reachable,
         Settle(queue, inProgress, pool, accepts, channels, reachable),
         NEW o \in Offers, NEW t, NEW place, NEW B, NEW l,
         Life(o, Contains(pool, o), accepts[o], t, place, channels[RunnerOf(o)], B, l,
              mode[RunnerOf(o)])
  PROVE  Life(o, Contains(offers', o), accepting'[o], t, place, toRunner'[RunnerOf(o)], B, l,
              mode[RunnerOf(o)])
<1> DEFINE r == RunnerOf(o)
           C == channels[r]
           D == toRunner'[r]
<1>1. PICK T \in SUBSET Offers :
        \E f \in [T -> Requests] : Matching(queue, inProgress, pool, accepts, channels, T, f)
  BY SettleFacts
<1>2. PICK f \in [T -> Requests] : Matching(queue, inProgress, pool, accepts, channels, T, f)
  BY <1>1
<1>3. r \in Runners /\ C \in Seq(Calls(r))
  BY OfferFacts DEF ChannelsTyped
<1>4. /\ accepting'[o] = IF o \in T THEN f[o] ELSE accepts[o]
      /\ o \in T => Contains(pool, o) /\ ~Contains(offers', o) /\ f[o] # 0
      /\ Contains(offers', o) => Contains(pool, o)
  <2>1. \A p \in T : f[p] # 0
    BY Bounds
  <2> QED
    BY <1>2, <2>1 DEF Matching
<1>5. \/ mode[r] = "gone" /\ D = C
      \/ /\ mode[r] # "gone"
         /\ \E s \in Seq(Calls(r)) :
              /\ D = C \o s
              /\ Asks(s, T, r)
              /\ \A i, j \in DOMAIN s : s[i].offer = s[j].offer => i = j
  BY <1>2, <1>3 DEF Matching
<1> HIDE DEF r, C, D
<1>6. CASE mode[r] = "gone" /\ D = C
  BY <1>4, <1>6 DEF Life, r, C, D
<1>7. CASE mode[r] # "gone" /\
           \E s \in Seq(Calls(r)) :
              /\ D = C \o s
              /\ Asks(s, T, r)
              /\ \A i, j \in DOMAIN s : s[i].offer = s[j].offer => i = j
  <2>1. PICK s \in Seq(Calls(r)) : /\ D = C \o s
                                   /\ Asks(s, T, r)
                                   /\ \A i, j \in DOMAIN s : s[i].offer = s[j].offer => i = j
    BY <1>7
  <2>2. /\ \A k : Mail(D, k, o) <=> Mail(C, k, o) \/ Mail(s, k, o)
        /\ Mentions(D, o) <=> Mentions(C, o) \/ Mentions(s, o)
        /\ \A k : /\ Leads(C, k, o) /\ Leads(s, k, o)
                  /\ Mail(s, k, o) => ~Mentions(C, o)
                  => Leads(D, k, o)
    <3> DEFINE E == C \o s
    <3>1. /\ \A k : Mail(E, k, o) <=> Mail(C, k, o) \/ Mail(s, k, o)
          /\ Mentions(E, o) <=> Mentions(C, o) \/ Mentions(s, o)
          /\ \A k : /\ Leads(C, k, o) /\ Leads(s, k, o)
                    /\ Mail(s, k, o) => ~Mentions(C, o)
                    => Leads(E, k, o)
      BY <1>3, <2>1, MailConcat
    <3>2. D = E
      BY <2>1
    <3> HIDE DEF E
    <3> QED
      BY <3>1, <3>2
  <2>3. \A i \in DOMAIN s : s[i].kind = "accept" /\ s[i].offer \in T
    BY <2>1 DEF Asks
  <2>4. DOMAIN s \subseteq Nat
    <3>1. DOMAIN s = 1..Len(s) /\ Len(s) \in Nat
      BY LenProperties
    <3> QED
      BY <3>1
  <2>5. Leads(s, "accept", o)
    <3> SUFFICES ASSUME NEW i \in DOMAIN s, s[i].offer = o,
                        NEW j \in DOMAIN s, j < i, s[j].offer = o
                 PROVE  FALSE
      BY DEF Leads
    <3>1. i \in Nat /\ j \in Nat
      BY <2>4
    <3>2. i = j
      BY <2>1
    <3> QED
      BY <3>1, <3>2
  <2>6. CASE o \in T
    <3>1. \A k : Mail(s, k, o) => k = "accept"
      BY <2>3 DEF Mail
    <3> QED
      BY <1>4, <1>7, <2>2, <2>5, <2>6, <3>1 DEF Life, r, C, D
  <2>7. CASE o \notin T
    <3>1. ~Mentions(s, o) /\ \A k : ~Mail(s, k, o)
      BY <2>3, <2>7 DEF Mentions, Mail
    <3> QED
      BY <1>4, <1>7, <2>2, <2>5, <2>7, <3>1 DEF Life, r, C, D
  <2> QED
    BY <2>6, <2>7
<1> QED
  BY <1>5, <1>6, <1>7

\* Steps that change nothing of this.
LEMMA LifeUnchanged ==
  ASSUME SlotLife,
         UNCHANGED <<offers, accepting, tasks, atRunner, toRunner, toBroker, link, mode>>
  PROVE  SlotLife'
BY DEF SlotLife, LifeOf

\* A runner that is cut off: nothing it said is read any more.
LEMMA LifeCutOff ==
  ASSUME Types, SlotLife, NEW rs, Disconnect(rs),
         \A r \in rs \cap Runners : link[r] # "off",
         NEW o \in Offers, NEW listed, NEW a, NEW t, NEW place, NEW R, NEW m,
         Life(o, listed, a, t, place, R, toBroker[RunnerOf(o)], link[RunnerOf(o)], m)
  PROVE  Life(o, listed, a, t, place, R, toBroker'[RunnerOf(o)], link'[RunnerOf(o)], m)
<1> DEFINE r == RunnerOf(o)
<1>1. r \in Runners
  BY OfferFacts
<1>2. /\ link'[r] = IF r \in rs THEN "removed" ELSE link[r]
      /\ toBroker'[r] = IF r \in rs THEN <<>> ELSE toBroker[r]
  BY <1>1, DisconnectFacts
<1>3. r \in rs => link[r] # "off"
  BY <1>1
<1> HIDE DEF r
<1>4. CASE r \in rs
  BY <1>2, <1>3, <1>4, MailNone DEF Life, r
<1>5. CASE r \notin rs
  BY <1>2, <1>5 DEF Life, r
<1> QED
  BY <1>4, <1>5

\* A connection ends.
LEMMA LifeDisconnect ==
  ASSUME Types, SlotLife, NEW rs, Disconnect(rs),
         \A r \in rs \cap Runners : link[r] # "off",
         UNCHANGED <<offers, accepting, tasks, atRunner, toRunner, mode>>
  PROVE  SlotLife'
<1> SUFFICES ASSUME NEW o \in Offers PROVE LifeOf(o)'
  BY DEF SlotLife
<1> DEFINE r == RunnerOf(o)
<1>1. Life(o, Contains(offers, o), accepting[o], tasks[o], atRunner[o], toRunner[r],
           toBroker[r], link[r], mode[r])
  BY DEF SlotLife, LifeOf
<1>2. Life(o, Contains(offers, o), accepting[o], tasks[o], atRunner[o], toRunner[r],
           toBroker'[r], link'[r], mode[r])
  BY <1>1, LifeCutOff
<1> QED
  BY <1>2 DEF LifeOf

\* The broker matches with what it has.
LEMMA LifeSettle ==
  ASSUME Types, SlotLife, NEW queue \in Seq(Requests), NEW inProgress \in SUBSET Requests,
         NEW pool \in Seq(Offers), Distinct(pool), NEW accepts,
         NEW channels, ChannelsTyped(channels), NEW reachable,
         Settle(queue, inProgress, pool, accepts, channels, reachable), UNCHANGED mode,
         \A o \in Offers :
           Life(o, Contains(pool, o), accepts[o], tasks'[o], atRunner'[o],
                channels[RunnerOf(o)], toBroker'[RunnerOf(o)], link'[RunnerOf(o)],
                mode[RunnerOf(o)])
  PROVE  SlotLife'
<1>1. Distinct(offers')
  <2>1. PICK T \in SUBSET Offers :
          \E f \in [T -> Requests] : Matching(queue, inProgress, pool, accepts, channels, T, f)
    BY SettleFacts
  <2> QED
    BY <2>1 DEF Matching
<1>2. ASSUME NEW o \in Offers PROVE LifeOf(o)'
  <2>1. Life(o, Contains(offers', o), accepting'[o], tasks'[o], atRunner'[o],
             toRunner'[RunnerOf(o)], toBroker'[RunnerOf(o)], link'[RunnerOf(o)],
             mode[RunnerOf(o)])
    BY SettleLife
  <2> QED
    BY <2>1 DEF LifeOf
<1> QED
  BY <1>1, <1>2 DEF SlotLife

\* Steps of the broker with its queue.
LEMMA QueueLife ==
  ASSUME Types, SlotLife, NEW q \in Requests, Request(q) \/ RequestTimeout(q)
  PROVE  SlotLife'
<1>0. TypeOK /\ ChannelsTyped(toRunner)
  BY DEF Types
<1>1. CASE Request(q) /\ phase = "serving"
  <2>1. /\ Settle(Append(pending, q), matched, offers, accepting, toRunner, Reachable)
        /\ UNCHANGED <<tasks, link, mode, atRunner, toBroker>>
    BY <1>1 DEF Request
  <2>2. Append(pending, q) \in Seq(Requests) /\ matched \in SUBSET Requests /\ offers \in Seq(Offers)
    BY <1>0 DEF TypeOK
  <2>3. /\ Distinct(offers)
        /\ \A o \in Offers :
             Life(o, Contains(offers, o), accepting[o], tasks'[o], atRunner'[o],
                  toRunner[RunnerOf(o)], toBroker'[RunnerOf(o)], link'[RunnerOf(o)],
                  mode[RunnerOf(o)])
    BY <2>1 DEF SlotLife, LifeOf
  <2> QED
    BY <1>0, <2>1, <2>2, <2>3, LifeSettle
<1>2. CASE Request(q) /\ phase # "serving"
  <2>1. UNCHANGED <<offers, accepting, tasks, atRunner, toRunner, toBroker, link, mode>>
    BY <1>2 DEF Request
  <2> QED
    BY <2>1, LifeUnchanged
<1>3. CASE RequestTimeout(q)
  <2>1. /\ Disconnect({r \in Reachable : Heeded /\ Silent(r)})
        /\ UNCHANGED <<offers, accepting, tasks, atRunner, toRunner, mode>>
    BY <1>3 DEF RequestTimeout
  <2>2. \A r \in {r \in Reachable : Heeded /\ Silent(r)} \cap Runners : link[r] # "off"
    BY DEF Reachable
  <2> DEFINE rs == {r \in Reachable : Heeded /\ Silent(r)}
  <2> HIDE DEF rs
  <2>3. Disconnect(rs) /\ \A r \in rs \cap Runners : link[r] # "off"
    BY <2>1, <2>2 DEF rs
  <2> QED
    BY <2>1, <2>3, LifeDisconnect
<1> QED
  BY <1>1, <1>2, <1>3

\* What the cancellation of o's task tells the runner of an offer x.
LEMMA CancelMail ==
  ASSUME Types, NEW o \in Offers, NEW x \in Offers
  PROVE  LET r == RunnerOf(o)
             C == CancelAtRunner(o)[RunnerOf(x)]
         IN  /\ RunnerOf(x) # r => C = toRunner[RunnerOf(x)]
             /\ RunnerOf(x) = r =>
                  /\ \A k : Mail(C, k, x) <=> \/ Mail(toRunner[r], k, x)
                                              \/ Listening(r) /\ k = "cancel" /\ x = o
                  /\ Mentions(C, x) <=> Mentions(toRunner[r], x) \/ (Listening(r) /\ x = o)
                  /\ Leads(toRunner[r], "accept", x) => Leads(C, "accept", x)
                  /\ mode[r] = "gone" => C = toRunner[r]
<1> DEFINE r == RunnerOf(o)
           m == Message("cancel", o)
           C == CancelAtRunner(o)[RunnerOf(x)]
<1>1. r \in Runners /\ o \in OffersOf({r})
  BY OfferFacts
<1>2. m \in Calls(r) /\ m.kind = "cancel" /\ m.offer = o
  BY <1>1, CallMade
<1>3. C = Tell(toRunner, r, m)[RunnerOf(x)]
  BY DEF CancelAtRunner
<1> HIDE DEF m, C, r
<1>4. /\ RunnerOf(x) # r => C = toRunner[RunnerOf(x)]
      /\ RunnerOf(x) = r =>
           /\ \A k : Mail(C, k, x) <=> \/ Mail(toRunner[r], k, x)
                                       \/ Listening(r) /\ m.kind = k /\ m.offer = x
           /\ Mentions(C, x) <=> Mentions(toRunner[r], x) \/ (Listening(r) /\ m.offer = x)
           /\ Leads(toRunner[r], "accept", x) => Leads(C, "accept", x)
           /\ mode[r] = "gone" => C = toRunner[r]
  BY <1>1, <1>2, <1>3, TellMail
<1> QED
  BY <1>2, <1>4 DEF C, r

\* The task of o, or its acceptance, is dropped and the runner is told.
LEMMA LifeDropped ==
  ASSUME Types, SlotLife, NEW o \in Offers, accepting[o] # 0 \/ tasks[o] # 0,
         NEW x \in Offers, NEW listed, NEW a, NEW t, listed => Contains(offers, x),
         x # o => a = accepting[x] /\ t = tasks[x],
         x = o => a = 0 /\ t = 0
  PROVE  Life(x, listed, a, t, atRunner[x], CancelAtRunner(o)[RunnerOf(x)],
              toBroker[RunnerOf(x)], link[RunnerOf(x)], mode[RunnerOf(x)])
<1> DEFINE r == RunnerOf(x)
           C == CancelAtRunner(o)[r]
<1>1. LifeOf(x)
  BY DEF SlotLife
<1>2. /\ r # RunnerOf(o) => C = toRunner[r]
      /\ r = RunnerOf(o) =>
           /\ \A k : Mail(C, k, x) <=> \/ Mail(toRunner[r], k, x)
                                       \/ Listening(r) /\ k = "cancel" /\ x = o
           /\ Mentions(C, x) <=> Mentions(toRunner[r], x) \/ (Listening(r) /\ x = o)
           /\ Leads(toRunner[r], "accept", x) => Leads(C, "accept", x)
           /\ mode[r] = "gone" => C = toRunner[r]
  BY CancelMail
<1> HIDE DEF r, C
<1>3. CASE x # o /\ r # RunnerOf(o)
  BY <1>1, <1>2, <1>3 DEF LifeOf, Life, r, C
<1>4. CASE x # o /\ r = RunnerOf(o)
  <2>1. /\ \A k : Mail(C, k, x) <=> Mail(toRunner[r], k, x)
        /\ Mentions(C, x) <=> Mentions(toRunner[r], x)
        /\ Leads(toRunner[r], "accept", x) => Leads(C, "accept", x)
        /\ mode[r] = "gone" => C = toRunner[r]
    BY <1>2, <1>4
  <2> QED
    BY <1>1, <1>4, <2>1 DEF LifeOf, Life, r, C
<1>5. CASE x = o
  <2>0. r = RunnerOf(o)
    BY <1>5 DEF r
  <2>1. /\ Mail(C, "accept", x) => Mail(toRunner[r], "accept", x)
        /\ Leads(toRunner[r], "accept", x) => Leads(C, "accept", x)
        /\ mode[r] = "gone" => C = toRunner[r]
    BY <1>2, <1>5, <2>0
  <2>2. mode[r] # "gone" /\ link[r] = "open" => Mail(C, "cancel", x)
    BY <1>2, <1>5, <2>0 DEF Listening
  <2>3. /\ ~Contains(offers, x) /\ ~Mail(toBroker[r], "offer", x)
        /\ a = 0 /\ t = 0 /\ ~listed
    <3>1. accepting[x] # 0 \/ tasks[x] # 0
      BY <1>5
    <3>2. ~Contains(offers, x) /\ ~Mail(toBroker[r], "offer", x)
      BY <1>1, <3>1 DEF LifeOf, Life, r
    <3> QED
      BY <1>5, <3>2
  <2> QED
    BY <1>1, <2>1, <2>2, <2>3, MailNone DEF LifeOf, Life, r, C
<1> QED
  BY <1>3, <1>4, <1>5

\* A runner process ends: nothing is left at the runner or on its way to it.
LEMMA LifeEnded ==
  ASSUME Types, NEW r \in Runners, Dies(r), NEW o \in Offers, NEW listed, NEW a, NEW t,
         NEW B, NEW l,
         \/ Life(o, listed, a, t, atRunner[o], toRunner[RunnerOf(o)], B, l, mode[RunnerOf(o)])
         \/ /\ RunnerOf(o) = r /\ t = 0
            /\ \E u : Life(o, listed, a, u, atRunner[o], toRunner[RunnerOf(o)], B, l,
                           mode[RunnerOf(o)])
  PROVE  Life(o, listed, a, t, atRunner'[o], toRunner'[RunnerOf(o)], B, l, mode'[RunnerOf(o)])
<1>0. RunnerOf(o) \in Runners
  BY OfferFacts
<1>1. /\ mode'[RunnerOf(o)] = IF RunnerOf(o) = r THEN "gone" ELSE mode[RunnerOf(o)]
      /\ atRunner'[o] = IF RunnerOf(o) = r THEN "none" ELSE atRunner[o]
      /\ toRunner'[RunnerOf(o)] = IF RunnerOf(o) = r THEN <<>> ELSE toRunner[RunnerOf(o)]
  BY <1>0 DEF Dies, Types, TypeOK, ChannelsTyped
<1>2. CASE RunnerOf(o) = r
  <2>1. PICK u : /\ u = t \/ t = 0
                 /\ Life(o, listed, a, u, atRunner[o], toRunner[RunnerOf(o)], B, l,
                         mode[RunnerOf(o)])
    OBVIOUS
  <2>2. atRunner'[o] = "none" /\ toRunner'[RunnerOf(o)] = <<>>
    BY <1>1, <1>2
  <2> QED
    BY <2>1, <2>2, MailNone DEF Life
<1>3. CASE RunnerOf(o) # r
  BY <1>1, <1>3
<1> QED
  BY <1>2, <1>3

\* Steps of the broker with an offer.
LEMMA OfferLife ==
  ASSUME Types, SlotLife, NEW o \in Offers,
         OfferExpires(o) \/ AcceptTimeout(o) \/ TaskTimeout(o) \/ Cancel(o)
  PROVE  SlotLife'
<1>0. TypeOK /\ ChannelsTyped(toRunner)
  BY DEF Types
<1>1. CASE OfferExpires(o)
  <2>1. /\ offers' = Without(offers, o)
        /\ UNCHANGED <<accepting, tasks, link, mode, atRunner, toRunner, toBroker>>
    BY <1>1 DEF OfferExpires
  <2>2. /\ Distinct(offers) => Distinct(offers')
        /\ \A x : Contains(offers', x) => Contains(offers, x)
    BY <1>0, <2>1, WithoutFacts DEF TypeOK
  <2>3. ASSUME NEW x \in Offers PROVE LifeOf(x)'
    <3>1. LifeOf(x)
      BY DEF SlotLife
    <3> QED
      BY <2>1, <2>2, <3>1 DEF LifeOf, Life
  <2> QED
    BY <2>2, <2>3 DEF SlotLife
<1>2. CASE AcceptTimeout(o)
  <2> DEFINE q == accepting[o]
             r == RunnerOf(o)
             reported == failures[r] + 1 >= MaxAcceptTimeouts
             gone == reported /\ Heeded
             cut == IF gone THEN {r} \cap {s \in Runners : link[s] \in {"open", "closing"}} ELSE {}
             left == Only(offers, OffersOf(Runners \ {r}))
             near == IF gone THEN Reachable \ {r} ELSE Reachable
  <2>1. /\ q # 0 /\ Disconnect(cut)
        /\ Settle(pending, matched \ {q}, left, GivenUp(o), CancelAtRunner(o), near)
        /\ UNCHANGED <<tasks, mode, atRunner>>
    BY <1>2 DEF AcceptTimeout
  <2>2. \A s \in cut \cap Runners : link[s] # "off"
    OBVIOUS
  <2>3. /\ left \in Seq(Offers) /\ \A x : Contains(left, x) => Contains(offers, x)
        /\ Distinct(left)
    BY <1>0, OnlyFacts DEF TypeOK, SlotLife
  <2>4. pending \in Seq(Requests) /\ matched \ {q} \in SUBSET Requests
    BY <1>0 DEF TypeOK
  <2>5. ChannelsTyped(CancelAtRunner(o))
    <3>1. RunnerOf(o) \in Runners /\ Message("cancel", o) \in Calls(RunnerOf(o))
      BY OfferFacts, CallMade
    <3> QED
      BY <1>0, <3>1, TellFacts DEF CancelAtRunner
  <2>6. \A x \in Offers : GivenUp(o)[x] = IF x = o THEN 0 ELSE accepting[x]
    BY <1>0 DEF TypeOK, GivenUp
  <2>c. UNCHANGED mode /\ Distinct(left) /\ left \in Seq(Offers)
    BY <2>1, <2>3
  <2>7. ASSUME NEW x \in Offers
        PROVE  Life(x, Contains(left, x), GivenUp(o)[x], tasks'[x], atRunner'[x],
                    CancelAtRunner(o)[RunnerOf(x)], toBroker'[RunnerOf(x)],
                    link'[RunnerOf(x)], mode[RunnerOf(x)])
    <3>1. tasks[o] = 0
      <4>1. LifeOf(o)
        BY DEF SlotLife
      <4> QED
        BY <2>1, <4>1 DEF LifeOf, Life
    <3>2. Contains(left, x) => Contains(offers, x)
      BY <2>3
    <3>3. accepting[o] # 0
      BY <2>1
    <3> HIDE DEF left, cut
    <3>4. Life(x, Contains(left, x), GivenUp(o)[x], tasks[x], atRunner[x],
               CancelAtRunner(o)[RunnerOf(x)], toBroker[RunnerOf(x)],
               link[RunnerOf(x)], mode[RunnerOf(x)])
      BY <2>6, <3>1, <3>2, <3>3, LifeDropped
    <3>5. Life(x, Contains(left, x), GivenUp(o)[x], tasks[x], atRunner[x],
               CancelAtRunner(o)[RunnerOf(x)], toBroker'[RunnerOf(x)],
               link'[RunnerOf(x)], mode[RunnerOf(x)])
      BY <2>1, <2>2, <3>4, LifeCutOff
    <3> QED
      BY <2>1, <3>5
  <2> HIDE DEF left, cut, near, q
  <2> QED
    BY <2>1, <2>c, <2>4, <2>5, <2>7, LifeSettle
<1>3. CASE TaskTimeout(o) \/ Cancel(o)
  <2>1. /\ tasks[o] # 0
        /\ tasks' = [tasks EXCEPT ![o] = 0]
        /\ UNCHANGED <<offers, accepting, link, toBroker>>
        /\ \/ Dies(RunnerOf(o))
           \/ toRunner' = CancelAtRunner(o) /\ UNCHANGED <<mode, atRunner>>
    BY <1>3 DEF TaskTimeout, Cancel
  <2>2. /\ Distinct(offers') /\ accepting[o] = 0
        /\ \A x \in Offers : tasks'[x] = IF x = o THEN 0 ELSE tasks[x]
    <3>1. LifeOf(o)
      BY DEF SlotLife
    <3> QED
      BY <1>0, <2>1, <3>1 DEF SlotLife, LifeOf, Life, TypeOK
  <2>3. ASSUME NEW x \in Offers PROVE LifeOf(x)'
    <3>1. CASE toRunner' = CancelAtRunner(o) /\ UNCHANGED <<mode, atRunner>>
      <4>1. Life(x, Contains(offers, x), accepting[x], tasks'[x], atRunner[x],
                 CancelAtRunner(o)[RunnerOf(x)], toBroker[RunnerOf(x)],
                 link[RunnerOf(x)], mode[RunnerOf(x)])
        BY <2>1, <2>2, LifeDropped
      <4> QED
        BY <2>1, <3>1, <4>1 DEF LifeOf
    <3>2. CASE Dies(RunnerOf(o))
      <4>0. RunnerOf(o) \in Runners
        BY OfferFacts
      <4>1. Life(x, Contains(offers, x), accepting[x], tasks[x], atRunner[x],
                 toRunner[RunnerOf(x)], toBroker[RunnerOf(x)], link[RunnerOf(x)],
                 mode[RunnerOf(x)])
        BY DEF SlotLife, LifeOf
      <4>2. tasks'[x] = tasks[x] \/ (RunnerOf(x) = RunnerOf(o) /\ tasks'[x] = 0)
        BY <2>2
      <4>3. Life(x, Contains(offers, x), accepting[x], tasks'[x], atRunner'[x],
                 toRunner'[RunnerOf(x)], toBroker[RunnerOf(x)], link[RunnerOf(x)],
                 mode'[RunnerOf(x)])
        BY <3>2, <4>0, <4>1, <4>2, LifeEnded
      <4> QED
        BY <2>1, <4>3 DEF LifeOf
    <3> QED
      BY <2>1, <3>1, <3>2
  <2> QED
    BY <2>2, <2>3 DEF SlotLife
<1> QED
  BY <1>1, <1>2, <1>3

\* What the broker does with a message from a runner.
LEMMA BrokerReadsLife ==
  ASSUME Types, SlotLife, NEW r \in Runners, BrokerReads(r)
  PROVE  SlotLife'
<1>0. TypeOK /\ ChannelsTyped(toRunner)
  BY DEF Types
<1> DEFINE o == Named(r)
<1>1. CASE TaskOffered(r)
  <2>1. /\ Receives(r, "offer")
        /\ Settle(pending, matched, Append(offers, o), accepting, toRunner, Reachable)
        /\ UNCHANGED <<tasks, link, mode, atRunner>>
    BY <1>1 DEF TaskOffered
  <2>2. o \in Offers /\ RunnerOf(o) = r
    BY <2>1, ReceivesFacts
  <2>3. Mail(toBroker[r], "offer", o)
    BY <2>1, <2>2, ReceivesMail
  <2>4. ~Contains(offers, o)
    BY <2>2, <2>3 DEF SlotLife, LifeOf, Life
  <2> DEFINE pool == Append(offers, o)
  <2>5. /\ pool \in Seq(Offers) /\ Distinct(pool)
        /\ \A x : Contains(pool, x) <=> Contains(offers, x) \/ x = o
    BY <1>0, <2>2, <2>4, AppendFacts DEF TypeOK, SlotLife
  <2> HIDE DEF pool
  <2>6. ASSUME NEW x \in Offers
        PROVE  Life(x, Contains(pool, x), accepting[x], tasks'[x], atRunner'[x],
                    toRunner[RunnerOf(x)], toBroker'[RunnerOf(x)], link'[RunnerOf(x)],
                    mode[RunnerOf(x)])
    <3>1. LifeOf(x)
      BY DEF SlotLife
    <3>2. /\ link[r] \in {"open", "closing"}
          /\ RunnerOf(x) # r => toBroker'[RunnerOf(x)] = toBroker[RunnerOf(x)]
          /\ RunnerOf(x) = r =>
               /\ \A k : Mail(toBroker[r], k, x) <=>
                           Mail(toBroker'[r], k, x) \/ (k = "offer" /\ o = x)
               /\ Mentions(toBroker[r], x) <=> Mentions(toBroker'[r], x) \/ o = x
               /\ Sole(toBroker[r], "offer", x) =>
                    /\ Sole(toBroker'[r], "offer", x)
                    /\ o = x => ~Mail(toBroker'[r], "offer", x) /\ ~Mentions(toBroker'[r], x)
      BY <2>1, ReceivesMail
    <3> HIDE DEF o
    <3>3. CASE RunnerOf(x) # r
      <4>1. x # o
        BY <2>2, <3>3
      <4> QED
        BY <2>1, <2>5, <3>1, <3>2, <3>3, <4>1 DEF LifeOf, Life
    <3>4. CASE RunnerOf(x) = r /\ x # o
      BY <2>1, <2>5, <3>1, <3>2, <3>4 DEF LifeOf, Life
    <3>5. CASE RunnerOf(x) = r /\ x = o
      <4>1. /\ Mail(toBroker[r], "offer", x) /\ ~Mentions(toBroker'[r], x)
            /\ ~Mail(toBroker'[r], "offer", x) /\ Sole(toBroker'[r], "offer", x)
        BY <2>3, <3>1, <3>2, <3>5 DEF LifeOf, Life
      <4>2. \A k : ~Mail(toBroker'[r], k, x)
        BY <4>1, MailMentions
      <4>3. Life(x, Contains(pool, x), accepting[x], tasks[x], atRunner[x],
                 toRunner[r], toBroker'[r], link[r], mode[r])
        BY <3>1, <3>2, <3>5, <4>1, <4>2 DEF LifeOf, Life
      <4> QED
        BY <2>1, <3>5, <4>3
    <3> QED
      BY <3>3, <3>4, <3>5
  <2>7. /\ Settle(pending, matched, pool, accepting, toRunner, Reachable) /\ UNCHANGED mode
        /\ pending \in Seq(Requests) /\ matched \in SUBSET Requests
    BY <1>0, <2>1 DEF pool, TypeOK
  <2> QED
    BY <1>0, <2>5, <2>6, <2>7, LifeSettle
<1>2. CASE RunnerAccept(r)
  <2>1. /\ Receives(r, "accepted")
        /\ UNCHANGED <<offers, link, mode, atRunner>>
    BY <1>2 DEF RunnerAccept
  <2>2. o \in Offers /\ RunnerOf(o) = r /\ o \in OffersOf({r})
    BY <2>1, ReceivesFacts
  <2>3. \/ accepting[o] = 0 /\ UNCHANGED <<accepting, tasks, toRunner>>
        \/ /\ accepting[o] # 0
           /\ accepting' = [accepting EXCEPT ![o] = 0]
           /\ \/ toRunner' = CancelAtRunner(o) /\ UNCHANGED tasks
              \/ /\ link[r] = "open"
                 /\ tasks' = [tasks EXCEPT ![o] = accepting[o]]
                 /\ toRunner' = Tell(toRunner, r, Settings(o, accepting[o]))
              \/ link[r] # "open" /\ UNCHANGED <<tasks, toRunner>>
    BY <1>2, <2>2 DEF RunnerAccept, Accepted
  <2>4. LifeOf(o)
    BY <2>2 DEF SlotLife
  <2>5. ASSUME NEW x \in Offers PROVE LifeOf(x)'
    <3>1. LifeOf(x)
      BY DEF SlotLife
    <3>2. /\ link[r] \in {"open", "closing"}
          /\ RunnerOf(x) # r => toBroker'[RunnerOf(x)] = toBroker[RunnerOf(x)]
          /\ RunnerOf(x) = r =>
               /\ \A k : Mail(toBroker'[r], k, x) => Mail(toBroker[r], k, x)
               /\ Mentions(toBroker'[r], x) => Mentions(toBroker[r], x)
               /\ Sole(toBroker[r], "offer", x) => Sole(toBroker'[r], "offer", x)
      BY <2>1, ReceivesMail
    <3> HIDE DEF o
    \* What is sent to the broker shrinks, the rest as it is.
    <3>s. ASSUME NEW a, NEW t, NEW R,
                 Life(x, Contains(offers, x), a, t, atRunner[x], R, toBroker[RunnerOf(x)],
                      link[RunnerOf(x)], mode[RunnerOf(x)])
          PROVE  Life(x, Contains(offers, x), a, t, atRunner[x], R, toBroker'[RunnerOf(x)],
                      link[RunnerOf(x)], mode[RunnerOf(x)])
      <4>1. CASE RunnerOf(x) # r
        BY <3>s, <3>2, <4>1
      <4>2. CASE RunnerOf(x) = r
        BY <3>s, <3>2, <4>2 DEF Life
      <4> QED
        BY <4>1, <4>2
    <3>3. CASE UNCHANGED <<accepting, tasks, toRunner>>
      <4>1. Life(x, Contains(offers, x), accepting[x], tasks[x], atRunner[x],
                 toRunner[RunnerOf(x)], toBroker'[RunnerOf(x)],
                 link[RunnerOf(x)], mode[RunnerOf(x)])
        BY <3>1, <3>s DEF LifeOf
      <4> QED
        BY <2>1, <3>3, <4>1 DEF LifeOf
    <3>4. CASE /\ accepting[o] # 0 /\ accepting' = [accepting EXCEPT ![o] = 0]
               /\ toRunner' = CancelAtRunner(o) /\ UNCHANGED tasks
      <4>0. tasks[o] = 0 /\ \A y \in Offers : accepting'[y] = IF y = o THEN 0 ELSE accepting[y]
        BY <1>0, <2>4, <3>4 DEF LifeOf, Life, TypeOK
      <4>1. Life(x, Contains(offers, x), accepting'[x], tasks[x], atRunner[x],
                 CancelAtRunner(o)[RunnerOf(x)], toBroker[RunnerOf(x)],
                 link[RunnerOf(x)], mode[RunnerOf(x)])
        BY <2>2, <3>4, <4>0, LifeDropped
      <4>2. Life(x, Contains(offers, x), accepting'[x], tasks[x], atRunner[x],
                 CancelAtRunner(o)[RunnerOf(x)], toBroker'[RunnerOf(x)],
                 link[RunnerOf(x)], mode[RunnerOf(x)])
        BY <4>1, <3>s
      <4> QED
        BY <2>1, <3>4, <4>2 DEF LifeOf
    <3>5. CASE /\ accepting[o] # 0 /\ accepting' = [accepting EXCEPT ![o] = 0]
               /\ link[r] = "open"
               /\ tasks' = [tasks EXCEPT ![o] = accepting[o]]
               /\ toRunner' = Tell(toRunner, r, Settings(o, accepting[o]))
      <4> DEFINE m == Settings(o, accepting[o])
      <4>1. accepting[o] \in Requests
        <5>1. accepting \in [Offers -> 0..NumRequests]
          BY <1>0 DEF TypeOK
        <5>2. accepting[o] \in 0..NumRequests
          BY <2>2, <5>1
        <5> QED
          BY <3>5, <5>2, Bounds
      <4>2. m \in Calls(r) /\ m.kind = "settings" /\ m.offer = o
        <5>1. \A q \in Requests : /\ Settings(o, q) \in Calls(r)
                                 /\ Settings(o, q).kind = "settings"
                                 /\ Settings(o, q).offer = o
          <6>1. PICK p \in OffersOf({r}) : p = o
            BY <2>2
          <6>2. \A q \in Requests : /\ Settings(p, q) \in Calls(r)
                                   /\ Settings(p, q).kind = "settings"
                                   /\ Settings(p, q).offer = p
            BY CallMade
          <6> QED
            BY <6>1, <6>2
        <5> QED
          BY <4>1, <5>1
      <4>3. toRunner' = Tell(toRunner, r, m)
        BY <3>5
      <4> HIDE DEF m
      <4> DEFINE R == toRunner'[RunnerOf(x)]
      <4>4. R = Tell(toRunner, r, m)[RunnerOf(x)]
        BY <4>3
      <4> HIDE DEF R
      <4>5. /\ RunnerOf(x) # r => R = toRunner[RunnerOf(x)]
            /\ RunnerOf(x) = r =>
                 /\ \A k : Mail(R, k, x) <=> \/ Mail(toRunner[r], k, x)
                                             \/ Listening(r) /\ k = "settings" /\ o = x
                 /\ Mentions(R, x) <=> Mentions(toRunner[r], x) \/ (Listening(r) /\ o = x)
                 /\ Leads(toRunner[r], "accept", x) => Leads(R, "accept", x)
                 /\ mode[r] = "gone" => R = toRunner[r]
        BY <4>2, <4>4, TellMail
      <4>6. \A y \in Offers : /\ accepting'[y] = IF y = o THEN 0 ELSE accepting[y]
                              /\ tasks'[y] = IF y = o THEN accepting[o] ELSE tasks[y]
        BY <1>0, <3>5 DEF TypeOK
      <4>7. Life(x, Contains(offers, x), accepting'[x], tasks'[x], atRunner[x], R,
                 toBroker[RunnerOf(x)], link[RunnerOf(x)], mode[RunnerOf(x)])
        <5>1. CASE RunnerOf(x) # r
          <6>1. x # o
            BY <2>2, <5>1
          <6> QED
            BY <3>1, <4>5, <4>6, <5>1, <6>1 DEF LifeOf
        <5>2. CASE RunnerOf(x) = r /\ x # o
          BY <3>1, <4>5, <4>6, <5>2 DEF LifeOf, Life
        <5>3. CASE RunnerOf(x) = r /\ x = o
          <6>1. /\ ~Contains(offers, x) /\ ~Mail(toBroker[r], "offer", x)
                /\ accepting'[x] = 0 /\ tasks'[x] # 0
            <7>1. accepting[x] # 0
              BY <3>5, <5>3
            <7> QED
              BY <3>1, <4>6, <5>3, <7>1 DEF LifeOf, Life
          <6>2. Mentions(toBroker[r], x)
            <7>1. Mail(toBroker[r], "accepted", x)
              BY <2>1, <5>3, ReceivesMail DEF o
            <7> QED
              BY <7>1, MailMentions
          <6>3. ~Mail(toRunner[r], "accept", x)
            BY <3>1, <5>3, <6>2 DEF LifeOf, Life
          <6>4. ~Mail(R, "accept", x)
            BY <4>5, <5>3, <6>3
          <6>5. /\ mode[r] = "gone" => R = toRunner[r]
                /\ Sole(toBroker[r], "offer", x)
            BY <3>1, <4>5, <5>3 DEF LifeOf, Life
          <6>7. Life(x, Contains(offers, x), accepting[x], tasks[x], atRunner[x], toRunner[r],
                     toBroker[r], link[r], mode[r])
            BY <3>1, <5>3 DEF LifeOf
          <6>8. Leads(R, "accept", x)
            BY <6>4 DEF Leads, Mail
          <6>6. Life(x, Contains(offers, x), accepting'[x], tasks'[x], atRunner[x], R,
                     toBroker[r], link[r], mode[r])
            BY <3>5, <6>1, <6>4, <6>5, <6>7, <6>8 DEF Life
          <6> QED
            BY <5>3, <6>6
        <5> QED
          BY <5>1, <5>2, <5>3
      <4>8. Life(x, Contains(offers, x), accepting'[x], tasks'[x], atRunner[x], R,
                 toBroker'[RunnerOf(x)], link[RunnerOf(x)], mode[RunnerOf(x)])
        BY <4>7, <3>s
      <4> QED
        BY <2>1, <4>8 DEF LifeOf, R
    <3>6. CASE /\ accepting[o] # 0 /\ accepting' = [accepting EXCEPT ![o] = 0]
               /\ link[r] # "open" /\ UNCHANGED <<tasks, toRunner>>
      <4>1. \A y \in Offers : accepting'[y] = IF y = o THEN 0 ELSE accepting[y]
        BY <1>0, <3>6 DEF TypeOK
      <4>2. Life(x, Contains(offers, x), accepting'[x], tasks[x], atRunner[x],
                 toRunner[RunnerOf(x)], toBroker[RunnerOf(x)], link[RunnerOf(x)],
                 mode[RunnerOf(x)])
        <5>1. CASE x # o
          BY <3>1, <4>1, <5>1 DEF LifeOf
        <5>2. CASE x = o
          <6>1. link[RunnerOf(x)] # "open" /\ accepting'[x] = 0
            BY <2>2, <3>6, <4>1, <5>2
          <6> QED
            BY <3>1, <6>1 DEF LifeOf, Life
        <5> QED
          BY <5>1, <5>2
      <4>3. Life(x, Contains(offers, x), accepting'[x], tasks[x], atRunner[x],
                 toRunner[RunnerOf(x)], toBroker'[RunnerOf(x)], link[RunnerOf(x)],
                 mode[RunnerOf(x)])
        BY <4>2, <3>s
      <4> QED
        BY <2>1, <3>6, <4>3 DEF LifeOf
    <3> QED
      BY <2>3, <3>3, <3>4, <3>5, <3>6 DEF o
  <2> QED
    BY <2>1, <2>5 DEF SlotLife
<1>3. CASE RunnerReject(r) \/ RunnerDeferred(r) \/ TaskResult(r)
  <2>1. PICK kind \in {"rejected", "deferred", "result"} : Receives(r, kind)
    BY <1>3 DEF RunnerReject, RunnerDeferred, TaskResult
  <2>2. o \in Offers /\ RunnerOf(o) = r
    BY <2>1, ReceivesFacts
  <2>3. UNCHANGED <<link, mode, atRunner>>
    BY <1>3 DEF RunnerReject, RunnerDeferred, TaskResult
  \* Whatever is forgotten of the offer whose answer was read.
  <2>4. ASSUME NEW x \in Offers, NEW a, NEW t,
               a = accepting[x] \/ (x = o /\ a = 0),
               t = tasks[x] \/ (x = o /\ t = 0)
        PROVE  Life(x, Contains(offers, x), a, t, atRunner[x], toRunner[RunnerOf(x)],
                    toBroker'[RunnerOf(x)], link[RunnerOf(x)], mode[RunnerOf(x)])
    <3>1. LifeOf(x)
      BY DEF SlotLife
    <3>2. /\ link[r] \in {"open", "closing"}
          /\ RunnerOf(x) # r => toBroker'[RunnerOf(x)] = toBroker[RunnerOf(x)]
          /\ RunnerOf(x) = r =>
               /\ \A k : Mail(toBroker'[r], k, x) => Mail(toBroker[r], k, x)
               /\ Mentions(toBroker'[r], x) => Mentions(toBroker[r], x)
               /\ Sole(toBroker[r], "offer", x) => Sole(toBroker'[r], "offer", x)
               /\ o = x => Mail(toBroker[r], kind, x)
      BY <2>1, ReceivesMail
    <3> HIDE DEF o
    <3>3. CASE RunnerOf(x) # r
      <4>1. a = accepting[x] /\ t = tasks[x]
        BY <2>2, <2>4, <3>3
      <4> QED
        BY <3>1, <3>2, <3>3, <4>1 DEF LifeOf
    <3>4. CASE RunnerOf(x) = r /\ x # o
      <4>1. a = accepting[x] /\ t = tasks[x]
        BY <2>4, <3>4
      <4>2. Life(x, Contains(offers, x), a, t, atRunner[x], toRunner[r],
                 toBroker[r], link[r], mode[r])
        BY <3>1, <3>4, <4>1 DEF LifeOf
      <4>3. Life(x, Contains(offers, x), a, t, atRunner[x], toRunner[r],
                 toBroker'[r], link[r], mode[r])
        BY <3>2, <3>4, <4>2 DEF Life
      <4> QED
        BY <3>4, <4>3
    <3>5. CASE RunnerOf(x) = r /\ x = o
      <4>1. Life(x, Contains(offers, x), accepting[x], tasks[x], atRunner[x], toRunner[r],
                 toBroker[r], link[r], mode[r])
        BY <3>1, <3>5 DEF LifeOf
      <4>2. Mail(toBroker[r], "rejected", x) \/ Mail(toBroker[r], "deferred", x)
              \/ Mail(toBroker[r], "result", x)
        BY <3>2, <3>5, <2>1
      <4>3. Mentions(toBroker[r], x)
        BY <4>2, MailMentions
      <4>4. /\ ~Contains(offers, x) /\ ~Mail(toRunner[r], "accept", x)
            /\ atRunner[x] \in {"none", "open"}
        BY <4>1, <4>2, <4>3 DEF Life
      <4>5. a = accepting[x] \/ a = 0
        BY <2>4
      <4>6. t = tasks[x] \/ t = 0
        BY <2>4
      <4>7. Life(x, Contains(offers, x), a, t, atRunner[x], toRunner[r],
                 toBroker'[r], link[r], mode[r])
        BY <3>2, <3>5, <4>1, <4>4, <4>5, <4>6 DEF Life
      <4> QED
        BY <3>5, <4>7
    <3> QED
      BY <3>3, <3>4, <3>5
  <2> HIDE DEF o
  <2>5. CASE UNCHANGED <<offers, toRunner>> /\ \A x \in Offers :
               /\ accepting'[x] = accepting[x] \/ (x = o /\ accepting'[x] = 0)
               /\ tasks'[x] = tasks[x] \/ (x = o /\ tasks'[x] = 0)
    <3>1. ASSUME NEW x \in Offers PROVE LifeOf(x)'
      <4>1. Life(x, Contains(offers, x), accepting'[x], tasks'[x], atRunner[x],
                 toRunner[RunnerOf(x)], toBroker'[RunnerOf(x)], link[RunnerOf(x)],
                 mode[RunnerOf(x)])
        BY <2>4, <2>5
      <4> QED
        BY <2>3, <2>5, <4>1 DEF LifeOf
    <3> QED
      BY <2>5, <3>1 DEF SlotLife
  <2>6. CASE RunnerReject(r) /\ accepting[o] # 0
    <3> DEFINE after == [accepting EXCEPT ![o] = 0]
    <3>1. /\ Settle(pending, matched \ {accepting[o]}, offers, after, toRunner, Reachable)
          /\ UNCHANGED <<tasks, mode>>
      BY <2>6 DEF RunnerReject, o
    <3>2. \A x \in Offers : after[x] = accepting[x] \/ (x = o /\ after[x] = 0)
      BY <1>0 DEF TypeOK
    <3> HIDE DEF after
    <3>3. /\ pending \in Seq(Requests) /\ matched \ {accepting[o]} \in SUBSET Requests
          /\ offers \in Seq(Offers) /\ Distinct(offers)
      BY <1>0 DEF TypeOK, SlotLife
    <3>4. \A x \in Offers :
            Life(x, Contains(offers, x), after[x], tasks'[x], atRunner'[x],
                 toRunner[RunnerOf(x)], toBroker'[RunnerOf(x)], link'[RunnerOf(x)],
                 mode[RunnerOf(x)])
      <4> TAKE x \in Offers
      <4>1. Life(x, Contains(offers, x), after[x], tasks[x], atRunner[x],
                 toRunner[RunnerOf(x)], toBroker'[RunnerOf(x)], link[RunnerOf(x)],
                 mode[RunnerOf(x)])
        BY <2>4, <3>2
      <4> QED
        BY <2>3, <3>1, <4>1
    <3> QED
      BY <1>0, <3>1, <3>3, <3>4, LifeSettle
  <2>7. CASE RunnerReject(r) /\ accepting[o] = 0
    <3>1. UNCHANGED <<offers, accepting, toRunner, tasks>>
      BY <2>7 DEF RunnerReject, o
    <3> QED
      BY <2>5, <3>1
  <2>8. CASE RunnerDeferred(r)
    <3>1. /\ UNCHANGED <<offers, tasks, toRunner>>
          /\ accepting' = accepting \/ accepting' = [accepting EXCEPT ![o] = 0]
      BY <2>8 DEF RunnerDeferred, o
    <3> QED
      BY <1>0, <2>5, <3>1 DEF TypeOK
  <2>9. CASE TaskResult(r)
    <3>1. /\ UNCHANGED <<offers, accepting, toRunner>>
          /\ tasks' = tasks \/ tasks' = [tasks EXCEPT ![o] = 0]
      BY <2>9 DEF TaskResult, o
    <3> QED
      BY <1>0, <2>5, <3>1 DEF TypeOK
  <2> QED
    BY <1>3, <2>6, <2>7, <2>8, <2>9
<1> QED
  BY <1>1, <1>2, <1>3 DEF BrokerReads

\* Steps of the broker with its connections.
LEMMA ConnectionLife ==
  ASSUME Types, SlotLife, StartDraining \/ CloseConnections \/ \E r \in Runners : Connections(r)
  PROVE  SlotLife'
<1>0. TypeOK /\ ChannelsTyped(toRunner)
  BY DEF Types
<1>1. CASE StartDraining
  <2> DEFINE m == Notice("drain")
  <2>1. /\ UNCHANGED <<offers, accepting, tasks, link, mode, atRunner, toBroker>>
        /\ toRunner' = [r \in Runners |->
             IF Listening(r) THEN Append(toRunner[r], m) ELSE toRunner[r]]
    BY <1>1 DEF StartDraining
  <2>2. ASSUME NEW x \in Offers PROVE LifeOf(x)'
    <3> DEFINE r == RunnerOf(x)
    <3>1. LifeOf(x) /\ r \in Runners /\ x # <<>> /\ x \in OffersOf({r})
      BY OfferFacts DEF SlotLife
    <3>2. m \in Calls(r) /\ m.kind = "drain" /\ m.offer = <<>>
      BY <3>1, CallMade
    <3>3. toRunner'[r] = Tell(toRunner, r, m)[r]
      <4>1. Tell(toRunner, r, m)[r] = IF Listening(r) THEN Append(toRunner[r], m) ELSE toRunner[r]
        BY <1>0, <3>1, <3>2, TellFacts
      <4> QED
        BY <2>1, <3>1, <4>1
    <3> DEFINE R == toRunner'[r]
    <3> HIDE DEF m
    <3>4. /\ \A k : Mail(R, k, x) <=> Mail(toRunner[r], k, x)
          /\ Mentions(R, x) <=> Mentions(toRunner[r], x)
          /\ Leads(toRunner[r], "accept", x) => Leads(R, "accept", x)
          /\ mode[r] = "gone" => R = toRunner[r]
      <4> DEFINE after == Tell(toRunner, r, m)[RunnerOf(x)]
      <4>1. after = toRunner'[r]
        BY <3>3
      <4> HIDE DEF after
      <4>2. /\ \A k : Mail(after, k, x) <=> \/ Mail(toRunner[r], k, x)
                                            \/ Listening(r) /\ m.kind = k /\ m.offer = x
            /\ Mentions(after, x) <=> Mentions(toRunner[r], x) \/ (Listening(r) /\ m.offer = x)
            /\ Leads(toRunner[r], "accept", x) => Leads(after, "accept", x)
            /\ mode[r] = "gone" => after = toRunner[r]
        BY <3>1, <3>2, TellMail DEF after
      <4> QED
        BY <3>1, <3>2, <4>1, <4>2
    <3> HIDE DEF R
    <3>5. Life(x, Contains(offers, x), accepting[x], tasks[x], atRunner[x], R,
               toBroker[r], link[r], mode[r])
      BY <3>1, <3>4 DEF LifeOf, Life
    <3> QED
      BY <2>1, <3>5 DEF LifeOf, R
  <2> QED
    BY <2>1, <2>2 DEF SlotLife
<1>2. CASE CloseConnections
  <2> DEFINE rs == {r \in Runners : link[r] \in {"open", "closing"}}
  <2>1. /\ Disconnect(rs)
        /\ UNCHANGED <<offers, accepting, tasks, atRunner, toRunner, mode>>
    BY <1>2 DEF CloseConnections
  <2>2. \A r \in rs \cap Runners : link[r] # "off"
    OBVIOUS
  <2> HIDE DEF rs
  <2> QED
    BY <2>1, <2>2, LifeDisconnect
<1>3. ASSUME NEW r \in Runners, Connect(r) PROVE SlotLife'
  <2> DEFINE N == <<Notice("registered")>>
  <2>1. /\ UNCHANGED <<offers, accepting, tasks, atRunner, toBroker>>
        /\ link[r] = "off" /\ mode[r] = "gone"
        /\ \A s \in Runners : /\ link'[s] = IF s = r THEN "open" ELSE link[s]
                              /\ mode'[s] = IF s = r THEN "new" ELSE mode[s]
                              /\ toRunner'[s] = IF s = r THEN N ELSE toRunner[s]
    BY <1>0, <1>3 DEF Connect, broker, TypeOK, ChannelsTyped
  <2>2. ASSUME NEW x \in Offers PROVE LifeOf(x)'
    <3>1. LifeOf(x) /\ RunnerOf(x) \in Runners
      BY OfferFacts DEF SlotLife
    <3>2. CASE RunnerOf(x) # r
      BY <2>1, <3>1, <3>2 DEF LifeOf
    <3>3. CASE RunnerOf(x) = r
      <4>1. ~Mail(N, "accept", x) /\ Leads(N, "accept", x)
        BY DEF Mail, Leads, Notice
      <4> HIDE DEF N
      <4>2. /\ ~Contains(offers, x) /\ accepting[x] = 0 /\ tasks[x] = 0
            /\ atRunner[x] = "none" /\ toBroker[r] = <<>>
        BY <2>1, <3>1, <3>3 DEF LifeOf, Life
      <4>3. Life(x, Contains(offers, x), accepting[x], tasks[x], atRunner[x], N, toBroker[r],
                 "open", "new")
        BY <4>1, <4>2, MailNone DEF Life
      <4> QED
        BY <2>1, <3>1, <3>3, <4>3 DEF LifeOf
    <3> QED
      BY <3>2, <3>3
  <2> QED
    BY <2>1, <2>2 DEF SlotLife
<1>4. ASSUME NEW r \in Runners, SocketCloses(r) PROVE SlotLife'
  <2>1. /\ UNCHANGED <<offers, accepting, tasks, atRunner, toRunner, toBroker, mode>>
        /\ link[r] = "open"
        /\ \A s \in Runners : link'[s] = IF s = r THEN "closing" ELSE link[s]
    BY <1>0, <1>4 DEF SocketCloses, broker, TypeOK
  <2>2. ASSUME NEW x \in Offers PROVE LifeOf(x)'
    <3>1. LifeOf(x) /\ RunnerOf(x) \in Runners
      BY OfferFacts DEF SlotLife
    <3>2. link'[RunnerOf(x)] = link[RunnerOf(x)] \/
            (link[RunnerOf(x)] = "open" /\ link'[RunnerOf(x)] = "closing")
      BY <2>1, <3>1
    <3> QED
      BY <2>1, <3>1, <3>2 DEF LifeOf, Life
  <2> QED
    BY <2>1, <2>2 DEF SlotLife
<1>5. ASSUME NEW r \in Runners, ConnectionLost(r) PROVE SlotLife'
  <2>1. /\ Disconnect({r})
        /\ UNCHANGED <<offers, accepting, tasks, atRunner, toRunner, mode>>
        /\ \A s \in {r} \cap Runners : link[s] # "off"
    BY <1>5 DEF ConnectionLost, broker
  <2> QED
    BY <2>1, LifeDisconnect
<1>6. ASSUME NEW r \in Runners, Deregister(r) PROVE SlotLife'
  <2> DEFINE mine == {o \in Offers : RunnerOf(o) = r}
             left == Only(offers, OffersOf(Runners \ {r}))
             after == [o \in Offers |-> IF o \in mine THEN 0 ELSE accepting[o]]
  <2>1. /\ link[r] = "removed" /\ Failed(mine)
        /\ UNCHANGED <<mode, atRunner, toBroker>>
        /\ \A s \in Runners : link'[s] = IF s = r THEN "off" ELSE link[s]
        /\ \/ /\ \A o \in mine : accepting[o] = 0
              /\ offers' = left /\ UNCHANGED <<accepting, toRunner>>
           \/ Settle(pending, matched \ {accepting[o] : o \in mine}, left, after, toRunner,
                     Reachable)
    BY <1>0, <1>6 DEF Deregister, TypeOK
  <2>2. /\ left \in Seq(Offers) /\ Distinct(left)
        /\ \A x : Contains(left, x) <=> Contains(offers, x) /\ x \in OffersOf(Runners \ {r})
    BY <1>0, OnlyFacts DEF TypeOK, SlotLife
  <2>3. pending \in Seq(Requests) /\ matched \ {accepting[o] : o \in mine} \in SUBSET Requests
    BY <1>0 DEF TypeOK
  <2>4. ASSUME NEW x \in Offers, NEW a, a = IF RunnerOf(x) = r THEN 0 ELSE accepting[x]
        PROVE  Life(x, Contains(left, x), a, tasks'[x], atRunner'[x], toRunner[RunnerOf(x)],
                    toBroker'[RunnerOf(x)], link'[RunnerOf(x)], mode[RunnerOf(x)])
    <3>1. LifeOf(x) /\ RunnerOf(x) \in Runners
      BY OfferFacts DEF SlotLife
    <3>2. tasks'[x] = IF RunnerOf(x) = r THEN 0 ELSE tasks[x]
      BY <2>1 DEF Failed
    <3>3. Contains(left, x) => Contains(offers, x) /\ RunnerOf(x) # r
      BY <2>2 DEF OffersOf
    <3> HIDE DEF left
    <3>4. CASE RunnerOf(x) # r
      BY <2>1, <2>4, <3>1, <3>2, <3>3, <3>4 DEF LifeOf, Life
    <3>5. CASE RunnerOf(x) = r
      <4>1. /\ a = 0 /\ tasks'[x] = 0 /\ ~Contains(left, x) /\ link'[RunnerOf(x)] = "off"
            /\ toBroker[RunnerOf(x)] = <<>> /\ atRunner'[x] = atRunner[x]
            /\ toBroker'[RunnerOf(x)] = toBroker[RunnerOf(x)]
        BY <2>1, <2>4, <3>1, <3>2, <3>3, <3>5 DEF LifeOf, Life
      <4> QED
        BY <3>1, <4>1, MailNone DEF LifeOf, Life
    <3> QED
      BY <3>4, <3>5
  <2>5. CASE /\ \A o \in mine : accepting[o] = 0
             /\ offers' = left /\ UNCHANGED <<accepting, toRunner>>
    <3>1. ASSUME NEW x \in Offers PROVE LifeOf(x)'
      <4>1. accepting[x] = IF RunnerOf(x) = r THEN 0 ELSE accepting[x]
        BY <2>5
      <4>2. Life(x, Contains(left, x), accepting[x], tasks'[x], atRunner'[x],
                 toRunner[RunnerOf(x)], toBroker'[RunnerOf(x)], link'[RunnerOf(x)],
                 mode[RunnerOf(x)])
        BY <2>4, <4>1
      <4> QED
        BY <2>1, <2>5, <4>2 DEF LifeOf
    <3> QED
      BY <2>2, <2>5, <3>1 DEF SlotLife
  <2>6. CASE Settle(pending, matched \ {accepting[o] : o \in mine}, left, after, toRunner,
                    Reachable)
    <3>1. \A x \in Offers : after[x] = IF RunnerOf(x) = r THEN 0 ELSE accepting[x]
      OBVIOUS
    <3> HIDE DEF left, after, mine
    <3>2. \A x \in Offers :
            Life(x, Contains(left, x), after[x], tasks'[x], atRunner'[x],
                 toRunner[RunnerOf(x)], toBroker'[RunnerOf(x)], link'[RunnerOf(x)],
                 mode[RunnerOf(x)])
      BY <2>4, <3>1
    <3>3. UNCHANGED mode
      BY <2>1
    <3> QED
      BY <1>0, <2>2, <2>3, <2>6, <3>2, <3>3, LifeSettle
  <2> QED
    BY <2>1, <2>5, <2>6
<1> QED
  BY <1>1, <1>2, <1>3, <1>4, <1>5, <1>6 DEF Connections

\* A runner reads what the broker sent.
LEMMA LifeRead ==
  ASSUME Types, NEW r \in Runners, NEW kind, Reads(r, kind), NEW x \in Offers,
         NEW listed, NEW a, NEW t, NEW place, NEW B, NEW l,
         Life(x, listed, a, t, place, toRunner[RunnerOf(x)], B, l, mode[RunnerOf(x)]),
         kind = "cancel" /\ Meant(r) = x => place \notin {"waiting", "running"}
  PROVE  Life(x, listed, a, t, place, toRunner'[RunnerOf(x)], B, l, mode[RunnerOf(x)])
<1>1. /\ RunnerOf(x) # r => toRunner'[RunnerOf(x)] = toRunner[RunnerOf(x)]
      /\ RunnerOf(x) = r =>
           /\ mode[r] # "gone"
           /\ \A k : Mail(toRunner[r], k, x) <=>
                       Mail(toRunner'[r], k, x) \/ (k = kind /\ Meant(r) = x)
           /\ Mentions(toRunner'[r], x) => Mentions(toRunner[r], x)
           /\ Leads(toRunner[r], "accept", x) =>
                /\ Leads(toRunner'[r], "accept", x)
                /\ Meant(r) = x => ~Mail(toRunner'[r], "accept", x)
  BY ReadsMail
<1>2. CASE RunnerOf(x) # r
  BY <1>1, <1>2
<1>3. CASE RunnerOf(x) = r
  <2> DEFINE R == toRunner[r]
             S == toRunner'[r]
  <2>1. /\ mode[r] # "gone" /\ Leads(S, "accept", x)
        /\ Mail(S, "accept", x) => Mail(R, "accept", x) /\ Meant(r) # x
        /\ Mentions(S, x) => Mentions(R, x)
        /\ Mail(R, "cancel", x) => Mail(S, "cancel", x) \/ (kind = "cancel" /\ Meant(r) = x)
    BY <1>1, <1>3 DEF Life
  <2>2. Life(x, listed, a, t, place, R, B, l, mode[r])
    BY <1>3
  <2> HIDE DEF R, S
  <2>3. Life(x, listed, a, t, place, S, B, l, mode[r])
    BY <2>1, <2>2 DEF Life
  <2> QED
    BY <1>3, <2>3 DEF S
<1> QED
  BY <1>2, <1>3

\* A runner offers its free slots, after it said what else there was to say.
LEMMA LifeOffering ==
  ASSUME Types, NEW r \in Runners, NEW at, NEW sent \in Seq(Answers(r)),
         NEW stale \in SUBSET At(r, {"open"}), NEW new \in SUBSET OffersOf({r}),
         NEW batch \in Seq(Answers(r)), Offering(r, at, sent, stale, new, batch),
         NEW x \in Offers, NEW listed, NEW a, NEW t, NEW R, NEW B,
         B = IF RunnerOf(x) = r /\ link[r] = "open" THEN toBroker[r] \o sent
             ELSE toBroker[RunnerOf(x)],
         Life(x, listed, a, t, at[x], R, B, link[RunnerOf(x)], mode[RunnerOf(x)]),
         x \in stale => at[x] = "open",
         x \in new => ~listed /\ a = 0 /\ t = 0 /\ ~Mentions(R, x) /\ ~Mentions(B, x)
  PROVE  Life(x, listed, a, t, atRunner'[x], R, toBroker'[RunnerOf(x)],
              link[RunnerOf(x)], mode[RunnerOf(x)])
<1> DEFINE C == toBroker'[RunnerOf(x)]
           place == atRunner'[x]
<1>1. place = IF x \in new THEN "open" ELSE IF x \in stale THEN "none" ELSE at[x]
  BY DEF Offering
<1>2. RunnerOf(x) \in Runners /\ (x \in new => RunnerOf(x) = r /\ mode[r] = "offering")
  <2>1. x \in new => RunnerOf(x) = r
    BY DEF OffersOf
  <2>2. x \in new => mode[r] = "offering"
    BY DEF Offering
  <2> QED
    BY <2>1, <2>2, OfferFacts
<1>3. mode[RunnerOf(x)] = "gone" => place = "none"
  <2>1. mode[RunnerOf(x)] = "gone" => at[x] = "none"
    BY DEF Life
  <2> QED
    BY <1>1, <1>2, <2>1
<1> HIDE DEF C, place
<1>4. CASE ~(RunnerOf(x) = r /\ link[r] = "open")
  <2>1. C = B
    <3>1. toBroker' = IF link[r] # "open" THEN toBroker
                      ELSE [toBroker EXCEPT ![r] = (@ \o sent) \o batch]
      BY DEF Offering
    <3>2. link[r] = "open" => RunnerOf(x) # r
      BY <1>4
    <3> QED
      BY <1>2, <1>4, <3>1, <3>2 DEF C, Types, AnswersTyped
  <2>2. CASE x \in new
    <3>1. place = "open"
      BY <1>1, <2>2
    <3>2. ~Mail(B, "offer", x) /\ ~Mail(R, "accept", x)
      BY <2>2, MailMentions
    <3> QED
      BY <1>2, <1>3, <2>1, <2>2, <3>1, <3>2 DEF Life, C, place
  <2>3. CASE x \notin new
    <3>1. place = at[x] \/ (at[x] = "open" /\ place = "none")
      BY <1>1, <2>3
    <3> QED
      BY <1>3, <2>1, <3>1 DEF Life, C, place
  <2> QED
    BY <2>2, <2>3
<1>5. CASE RunnerOf(x) = r /\ link[r] = "open"
  <2>1. B = toBroker[r] \o sent /\ B \in Seq(Answers(r))
    <3>1. toBroker[r] \in Seq(Answers(r))
      BY DEF Types, AnswersTyped
    <3> QED
      BY <1>5, <3>1, ConcatProperties
  <2>2. C = B \o batch
    <3>1. toBroker' = [toBroker EXCEPT ![r] = (@ \o sent) \o batch]
      BY <1>5 DEF Offering
    <3> QED
      BY <1>5, <2>1, <3>1 DEF C, Types, AnswersTyped
  <2>3. \A i \in DOMAIN batch : batch[i].kind = "offer" /\ batch[i].offer \in new
    BY DEF Offering
  <2>4. \A i, j \in DOMAIN batch : batch[i].offer = batch[j].offer => i = j
    BY DEF Offering
  <2>5. /\ \A k : Mail(B \o batch, k, x) <=> Mail(B, k, x) \/ Mail(batch, k, x)
        /\ Mentions(B \o batch, x) <=> Mentions(B, x) \/ Mentions(batch, x)
        /\ \A k : /\ Sole(B, k, x) /\ Sole(batch, k, x)
                  /\ Mail(batch, k, x) => ~Mentions(B, x)
                  /\ Mail(B, k, x) => ~Mentions(batch, x)
                  => Sole(B \o batch, k, x)
    BY <2>1, MailConcat
  <2> DEFINE D == B \o batch
  <2> HIDE DEF D
  <2>6. CASE x \notin new
    <3>1. ~Mentions(batch, x) /\ \A k : ~Mail(batch, k, x)
      BY <2>3, <2>6 DEF Mentions, Mail
    <3>2. Sole(batch, "offer", x)
      BY <3>1 DEF Sole, Mail
    <3>3. /\ \A k : Mail(D, k, x) <=> Mail(B, k, x)
          /\ Mentions(D, x) <=> Mentions(B, x)
          /\ Sole(B, "offer", x) => Sole(D, "offer", x)
      BY <2>5, <3>1, <3>2 DEF D
    <3>4. place = at[x] \/ (at[x] = "open" /\ place = "none")
      BY <1>1, <2>6
    <3>5. C = D
      BY <2>2 DEF D
    <3>6. Life(x, listed, a, t, at[x], R, B, "open", mode[r])
      BY <1>5
    <3>7. mode[r] = "gone" => place = "none"
      BY <1>3, <1>5
    <3>8. Life(x, listed, a, t, place, R, D, "open", mode[r])
      BY <3>3, <3>4, <3>6, <3>7 DEF Life
    <3> QED
      BY <1>5, <3>5, <3>8 DEF C, place
  <2>7. CASE x \in new
    <3>1. ~Mentions(B, x) /\ \A k : ~Mail(B, k, x) /\ ~Mail(R, k, x)
      BY <2>7, MailMentions
    <3>2. \A k : Mail(D, k, x) => k = "offer"
      <4>1. \A k : Mail(batch, k, x) => k = "offer"
        BY <2>3 DEF Mail
      <4> QED
        BY <2>5, <3>1, <4>1 DEF D
    <3>3. Sole(D, "offer", x)
      <4>1. Sole(batch, "offer", x)
        BY <2>4 DEF Sole
      <4>2. Sole(B, "offer", x)
        BY DEF Life
      <4> QED
        BY <2>5, <3>1, <4>1, <4>2 DEF D
    <3>4. place = "open" /\ mode[r] = "offering" /\ C = D
      BY <1>1, <1>2, <2>2, <2>7 DEF D
    <3>5. Life(x, listed, a, t, at[x], R, B, "open", "offering")
      BY <1>5, <3>4
    <3>6. ~listed /\ a = 0 /\ t = 0 /\ ~Mentions(R, x)
      BY <2>7
    <3>7. Life(x, listed, a, t, "open", R, D, "open", "offering")
      BY <3>1, <3>2, <3>3, <3>5, <3>6 DEF Life
    <3> QED
      BY <1>5, <3>4, <3>7 DEF C, place
  <2> QED
    BY <2>6, <2>7
<1> QED
  BY <1>4, <1>5

\* The name of an offer to be made is that of nothing else.
LEMMA FreshFacts ==
  ASSUME NEW x \in Offers, Fresh(x)
  PROVE  /\ atRunner[x] = "none" /\ ~Contains(offers, x) /\ accepting[x] = 0 /\ tasks[x] = 0
         /\ ~Mentions(toRunner[RunnerOf(x)], x) /\ ~Mentions(toBroker[RunnerOf(x)], x)
BY DEF Fresh, Mentions

\* A task ends at its runner, with an answer or without, and its slot is offered anew;
\* the step may also have read what it ends by.
LEMMA FinishLife ==
  ASSUME Types, SlotLife, NEW o \in Offers, atRunner[o] \in Held,
         NEW sent \in {<<>>, <<Message("result", o)>>}, FinishTask(o, sent),
         UNCHANGED <<offers, accepting, tasks, link, mode>>,
         \/ UNCHANGED toRunner
         \/ Reads(RunnerOf(o), "cancel") /\ Meant(RunnerOf(o)) = o
  PROVE  SlotLife'
<1> DEFINE r == RunnerOf(o)
           at == [atRunner EXCEPT ![o] = "none"]
           m == Message("result", o)
<1>1. r \in Runners /\ o \in OffersOf({r})
  BY OfferFacts
<1>2. m \in Answers(r) /\ m.kind = "result" /\ m.offer = o
  <2>1. m \in Answers(r)
    BY <1>1, AnswerMade
  <2> QED
    BY <2>1 DEF Message
<1>3. sent \in Seq(Answers(r)) /\ (sent = <<>> \/ sent = <<m>>)
  <2> HIDE DEF m, r
  <2>1. <<m>> \in Seq(Answers(r)) /\ <<>> \in Seq(Answers(r))
    BY <1>2
  <2> QED
    BY <2>1 DEF m
<1>4. PICK stale \in SUBSET At(r, {"open"}) : SendOffers(r, at, sent, stale)
  BY DEF FinishTask
<1>5. \A x \in Offers : at[x] = IF x = o THEN "none" ELSE atRunner[x]
  BY DEF Types, TypeOK
<1>6. PICK new \in SUBSET OffersOf({r}) : \E batch \in Seq(Answers(r)) :
        Offering(r, at, sent, stale, new, batch)
  <2>1. \A x \in OffersOf({r}) : at[x] \in Out => atRunner[x] \in Out
    BY <1>5 DEF Out, OffersOf
  <2>2. SlotsRespected
    BY DEF Types
  <2> HIDE DEF at, r, m
  <2> QED
    BY <1>1, <1>4, <2>1, <2>2, SendOffersFacts
<1>7. PICK batch \in Seq(Answers(r)) : Offering(r, at, sent, stale, new, batch)
  BY <1>6
<1>8. ASSUME NEW x \in Offers PROVE LifeOf(x)'
  <2>1. LifeOf(x) /\ LifeOf(o) /\ RunnerOf(x) \in Runners
    BY OfferFacts DEF SlotLife
  <2> DEFINE R == toRunner'[RunnerOf(x)]
             B == IF RunnerOf(x) = r /\ link[r] = "open" THEN toBroker[r] \o sent
                  ELSE toBroker[RunnerOf(x)]
  <2> HIDE DEF at
  <2>2. Life(x, Contains(offers, x), accepting[x], tasks[x], at[x], toRunner[RunnerOf(x)],
             toBroker[RunnerOf(x)], link[RunnerOf(x)], mode[RunnerOf(x)])
    <3>1. at[x] = atRunner[x] \/ at[x] = "none"
      BY <1>5
    <3> QED
      BY <2>1, <3>1 DEF LifeOf, Life
  <2>3. Life(x, Contains(offers, x), accepting[x], tasks[x], at[x], R,
             toBroker[RunnerOf(x)], link[RunnerOf(x)], mode[RunnerOf(x)])
    <3>1. CASE UNCHANGED toRunner
      BY <2>2, <3>1
    <3>2. CASE Reads(r, "cancel") /\ Meant(r) = o
      <4>1. Meant(r) = x => at[x] = "none"
        BY <1>5, <3>2
      <4> QED
        BY <1>1, <2>2, <3>2, <4>1, LifeRead
    <3> QED
      BY <3>1, <3>2
  <2>4. /\ ~Contains(offers, o) /\ ~Mail(toRunner[r], "accept", o)
        /\ ~Mail(toBroker[r], "offer", o)
    BY <2>1 DEF LifeOf, Life, Held
  <2>5. Mentions(R, x) => Mentions(toRunner[RunnerOf(x)], x)
    BY <1>1, ReadsMail
  <2>6. /\ \A k : Mail(B, k, x) => Mail(toBroker[RunnerOf(x)], k, x) \/ (k = "result" /\ x = o)
        /\ Mentions(B, x) => Mentions(toBroker[RunnerOf(x)], x) \/ x = o
        /\ Sole(toBroker[RunnerOf(x)], "offer", x) => Sole(B, "offer", x)
        /\ link[RunnerOf(x)] # "open" => B = toBroker[RunnerOf(x)]
    <3>1. toBroker[r] \in Seq(Answers(r))
      BY <1>1 DEF Types, AnswersTyped
    <3>2. CASE RunnerOf(x) = r /\ link[r] = "open" /\ sent = <<m>>
      <4>1. B = Append(toBroker[r], m)
        BY <1>2, <3>1, <3>2, AppendIsConcat
      <4> DEFINE E == Append(toBroker[r], m)
      <4> HIDE DEF m
      <4>2. /\ \A k : Mail(E, k, x) <=> Mail(toBroker[r], k, x) \/ (m.kind = k /\ m.offer = x)
            /\ Mentions(E, x) <=> Mentions(toBroker[r], x) \/ m.offer = x
        BY <1>2, <3>1, MailAppend
      <4>3. Sole(toBroker[r], "offer", x) => Sole(E, "offer", x)
        <5>1. Mail(toBroker[r], "offer", x) => m.offer # x
          BY <1>2, <2>4
        <5> QED
          BY <1>2, <3>1, <5>1, MailAppend
      <4> HIDE DEF E
      <4> QED
        BY <1>2, <3>2, <4>1, <4>2, <4>3 DEF E
    <3>3. CASE ~(RunnerOf(x) = r /\ link[r] = "open" /\ sent = <<m>>)
      <4>1. B = toBroker[RunnerOf(x)]
        BY <1>3, <3>1, <3>3, ConcatEmptySeq
      <4> QED
        BY <4>1
    <3> QED
      BY <3>2, <3>3
  <2> HIDE DEF B, R
  <2>7. Life(x, Contains(offers, x), accepting[x], tasks[x], at[x], R, B,
             link[RunnerOf(x)], mode[RunnerOf(x)])
    <3>1. CASE x # o
      BY <2>3, <2>6, <3>1 DEF Life
    <3>2. CASE x = o
      <4>1. /\ ~Contains(offers, x) /\ ~Mail(toBroker[RunnerOf(x)], "offer", x)
            /\ ~Mail(R, "accept", x) /\ at[x] = "none"
        <5>1. ~Mail(toRunner[RunnerOf(x)], "accept", x)
          BY <2>4, <3>2
        <5>2. ~Mail(R, "accept", x)
          <6>1. CASE UNCHANGED toRunner
            BY <5>1, <6>1 DEF R
          <6>2. CASE Reads(r, "cancel")
            BY <1>1, <3>2, <5>1, <6>2, ReadsMail DEF R
          <6> QED
            BY <6>1, <6>2
        <5> QED
          BY <1>5, <2>4, <3>2, <5>2
      <4>2. ~Mail(B, "offer", x)
        BY <2>6, <4>1
      <4> QED
        BY <2>3, <2>6, <4>1, <4>2 DEF Life
    <3> QED
      BY <3>1, <3>2
  <2>8. x \in stale => at[x] = "open"
    <3>1. x \in stale => atRunner[x] = "open"
      BY DEF At
    <3> QED
      BY <1>5, <3>1 DEF Held
  <2>9. x \in new => /\ ~Contains(offers, x) /\ accepting[x] = 0 /\ tasks[x] = 0
                     /\ ~Mentions(R, x) /\ ~Mentions(B, x)
    <3> SUFFICES ASSUME x \in new
                 PROVE  /\ ~Contains(offers, x) /\ accepting[x] = 0 /\ tasks[x] = 0
                        /\ ~Mentions(R, x) /\ ~Mentions(B, x)
      OBVIOUS
    <3>1. Fresh(x)
      BY <1>7 DEF Offering
    <3>2. x # o
      BY <3>1, FreshFacts DEF Held
    <3> QED
      BY <2>5, <2>6, <3>1, <3>2, FreshFacts
  <2>10. Life(x, Contains(offers, x), accepting[x], tasks[x], atRunner'[x], R,
              toBroker'[RunnerOf(x)], link[RunnerOf(x)], mode[RunnerOf(x)])
    <3>1. B = IF RunnerOf(x) = r /\ link[r] = "open" THEN toBroker[r] \o sent
              ELSE toBroker[RunnerOf(x)]
      BY DEF B
    <3> HIDE DEF r
    <3> QED
      BY <1>1, <1>3, <1>7, <2>7, <2>8, <2>9, <3>1, LifeOffering
  <2> QED
    BY <2>10 DEF LifeOf, R
<1> QED
  BY <1>8 DEF SlotLife

\* What a runner says to an offer that is taken.
LEMMA AnswerLife ==
  ASSUME Types, SlotLife, NEW r \in Runners, OfferAccepted(r) \/ OfferDeferred(r)
  PROVE  SlotLife'
<1> DEFINE o == Meant(r)
<1>0. TypeOK
  BY DEF Types
<1>1. /\ Reads(r, "accept") /\ UNCHANGED <<offers, accepting, tasks, link, mode>>
      /\ \/ /\ Says(r, Message("accepted", o))
            /\ atRunner' = [atRunner EXCEPT ![o] = "waiting"]
         \/ /\ Says(r, Message("rejected", o)) \/ Says(r, Message("deferred", o))
            /\ atRunner' = atRunner \/ atRunner' = [atRunner EXCEPT ![o] = "none"]
  BY DEF OfferAccepted, OfferDeferred, broker
<1>2. o \in Offers /\ RunnerOf(o) = r /\ o \in OffersOf({r}) /\ mode[r] # "gone"
  BY <1>1, ReadsFacts
<1> HIDE DEF o
<1>3. PICK k \in {"accepted", "rejected", "deferred"} :
        /\ Says(r, Message(k, o))
        /\ k = "accepted" => atRunner' = [atRunner EXCEPT ![o] = "waiting"]
        /\ k # "accepted" => atRunner' = atRunner \/ atRunner' = [atRunner EXCEPT ![o] = "none"]
  BY <1>1
<1>4. /\ \A x \in Offers : x # o => atRunner'[x] = atRunner[x]
      /\ k = "accepted" => atRunner'[o] = "waiting"
      /\ k # "accepted" => atRunner'[o] \in {atRunner[o], "none"}
  BY <1>0, <1>2, <1>3 DEF TypeOK
<1> DEFINE m == Message(k, o)
<1>5. m \in Answers(r) /\ m.kind = k /\ m.offer = o
  <2>1. m \in Answers(r)
    <3>1. PICK p \in OffersOf({r}) : p = o
      BY <1>2
    <3>2. Message(k, p) \in Answers(r)
      BY AnswerMade
    <3> QED
      BY <3>1, <3>2
  <2> QED
    BY <2>1 DEF Message
<1>6. Says(r, m)
  BY <1>3
<1> HIDE DEF m
<1>7. /\ \A s \in Runners : s # r => toBroker'[s] = toBroker[s]
      /\ toBroker'[r] = IF link[r] = "open" THEN Append(toBroker[r], m) ELSE toBroker[r]
      /\ toBroker[r] \in Seq(Answers(r))
  BY <1>5, <1>6, SaysFacts DEF Types, AnswersTyped
<1>8. ASSUME NEW x \in Offers PROVE LifeOf(x)'
  <2>1. LifeOf(x) /\ RunnerOf(x) \in Runners
    BY OfferFacts DEF SlotLife
  <2> DEFINE R == toRunner'[RunnerOf(x)]
             B == toBroker'[RunnerOf(x)]
  <2>2. Life(x, Contains(offers, x), accepting[x], tasks[x], atRunner[x], R,
             toBroker[RunnerOf(x)], link[RunnerOf(x)], mode[RunnerOf(x)])
    <3>1. Life(x, Contains(offers, x), accepting[x], tasks[x], atRunner[x],
               toRunner[RunnerOf(x)], toBroker[RunnerOf(x)], link[RunnerOf(x)],
               mode[RunnerOf(x)])
      BY <2>1 DEF LifeOf
    <3> QED
      BY <1>1, <3>1, LifeRead
  <2> HIDE DEF R
  <2>3. CASE RunnerOf(x) # r
    <3>1. B = toBroker[RunnerOf(x)] /\ atRunner'[x] = atRunner[x]
      BY <1>2, <1>4, <1>7, <2>1, <2>3
    <3> QED
      BY <1>1, <2>2, <3>1 DEF LifeOf, R
  <2>4. CASE RunnerOf(x) = r /\ link[r] = "open"
    <3> DEFINE E == Append(toBroker[r], m)
    <3>1. /\ \A j : Mail(E, j, x) <=> Mail(toBroker[r], j, x) \/ (m.kind = j /\ m.offer = x)
          /\ Mentions(E, x) <=> Mentions(toBroker[r], x) \/ m.offer = x
      BY <1>5, <1>7, MailAppend
    <3>2. Sole(toBroker[r], "offer", x) /\ (x = o => ~Mail(toBroker[r], "offer", x))
            => Sole(E, "offer", x)
      <4>1. m.kind = "offer" /\ m.offer = x => ~Mentions(toBroker[r], x)
        BY <1>5
      <4> QED
        BY <1>5, <1>7, <4>1, MailAppend
    <3>3. B = E
      BY <1>7, <2>4
    <3> HIDE DEF E, B
    <3>4. CASE x # o
      <4>1. Life(x, Contains(offers, x), accepting[x], tasks[x], atRunner[x], R, E,
                 link[RunnerOf(x)], mode[RunnerOf(x)])
        BY <1>5, <2>2, <2>4, <3>1, <3>2, <3>4 DEF Life
      <4> QED
        BY <1>1, <1>4, <3>3, <3>4, <4>1 DEF LifeOf, R, B
    <3>5. CASE x = o
      <4>1. /\ tasks[x] = 0 /\ atRunner[x] \in {"none", "open"} /\ ~Mentions(toBroker[r], x)
            /\ ~Contains(offers, x) /\ ~Mail(R, "accept", x)
            /\ accepting[x] # 0 \/ Mail(R, "cancel", x)
        <5>1. Mail(toRunner[r], "accept", x)
          BY <1>1, <2>4, <3>5, ReadsMail DEF o
        <5>2. Mentions(toRunner[r], x)
          BY <5>1, MailMentions
        <5>3. Leads(toRunner[r], "accept", x)
          BY <2>1, <2>4 DEF LifeOf, Life
        <5>4. /\ ~Mail(R, "accept", x)
              /\ Mail(toRunner[r], "cancel", x) => Mail(R, "cancel", x)
          BY <1>1, <2>4, <3>5, <5>3, ReadsMail DEF o, R
        <5> QED
          BY <2>1, <2>4, <5>1, <5>2, <5>4 DEF LifeOf, Life
      <4>2. ~Mail(toBroker[r], "offer", x)
        BY <4>1, MailMentions
      <4>3. Sole(E, "offer", x) /\ ~Mail(E, "offer", x)
        BY <1>5, <2>2, <2>4, <3>1, <3>2, <4>2 DEF Life
      <4>4. ~Mail(toBroker[r], "rejected", x) /\ ~Mail(toBroker[r], "deferred", x)
              /\ ~Mail(toBroker[r], "result", x)
        BY <4>1, MailMentions
      <4>5. Mail(E, "rejected", x) \/ Mail(E, "deferred", x) \/ Mail(E, "result", x) =>
              atRunner'[x] \in {"none", "open"}
        <5>1. Mail(E, "rejected", x) \/ Mail(E, "deferred", x) \/ Mail(E, "result", x) =>
                k # "accepted"
          BY <1>5, <3>1, <4>4
        <5> QED
          BY <1>4, <3>5, <4>1, <5>1
      <4>7. Life(x, Contains(offers, x), accepting[x], tasks[x], atRunner[x], R, toBroker[r],
                 "open", mode[r])
        BY <2>2, <2>4
      <4>8. Life(x, Contains(offers, x), accepting[x], tasks[x], atRunner'[x], R, E,
                 "open", mode[r])
        BY <1>2, <4>1, <4>3, <4>5, <4>7 DEF Life
      <4> QED
        BY <1>1, <2>4, <3>3, <4>8 DEF LifeOf, R, B
    <3> QED
      BY <3>4, <3>5
  <2>5. CASE RunnerOf(x) = r /\ link[r] # "open"
    <3>1. B = toBroker[r]
      BY <1>7, <2>5
    <3>2. Life(x, Contains(offers, x), accepting[x], tasks[x], atRunner[x], R, toBroker[r],
               link[r], mode[r])
      BY <2>2, <2>5
    <3>3. CASE x # o
      BY <1>1, <1>4, <2>5, <3>1, <3>2, <3>3 DEF LifeOf, R, B
    <3>4. CASE x = o
      <4>1. /\ atRunner[x] \in {"none", "open"} /\ ~Mentions(toBroker[r], x)
            /\ ~Contains(offers, x) /\ ~Mail(R, "accept", x)
        <5>1. Mail(toRunner[r], "accept", x)
          BY <1>1, <2>5, <3>4, ReadsMail DEF o
        <5>2. Mentions(toRunner[r], x)
          BY <5>1, MailMentions
        <5>3. Leads(toRunner[r], "accept", x)
          BY <2>1, <2>5 DEF LifeOf, Life
        <5>4. ~Mail(R, "accept", x)
          BY <1>1, <2>5, <3>4, <5>3, ReadsMail DEF o, R
        <5> QED
          BY <2>1, <2>5, <5>1, <5>2, <5>4 DEF LifeOf, Life
      <4>2. \A j : ~Mail(toBroker[r], j, x)
        BY <4>1, MailMentions
      <4>3. Life(x, Contains(offers, x), accepting[x], tasks[x], atRunner'[x], R, toBroker[r],
                 link[r], mode[r])
        BY <1>2, <2>5, <3>2, <4>1, <4>2 DEF Life
      <4> QED
        BY <1>1, <2>5, <3>1, <4>3 DEF LifeOf, R, B
    <3> QED
      BY <3>3, <3>4
  <2> QED
    BY <2>3, <2>4, <2>5
<1> QED
  BY <1>1, <1>8 DEF SlotLife

\* Steps of a runner.
LEMMA RunnerLife ==
  ASSUME Types, SlotLife, NEW r \in Runners, RunnerSteps(r)
  PROVE  SlotLife'
<1>0. TypeOK
  BY DEF Types
<1>1. CASE OfferSlots(r)
  <2>1. UNCHANGED <<offers, accepting, tasks, link, mode, toRunner>>
    BY <1>1 DEF OfferSlots, broker
  <2>2. PICK stale \in SUBSET At(r, {"open"}) : SendOffers(r, atRunner, <<>>, stale)
    BY <1>1 DEF OfferSlots
  <2>3. PICK new \in SUBSET OffersOf({r}) : \E batch \in Seq(Answers(r)) :
          Offering(r, atRunner, <<>>, stale, new, batch)
    <3>1. SlotsRespected
      BY DEF Types
    <3> QED
      BY <2>2, <3>1, SendOffersFacts
  <2>4. PICK batch \in Seq(Answers(r)) : Offering(r, atRunner, <<>>, stale, new, batch)
    BY <2>3
  <2>5. ASSUME NEW x \in Offers PROVE LifeOf(x)'
    <3> DEFINE B == toBroker[RunnerOf(x)]
    <3>1. Life(x, Contains(offers, x), accepting[x], tasks[x], atRunner[x],
               toRunner[RunnerOf(x)], B, link[RunnerOf(x)], mode[RunnerOf(x)])
      BY DEF SlotLife, LifeOf
    <3>2. B = IF RunnerOf(x) = r /\ link[r] = "open" THEN toBroker[r] \o <<>>
              ELSE toBroker[RunnerOf(x)]
      <4>1. toBroker[r] \in Seq(Answers(r))
        BY DEF Types, AnswersTyped
      <4> QED
        BY <4>1, ConcatEmptySeq
    <3>3. x \in stale => atRunner[x] = "open"
      BY DEF At
    <3>4. x \in new => /\ ~Contains(offers, x) /\ accepting[x] = 0 /\ tasks[x] = 0
                       /\ ~Mentions(toRunner[RunnerOf(x)], x) /\ ~Mentions(B, x)
      BY <2>4, FreshFacts DEF Offering
    <3>5. <<>> \in Seq(Answers(r))
      OBVIOUS
    <3> HIDE DEF B
    <3>6. Life(x, Contains(offers, x), accepting[x], tasks[x], atRunner'[x],
               toRunner[RunnerOf(x)], toBroker'[RunnerOf(x)], link[RunnerOf(x)],
               mode[RunnerOf(x)])
      BY <2>4, <3>1, <3>2, <3>3, <3>4, <3>5, LifeOffering
    <3> QED
      BY <2>1, <3>6 DEF LifeOf
  <2> QED
    BY <2>1, <2>5 DEF SlotLife
<1>2. CASE RunnerRegistered(r) \/ BrokerDrains(r)
  <2>1. PICK kind \in {"registered", "drain"} : Reads(r, kind)
    BY <1>2 DEF RunnerRegistered, BrokerDrains
  <2>2. /\ UNCHANGED <<offers, accepting, tasks, link, atRunner, toBroker>>
        /\ \A s \in Runners : mode'[s] = mode[s] \/ (mode[s] # "gone" /\ mode'[s] # "gone")
    BY <1>0, <1>2, <2>1, ReadsFacts DEF RunnerRegistered, BrokerDrains, TypeOK, broker
  <2>3. ASSUME NEW x \in Offers PROVE LifeOf(x)'
    <3>1. LifeOf(x) /\ RunnerOf(x) \in Runners
      BY OfferFacts DEF SlotLife
    <3>2. Life(x, Contains(offers, x), accepting[x], tasks[x], atRunner[x],
               toRunner'[RunnerOf(x)], toBroker[RunnerOf(x)], link[RunnerOf(x)],
               mode[RunnerOf(x)])
      BY <2>1, <3>1, LifeRead DEF LifeOf
    <3>3. Life(x, Contains(offers, x), accepting[x], tasks[x], atRunner[x],
               toRunner'[RunnerOf(x)], toBroker[RunnerOf(x)], link[RunnerOf(x)],
               mode'[RunnerOf(x)])
      BY <2>2, <3>1, <3>2 DEF Life
    <3> QED
      BY <2>2, <3>3 DEF LifeOf
  <2> QED
    BY <2>2, <2>3 DEF SlotLife
<1>3. CASE OfferAccepted(r) \/ OfferDeferred(r)
  BY <1>3, AnswerLife
<1>4. CASE ReceivedSettings(r)
  <2>1. /\ Reads(r, "settings")
        /\ UNCHANGED <<offers, accepting, tasks, link, mode, toBroker>>
        /\ \A x \in Offers : \/ atRunner'[x] = atRunner[x]
                             \/ atRunner[x] = "waiting" /\ atRunner'[x] = "running"
    BY <1>0, <1>4 DEF ReceivedSettings, TypeOK, broker
  <2>2. ASSUME NEW x \in Offers PROVE LifeOf(x)'
    <3>1. LifeOf(x)
      BY DEF SlotLife
    <3>2. Life(x, Contains(offers, x), accepting[x], tasks[x], atRunner[x],
               toRunner'[RunnerOf(x)], toBroker[RunnerOf(x)], link[RunnerOf(x)],
               mode[RunnerOf(x)])
      BY <2>1, <3>1, LifeRead DEF LifeOf
    <3>3. \/ atRunner'[x] = atRunner[x]
          \/ atRunner[x] = "waiting" /\ atRunner'[x] = "running"
      BY <2>1
    <3>4. Life(x, Contains(offers, x), accepting[x], tasks[x], atRunner'[x],
               toRunner'[RunnerOf(x)], toBroker[RunnerOf(x)], link[RunnerOf(x)],
               mode[RunnerOf(x)])
      BY <3>2, <3>3 DEF Life
    <3> QED
      BY <2>1, <3>4 DEF LifeOf
  <2> QED
    BY <2>1, <2>2 DEF SlotLife
<1>5. CASE TaskCancelled(r)
  <2> DEFINE o == Meant(r)
  <2>1. Reads(r, "cancel") /\ UNCHANGED <<offers, accepting, tasks, link, mode>>
    BY <1>5 DEF TaskCancelled, broker
  <2>2. o \in Offers /\ RunnerOf(o) = r
    BY <2>1, ReadsFacts
  <2>3. CASE atRunner[o] = "waiting"
    <3>1. FinishTask(o, <<>>)
      BY <1>5, <2>3 DEF TaskCancelled
    <3>2. PICK p \in Offers : p = o
      BY <2>2
    <3>3. FinishTask(p, <<>>) /\ atRunner[p] \in Held
      BY <2>3, <3>1, <3>2 DEF Held
    <3>4. Reads(RunnerOf(p), "cancel") /\ Meant(RunnerOf(p)) = p
      BY <2>1, <2>2, <3>2
    <3>5. <<>> \in {<<>>, <<Message("result", p)>>}
      OBVIOUS
    <3> QED
      BY <2>1, <3>3, <3>4, <3>5, FinishLife
  <2>4. CASE atRunner[o] # "waiting"
    <3>1. /\ UNCHANGED toBroker
          /\ \A x \in Offers : atRunner'[x] = IF x = o /\ atRunner[x] = "running"
                                              THEN "aborting" ELSE atRunner[x]
      BY <1>0, <1>5, <2>4 DEF TaskCancelled, TypeOK
    <3>2. ASSUME NEW x \in Offers PROVE LifeOf(x)'
      <4>1. LifeOf(x)
        BY DEF SlotLife
      <4>2. Life(x, Contains(offers, x), accepting[x], tasks[x], atRunner'[x],
                 toRunner[RunnerOf(x)], toBroker[RunnerOf(x)], link[RunnerOf(x)],
                 mode[RunnerOf(x)])
        <5>1. atRunner'[x] = atRunner[x] \/
                (atRunner[x] = "running" /\ atRunner'[x] = "aborting")
          BY <3>1
        <5> QED
          BY <4>1, <5>1 DEF LifeOf, Life
      <4>3. Meant(r) = x => atRunner'[x] \notin {"waiting", "running"}
        BY <2>4, <3>1
      <4>4. Life(x, Contains(offers, x), accepting[x], tasks[x], atRunner'[x],
                 toRunner'[RunnerOf(x)], toBroker[RunnerOf(x)], link[RunnerOf(x)],
                 mode[RunnerOf(x)])
        BY <2>1, <4>2, <4>3, LifeRead
      <4> QED
        BY <2>1, <3>1, <4>4 DEF LifeOf
    <3> QED
      BY <2>1, <3>2 DEF SlotLife
  <2> QED
    BY <2>3, <2>4
<1>6. CASE RunnerStops(r)
  <2>1. /\ UNCHANGED <<offers, accepting, tasks, link, toRunner, toBroker>>
        /\ \A x \in Offers : \/ atRunner'[x] = atRunner[x]
                             \/ atRunner[x] = "open" /\ atRunner'[x] = "none"
        /\ \A s \in Runners : mode'[s] = mode[s] \/ (mode[s] # "gone" /\ mode'[s] # "gone")
    BY <1>0, <1>6 DEF RunnerStops, TypeOK, broker
  <2>2. ASSUME NEW x \in Offers PROVE LifeOf(x)'
    <3>1. LifeOf(x) /\ RunnerOf(x) \in Runners
      BY OfferFacts DEF SlotLife
    <3>2. \/ atRunner'[x] = atRunner[x]
          \/ atRunner[x] = "open" /\ atRunner'[x] = "none"
      BY <2>1
    <3>3. Life(x, Contains(offers, x), accepting[x], tasks[x], atRunner'[x],
               toRunner[RunnerOf(x)], toBroker[RunnerOf(x)], link[RunnerOf(x)],
               mode'[RunnerOf(x)])
      BY <2>1, <3>1, <3>2 DEF LifeOf, Life
    <3> QED
      BY <2>1, <3>3 DEF LifeOf
  <2> QED
    BY <2>1, <2>2 DEF SlotLife
<1>7. CASE RunnerCloses(r) \/ RunnerCrashes(r) \/ RunnerExits(r)
  <2>1. /\ Dies(r) /\ UNCHANGED <<offers, accepting, tasks, toBroker>>
        /\ \A s \in Runners : link'[s] = link[s] \/ (link[s] = "open" /\ link'[s] = "closing")
    BY <1>0, <1>7 DEF RunnerCloses, RunnerCrashes, RunnerExits, TypeOK, broker
  <2>2. ASSUME NEW x \in Offers PROVE LifeOf(x)'
    <3>1. LifeOf(x) /\ RunnerOf(x) \in Runners
      BY OfferFacts DEF SlotLife
    <3>2. Life(x, Contains(offers, x), accepting[x], tasks[x], atRunner'[x],
               toRunner'[RunnerOf(x)], toBroker[RunnerOf(x)], link[RunnerOf(x)],
               mode'[RunnerOf(x)])
      BY <2>1, <3>1, LifeEnded DEF LifeOf
    <3>3. Life(x, Contains(offers, x), accepting[x], tasks[x], atRunner'[x],
               toRunner'[RunnerOf(x)], toBroker[RunnerOf(x)], link'[RunnerOf(x)],
               mode'[RunnerOf(x)])
      <4>1. link'[RunnerOf(x)] = link[RunnerOf(x)] \/
              (link[RunnerOf(x)] = "open" /\ link'[RunnerOf(x)] = "closing")
        BY <2>1, <3>1
      <4> QED
        BY <3>2, <4>1 DEF Life
    <3> QED
      BY <2>1, <3>3 DEF LifeOf
  <2> QED
    BY <2>1, <2>2 DEF SlotLife
<1> QED
  BY <1>1, <1>2, <1>3, <1>4, <1>5, <1>6, <1>7 DEF RunnerSteps

\* Steps of a task at its runner.
LEMMA TaskLife ==
  ASSUME Types, SlotLife, NEW o \in Offers, TaskFinishes(o) \/ TaskTimedOut(o)
  PROVE  SlotLife'
<1>0. TypeOK
  BY DEF Types
<1>1. UNCHANGED <<offers, accepting, tasks, link, mode, toRunner>>
  BY DEF TaskFinishes, TaskTimedOut, broker
<1>2. CASE \E sent \in {<<>>, <<Message("result", o)>>} :
             FinishTask(o, sent) /\ atRunner[o] \in Held
  BY <1>1, <1>2, FinishLife
<1>3. CASE /\ UNCHANGED toBroker /\ atRunner[o] = "running"
           /\ atRunner' = [atRunner EXCEPT ![o] = "overdue"]
  <2>1. ASSUME NEW x \in Offers PROVE LifeOf(x)'
    <3>1. LifeOf(x)
      BY DEF SlotLife
    <3>2. \/ atRunner'[x] = atRunner[x]
          \/ atRunner[x] = "running" /\ atRunner'[x] = "overdue"
      BY <1>0, <1>3 DEF TypeOK
    <3>3. Life(x, Contains(offers, x), accepting[x], tasks[x], atRunner'[x],
               toRunner[RunnerOf(x)], toBroker[RunnerOf(x)], link[RunnerOf(x)],
               mode[RunnerOf(x)])
      BY <3>1, <3>2 DEF LifeOf, Life
    <3> QED
      BY <1>1, <1>3, <3>3 DEF LifeOf
  <2> QED
    BY <1>1, <2>1 DEF SlotLife
<1>4. \/ \E sent \in {<<>>, <<Message("result", o)>>} :
           FinishTask(o, sent) /\ atRunner[o] \in Held
      \/ /\ UNCHANGED toBroker /\ atRunner[o] = "running"
         /\ atRunner' = [atRunner EXCEPT ![o] = "overdue"]
  <2>1. CASE TaskFinishes(o)
    <3>1. atRunner[o] \in Held
      BY <2>1 DEF TaskFinishes, Held
    <3>2. FinishTask(o, <<>>) \/ FinishTask(o, <<Message("result", o)>>)
      BY <2>1 DEF TaskFinishes
    <3> QED
      BY <3>1, <3>2
  <2>2. CASE TaskTimedOut(o)
    BY <2>2 DEF TaskTimedOut, Held
  <2> QED
    BY <2>1, <2>2
<1> QED
  BY <1>2, <1>3, <1>4

\* The initial state.
LEMMA InitLife ==
  ASSUME Init
  PROVE  SlotLife
<1>1. ASSUME NEW o \in Offers PROVE LifeOf(o)
  <2>1. RunnerOf(o) \in Runners
    BY OfferFacts
  <2>2. /\ ~Contains(offers, o) /\ accepting[o] = 0 /\ tasks[o] = 0 /\ atRunner[o] = "none"
        /\ toRunner[RunnerOf(o)] = <<>> /\ toBroker[RunnerOf(o)] = <<>>
        /\ link[RunnerOf(o)] = "off" /\ mode[RunnerOf(o)] = "gone"
    BY <2>1 DEF Init, Contains
  <2> QED
    BY <2>2, MailNone DEF LifeOf, Life
<1>2. Distinct(offers)
  BY DEF Init, Distinct
<1> QED
  BY <1>1, <1>2 DEF SlotLife

\* Every step keeps the life of every offer.
LEMMA LifeStep ==
  ASSUME Types, SlotLife, [Next]_vars
  PROVE  SlotLife'
<1>1. CASE UNCHANGED vars
  BY <1>1, LifeUnchanged DEF vars
<1>2. CASE Next
  BY <1>2, QueueLife, OfferLife, BrokerReadsLife, ConnectionLife, RunnerLife, TaskLife DEF Next
<1> QED
  BY <1>1, <1>2

\* What a name stands for is the same wherever it is mentioned.
LEMMA LifeAlways == Spec => [](Types /\ SlotLife)
<1>1. Init => Types /\ SlotLife
  BY InitTypes, InitLife
<1>2. Types /\ SlotLife /\ [Next]_vars => Types' /\ SlotLife'
  BY TypesStep, LifeStep
<1> QED
  BY <1>1, <1>2, PTL DEF Spec

\* A slot of a runner whose connection is open is held for a task the broker waits for
\* or tracks, or the message that frees it is on its way: whatever timed out, was given
\* up or was cancelled, no slot is lost.
THEOREM SlotsAreOwned == Spec => []SlotsOwned
<1>1. ASSUME Types, SlotLife PROVE SlotsOwned
  <2> SUFFICES ASSUME NEW o \in Offers,
                      atRunner[o] \in {"waiting", "running"}, link[RunnerOf(o)] = "open",
                      accepting[o] = 0, tasks[o] = 0
               PROVE  Contains(toRunner[RunnerOf(o)], Message("cancel", o))
    BY DEF SlotsOwned
  <2> DEFINE R == toRunner[RunnerOf(o)]
  <2>1. LifeOf(o) /\ RunnerOf(o) \in Runners
    BY <1>1, OfferFacts DEF SlotLife
  <2>2. Mail(R, "cancel", o)
    BY <2>1 DEF LifeOf, Life
  <2>3. R \in Seq(Calls(RunnerOf(o)))
    BY <1>1, <2>1 DEF Types, ChannelsTyped
  <2>4. PICK i \in DOMAIN R : R[i].kind = "cancel" /\ R[i].offer = o
    BY <2>2 DEF Mail
  <2>5. R[i] = Message("cancel", o)
    <3>1. i \in 1..Len(R) /\ R[i] \in Calls(RunnerOf(o))
      BY <2>3, <2>4
    <3> QED
      BY <2>1, <2>4, <3>1, CallFacts
  <2>6. i \in 1..Len(R)
    BY <2>3, <2>4
  <2> QED
    BY <2>5, <2>6 DEF Contains
<1> QED
  BY <1>1, LifeAlways, PTL

-----------------------------------------------------------------------------
(* The queue and the callers.                                              *)

\* A request in the queue is being accepted by the offer it is marked for, and by no
\* other; an acceptance that is not for the queue is nobody's.
Booked(queue, busy, accepts) ==
  /\ Distinct(queue)
  /\ \A q \in busy : Contains(queue, q)
  /\ \A q \in Requests : Contains(queue, q) => (q \in busy <=> \E o \in Offers : accepts[o] = q)
  /\ \A o, p \in Offers : accepts[o] = accepts[p] /\ Contains(queue, accepts[o]) => o = p

\* What each caller waits for.
Tracked(res, queue, accepts, track) ==
  /\ \A q \in Requests : res[q] = "queued" <=> Contains(queue, q)
  /\ \A o \in Offers : accepts[o] # 0 => res[accepts[o]] # "idle"
  /\ \A o, p \in Offers : track[o] = track[p] /\ track[o] # 0 => o = p
  /\ \A q \in Requests : res[q] = "tasked" <=> \E o \in Offers : track[o] = q

QueueSound ==
  /\ Booked(pending, matched, accepting)
  /\ Tracked(result, pending, accepting, tasks)

\* No acceptance is in progress of what is offered.
Unaccepted(pool, accepts) ==
  Distinct(pool) /\ \A o \in Offers : Contains(pool, o) => accepts[o] = 0

\* Matching keeps the books.
LEMMA BooksSettle ==
  ASSUME NEW queue \in Seq(Requests), NEW busy \in SUBSET Requests, NEW pool \in Seq(Offers),
         NEW accepts, NEW channels, NEW reachable,
         Settle(queue, busy, pool, accepts, channels, reachable),
         Booked(queue, busy, accepts), Unaccepted(pool, accepts)
  PROVE  /\ Booked(pending', matched', accepting') /\ pending' = queue
         /\ \A o \in Offers : accepting'[o] = accepts[o] \/ Contains(queue, accepting'[o])
<1>1. PICK T \in SUBSET Offers :
        \E f \in [T -> Requests] : Matching(queue, busy, pool, accepts, channels, T, f)
  BY SettleFacts
<1>2. PICK f \in [T -> Requests] : Matching(queue, busy, pool, accepts, channels, T, f)
  BY <1>1
<1>3. /\ pending' = queue /\ Distinct(queue)
      /\ \A o \in T : /\ Contains(queue, f[o]) /\ f[o] \notin busy
                      /\ accepts[o] = 0 /\ f[o] \in Requests
      /\ \A o \in Offers : accepting'[o] = IF o \in T THEN f[o] ELSE accepts[o]
      /\ matched' = busy \cup {f[o] : o \in T}
      /\ \A o, p \in T : f[o] = f[p] => o = p
  BY <1>2 DEF Matching, Booked, Unaccepted
<1>4. \A q \in matched' : Contains(queue, q)
  BY <1>3 DEF Booked
<1>5. ASSUME NEW q \in Requests, Contains(queue, q)
      PROVE  q \in matched' <=> \E o \in Offers : accepting'[o] = q
  <2>1. q \in busy <=> \E o \in Offers : accepts[o] = q
    BY <1>5 DEF Booked
  <2>2. q # 0
    BY Bounds
  <2>3. ASSUME q \in matched' PROVE \E o \in Offers : accepting'[o] = q
    <3>1. CASE q \in busy
      <4>1. PICK o \in Offers : accepts[o] = q
        BY <2>1, <3>1
      <4>2. o \notin T
        BY <1>3, <2>2, <4>1
      <4> QED
        BY <1>3, <4>1, <4>2
    <3>2. CASE q \notin busy
      <4>1. PICK o \in T : f[o] = q
        BY <1>3, <2>3, <3>2
      <4> QED
        BY <1>3, <4>1
    <3> QED
      BY <3>1, <3>2
  <2>4. ASSUME NEW o \in Offers, accepting'[o] = q PROVE q \in matched'
    BY <1>3, <2>1, <2>4
  <2> QED
    BY <2>3, <2>4
<1>6. ASSUME NEW o \in Offers, NEW p \in Offers, accepting'[o] = accepting'[p],
             Contains(queue, accepting'[o])
      PROVE  o = p
  <2>0. accepting'[o] \in Requests
    <3>1. PICK i \in 1..Len(queue) : accepting'[o] = queue[i]
      BY <1>6 DEF Contains
    <3> QED
      BY <3>1
  <2>1. CASE o \in T /\ p \in T
    BY <1>3, <1>6, <2>1
  <2>2. CASE o \notin T /\ p \notin T
    BY <1>3, <1>6, <2>2 DEF Booked
  <2>3. ASSUME NEW s \in Offers, NEW t \in Offers, s \in T, t \notin T,
               accepting'[s] = accepting'[t], accepting'[t] = accepting'[o]
        PROVE  FALSE
    <3>1. accepts[t] = f[s] /\ f[s] \in Requests /\ Contains(queue, f[s]) /\ f[s] \notin busy
      BY <1>3, <2>3
    <3> QED
      BY <3>1 DEF Booked
  <2> QED
    BY <1>6, <2>1, <2>2, <2>3
<1>7. \A o \in Offers : accepting'[o] = accepts[o] \/ Contains(queue, accepting'[o])
  BY <1>3
<1> QED
  BY <1>3, <1>4, <1>5, <1>6, <1>7 DEF Booked

\* Acceptances are given up, and the requests they were for are no longer marked.
GivesUp(busy, accepts, after, fewer) ==
  /\ fewer \in SUBSET busy
  /\ \A o \in Offers : after[o] = accepts[o] \/ after[o] = 0
  /\ \A q \in busy : q \in fewer <=> \A o \in Offers : accepts[o] = q => after[o] = q

\* The books are kept then.
LEMMA BooksGivenUp ==
  ASSUME NEW queue \in Seq(Requests), NEW busy \in SUBSET Requests, NEW accepts,
         Booked(queue, busy, accepts), NEW after, NEW fewer, GivesUp(busy, accepts, after, fewer)
  PROVE  Booked(queue, fewer, after)
<1>0. /\ fewer \in SUBSET busy
      /\ \A o \in Offers : after[o] = accepts[o] \/ after[o] = 0
      /\ \A q \in busy : q \in fewer <=> \A o \in Offers : accepts[o] = q => after[o] = q
  BY DEF GivesUp
<1>1. ASSUME NEW q \in Requests, Contains(queue, q)
      PROVE  q \in fewer <=> \E o \in Offers : after[o] = q
  <2>1. q # 0
    BY Bounds
  <2>2. ASSUME q \in fewer PROVE \E o \in Offers : after[o] = q
    <3>1. PICK o \in Offers : accepts[o] = q
      BY <1>0, <1>1, <2>2 DEF Booked
    <3>2. after[o] = q
      BY <1>0, <2>2, <3>1
    <3> QED
      BY <3>2
  <2>3. ASSUME NEW o \in Offers, after[o] = q PROVE q \in fewer
    <3>1. accepts[o] = q
      BY <1>0, <2>1, <2>3
    <3>2. q \in busy
      BY <1>1, <3>1 DEF Booked
    <3>3. \A p \in Offers : accepts[p] = q => p = o
      BY <1>1, <3>1 DEF Booked
    <3> QED
      BY <1>0, <2>3, <3>2, <3>3
  <2> QED
    BY <2>2, <2>3
<1>2. ASSUME NEW o \in Offers, NEW p \in Offers, after[o] = after[p], Contains(queue, after[o])
      PROVE  o = p \/ after[o] = 0
  BY <1>0, <1>2 DEF Booked
<1>3. ASSUME NEW o \in Offers, Contains(queue, after[o]) PROVE after[o] # 0
  <2>1. PICK i \in 1..Len(queue) : queue[i] = after[o]
    BY <1>3 DEF Contains
  <2> QED
    BY <2>1, Bounds
<1> QED
  BY <1>0, <1>1, <1>2, <1>3 DEF Booked

\* A request leaves the queue.
LEMMA BooksWithout ==
  ASSUME NEW queue \in Seq(Requests), NEW busy \in SUBSET Requests, NEW accepts,
         Booked(queue, busy, accepts), NEW q
  PROVE  Booked(Without(queue, q), busy \ {q}, accepts)
<1>1. /\ Distinct(Without(queue, q))
      /\ \A p : Contains(Without(queue, q), p) <=> Contains(queue, p) /\ p # q
  BY WithoutFacts DEF Booked
<1> DEFINE left == Without(queue, q)
<1> HIDE DEF left
<1>2. Booked(left, busy \ {q}, accepts)
  BY <1>1 DEF Booked, left
<1> QED
  BY <1>2 DEF left

\* An acceptance is forgotten, or is one for the queue.
LEMMA TrackedAccepts ==
  ASSUME NEW res, NEW queue \in Seq(Requests), NEW accepts, NEW track,
         Tracked(res, queue, accepts, track), NEW after,
         \A o \in Offers : after[o] = accepts[o] \/ after[o] = 0 \/ Contains(queue, after[o])
  PROVE  Tracked(res, queue, after, track)
<1>1. ASSUME NEW o \in Offers, after[o] # 0 PROVE res[after[o]] # "idle"
  <2>1. CASE after[o] = accepts[o]
    BY <1>1, <2>1 DEF Tracked
  <2>2. CASE Contains(queue, after[o])
    <3>1. PICK i \in 1..Len(queue) : after[o] = queue[i]
      BY <2>2 DEF Contains
    <3>2. after[o] \in Requests
      BY <3>1
    <3> QED
      BY <2>2, <3>2 DEF Tracked
  <2> QED
    BY <1>1, <2>1, <2>2
<1> QED
  BY <1>1 DEF Tracked

\* Tasks end, and their callers, and nobody else, are told so.
Ends(res, track, ended, after) ==
  /\ \A o \in Offers : \/ after[o] = track[o]
                       \/ after[o] = 0 /\ ended[track[o]] \notin {"idle", "queued", "tasked"}
  /\ \A q \in Requests : (\A o \in Offers : track[o] = q => after[o] = q) => ended[q] = res[q]

\* They are tracked as before.
LEMMA TrackedEnds ==
  ASSUME NEW res, NEW queue, NEW accepts, NEW track \in [Offers -> 0..NumRequests],
         Tracked(res, queue, accepts, track),
         \A o \in Offers : accepts[o] # 0 => accepts[o] \in Requests,
         NEW ended, NEW after, Ends(res, track, ended, after)
  PROVE  Tracked(ended, queue, accepts, after)
<1>0. ASSUME NEW q \in Requests, NEW o \in Offers, track[o] = q, after[o] # q
      PROVE  /\ res[q] = "tasked" /\ ended[q] \notin {"idle", "queued", "tasked"}
             /\ \A p \in Offers : after[p] # q
  <2>1. q # 0
    BY Bounds
  <2>2. \A p \in Offers : track[p] = q => p = o
    BY <1>0, <2>1 DEF Tracked
  <2>3. res[q] = "tasked"
    BY <1>0 DEF Tracked
  <2>4. ended[q] \notin {"idle", "queued", "tasked"}
    BY <1>0 DEF Ends
  <2>5. ASSUME NEW p \in Offers, after[p] = q PROVE FALSE
    BY <1>0, <2>1, <2>2, <2>5 DEF Ends
  <2> QED
    BY <2>3, <2>4, <2>5
<1>n. ASSUME NEW q \in Requests, \A o \in Offers : track[o] = q => after[o] = q
      PROVE  ended[q] = res[q] /\ \A o \in Offers : after[o] = q <=> track[o] = q
  <2>1. q # 0
    BY Bounds
  <2>2. ended[q] = res[q]
    BY <1>n DEF Ends
  <2> QED
    BY <1>n, <2>1, <2>2 DEF Ends
<1>1. ASSUME NEW q \in Requests
      PROVE  /\ ended[q] = "queued" <=> Contains(queue, q)
             /\ ended[q] = "tasked" <=> \E o \in Offers : after[o] = q
             /\ res[q] # "idle" => ended[q] # "idle"
  <2>1. CASE \A o \in Offers : track[o] = q => after[o] = q
    BY <1>n, <2>1 DEF Tracked
  <2>2. CASE ~\A o \in Offers : track[o] = q => after[o] = q
    <3>1. /\ res[q] = "tasked" /\ ended[q] \notin {"idle", "queued", "tasked"}
          /\ \A p \in Offers : after[p] # q
      BY <1>0, <2>2
    <3>2. ~Contains(queue, q)
      BY <3>1 DEF Tracked
    <3> QED
      BY <3>1, <3>2
  <2> QED
    BY <2>1, <2>2
<1>2. ASSUME NEW o \in Offers, accepts[o] # 0 PROVE ended[accepts[o]] # "idle"
  <2>1. accepts[o] \in Requests /\ res[accepts[o]] # "idle"
    BY <1>2 DEF Tracked
  <2> QED
    BY <1>1, <2>1
<1>3. ASSUME NEW o \in Offers, NEW p \in Offers, after[o] = after[p], after[o] # 0 PROVE o = p
  BY <1>3 DEF Tracked, Ends
<1> QED
  BY <1>1, <1>2, <1>3 DEF Tracked

\* Nothing is accepted of what is listed, and nothing tracked of what is accepted.
LEMMA LifeBooks ==
  ASSUME SlotLife, NEW o \in Offers
  PROVE  /\ Contains(offers, o) => accepting[o] = 0
         /\ Mail(toBroker[RunnerOf(o)], "offer", o) => accepting[o] = 0
         /\ accepting[o] = 0 \/ tasks[o] = 0
BY DEF SlotLife, LifeOf, Life

\* Steps of a caller's request.
LEMMA RequestBooks ==
  ASSUME Types, SlotLife, QueueSound, NEW q \in Requests, Request(q) \/ RequestTimeout(q)
  PROVE  QueueSound'
<1>0. TypeOK
  BY DEF Types
<1>t. \A o \in Offers : accepting[o] # 0 => accepting[o] \in Requests
  BY <1>0, Bounds DEF TypeOK
<1>1. CASE Request(q) /\ phase = "serving"
  <2> DEFINE queue == Append(pending, q)
  <2>1. /\ result[q] = "idle" /\ UNCHANGED tasks
        /\ Settle(queue, matched, offers, accepting, toRunner, Reachable)
        /\ \A p \in Requests : result'[p] = IF p = q THEN "queued" ELSE result[p]
    BY <1>0, <1>1 DEF Request, TypeOK
  <2>2. ~Contains(pending, q) /\ \A o \in Offers : accepting[o] # q /\ tasks[o] # q
    BY <2>1, Bounds DEF QueueSound, Tracked
  <2>3. /\ queue \in Seq(Requests) /\ Distinct(queue)
        /\ \A p : Contains(queue, p) <=> Contains(pending, p) \/ p = q
    BY <1>0, <2>2, AppendFacts DEF TypeOK, QueueSound, Booked
  <2> HIDE DEF queue
  <2>4. Booked(queue, matched, accepting)
    <3>1. Booked(pending, matched, accepting)
      BY DEF QueueSound
    <3>2. \A o \in Offers : accepting[o] # q
      BY <2>2
    <3>3. q \notin matched
      BY <2>2, <3>1 DEF Booked
    <3> QED
      BY <2>3, <3>1, <3>2, <3>3 DEF Booked
  <2>5. Tracked(result', queue, accepting, tasks)
    <3>1. Tracked(result, pending, accepting, tasks)
      BY DEF QueueSound
    <3>2. \A p \in Requests : result'[p] = "queued" <=> Contains(queue, p)
      BY <2>1, <2>3, <3>1 DEF Tracked
    <3>3. \A o \in Offers : accepting[o] # 0 => result'[accepting[o]] # "idle"
      BY <1>t, <2>1, <3>1 DEF Tracked
    <3>4. \A p \in Requests : result'[p] = "tasked" <=> \E o \in Offers : tasks[o] = p
      BY <2>1, <2>2, <3>1 DEF Tracked
    <3> QED
      BY <3>1, <3>2, <3>3, <3>4 DEF Tracked
  <2>6. /\ offers \in Seq(Offers) /\ matched \in SUBSET Requests
        /\ Unaccepted(offers, accepting)
    BY <1>0, LifeBooks DEF TypeOK, SlotLife, Unaccepted
  <2>7. /\ Booked(pending', matched', accepting') /\ pending' = queue
        /\ \A o \in Offers : accepting'[o] = accepting[o] \/ Contains(queue, accepting'[o])
    BY <2>1, <2>3, <2>4, <2>6, BooksSettle
  <2>8. Tracked(result', queue, accepting', tasks)
    BY <2>3, <2>5, <2>7, TrackedAccepts
  <2> QED
    BY <2>1, <2>7, <2>8 DEF QueueSound
<1>2. CASE Request(q) /\ phase # "serving"
  <2>1. /\ result[q] = "idle" /\ UNCHANGED <<pending, matched, accepting, tasks>>
        /\ \A p \in Requests : result'[p] = IF p = q THEN "expired" ELSE result[p]
    BY <1>0, <1>2 DEF Request, TypeOK
  <2>2. Tracked(result', pending, accepting, tasks)
    BY <1>t, <2>1 DEF QueueSound, Tracked
  <2> QED
    BY <2>1, <2>2 DEF QueueSound
<1>3. CASE RequestTimeout(q)
  <2> DEFINE left == Without(pending, q)
  <2>1. /\ Contains(pending, q) /\ UNCHANGED <<accepting, tasks>>
        /\ pending' = left /\ matched' = matched \ {q}
        /\ \A p \in Requests : result'[p] = IF p = q THEN "expired" ELSE result[p]
    BY <1>0, <1>3 DEF RequestTimeout, TypeOK
  <2>2. /\ Booked(left, matched \ {q}, accepting)
        /\ \A p : Contains(left, p) <=> Contains(pending, p) /\ p # q
    BY <1>0, BooksWithout, WithoutFacts DEF TypeOK, QueueSound
  <2> HIDE DEF left
  <2>3. Tracked(result', left, accepting, tasks)
    BY <1>t, <2>1, <2>2 DEF QueueSound, Tracked
  <2> QED
    BY <2>1, <2>2, <2>3 DEF QueueSound
<1> QED
  BY <1>1, <1>2, <1>3

\* An acceptance ends and the request it was for can be matched at once.
LEMMA BooksRematched ==
  ASSUME Types, SlotLife, QueueSound, NEW after, NEW pool \in Seq(Offers),
         NEW fewer, GivesUp(matched, accepting, after, fewer), Unaccepted(pool, after),
         NEW channels, NEW reachable,
         Settle(pending, fewer, pool, after, channels, reachable),
         NEW res, NEW track, Tracked(res, pending, accepting, track)
  PROVE  Booked(pending', matched', accepting') /\ Tracked(res, pending', accepting', track)
<1>0. pending \in Seq(Requests) /\ matched \in SUBSET Requests /\ fewer \in SUBSET Requests
  BY DEF Types, TypeOK, GivesUp
<1>1. Booked(pending, matched, accepting)
  BY DEF QueueSound
<1>2. Booked(pending, fewer, after)
  BY <1>0, <1>1, BooksGivenUp
<1>3. /\ Booked(pending', matched', accepting') /\ pending' = pending
      /\ \A o \in Offers : accepting'[o] = after[o] \/ Contains(pending, accepting'[o])
  BY <1>0, <1>2, BooksSettle
<1>4. \A o \in Offers : \/ accepting'[o] = accepting[o] \/ accepting'[o] = 0
                        \/ Contains(pending, accepting'[o])
  BY <1>3 DEF GivesUp
<1>5. Tracked(res, pending, accepting', track)
  BY <1>0, <1>4, TrackedAccepts
<1> QED
  BY <1>3, <1>5

\* The end of one task.
LEMMA BooksTaskEnds ==
  ASSUME Types, QueueSound, NEW o \in Offers, tasks[o] # 0,
         tasks' = [tasks EXCEPT ![o] = 0],
         NEW v \in {"returned", "failed", "cancelled"},
         result' = [result EXCEPT ![tasks[o]] = v],
         UNCHANGED <<pending, matched, accepting>>
  PROVE  QueueSound'
<1>0. TypeOK
  BY DEF Types
<1>1. /\ tasks \in [Offers -> 0..NumRequests]
      /\ \A p \in Offers : accepting[p] # 0 => accepting[p] \in Requests
  BY <1>0, Bounds DEF TypeOK
<1>2. \A p \in Offers : tasks'[p] = IF p = o THEN 0 ELSE tasks[p]
  BY <1>1
<1>3. tasks[o] \in Requests
  BY <1>1, Bounds
<1>4. \A q \in Requests : result'[q] = IF tasks[o] = q THEN v ELSE result[q]
  BY <1>0 DEF TypeOK
<1>5. Tracked(result, pending, accepting, tasks)
  BY DEF QueueSound
<1>6. Ends(result, tasks, result', tasks')
  <2>1. ASSUME NEW p \in Offers
        PROVE  \/ tasks'[p] = tasks[p]
               \/ tasks'[p] = 0 /\ result'[tasks[p]] \notin {"idle", "queued", "tasked"}
    BY <1>2, <1>3, <1>4
  <2>2. ASSUME NEW q \in Requests, tasks[o] = q PROVE tasks'[o] # q
    BY <1>2, <2>2
  <2> QED
    BY <1>4, <2>1, <2>2 DEF Ends
<1>7. Tracked(result', pending, accepting, tasks')
  BY <1>1, <1>5, <1>6, TrackedEnds
<1> QED
  BY <1>7 DEF QueueSound

\* Steps of the broker with an offer.
LEMMA OfferBooks ==
  ASSUME Types, SlotLife, QueueSound, NEW o \in Offers,
         OfferExpires(o) \/ AcceptTimeout(o) \/ TaskTimeout(o) \/ Cancel(o)
  PROVE  QueueSound'
<1>0. TypeOK
  BY DEF Types
<1>1. CASE OfferExpires(o)
  BY <1>1 DEF OfferExpires, requests, QueueSound
<1>2. CASE AcceptTimeout(o)
  <2> DEFINE q == accepting[o]
             r == RunnerOf(o)
             reported == failures[r] + 1 >= MaxAcceptTimeouts
             gone == reported /\ Heeded
             left == Only(offers, OffersOf(Runners \ {r}))
             near == IF gone THEN Reachable \ {r} ELSE Reachable
             fewer == matched \ {q}
             after == GivenUp(o)
  <2>1. /\ Settle(pending, fewer, left, after, CancelAtRunner(o), near)
        /\ UNCHANGED <<result, tasks>>
    BY <1>2 DEF AcceptTimeout
  <2>2. /\ left \in Seq(Offers) /\ Distinct(left)
        /\ \A x : Contains(left, x) => Contains(offers, x)
    BY <1>0, OnlyFacts DEF TypeOK, SlotLife
  <2>3. q # 0 /\ \A x \in Offers : after[x] = IF x = o THEN 0 ELSE accepting[x]
    BY <1>0, <1>2 DEF TypeOK, GivenUp, AcceptTimeout
  <2>4. GivesUp(matched, accepting, after, fewer)
    <3>1. \A p \in matched : (\A x \in Offers : accepting[x] = p => after[x] = p) <=> p # q
      <4> TAKE p \in matched
      <4>1. CASE p = q
        BY <2>3, <4>1
      <4>2. CASE p # q
        BY <2>3, <4>2
      <4> QED
        BY <4>1, <4>2
    <3> QED
      BY <2>3, <3>1 DEF GivesUp
  <2> HIDE DEF left, near, fewer, after
  <2>5. Unaccepted(left, after)
    BY <2>2, <2>3, LifeBooks DEF Unaccepted
  <2>6. Tracked(result, pending, accepting, tasks)
    BY DEF QueueSound
  <2>7. Booked(pending', matched', accepting') /\ Tracked(result, pending', accepting', tasks)
    BY <2>1, <2>2, <2>3, <2>4, <2>5, <2>6, BooksRematched
  <2> QED
    BY <2>1, <2>7 DEF QueueSound
<1>3. CASE TaskTimeout(o) \/ Cancel(o)
  <2>1. PICK v \in {"returned", "failed", "cancelled"} :
          /\ tasks[o] # 0 /\ tasks' = [tasks EXCEPT ![o] = 0]
          /\ result' = [result EXCEPT ![tasks[o]] = v]
          /\ UNCHANGED <<pending, matched, accepting>>
    BY <1>3 DEF TaskTimeout, Cancel
  <2> QED
    BY <2>1, BooksTaskEnds
<1> QED
  BY <1>1, <1>2, <1>3

\* Of the acceptance of one offer.
LEMMA GivesUpOne ==
  ASSUME Types, NEW o \in Offers, accepting[o] # 0,
         NEW after, after = [accepting EXCEPT ![o] = 0]
  PROVE  GivesUp(matched, accepting, after, matched \ {accepting[o]})
<1>1. \A x \in Offers : after[x] = IF x = o THEN 0 ELSE accepting[x]
  BY DEF Types, TypeOK
<1>2. \A p \in matched : (\A x \in Offers : accepting[x] = p => after[x] = p) <=> p # accepting[o]
  <2> TAKE p \in matched
  <2>1. CASE p = accepting[o]
    BY <1>1, <2>1
  <2>2. CASE p # accepting[o]
    BY <1>1, <2>2
  <2> QED
    BY <2>1, <2>2
<1> DEFINE fewer == matched \ {accepting[o]}
<1>3. fewer \in SUBSET matched /\ \A p \in matched : p \in fewer <=> p # accepting[o]
  OBVIOUS
<1> HIDE DEF fewer
<1>4. GivesUp(matched, accepting, after, fewer)
  BY <1>1, <1>2, <1>3 DEF GivesUp
<1> QED
  BY <1>4 DEF fewer

\* The broker has the answer of a runner that accepted.
LEMMA AcceptedBooks ==
  ASSUME Types, SlotLife, QueueSound, NEW o \in Offers, accepting[o] # 0,
         accepting' = [accepting EXCEPT ![o] = 0], Accepted(o, accepting[o])
  PROVE  QueueSound'
<1> DEFINE q == accepting[o]
<1>0. TypeOK /\ pending \in Seq(Requests) /\ matched \in SUBSET Requests
  BY DEF Types, TypeOK
<1>1. q \in Requests /\ \A x \in Offers : accepting[x] # 0 => accepting[x] \in Requests
  BY <1>0, Bounds DEF TypeOK
<1>2. tasks[o] = 0
  BY LifeBooks
<1>3. /\ Booked(pending, matched, accepting) /\ Tracked(result, pending, accepting, tasks)
      /\ GivesUp(matched, accepting, accepting', matched \ {q})
  BY GivesUpOne DEF QueueSound
<1>4. Booked(pending, matched \ {q}, accepting') /\ matched \ {q} \in SUBSET Requests
  BY <1>0, <1>3, BooksGivenUp
<1>5. Tracked(result, pending, accepting', tasks)
  <2>1. \A x \in Offers : accepting'[x] = accepting[x] \/ accepting'[x] = 0
    BY <1>3 DEF GivesUp
  <2> QED
    BY <1>0, <1>3, <2>1, TrackedAccepts
<1>6. CASE ~Contains(pending, q)
  <2>1. UNCHANGED <<result, pending, matched, tasks>>
    BY <1>6 DEF Accepted
  <2>2. matched \ {q} = matched
    BY <1>3, <1>6 DEF Booked
  <2> QED
    BY <1>4, <1>5, <2>1, <2>2 DEF QueueSound
<1>7. CASE Contains(pending, q)
  <2> DEFINE left == Without(pending, q)
  <2>1. /\ pending' = left /\ matched' = matched \ {q}
        /\ \/ tasks' = [tasks EXCEPT ![o] = q] /\ result' = [result EXCEPT ![q] = "tasked"]
           \/ UNCHANGED tasks /\ result' = [result EXCEPT ![q] = "failed"]
    BY <1>7 DEF Accepted
  <2>2. \A p : Contains(left, p) <=> Contains(pending, p) /\ p # q
    BY <1>0, WithoutFacts
  <2>3. Booked(left, matched \ {q}, accepting')
    <3>1. Booked(left, (matched \ {q}) \ {q}, accepting')
      BY <1>0, <1>4, BooksWithout
    <3>2. (matched \ {q}) \ {q} = matched \ {q}
      OBVIOUS
    <3> QED
      BY <3>1, <3>2
  <2> HIDE DEF left, q
  <2>4. result[q] = "queued" /\ \A x \in Offers : tasks[x] # q
    BY <1>1, <1>3, <1>7 DEF Tracked
  <2>5. \A x \in Offers : accepting'[x] # 0 => accepting'[x] \in Requests
    BY <1>1, <1>3 DEF GivesUp
  <2>6. CASE tasks' = [tasks EXCEPT ![o] = q] /\ result' = [result EXCEPT ![q] = "tasked"]
    <3>1. /\ \A p \in Requests : result'[p] = IF p = q THEN "tasked" ELSE result[p]
          /\ \A x \in Offers : tasks'[x] = IF x = o THEN q ELSE tasks[x]
      BY <1>0, <2>6 DEF TypeOK
    <3>2. \A p \in Requests : result'[p] = "queued" <=> Contains(left, p)
      BY <1>5, <2>2, <3>1 DEF Tracked
    <3>3. \A x \in Offers : accepting'[x] # 0 => result'[accepting'[x]] # "idle"
      BY <1>5, <2>5, <3>1 DEF Tracked
    <3>4. \A x, y \in Offers : tasks'[x] = tasks'[y] /\ tasks'[x] # 0 => x = y
      BY <1>5, <2>4, <3>1 DEF Tracked
    <3>5. ASSUME NEW p \in Requests PROVE result'[p] = "tasked" <=> \E x \in Offers : tasks'[x] = p
      <4>1. CASE p = q
        BY <3>1, <4>1
      <4>2. CASE p # q
        <5>1. p # 0
          BY Bounds
        <5>2. \A x \in Offers : tasks'[x] = p <=> tasks[x] = p
          BY <1>2, <3>1, <4>2, <5>1
        <5>3. result'[p] = result[p]
          BY <3>1, <4>2
        <5> QED
          BY <1>5, <5>2, <5>3 DEF Tracked
      <4> QED
        BY <4>1, <4>2
    <3>6. Tracked(result', left, accepting', tasks')
      BY <3>2, <3>3, <3>4, <3>5 DEF Tracked
    <3> QED
      BY <2>1, <2>3, <3>6 DEF QueueSound
  <2>7. CASE UNCHANGED tasks /\ result' = [result EXCEPT ![q] = "failed"]
    <3>1. \A p \in Requests : result'[p] = IF p = q THEN "failed" ELSE result[p]
      BY <1>0, <2>7 DEF TypeOK
    <3>2. \A p \in Requests : result'[p] = "queued" <=> Contains(left, p)
      BY <1>5, <2>2, <3>1 DEF Tracked
    <3>3. \A x \in Offers : accepting'[x] # 0 => result'[accepting'[x]] # "idle"
      BY <1>5, <2>5, <3>1 DEF Tracked
    <3>4. \A p \in Requests : result'[p] = "tasked" <=> \E x \in Offers : tasks[x] = p
      BY <1>5, <2>4, <3>1 DEF Tracked
    <3>5. Tracked(result', left, accepting', tasks')
      BY <1>5, <2>7, <3>2, <3>3, <3>4 DEF Tracked
    <3> QED
      BY <2>1, <2>3, <3>5 DEF QueueSound
  <2> QED
    BY <2>1, <2>6, <2>7
<1> QED
  BY <1>6, <1>7

\* What the broker does with a message from a runner.
LEMMA BrokerReadsBooks ==
  ASSUME Types, SlotLife, QueueSound, NEW r \in Runners, BrokerReads(r)
  PROVE  QueueSound'
<1> DEFINE o == Named(r)
<1>0. TypeOK /\ pending \in Seq(Requests) /\ matched \in SUBSET Requests
  BY DEF Types, TypeOK
<1>1. PICK kind : Receives(r, kind) /\ (TaskOffered(r) => kind = "offer")
  <2>1. CASE TaskOffered(r)
    BY <2>1 DEF TaskOffered
  <2>2. CASE ~TaskOffered(r)
    BY <2>2 DEF BrokerReads, RunnerAccept, RunnerReject, RunnerDeferred, TaskResult
  <2> QED
    BY <2>1, <2>2
<1>2. PICK p \in Offers : p = o /\ RunnerOf(p) = r
  BY <1>1, ReceivesFacts
<1>q. Booked(pending, matched, accepting) /\ Tracked(result, pending, accepting, tasks)
  BY DEF QueueSound
<1>3. CASE TaskOffered(r)
  <2> DEFINE pool == Append(offers, p)
  <2>1. /\ Settle(pending, matched, pool, accepting, toRunner, Reachable)
        /\ UNCHANGED <<result, tasks>>
    BY <1>2, <1>3 DEF TaskOffered
  <2>2. Mail(toBroker[r], "offer", p)
    BY <1>1, <1>2, <1>3, ReceivesMail
  <2>3. ~Contains(offers, p) /\ accepting[p] = 0
    BY <1>2, <2>2 DEF SlotLife, LifeOf, Life
  <2>4. /\ pool \in Seq(Offers) /\ Distinct(pool)
        /\ \A x : Contains(pool, x) <=> Contains(offers, x) \/ x = p
    BY <1>0, <1>2, <2>3, AppendFacts DEF TypeOK, SlotLife
  <2> HIDE DEF pool
  <2>5. Unaccepted(pool, accepting)
    BY <2>3, <2>4, LifeBooks DEF Unaccepted
  <2>6. /\ Booked(pending', matched', accepting') /\ pending' = pending
        /\ \A x \in Offers : accepting'[x] = accepting[x] \/ Contains(pending, accepting'[x])
    BY <1>0, <1>q, <2>1, <2>4, <2>5, BooksSettle
  <2>7. Tracked(result, pending, accepting', tasks)
    BY <1>0, <1>q, <2>6, TrackedAccepts
  <2> QED
    BY <2>1, <2>6, <2>7 DEF QueueSound
<1>4. CASE RunnerAccept(r)
  <2>1. CASE accepting[p] = 0
    <3>1. UNCHANGED <<result, pending, matched, accepting, tasks>>
      BY <1>2, <1>4, <2>1 DEF RunnerAccept
    <3> QED
      BY <1>q, <3>1 DEF QueueSound
  <2>2. CASE accepting[p] # 0
    <3>1. accepting' = [accepting EXCEPT ![p] = 0] /\ Accepted(p, accepting[p])
      BY <1>2, <1>4, <2>2 DEF RunnerAccept
    <3> QED
      BY <2>2, <3>1, AcceptedBooks
  <2> QED
    BY <2>1, <2>2
<1>5. CASE RunnerReject(r)
  <2>1. CASE accepting[p] = 0
    <3>1. UNCHANGED <<result, pending, matched, accepting, tasks>>
      BY <1>2, <1>5, <2>1 DEF RunnerReject
    <3> QED
      BY <1>q, <3>1 DEF QueueSound
  <2>2. CASE accepting[p] # 0
    <3> DEFINE after == [accepting EXCEPT ![p] = 0]
               fewer == matched \ {accepting[p]}
    <3>1. /\ Settle(pending, fewer, offers, after, toRunner, Reachable)
          /\ UNCHANGED <<result, tasks>>
      BY <1>2, <1>5, <2>2 DEF RunnerReject
    <3>2. GivesUp(matched, accepting, after, fewer)
      BY <2>2, GivesUpOne
    <3> HIDE DEF after, fewer
    <3>3. offers \in Seq(Offers) /\ Unaccepted(offers, after)
      BY <1>0, <3>2, LifeBooks DEF TypeOK, SlotLife, Unaccepted, GivesUp
    <3>4. Booked(pending', matched', accepting') /\ Tracked(result, pending', accepting', tasks)
      BY <1>q, <3>1, <3>2, <3>3, BooksRematched
    <3> QED
      BY <3>1, <3>4 DEF QueueSound
  <2> QED
    BY <2>1, <2>2
<1>6. CASE RunnerDeferred(r)
  <2>1. CASE accepting[p] = 0
    <3>1. UNCHANGED <<result, pending, matched, accepting, tasks>>
      BY <1>2, <1>6, <2>1 DEF RunnerDeferred
    <3> QED
      BY <1>q, <3>1 DEF QueueSound
  <2>2. CASE accepting[p] # 0
    <3>1. /\ accepting' = [accepting EXCEPT ![p] = 0] /\ matched' = matched \ {accepting[p]}
          /\ UNCHANGED <<result, pending, tasks>>
      BY <1>2, <1>6, <2>2 DEF RunnerDeferred
    <3>2. GivesUp(matched, accepting, accepting', matched')
      BY <2>2, <3>1, GivesUpOne
    <3>3. Booked(pending, matched', accepting')
      BY <1>0, <1>q, <3>2, BooksGivenUp
    <3>4. \A x \in Offers : accepting'[x] = accepting[x] \/ accepting'[x] = 0
      BY <3>2 DEF GivesUp
    <3>5. Tracked(result, pending, accepting', tasks)
      BY <1>0, <1>q, <3>4, TrackedAccepts
    <3> QED
      BY <3>1, <3>3, <3>5 DEF QueueSound
  <2> QED
    BY <2>1, <2>2
<1>7. CASE TaskResult(r)
  <2>1. CASE tasks[p] = 0
    <3>1. UNCHANGED <<result, pending, matched, accepting, tasks>>
      BY <1>2, <1>7, <2>1 DEF TaskResult
    <3> QED
      BY <1>q, <3>1 DEF QueueSound
  <2>2. CASE tasks[p] # 0
    <3>1. /\ tasks' = [tasks EXCEPT ![p] = 0]
          /\ result' = [result EXCEPT ![tasks[p]] = "returned"]
          /\ UNCHANGED <<pending, matched, accepting>>
      BY <1>2, <1>7, <2>2 DEF TaskResult
    <3>2. "returned" \in {"returned", "failed", "cancelled"}
      OBVIOUS
    <3> QED
      BY <2>2, <3>1, <3>2, BooksTaskEnds
  <2> QED
    BY <2>1, <2>2
<1> QED
  BY <1>3, <1>4, <1>5, <1>6, <1>7 DEF BrokerReads

\* A runner is deregistered.
LEMMA DeregisterBooks ==
  ASSUME Types, SlotLife, QueueSound, NEW r \in Runners, Deregister(r)
  PROVE  QueueSound'
<1> DEFINE mine == {o \in Offers : RunnerOf(o) = r}
           left == Only(offers, OffersOf(Runners \ {r}))
           after == [o \in Offers |-> IF o \in mine THEN 0 ELSE accepting[o]]
           fewer == matched \ {accepting[o] : o \in mine}
<1>0. TypeOK /\ pending \in Seq(Requests) /\ matched \in SUBSET Requests
  BY DEF Types, TypeOK
<1>1. /\ Failed(mine)
      /\ \/ UNCHANGED <<pending, matched, accepting>>
         \/ Settle(pending, fewer, left, after, toRunner, Reachable)
  BY DEF Deregister
<1>2. /\ tasks \in [Offers -> 0..NumRequests]
      /\ \A o \in Offers : accepting[o] # 0 => accepting[o] \in Requests
  BY <1>0, Bounds DEF TypeOK
<1>3. Booked(pending, matched, accepting) /\ Tracked(result, pending, accepting, tasks)
  BY DEF QueueSound
<1>4. Ends(result, tasks, result', tasks')
  <2>1. \A o \in Offers : tasks'[o] = IF RunnerOf(o) = r THEN 0 ELSE tasks[o]
    BY <1>1 DEF Failed
  <2>2. \A q \in Requests :
          result'[q] = IF \E o \in mine : tasks[o] = q THEN "failed" ELSE result[q]
    BY <1>1 DEF Failed
  <2>3. ASSUME NEW o \in Offers
        PROVE  \/ tasks'[o] = tasks[o]
               \/ tasks'[o] = 0 /\ result'[tasks[o]] \notin {"idle", "queued", "tasked"}
    <3>1. CASE RunnerOf(o) # r
      BY <2>1, <3>1
    <3>2. CASE RunnerOf(o) = r /\ tasks[o] = 0
      BY <2>1, <3>2
    <3>3. CASE RunnerOf(o) = r /\ tasks[o] # 0
      <4>1. tasks[o] \in Requests
        BY <1>2, <3>3, Bounds
      <4>2. result'[tasks[o]] = "failed"
        BY <2>2, <3>3, <4>1
      <4> QED
        BY <2>1, <3>3, <4>2
    <3> QED
      BY <3>1, <3>2, <3>3
  <2>4. ASSUME NEW q \in Requests, \A o \in Offers : tasks[o] = q => tasks'[o] = q
        PROVE  result'[q] = result[q]
    <3>1. \A o \in mine : tasks[o] # q
      BY <2>1, <2>4, Bounds
    <3> QED
      BY <2>2, <3>1
  <2> QED
    BY <2>3, <2>4 DEF Ends
<1>5. Tracked(result', pending, accepting, tasks')
  BY <1>2, <1>3, <1>4, TrackedEnds
<1>6. CASE UNCHANGED <<pending, matched, accepting>>
  BY <1>3, <1>5, <1>6 DEF QueueSound
<1>7. CASE Settle(pending, fewer, left, after, toRunner, Reachable)
  <2>1. /\ left \in Seq(Offers) /\ Distinct(left)
        /\ \A x : Contains(left, x) => Contains(offers, x)
    BY <1>0, OnlyFacts DEF TypeOK, SlotLife
  <2>2. \A o \in Offers : after[o] = IF RunnerOf(o) = r THEN 0 ELSE accepting[o]
    OBVIOUS
  <2>3. \A p \in matched : p \in fewer <=> \A o \in Offers : RunnerOf(o) = r => accepting[o] # p
    OBVIOUS
  <2>4. fewer \in SUBSET matched
    OBVIOUS
  <2> HIDE DEF left, after, fewer
  <2>5. \A p \in matched : (\A o \in Offers : accepting[o] = p => after[o] = p) <=>
                             \A o \in Offers : RunnerOf(o) = r => accepting[o] # p
    <3> TAKE p \in matched
    <3>1. p # 0
      BY <1>0, Bounds
    <3> QED
      BY <2>2, <3>1
  <2>6. GivesUp(matched, accepting, after, fewer)
    BY <2>2, <2>3, <2>4, <2>5 DEF GivesUp
  <2>7. Unaccepted(left, after)
    BY <2>1, <2>2, LifeBooks DEF Unaccepted
  <2>8. Booked(pending', matched', accepting') /\ Tracked(result', pending', accepting', tasks')
    BY <1>5, <1>7, <2>1, <2>6, <2>7, BooksRematched
  <2> QED
    BY <2>8 DEF QueueSound
<1> QED
  BY <1>1, <1>6, <1>7

\* Steps that the queue has no part in.
LEMMA BooksUnchanged ==
  ASSUME QueueSound, UNCHANGED <<result, pending, matched, accepting, tasks>>
  PROVE  QueueSound'
BY DEF QueueSound

\* Every step keeps the books.
LEMMA BooksStep ==
  ASSUME Types, SlotLife, QueueSound, [Next]_vars
  PROVE  QueueSound'
<1>1. CASE UNCHANGED vars
  BY <1>1, BooksUnchanged DEF vars
<1>2. ASSUME NEW r \in Runners, Connections(r) \/ RunnerSteps(r) PROVE QueueSound'
  <2>1. CASE Deregister(r)
    BY <2>1, DeregisterBooks
  <2>2. CASE Connect(r) \/ SocketCloses(r) \/ ConnectionLost(r)
    <3>1. UNCHANGED broker
      BY <2>2 DEF Connect, SocketCloses, ConnectionLost
    <3> QED
      BY <3>1, BooksUnchanged DEF broker, requests
  <2>3. CASE RunnerSteps(r)
    <3>1. UNCHANGED broker
      BY <2>3 DEF RunnerSteps, OfferSlots, RunnerRegistered, OfferAccepted, OfferDeferred,
           ReceivedSettings, TaskCancelled, BrokerDrains, RunnerStops, RunnerCloses,
           RunnerCrashes, RunnerExits
    <3> QED
      BY <3>1, BooksUnchanged DEF broker, requests
  <2> QED
    BY <1>2, <2>1, <2>2, <2>3 DEF Connections
<1>3. ASSUME NEW o \in Offers, TaskFinishes(o) \/ TaskTimedOut(o) PROVE QueueSound'
  <2>1. UNCHANGED broker
    BY <1>3 DEF TaskFinishes, TaskTimedOut
  <2> QED
    BY <2>1, BooksUnchanged DEF broker, requests
<1>4. CASE StartDraining \/ CloseConnections
  <2>1. UNCHANGED <<requests, accepting, tasks>>
    BY <1>4 DEF StartDraining, CloseConnections
  <2> QED
    BY <2>1, BooksUnchanged DEF requests
<1>5. CASE Next
  BY <1>2, <1>3, <1>4, <1>5, RequestBooks, OfferBooks, BrokerReadsBooks DEF Next
<1> QED
  BY <1>1, <1>5

\* The initial state.
LEMMA InitBooks ==
  ASSUME Init
  PROVE  QueueSound
<1>1. pending = <<>> /\ matched = {} /\ \A q : ~Contains(pending, q)
  BY DEF Init, Contains
<1>2. \A o \in Offers : accepting[o] = 0 /\ tasks[o] = 0
  BY DEF Init
<1>3. \A q \in Requests : result[q] = "idle" /\ q # 0
  BY Bounds DEF Init
<1>4. Booked(pending, matched, accepting)
  BY <1>1, <1>2, <1>3 DEF Booked, Distinct
<1>5. Tracked(result, pending, accepting, tasks)
  BY <1>1, <1>2, <1>3 DEF Tracked
<1> QED
  BY <1>4, <1>5 DEF QueueSound

\* The queue, the acceptances and the tasks agree about every caller.
LEMMA BooksAlways == Spec => [](Types /\ SlotLife /\ QueueSound)
<1>1. Init => Types /\ SlotLife /\ QueueSound
  BY InitTypes, InitLife, InitBooks
<1>2. Types /\ SlotLife /\ QueueSound /\ [Next]_vars => Types' /\ SlotLife' /\ QueueSound'
  BY TypesStep, LifeStep, BooksStep
<1> QED
  BY <1>1, <1>2, PTL DEF Spec

\* How many offers there are of a kind that at most one is of.
LEMMA OneOrNone ==
  ASSUME NEW S, \A x, y \in S : x = y
  PROVE  Cardinality(S) = IF \E x : x \in S THEN 1 ELSE 0
<1>1. CASE S = {}
  BY <1>1, FS_EmptySet
<1>2. ASSUME NEW x \in S PROVE Cardinality(S) = 1
  <2>1. S = {x}
    BY <1>2
  <2> QED
    BY <2>1, FS_Singleton
<1> QED
  BY <1>1, <1>2

\* No caller of startTask is forgotten and none is served twice: it is in the queue, or
\* one task is tracked for it, or it has its answer.
THEOREM CallersAreTracked == Spec => []CallersTracked
<1>1. ASSUME QueueSound PROVE CallersTracked
  <2> SUFFICES ASSUME NEW q \in Requests
               PROVE  /\ result[q] = "queued" <=> Contains(pending, q)
                      /\ Cardinality({o \in Offers : tasks[o] = q}) =
                           IF result[q] = "tasked" THEN 1 ELSE 0
    BY DEF CallersTracked
  <2> DEFINE S == {o \in Offers : tasks[o] = q}
  <2>1. /\ result[q] = "queued" <=> Contains(pending, q)
        /\ result[q] = "tasked" <=> \E o : o \in S
        /\ \A o, p \in S : o = p
    BY <1>1, Bounds DEF QueueSound, Tracked
  <2>2. Cardinality(S) = IF \E o : o \in S THEN 1 ELSE 0
    <3> HIDE DEF S
    <3> QED
      BY <2>1, OneOrNone
  <2> QED
    BY <2>1, <2>2
<1> QED
  BY <1>1, BooksAlways, PTL

\* A request in the queue that is marked is being accepted by exactly one runner, one that
\* is not is free to be matched: no late answer, refusal, time-out or deregistration
\* leaves a mark without its acceptance, or an acceptance without its mark.
THEOREM AcceptedByOne == Spec => []OneAcceptance
<1>1. ASSUME Types, QueueSound PROVE OneAcceptance
  <2> SUFFICES ASSUME NEW i \in DOMAIN pending
               PROVE  Cardinality({o \in Offers : accepting[o] = pending[i]}) =
                        IF pending[i] \in matched THEN 1 ELSE 0
    BY DEF OneAcceptance
  <2>1. PICK q : q = pending[i] /\ q \in Requests /\ Contains(pending, q)
    <3>1. pending \in Seq(Requests) /\ i \in 1..Len(pending)
      BY <1>1 DEF Types, TypeOK
    <3>2. pending[i] \in Requests /\ Contains(pending, pending[i])
      BY <3>1 DEF Contains
    <3> QED
      BY <3>2
  <2> DEFINE S == {o \in Offers : accepting[o] = q}
  <2>2. /\ q \in matched <=> \E o : o \in S
        /\ \A o, p \in S : o = p
    BY <1>1, <2>1 DEF QueueSound, Booked
  <2>3. Cardinality(S) = IF \E o : o \in S THEN 1 ELSE 0
    <3> HIDE DEF S
    <3> QED
      BY <2>2, OneOrNone
  <2> QED
    BY <2>1, <2>2, <2>3
<1> QED
  BY <1>1, BooksAlways, PTL

-----------------------------------------------------------------------------
(* The settings of a request.                                              *)

\* The settings of the request are in the channel; they are there at most once.
Carried(s, q) == \E i \in DOMAIN s : s[i].kind = "settings" /\ s[i].request = q
Single(s, q) ==
  \A i, j \in DOMAIN s : /\ s[i].kind = "settings" /\ s[i].request = q
                         /\ s[j].kind = "settings" /\ s[j].request = q
                         => i = j

\* Those it was given for this offer.
Given(s, o, q) ==
  \E i \in DOMAIN s : s[i].kind = "settings" /\ s[i].offer = o /\ s[i].request = q

\* No offer is asked for whose settings are in the channel.
Apart(s, o) == Mail(s, "accept", o) => ~Mail(s, "settings", o)

\* The caller has not been told that a runner took its request.
Early == {"idle", "queued", "expired"}

\* The settings of a request are in one place and go once: none are on their way before
\* a runner took the request, nor once its code began to run.
OnceSound ==
  \A q \in Requests :
    /\ begun[q] \in {0, 1}
    /\ result[q] \in Early => begun[q] = 0
    /\ result[q] \in Early \/ begun[q] = 1 => \A r \in Runners : ~Carried(toRunner[r], q)
    /\ \A r \in Runners : Single(toRunner[r], q)
    /\ \A r, s \in Runners : Carried(toRunner[r], q) /\ Carried(toRunner[s], q) => r = s

\* A channel that has no settings that another did not have.
NoMore(s, t) ==
  /\ \A q \in Requests : (Carried(s, q) => Carried(t, q)) /\ (Single(t, q) => Single(s, q))
  /\ \A o, q : Given(s, o, q) => Given(t, o, q)
  /\ \A o : Apart(t, o) => Apart(s, o)

\* No settings are sent to anybody, and no caller is told what would undo what it knows.
Quiet ==
  /\ \A q \in Requests : result'[q] \in Early => result[q] \in Early
  /\ \A r \in Runners : NoMore(toRunner'[r], toRunner[r])

\* One message is added at the end.
LEMMA CarriedAppend ==
  ASSUME NEW T, NEW s \in Seq(T), NEW m \in T
  PROVE  /\ m.kind \notin {"settings", "accept"} => NoMore(Append(s, m), s)
         /\ \A q : /\ m.request # q \/ m.kind # "settings" =>
                        /\ Carried(Append(s, m), q) => Carried(s, q)
                        /\ Single(s, q) => Single(Append(s, m), q)
                   /\ ~Carried(s, q) => Single(Append(s, m), q)
<1> DEFINE t == Append(s, m)
<1>1. /\ \A i \in 1..Len(s) : t[i] = s[i]
      /\ t[Len(s) + 1] = m
      /\ Len(s) \in Nat /\ DOMAIN s = 1..Len(s)
      /\ DOMAIN t = 1..(Len(s) + 1)
  OBVIOUS
<1>2. \A i \in DOMAIN t : i = Len(s) + 1 \/ (i \in DOMAIN s /\ t[i] = s[i])
  BY <1>1
<1>3. t[Len(s) + 1] = m
  BY <1>1
<1> HIDE DEF t
<1>4. ASSUME NEW q, m.request # q \/ m.kind # "settings"
      PROVE  /\ Carried(t, q) => Carried(s, q)
             /\ Single(s, q) => Single(t, q)
  <2>1. \A i \in DOMAIN t : t[i].kind = "settings" /\ t[i].request = q =>
                              i \in DOMAIN s /\ t[i] = s[i]
    BY <1>2, <1>3, <1>4
  <2>2. Carried(t, q) => Carried(s, q)
    BY <2>1 DEF Carried
  <2>3. Single(s, q) => Single(t, q)
    BY <2>1 DEF Single
  <2> QED
    BY <2>2, <2>3
<1>5. ASSUME NEW q, ~Carried(s, q) PROVE Single(t, q)
  <2>1. \A i \in DOMAIN t : t[i].kind = "settings" /\ t[i].request = q => i = Len(s) + 1
    BY <1>2, <1>5 DEF Carried
  <2> QED
    BY <2>1 DEF Single
<1>6. m.kind \notin {"settings", "accept"} => NoMore(t, s)
  <2>1. \A i \in DOMAIN t : t[i].kind = m.kind \/ (i \in DOMAIN s /\ t[i] = s[i])
    BY <1>2, <1>3
  <2>2. ASSUME m.kind \notin {"settings", "accept"}
        PROVE  /\ \A o, q : Given(t, o, q) => Given(s, o, q)
               /\ \A o : \A k \in {"settings", "accept"} : Mail(t, k, o) => Mail(s, k, o)
    BY <2>1, <2>2 DEF Given, Mail
  <2> QED
    BY <1>4, <2>2 DEF NoMore, Apart
<1> QED
  BY <1>4, <1>5, <1>6 DEF t

\* Several messages are added that ask for offers without settings.
LEMMA CarriedConcat ==
  ASSUME NEW T, NEW s \in Seq(T), NEW t \in Seq(T),
         \A i \in DOMAIN t : t[i].kind = "accept" /\ ~Mail(s, "settings", t[i].offer)
  PROVE  NoMore(s \o t, s)
<1> DEFINE u == s \o t
<1>1. /\ \A i \in 1..Len(s) : u[i] = s[i]
      /\ \A i \in 1..Len(t) : u[Len(s) + i] = t[i]
      /\ Len(s) \in Nat /\ DOMAIN s = 1..Len(s)
      /\ Len(t) \in Nat /\ DOMAIN t = 1..Len(t)
      /\ DOMAIN u = 1..(Len(s) + Len(t))
  OBVIOUS
<1>2. \A i \in DOMAIN u : i \in 1..Len(s) \/ (i - Len(s) \in 1..Len(t) /\ u[i] = t[i - Len(s)])
  OBVIOUS
<1> HIDE DEF u
<1>3. \A i \in DOMAIN u : u[i].kind = "settings" => i \in DOMAIN s /\ u[i] = s[i]
  BY <1>1, <1>2
<1>4. \A q : Carried(u, q) => Carried(s, q)
  BY <1>3 DEF Carried
<1>5. \A q : Single(s, q) => Single(u, q)
  BY <1>3 DEF Single
<1>6. \A o, q : Given(u, o, q) => Given(s, o, q)
  BY <1>3 DEF Given
<1>7. \A o : Mail(u, "settings", o) => Mail(s, "settings", o)
  BY <1>3 DEF Mail
<1>8. \A o : Mail(u, "accept", o) => Mail(s, "accept", o) \/ ~Mail(s, "settings", o)
  <2>1. \A i \in DOMAIN u : \/ i \in DOMAIN s /\ u[i] = s[i]
                            \/ ~Mail(s, "settings", u[i].offer)
    BY <1>1, <1>2
  <2> QED
    BY <2>1 DEF Mail
<1> QED
  BY <1>4, <1>5, <1>6, <1>7, <1>8 DEF NoMore, Apart, u

\* The first message leaves the channel.
LEMMA CarriedTail ==
  ASSUME NEW T, NEW s \in Seq(T), s # <<>>
  PROVE  /\ NoMore(Tail(s), s)
         /\ Head(s).kind = "settings" =>
              /\ Carried(s, Head(s).request)
              /\ Single(s, Head(s).request) => ~Carried(Tail(s), Head(s).request)
<1> DEFINE t == Tail(s)
           h == Head(s)
<1>1. /\ Len(s) \in Nat /\ Len(s) > 0
      /\ DOMAIN s = 1..Len(s) /\ DOMAIN t = 1..(Len(s) - 1) /\ h = s[1]
      /\ \A i \in 1..(Len(s) - 1) : t[i] = s[i + 1]
  BY HeadTailProperties, LenProperties
<1>2. \A i \in DOMAIN t : i + 1 \in DOMAIN s /\ t[i] = s[i + 1]
  BY <1>1
<1>3. 1 \in DOMAIN s /\ h = s[1] /\ DOMAIN t \subseteq Nat \ {0}
  BY <1>1
<1> HIDE DEF t, h
<1>4. ASSUME NEW q PROVE Carried(t, q) => Carried(s, q)
  BY <1>2 DEF Carried
<1>5. ASSUME NEW q, Single(s, q) PROVE Single(t, q)
  <2> SUFFICES ASSUME NEW i \in DOMAIN t, t[i].kind = "settings", t[i].request = q,
                      NEW j \in DOMAIN t, t[j].kind = "settings", t[j].request = q
               PROVE  i = j
    BY DEF Single
  <2>1. i + 1 = j + 1
    BY <1>2, <1>5 DEF Single
  <2> QED
    BY <2>1, <1>3
<1>6. ASSUME NEW q, Single(s, q), h.kind = "settings", h.request = q, Carried(t, q) PROVE FALSE
  <2>1. PICK i \in DOMAIN t : t[i].kind = "settings" /\ t[i].request = q
    BY <1>6 DEF Carried
  <2>2. i + 1 = 1
    BY <2>1, <1>2, <1>3, <1>6 DEF Single
  <2> QED
    BY <2>2, <1>3
<1>7. h.kind = "settings" => Carried(s, h.request)
  BY <1>3 DEF Carried
<1>8. \A o, q : Given(t, o, q) => Given(s, o, q)
  BY <1>2 DEF Given
<1>9. \A k, o : Mail(t, k, o) => Mail(s, k, o)
  BY <1>2 DEF Mail
<1> QED
  BY <1>4, <1>5, <1>6, <1>7, <1>8, <1>9 DEF NoMore, Apart, t, h

\* No settings are sent to anybody, nor is a caller told what it was not told before.
LEMMA OnceKept ==
  ASSUME OnceSound, UNCHANGED begun, Quiet
  PROVE  OnceSound'
<1> SUFFICES ASSUME NEW q \in Requests
             PROVE  /\ begun'[q] \in {0, 1}
                    /\ result'[q] \in Early => begun'[q] = 0
                    /\ result'[q] \in Early \/ begun'[q] = 1 =>
                         \A r \in Runners : ~Carried(toRunner'[r], q)
                    /\ \A r \in Runners : Single(toRunner'[r], q)
                    /\ \A r, s \in Runners :
                         Carried(toRunner'[r], q) /\ Carried(toRunner'[s], q) => r = s
  BY DEF OnceSound
<1>1. \A r \in Runners : /\ Carried(toRunner'[r], q) => Carried(toRunner[r], q)
                         /\ Single(toRunner[r], q) => Single(toRunner'[r], q)
  BY DEF Quiet, NoMore
<1>2. /\ begun[q] \in {0, 1}
      /\ result[q] \in Early => begun[q] = 0
      /\ result[q] \in Early \/ begun[q] = 1 => \A r \in Runners : ~Carried(toRunner[r], q)
      /\ \A r \in Runners : Single(toRunner[r], q)
      /\ \A r, s \in Runners : Carried(toRunner[r], q) /\ Carried(toRunner[s], q) => r = s
  BY DEF OnceSound
<1> QED
  BY <1>1, <1>2 DEF Quiet

\* A channel compared with itself, and with one compared with another.
LEMMA NoMoreChain ==
  ASSUME NEW s
  PROVE  /\ NoMore(s, s)
         /\ \A t, u : NoMore(s, t) /\ NoMore(t, u) => NoMore(s, u)
         /\ NoMore(<<>>, s) /\ NoMore(<<Notice("registered")>>, s)
<1>1. NoMore(s, s) /\ \A t, u : NoMore(s, t) /\ NoMore(t, u) => NoMore(s, u)
  BY DEF NoMore
<1>2. NoMore(<<>>, s)
  BY DEF NoMore, Carried, Single, Given, Apart, Mail
<1>3. NoMore(<<Notice("registered")>>, s)
  <2> DEFINE t == <<Notice("registered")>>
  <2>1. \A i \in DOMAIN t : t[i].kind = "registered"
    BY DEF Notice
  <2> HIDE DEF t
  <2>2. /\ \A q : ~Carried(t, q) /\ Single(t, q)
        /\ \A o, q : ~Given(t, o, q)
        /\ \A o : ~Mail(t, "accept", o)
    BY <2>1 DEF Carried, Single, Given, Mail
  <2> QED
    BY <2>2 DEF NoMore, Apart, t
<1> QED
  BY <1>1, <1>2, <1>3

\* Matching sends no settings.
LEMMA SettleCarries ==
  ASSUME NEW queue \in Seq(Requests), NEW inProgress \in SUBSET Requests,
         NEW pool \in Seq(Offers), NEW accepts, NEW channels, ChannelsTyped(channels),
         NEW reachable, Settle(queue, inProgress, pool, accepts, channels, reachable),
         \A o \in Offers : Contains(pool, o) => ~Mail(channels[RunnerOf(o)], "settings", o)
  PROVE  \A r \in Runners : NoMore(toRunner'[r], channels[r])
<1>1. PICK T \in SUBSET Offers :
        \E f \in [T -> Requests] : Matching(queue, inProgress, pool, accepts, channels, T, f)
  BY SettleFacts
<1>2. PICK f \in [T -> Requests] : Matching(queue, inProgress, pool, accepts, channels, T, f)
  BY <1>1
<1>3. ASSUME NEW r \in Runners PROVE NoMore(toRunner'[r], channels[r])
  <2>1. CASE toRunner'[r] = channels[r]
    BY <2>1, NoMoreChain
  <2>2. CASE \E t \in Seq(Calls(r)) : toRunner'[r] = channels[r] \o t /\ Asks(t, T, r)
    <3>1. PICK t \in Seq(Calls(r)) : toRunner'[r] = channels[r] \o t /\ Asks(t, T, r)
      BY <2>2
    <3>0. \A o \in T : RunnerOf(o) = r => ~Mail(channels[r], "settings", o)
      BY <1>2 DEF Matching
    <3>2. \A i \in DOMAIN t : t[i].kind = "accept" /\ ~Mail(channels[r], "settings", t[i].offer)
      BY <3>0, <3>1 DEF Asks
    <3>3. channels[r] \in Seq(Calls(r))
      BY DEF ChannelsTyped
    <3>4. NoMore(channels[r] \o t, channels[r])
      BY <3>2, <3>3, CarriedConcat
    <3> QED
      BY <3>1, <3>4
  <2> QED
    BY <1>2, <2>1, <2>2 DEF Matching
<1> QED
  BY <1>3

\* Nor does a message of another kind.
LEMMA TellCarries ==
  ASSUME Types, NEW r \in Runners, NEW m \in Calls(r), m.kind \notin {"settings", "accept"}
  PROVE  \A s \in Runners : NoMore(Tell(toRunner, r, m)[s], toRunner[s])
<1>1. ChannelsTyped(toRunner) /\ toRunner[r] \in Seq(Calls(r))
  BY DEF Types, ChannelsTyped
<1>2. /\ \A s \in Runners : s # r => Tell(toRunner, r, m)[s] = toRunner[s]
      /\ Tell(toRunner, r, m)[r] =
           IF Listening(r) THEN Append(toRunner[r], m) ELSE toRunner[r]
  BY <1>1, TellFacts
<1>3. NoMore(Append(toRunner[r], m), toRunner[r])
  BY <1>1, CarriedAppend
<1>4. NoMore(Tell(toRunner, r, m)[r], toRunner[r])
  BY <1>2, <1>3, NoMoreChain
<1> QED
  BY <1>2, <1>4, NoMoreChain

\* Nor does the cancellation of a task.
LEMMA CancelCarries ==
  ASSUME Types, NEW o \in Offers
  PROVE  /\ ChannelsTyped(CancelAtRunner(o))
         /\ \A s \in Runners : NoMore(CancelAtRunner(o)[s], toRunner[s])
<1> DEFINE r == RunnerOf(o)
           m == Message("cancel", o)
<1>1. r \in Runners /\ o \in OffersOf({r})
  BY OfferFacts
<1>2. m \in Calls(r) /\ m.kind = "cancel"
  BY <1>1, CallMade
<1>3. CancelAtRunner(o) = Tell(toRunner, r, m)
  BY DEF CancelAtRunner
<1> HIDE DEF r, m
<1>4. ChannelsTyped(toRunner)
  BY DEF Types
<1> QED
  BY <1>1, <1>2, <1>3, <1>4, TellFacts, TellCarries

\* A caller is told something.
LEMMA ToldOne ==
  ASSUME Types, NEW x, NEW v, v \notin Early \/ result[x] \in Early,
         result' = [result EXCEPT ![x] = v]
  PROVE  \A q \in Requests : result'[q] \in Early => result[q] \in Early
<1>1. \A q \in Requests : result'[q] = IF q = x THEN v ELSE result[q]
  BY DEF Types, TypeOK
<1> QED
  BY <1>1

\* The settings of an offer that is listed, or on its way, are not in the channel.
LEMMA OfferedApart ==
  ASSUME SlotLife, NEW o \in Offers,
         Contains(offers, o) \/ Mail(toBroker[RunnerOf(o)], "offer", o)
  PROVE  ~Mail(toRunner[RunnerOf(o)], "settings", o)
BY MailMentions DEF SlotLife, LifeOf, Life

\* Steps of a caller's request.
LEMMA RequestQuiet ==
  ASSUME Types, SlotLife, QueueSound, NEW q \in Requests, Request(q) \/ RequestTimeout(q)
  PROVE  Quiet
<1>0. TypeOK /\ ChannelsTyped(toRunner)
  BY DEF Types
<1>1. CASE Request(q) /\ phase = "serving"
  <2> DEFINE queue == Append(pending, q)
  <2>1. /\ result[q] = "idle" /\ result' = [result EXCEPT ![q] = "queued"]
        /\ Settle(queue, matched, offers, accepting, toRunner, Reachable)
    BY <1>1 DEF Request
  <2>2. /\ queue \in Seq(Requests) /\ offers \in Seq(Offers)
        /\ matched \in SUBSET Requests
    BY <1>0, AppendProperties DEF TypeOK
  <2> HIDE DEF queue
  <2>3. \A r \in Runners : NoMore(toRunner'[r], toRunner[r])
    BY <1>0, <2>1, <2>2, OfferedApart, SettleCarries
  <2>4. result[q] \in Early
    BY <2>1 DEF Early
  <2>5. \A p \in Requests : result'[p] \in Early => result[p] \in Early
    BY <2>1, <2>4, ToldOne
  <2> QED
    BY <2>3, <2>5 DEF Quiet
<1>2. CASE (Request(q) /\ phase # "serving") \/ RequestTimeout(q)
  <2>1. /\ result' = [result EXCEPT ![q] = "expired"] /\ UNCHANGED toRunner
        /\ result[q] = "idle" \/ Contains(pending, q)
    BY <1>2 DEF Request, RequestTimeout
  <2>2. result[q] \in Early
    BY <2>1 DEF QueueSound, Tracked, Early
  <2>3. \A p \in Requests : result'[p] \in Early => result[p] \in Early
    BY <2>1, <2>2, ToldOne
  <2> QED
    BY <2>1, <2>3, NoMoreChain DEF Quiet
<1> QED
  BY <1>1, <1>2

\* A process exits.
LEMMA DiesQuiet ==
  ASSUME Types, NEW r \in Runners, Dies(r),
         \A q \in Requests : result'[q] \in Early => result[q] \in Early
  PROVE  Quiet
<1>1. \A s \in Runners : toRunner'[s] = IF s = r THEN <<>> ELSE toRunner[s]
  BY DEF Dies, Types, ChannelsTyped
<1>2. \A s \in Runners : NoMore(toRunner'[s], toRunner[s])
  BY <1>1, NoMoreChain
<1> QED
  BY <1>2 DEF Quiet

\* Steps about one offer.
LEMMA OfferQuiet ==
  ASSUME Types, SlotLife, NEW o \in Offers,
         \/ OfferExpires(o) \/ AcceptTimeout(o) \/ TaskTimeout(o) \/ Cancel(o)
         \/ TaskFinishes(o) \/ TaskTimedOut(o)
  PROVE  Quiet
<1>0. TypeOK /\ ChannelsTyped(toRunner)
  BY DEF Types
<1>c. /\ ChannelsTyped(CancelAtRunner(o))
      /\ \A s \in Runners : NoMore(CancelAtRunner(o)[s], toRunner[s])
  BY CancelCarries
<1>1. CASE OfferExpires(o) \/ TaskFinishes(o) \/ TaskTimedOut(o)
  <2>1. UNCHANGED <<result, toRunner>>
    BY <1>1 DEF OfferExpires, TaskFinishes, TaskTimedOut, broker, requests
  <2> QED
    BY <2>1, NoMoreChain DEF Quiet
<1>2. CASE AcceptTimeout(o)
  <2> DEFINE pool == Only(offers, OffersOf(Runners \ {RunnerOf(o)}))
             busy == matched \ {accepting[o]}
  <2>1. PICK reachable : Settle(pending, busy, pool, GivenUp(o), CancelAtRunner(o), reachable)
    BY <1>2 DEF AcceptTimeout
  <2>2. UNCHANGED result
    BY <1>2 DEF AcceptTimeout
  <2>3. /\ pending \in Seq(Requests) /\ pool \in Seq(Offers)
        /\ busy \in SUBSET Requests
        /\ \A x \in Offers : Contains(pool, x) => Contains(offers, x)
    BY <1>0, OnlyFacts DEF TypeOK
  <2> HIDE DEF pool, busy
  <2>4. \A x \in Offers : Contains(pool, x) => ~Mail(CancelAtRunner(o)[RunnerOf(x)], "settings", x)
    <3> TAKE x \in Offers
    <3> HAVE Contains(pool, x)
    <3>1. ~Mail(toRunner[RunnerOf(x)], "settings", x)
      BY <2>3, OfferedApart
    <3>2. RunnerOf(x) \in Runners
      BY OfferFacts
    <3>3. PICK R : R = CancelAtRunner(o)[RunnerOf(x)]
      OBVIOUS
    <3>4. \A k : Mail(R, k, x) => Mail(toRunner[RunnerOf(x)], k, x) \/ k = "cancel"
      BY <3>3, CancelMail
    <3> QED
      BY <3>1, <3>3, <3>4
  <2>5. \A s \in Runners : NoMore(toRunner'[s], CancelAtRunner(o)[s])
    BY <1>c, <2>1, <2>3, <2>4, SettleCarries
  <2>6. \A s \in Runners : NoMore(toRunner'[s], toRunner[s])
    BY <1>c, <2>5, NoMoreChain
  <2> QED
    BY <2>2, <2>6 DEF Quiet
<1>3. CASE TaskTimeout(o) \/ Cancel(o)
  <2>1. /\ \/ result' = [result EXCEPT ![tasks[o]] = "failed"]
           \/ result' = [result EXCEPT ![tasks[o]] = "cancelled"]
        /\ Dies(RunnerOf(o)) \/ toRunner' = CancelAtRunner(o)
    BY <1>3 DEF TaskTimeout, Cancel
  <2>2. "failed" \notin Early /\ "cancelled" \notin Early
    BY DEF Early
  <2>3. \A q \in Requests : result'[q] \in Early => result[q] \in Early
    BY <2>1, <2>2, ToldOne
  <2>4. RunnerOf(o) \in Runners
    BY OfferFacts
  <2>5. CASE Dies(RunnerOf(o))
    BY <2>3, <2>4, <2>5, DiesQuiet
  <2>6. CASE toRunner' = CancelAtRunner(o)
    BY <1>c, <2>3, <2>6 DEF Quiet
  <2> QED
    BY <2>1, <2>5, <2>6
<1> QED
  BY <1>1, <1>2, <1>3

\* A runner that accepted a request which still waits is sent its settings.
TakesUp(o, q) ==
  /\ accepting[o] = q /\ result[q] = "queued"
  /\ Mail(toBroker[RunnerOf(o)], "accepted", o)
  /\ result' = [result EXCEPT ![q] = "tasked"]
  /\ tasks' = [tasks EXCEPT ![o] = q]
  /\ toRunner' = Tell(toRunner, RunnerOf(o), Settings(o, q))
  /\ UNCHANGED <<begun, atRunner>>

\* What the broker does with a message from a runner.
LEMMA BrokerReadsQuiet ==
  ASSUME Types, SlotLife, QueueSound, NEW r \in Runners, BrokerReads(r)
  PROVE  Quiet \/ \E o \in Offers, q \in Requests : TakesUp(o, q)
<1>0. TypeOK /\ ChannelsTyped(toRunner)
  BY DEF Types
<1>1. PICK kind : Receives(r, kind) /\ (TaskOffered(r) => kind = "offer")
                  /\ (RunnerAccept(r) => kind = "accepted")
  <2>1. CASE TaskOffered(r)
    BY <2>1 DEF TaskOffered, RunnerAccept, Receives
  <2>2. CASE RunnerAccept(r)
    BY <2>2 DEF TaskOffered, RunnerAccept, Receives
  <2>3. CASE RunnerReject(r) \/ RunnerDeferred(r) \/ TaskResult(r)
    BY <2>1, <2>2, <2>3 DEF RunnerReject, RunnerDeferred, TaskResult
  <2> QED
    BY <2>1, <2>2, <2>3 DEF BrokerReads
<1>2. PICK p \in Offers : p = Named(r) /\ RunnerOf(p) = r
  BY <1>1, ReceivesFacts
<1>m. Mail(toBroker[r], kind, p)
  BY <1>1, <1>2, ReceivesMail
<1>3. CASE UNCHANGED toRunner /\ UNCHANGED result
  BY <1>3, NoMoreChain DEF Quiet
<1>4. ASSUME NEW busy \in SUBSET Requests, NEW pool \in Seq(Offers), NEW accepts,
             Settle(pending, busy, pool, accepts, toRunner, Reachable), UNCHANGED result,
             \A x \in Offers : Contains(pool, x) => Contains(offers, x) \/ (x = p /\ kind = "offer")
      PROVE  Quiet
  <2>1. pending \in Seq(Requests)
    BY <1>0 DEF TypeOK
  <2>2. \A x \in Offers : Contains(pool, x) => ~Mail(toRunner[RunnerOf(x)], "settings", x)
    BY <1>2, <1>m, <1>4, OfferedApart
  <2>3. \A s \in Runners : NoMore(toRunner'[s], toRunner[s])
    BY <1>0, <1>4, <2>1, <2>2, SettleCarries
  <2> QED
    BY <1>4, <2>3 DEF Quiet
<1>5. CASE TaskOffered(r)
  <2> DEFINE pool == Append(offers, p)
  <2>1. /\ Settle(pending, matched, pool, accepting, toRunner, Reachable)
        /\ UNCHANGED result
    BY <1>2, <1>5 DEF TaskOffered
  <2>2. /\ matched \in SUBSET Requests /\ pool \in Seq(Offers)
        /\ \A x : Contains(pool, x) <=> Contains(offers, x) \/ x = p
    BY <1>0, AppendFacts, AppendProperties DEF TypeOK
  <2>3. kind = "offer"
    BY <1>1, <1>5
  <2> HIDE DEF pool
  <2> QED
    BY <1>4, <2>1, <2>2, <2>3
<1>6. CASE RunnerAccept(r)
  <2> DEFINE q == accepting[p]
  <2>1. CASE accepting[p] = 0
    <3>1. UNCHANGED toRunner /\ UNCHANGED result
      BY <1>2, <1>6, <2>1 DEF RunnerAccept
    <3> QED
      BY <1>3, <3>1
  <2>2. CASE accepting[p] # 0 /\ ~Contains(pending, q)
    <3>1. toRunner' = CancelAtRunner(p) /\ UNCHANGED result
      BY <1>2, <1>6, <2>2 DEF RunnerAccept, Accepted
    <3>2. \A s \in Runners : NoMore(toRunner'[s], toRunner[s])
      BY <3>1, CancelCarries
    <3> QED
      BY <3>1, <3>2 DEF Quiet
  <2>3. CASE accepting[p] # 0 /\ Contains(pending, q)
    <3>1. q \in Requests /\ result[q] = "queued"
      <4>1. accepting[p] \in 0..NumRequests
        BY <1>0 DEF TypeOK
      <4>2. q \in Requests
        BY <2>3, <4>1, Bounds
      <4> QED
        BY <2>3, <4>2 DEF QueueSound, Tracked
    <3>2. \/ /\ result' = [result EXCEPT ![q] = "tasked"] /\ tasks' = [tasks EXCEPT ![p] = q]
             /\ toRunner' = Tell(toRunner, RunnerOf(p), Settings(p, q))
             /\ UNCHANGED <<begun, atRunner>>
          \/ result' = [result EXCEPT ![q] = "failed"] /\ UNCHANGED toRunner
      BY <1>2, <1>6, <2>3 DEF RunnerAccept, Accepted
    <3>3. Mail(toBroker[RunnerOf(p)], "accepted", p)
      BY <1>1, <1>2, <1>m, <1>6
    <3>4. CASE result' = [result EXCEPT ![q] = "failed"] /\ UNCHANGED toRunner
      <4>1. "failed" \notin Early
        BY DEF Early
      <4>2. \A x \in Requests : result'[x] \in Early => result[x] \in Early
        BY <3>4, <4>1, ToldOne
      <4> QED
        BY <3>4, <4>2, NoMoreChain DEF Quiet
    <3>5. CASE ~(result' = [result EXCEPT ![q] = "failed"] /\ UNCHANGED toRunner)
      <4>1. TakesUp(p, q)
        BY <3>1, <3>2, <3>3, <3>5 DEF TakesUp
      <4> QED
        BY <3>1, <4>1
    <3> QED
      BY <3>4, <3>5
  <2> QED
    BY <2>1, <2>2, <2>3
<1>7. CASE RunnerReject(r)
  <2>1. CASE accepting[p] = 0
    <3>1. UNCHANGED toRunner /\ UNCHANGED result
      BY <1>2, <1>7, <2>1 DEF RunnerReject
    <3> QED
      BY <1>3, <3>1
  <2>2. CASE accepting[p] # 0
    <3> DEFINE busy == matched \ {accepting[p]}
               after == [accepting EXCEPT ![p] = 0]
    <3>1. Settle(pending, busy, offers, after, toRunner, Reachable) /\ UNCHANGED result
      BY <1>2, <1>7, <2>2 DEF RunnerReject
    <3>2. busy \in SUBSET Requests /\ offers \in Seq(Offers)
      BY <1>0 DEF TypeOK
    <3> HIDE DEF busy, after
    <3> QED
      BY <1>4, <3>1, <3>2
  <2> QED
    BY <2>1, <2>2
<1>8. CASE RunnerDeferred(r)
  BY <1>3, <1>8 DEF RunnerDeferred
<1>9. CASE TaskResult(r)
  <2>1. UNCHANGED toRunner
        /\ (UNCHANGED result \/ result' = [result EXCEPT ![tasks[p]] = "returned"])
    BY <1>2, <1>9 DEF TaskResult
  <2>2. "returned" \notin Early
    BY DEF Early
  <2>3. \A x \in Requests : result'[x] \in Early => result[x] \in Early
    BY <2>1, <2>2, ToldOne
  <2> QED
    BY <2>1, <2>3, NoMoreChain DEF Quiet
<1> QED
  BY <1>5, <1>6, <1>7, <1>8, <1>9 DEF BrokerReads

\* Connections come and go, the broker drains and stops.
LEMMA ConnectionQuiet ==
  ASSUME Types, SlotLife,
         \/ \E r \in Runners : Connections(r)
         \/ StartDraining \/ CloseConnections
  PROVE  Quiet
<1>0. TypeOK /\ ChannelsTyped(toRunner)
  BY DEF Types
<1>1. ASSUME NEW r \in Runners, Deregister(r) PROVE Quiet
  <2> DEFINE mine == {o \in Offers : RunnerOf(o) = r}
             left == Only(offers, OffersOf(Runners \ {r}))
             after == [o \in Offers |-> IF o \in mine THEN 0 ELSE accepting[o]]
             fewer == matched \ {accepting[o] : o \in mine}
  <2>1. /\ Failed(mine)
        /\ \/ UNCHANGED toRunner
           \/ Settle(pending, fewer, left, after, toRunner, Reachable)
    BY <1>1 DEF Deregister
  <2>2. \A q \in Requests : result'[q] \in Early => result[q] \in Early
    BY <2>1 DEF Failed, Early
  <2>3. /\ pending \in Seq(Requests) /\ fewer \in SUBSET Requests /\ left \in Seq(Offers)
        /\ \A x \in Offers : Contains(left, x) => Contains(offers, x)
    BY <1>0, OnlyFacts DEF TypeOK
  <2> HIDE DEF mine, left, after, fewer
  <2>4. CASE UNCHANGED toRunner
    BY <2>2, <2>4, NoMoreChain DEF Quiet
  <2>5. CASE Settle(pending, fewer, left, after, toRunner, Reachable)
    <3>1. \A x \in Offers : Contains(left, x) => ~Mail(toRunner[RunnerOf(x)], "settings", x)
      BY <2>3, OfferedApart
    <3>2. \A s \in Runners : NoMore(toRunner'[s], toRunner[s])
      BY <1>0, <2>3, <2>5, <3>1, SettleCarries
    <3> QED
      BY <2>2, <3>2 DEF Quiet
  <2> QED
    BY <2>1, <2>4, <2>5
<1>2. ASSUME NEW r \in Runners, Connect(r) PROVE Quiet
  <2>1. toRunner' = [toRunner EXCEPT ![r] = <<Notice("registered")>>] /\ UNCHANGED result
    BY <1>2 DEF Connect, broker, requests
  <2>2. \A s \in Runners : toRunner'[s] = IF s = r THEN <<Notice("registered")>> ELSE toRunner[s]
    BY <1>0, <2>1 DEF ChannelsTyped
  <2>3. \A s \in Runners : NoMore(toRunner'[s], toRunner[s])
    BY <2>2, NoMoreChain
  <2> QED
    BY <2>1, <2>3 DEF Quiet
<1>3. CASE CloseConnections \/ \E r \in Runners : SocketCloses(r) \/ ConnectionLost(r)
  <2>1. UNCHANGED <<result, toRunner>>
    BY <1>3 DEF CloseConnections, SocketCloses, ConnectionLost, broker, requests
  <2> QED
    BY <2>1, NoMoreChain DEF Quiet
<1>4. CASE StartDraining
  <2>1. /\ UNCHANGED result
        /\ \A r \in Runners : toRunner'[r] =
             IF Listening(r) THEN Append(toRunner[r], Notice("drain")) ELSE toRunner[r]
    BY <1>4 DEF StartDraining, requests
  <2>2. ASSUME NEW r \in Runners PROVE NoMore(toRunner'[r], toRunner[r])
    <3>1. Notice("drain") \in Calls(r) /\ Notice("drain").kind \notin {"settings", "accept"}
      BY DEF Calls, Notice
    <3>2. toRunner[r] \in Seq(Calls(r))
      BY <1>0 DEF ChannelsTyped
    <3>3. NoMore(Append(toRunner[r], Notice("drain")), toRunner[r])
      BY <3>1, <3>2, CarriedAppend
    <3> QED
      BY <2>1, <3>3, NoMoreChain
  <2> QED
    BY <2>1, <2>2 DEF Quiet
<1> QED
  BY <1>1, <1>2, <1>3, <1>4 DEF Connections

\* The steps of a runner.
LEMMA RunnerQuiet ==
  ASSUME Types, NEW r \in Runners, RunnerSteps(r)
  PROVE  Quiet
<1>0. UNCHANGED result
  BY DEF RunnerSteps, OfferSlots, RunnerRegistered, OfferAccepted, OfferDeferred,
       ReceivedSettings, TaskCancelled, BrokerDrains, RunnerStops, RunnerCloses, RunnerCrashes,
       RunnerExits, broker, requests
<1>1. CASE OfferSlots(r) \/ RunnerStops(r)
  <2>1. UNCHANGED toRunner
    BY <1>1 DEF OfferSlots, RunnerStops
  <2> QED
    BY <1>0, <2>1, NoMoreChain DEF Quiet
<1>2. CASE RunnerCloses(r) \/ RunnerCrashes(r) \/ RunnerExits(r)
  <2>1. Dies(r)
    BY <1>2 DEF RunnerCloses, RunnerCrashes, RunnerExits
  <2> QED
    BY <1>0, <2>1, DiesQuiet
<1>3. CASE \/ RunnerRegistered(r) \/ OfferAccepted(r) \/ OfferDeferred(r)
           \/ ReceivedSettings(r) \/ TaskCancelled(r) \/ BrokerDrains(r)
  <2>1. PICK kind : Reads(r, kind)
    BY <1>3 DEF RunnerRegistered, OfferAccepted, OfferDeferred, ReceivedSettings,
         TaskCancelled, BrokerDrains
  <2>2. /\ toRunner[r] \in Seq(Calls(r)) /\ toRunner[r] # <<>>
        /\ \A s \in Runners :
             toRunner'[s] = IF s = r THEN Tail(toRunner[r]) ELSE toRunner[s]
    BY <2>1, ReadsFacts
  <2>3. NoMore(Tail(toRunner[r]), toRunner[r])
    BY <2>2, CarriedTail
  <2>4. \A s \in Runners : NoMore(toRunner'[s], toRunner[s])
    BY <2>2, <2>3, NoMoreChain
  <2> QED
    BY <1>0, <2>4 DEF Quiet
<1> QED
  BY <1>1, <1>2, <1>3 DEF RunnerSteps

\* Every step is quiet, or sends settings.
LEMMA StepQuiet ==
  ASSUME Types, SlotLife, QueueSound, [Next]_vars
  PROVE  Quiet \/ \E o \in Offers, q \in Requests : TakesUp(o, q)
<1>1. CASE UNCHANGED vars
  <2>1. UNCHANGED <<result, toRunner>>
    BY <1>1 DEF vars
  <2> QED
    BY <2>1, NoMoreChain DEF Quiet
<1>2. CASE Next
  BY <1>2, RequestQuiet, OfferQuiet, BrokerReadsQuiet, ConnectionQuiet, RunnerQuiet DEF Next
<1> QED
  BY <1>1, <1>2

\* A runner accepted a request that still waits: the settings go out, for the first time.
LEMMA SettingsSent ==
  ASSUME Types, OnceSound, NEW o \in Offers, NEW q \in Requests,
         result[q] = "queued", result' = [result EXCEPT ![q] = "tasked"], UNCHANGED begun,
         toRunner' = Tell(toRunner, RunnerOf(o), Settings(o, q))
  PROVE  OnceSound'
<1> DEFINE r == RunnerOf(o)
           m == Settings(o, q)
<1>0. r \in Runners /\ o \in OffersOf({r})
  BY OfferFacts
<1>1. r \in Runners /\ m \in Calls(r) /\ m.kind = "settings" /\ m.request = q
  <2> HIDE DEF r
  <2> QED
    BY <1>0, CallMade
<1>2. ChannelsTyped(toRunner) /\ toRunner[r] \in Seq(Calls(r))
  BY <1>1 DEF Types, ChannelsTyped
<1> HIDE DEF r, m
<1>3. /\ \A s \in Runners : s # r => toRunner'[s] = toRunner[s]
      /\ toRunner'[r] = IF Listening(r) THEN Append(toRunner[r], m) ELSE toRunner[r]
  BY <1>1, <1>2, TellFacts DEF r, m
<1>4. \A p \in Requests : result'[p] = IF p = q THEN "tasked" ELSE result[p]
  BY DEF Types, TypeOK
<1>5. begun[q] = 0 /\ \A s \in Runners : ~Carried(toRunner[s], q)
  BY DEF OnceSound, Early
<1>6. \A p : p # q => /\ Carried(toRunner'[r], p) => Carried(toRunner[r], p)
                      /\ Single(toRunner[r], p) => Single(toRunner'[r], p)
  BY <1>1, <1>2, <1>3, CarriedAppend
<1>7. Single(toRunner'[r], q)
  <2>1. Single(Append(toRunner[r], m), q)
    BY <1>1, <1>2, <1>5, CarriedAppend
  <2>2. Single(toRunner[r], q)
    BY <1>1 DEF OnceSound
  <2> QED
    BY <1>3, <2>1, <2>2
<1> SUFFICES ASSUME NEW p \in Requests
             PROVE  /\ begun'[p] \in {0, 1}
                    /\ result'[p] \in Early => begun'[p] = 0
                    /\ result'[p] \in Early \/ begun'[p] = 1 =>
                         \A s \in Runners : ~Carried(toRunner'[s], p)
                    /\ \A s \in Runners : Single(toRunner'[s], p)
                    /\ \A s, t \in Runners :
                         Carried(toRunner'[s], p) /\ Carried(toRunner'[t], p) => s = t
  BY DEF OnceSound
<1>8. CASE p = q
  <2>1. \A s \in Runners : Single(toRunner[s], q)
    BY DEF OnceSound
  <2>2. result'[q] \notin Early /\ begun'[q] = 0
    BY <1>4, <1>5 DEF Early
  <2>3. \A s \in Runners : Carried(toRunner'[s], q) => s = r
    BY <1>3, <1>5
  <2>4. \A s \in Runners : Single(toRunner'[s], q)
    BY <1>3, <1>7, <2>1
  <2> QED
    BY <1>8, <2>2, <2>3, <2>4
<1>9. CASE p # q
  <2>1. \A s \in Runners : /\ Carried(toRunner'[s], p) => Carried(toRunner[s], p)
                           /\ Single(toRunner[s], p) => Single(toRunner'[s], p)
    BY <1>3, <1>6, <1>9
  <2>2. result'[p] = result[p] /\ begun'[p] = begun[p]
    BY <1>4, <1>9
  <2>3. /\ begun[p] \in {0, 1}
        /\ result[p] \in Early => begun[p] = 0
        /\ result[p] \in Early \/ begun[p] = 1 => \A s \in Runners : ~Carried(toRunner[s], p)
        /\ \A s \in Runners : Single(toRunner[s], p)
        /\ \A s, t \in Runners : Carried(toRunner[s], p) /\ Carried(toRunner[t], p) => s = t
    BY DEF OnceSound
  <2> QED
    BY <2>1, <2>2, <2>3
<1> QED
  BY <1>8, <1>9

\* The settings arrive: the code begins to run, or the runner has no task for them.
LEMMA SettingsOnce ==
  ASSUME Types, OnceSound, NEW r \in Runners, ReceivedSettings(r)
  PROVE  OnceSound'
<1> DEFINE m == Head(toRunner[r])
           s == toRunner[r]
<1>1. /\ s \in Seq(Calls(r)) /\ s # <<>> /\ m \in Calls(r) /\ m.kind = "settings"
      /\ \A x \in Runners : toRunner'[x] = IF x = r THEN Tail(s) ELSE toRunner[x]
  BY ReadsFacts DEF ReceivedSettings
<1>2. PICK q \in Requests : q = m.request
  BY <1>1, CallFacts
<1>3. /\ NoMore(Tail(s), s) /\ Carried(s, q)
      /\ Single(s, q) => ~Carried(Tail(s), q)
  BY <1>1, <1>2, CarriedTail
<1>4. UNCHANGED result
  BY DEF ReceivedSettings, broker, requests
<1>5. \A x \in Runners : NoMore(toRunner'[x], toRunner[x])
  BY <1>1, <1>3, NoMoreChain
<1>6. CASE UNCHANGED begun
  <2>1. Quiet
    BY <1>4, <1>5 DEF Quiet
  <2> QED
    BY <1>6, <2>1, OnceKept
<1>7. CASE begun' = [begun EXCEPT ![q] = @ + 1]
  <2>1. \A p \in Requests : begun'[p] = IF p = q THEN begun[q] + 1 ELSE begun[p]
    BY <1>7 DEF Types, TypeOK
  <2>2. begun[q] = 0 /\ result[q] \notin Early
    BY <1>3 DEF OnceSound
  <2>3. \A x \in Runners : Carried(toRunner[x], q) => x = r
    BY <1>3 DEF OnceSound
  <2>4. ~Carried(Tail(s), q)
    BY <1>3 DEF OnceSound
  <2>5. \A x \in Runners : ~Carried(toRunner'[x], q)
    BY <1>1, <2>3, <2>4
  <2> HIDE DEF m, s
  <2> SUFFICES ASSUME NEW p \in Requests
               PROVE  /\ begun'[p] \in {0, 1}
                      /\ result'[p] \in Early => begun'[p] = 0
                      /\ result'[p] \in Early \/ begun'[p] = 1 =>
                           \A x \in Runners : ~Carried(toRunner'[x], p)
                      /\ \A x \in Runners : Single(toRunner'[x], p)
                      /\ \A x, y \in Runners :
                           Carried(toRunner'[x], p) /\ Carried(toRunner'[y], p) => x = y
    BY DEF OnceSound
  <2>6. \A x \in Runners : /\ Carried(toRunner'[x], p) => Carried(toRunner[x], p)
                           /\ Single(toRunner[x], p) => Single(toRunner'[x], p)
    BY <1>5 DEF NoMore
  <2>7. /\ begun[p] \in {0, 1}
        /\ result[p] \in Early => begun[p] = 0
        /\ result[p] \in Early \/ begun[p] = 1 => \A x \in Runners : ~Carried(toRunner[x], p)
        /\ \A x \in Runners : Single(toRunner[x], p)
        /\ \A x, y \in Runners : Carried(toRunner[x], p) /\ Carried(toRunner[y], p) => x = y
    BY DEF OnceSound
  <2>8. CASE p = q
    BY <1>4, <2>1, <2>2, <2>5, <2>6, <2>7, <2>8
  <2>9. CASE p # q
    BY <1>4, <2>1, <2>6, <2>7, <2>9
  <2> QED
    BY <2>8, <2>9
<1> QED
  BY <1>2, <1>6, <1>7 DEF ReceivedSettings

\* Only a runner that received settings begins to run code.
LEMMA BegunKept ==
  ASSUME [Next]_vars, \A r \in Runners : ~ReceivedSettings(r)
  PROVE  UNCHANGED begun
<1>1. CASE UNCHANGED vars
  BY <1>1 DEF vars
<1>2. ASSUME NEW q \in Requests, Request(q) \/ RequestTimeout(q)
      PROVE  UNCHANGED begun
  BY <1>2 DEF Request, RequestTimeout
<1>3. ASSUME NEW r \in Runners, BrokerReads(r)
      PROVE  UNCHANGED begun
  BY <1>3 DEF BrokerReads, TaskOffered, RunnerAccept, RunnerReject, RunnerDeferred, TaskResult
<1>4. ASSUME NEW r \in Runners, Connections(r)
      PROVE  UNCHANGED begun
  BY <1>4 DEF Connections, Connect, SocketCloses, ConnectionLost, Deregister
<1>5. ASSUME NEW r \in Runners, RunnerSteps(r)
      PROVE  UNCHANGED begun
  BY <1>5 DEF RunnerSteps, OfferSlots, RunnerRegistered, OfferAccepted, OfferDeferred,
       TaskCancelled, BrokerDrains, RunnerStops, RunnerCloses, RunnerCrashes, RunnerExits
<1>6. ASSUME NEW o \in Offers,
             \/ OfferExpires(o) \/ AcceptTimeout(o) \/ TaskTimeout(o) \/ Cancel(o)
             \/ TaskFinishes(o) \/ TaskTimedOut(o)
      PROVE  UNCHANGED begun
  BY <1>6 DEF OfferExpires, AcceptTimeout, TaskTimeout, Cancel, TaskFinishes, TaskTimedOut
<1>7. CASE StartDraining \/ CloseConnections
  BY <1>7 DEF StartDraining, CloseConnections
<1> QED
  BY <1>1, <1>2, <1>3, <1>4, <1>5, <1>6, <1>7 DEF Next

\* Every step keeps what is known of the settings.
LEMMA OnceStep ==
  ASSUME Types, SlotLife, QueueSound, OnceSound, [Next]_vars
  PROVE  OnceSound'
<1>1. CASE \E r \in Runners : ReceivedSettings(r)
  BY <1>1, SettingsOnce
<1>2. CASE \A r \in Runners : ~ReceivedSettings(r)
  <2>1. UNCHANGED begun
    BY <1>2, BegunKept
  <2>2. CASE Quiet
    BY <2>1, <2>2, OnceKept
  <2>3. CASE \E o \in Offers, q \in Requests : TakesUp(o, q)
    BY <2>3, SettingsSent DEF TakesUp
  <2> QED
    BY <2>2, <2>3, StepQuiet
<1> QED
  BY <1>1, <1>2

\* The initial state.
LEMMA InitOnce ==
  ASSUME Init
  PROVE  OnceSound
<1>1. /\ \A q \in Requests : begun[q] = 0
      /\ \A r \in Runners : toRunner[r] = <<>>
  BY DEF Init
<1>2. \A q : ~Carried(<<>>, q) /\ Single(<<>>, q)
  BY DEF Carried, Single
<1> QED
  BY <1>1, <1>2 DEF OnceSound

\* The code of a request begins to run once at most, and never once its caller was told
\* that no runner took it: not if an acceptance is late, a runner's name is used again or
\* its process restarted.
THEOREM RunsOnce == Spec => []RunsAtMostOnce
<1>1. Init => Types /\ SlotLife /\ QueueSound /\ OnceSound
  BY InitTypes, InitLife, InitBooks, InitOnce
<1>2. /\ Types /\ SlotLife /\ QueueSound /\ OnceSound /\ [Next]_vars
      => Types' /\ SlotLife' /\ QueueSound' /\ OnceSound'
  BY TypesStep, LifeStep, BooksStep, OnceStep
<1>3. OnceSound => RunsAtMostOnce
  BY DEF OnceSound, RunsAtMostOnce, Early
<1> QED
  BY <1>1, <1>2, <1>3, PTL DEF Spec

-----------------------------------------------------------------------------
(* The broker implements the calls of CodeCall.                            *)

\* A step moves calls as CodeCall allows, and a task whose runner has not answered is
\* tracked until its caller has an error or has cancelled it.
Served ==
  /\ UNCHANGED result \/ Abstract!Next
  /\ \A o \in Offers : tasks[o] # 0 =>
       \/ tasks'[o] = tasks[o]
       \/ result'[tasks[o]] \in {"failed", "cancelled"}
       \/ Mail(toBroker[RunnerOf(o)], "result", o)

\* What a step makes of one call is a move of it.
LEMMA MovesOne ==
  ASSUME Types, UNCHANGED begun, NEW q \in Requests, NEW to,
         result' = [result EXCEPT ![q] = to]
  PROVE  /\ Abstract!Move({q}, result[q], to)
         /\ result'[q] = to
BY DEF Types, TypeOK, Abstract!Move

\* A task is that of a caller that waits for it.
LEMMA TaskOfCaller ==
  ASSUME Types, QueueSound, NEW o \in Offers, tasks[o] # 0
  PROVE  tasks[o] \in Requests /\ result[tasks[o]] = "tasked"
<1>1. tasks[o] \in Requests
  <2>1. tasks[o] \in 0..NumRequests
    BY DEF Types, TypeOK
  <2> QED
    BY <2>1, Bounds
<1> QED
  BY <1>1 DEF QueueSound, Tracked

\* Steps of a caller's request.
LEMMA RequestServed ==
  ASSUME Types, QueueSound, NEW q \in Requests, Request(q) \/ RequestTimeout(q),
         UNCHANGED begun
  PROVE  Served
<1>0. UNCHANGED tasks
  BY DEF Request, RequestTimeout
<1>1. CASE Request(q)
  <2>1. result[q] = "idle" /\ \E to \in {"queued", "expired"} : result' = [result EXCEPT ![q] = to]
    BY <1>1 DEF Request
  <2>2. \E to \in {"queued", "expired"} : Abstract!Move({q}, "idle", to)
    BY <2>1, MovesOne
  <2>3. Abstract!Call(q) \/ Abstract!Refuse(q)
    BY <2>2 DEF Abstract!Call, Abstract!Refuse
  <2> QED
    BY <1>0, <2>3 DEF Served, Abstract!Next
<1>2. CASE RequestTimeout(q)
  <2>1. result[q] = "queued" /\ result' = [result EXCEPT ![q] = "expired"]
    BY <1>2 DEF RequestTimeout, QueueSound, Tracked
  <2>2. Abstract!Expire(q)
    BY <2>1, MovesOne DEF Abstract!Expire
  <2> QED
    BY <1>0, <2>2 DEF Served, Abstract!Next
<1> QED
  BY <1>1, <1>2

\* Steps about one offer.
LEMMA OfferServed ==
  ASSUME Types, QueueSound, NEW o \in Offers, UNCHANGED begun,
         \/ OfferExpires(o) \/ AcceptTimeout(o) \/ TaskTimeout(o) \/ Cancel(o)
         \/ TaskFinishes(o) \/ TaskTimedOut(o)
  PROVE  Served
<1>1. CASE OfferExpires(o) \/ AcceptTimeout(o) \/ TaskFinishes(o) \/ TaskTimedOut(o)
  BY <1>1 DEF OfferExpires, AcceptTimeout, TaskFinishes, TaskTimedOut, broker, requests, Served
<1>2. CASE TaskTimeout(o) \/ Cancel(o)
  <2>1. /\ tasks[o] # 0 /\ tasks' = [tasks EXCEPT ![o] = 0]
        /\ \/ TaskTimeout(o) /\ result' = [result EXCEPT ![tasks[o]] = "failed"]
           \/ Cancel(o) /\ result' = [result EXCEPT ![tasks[o]] = "cancelled"]
    BY <1>2 DEF TaskTimeout, Cancel
  <2>2. PICK q \in Requests : q = tasks[o] /\ result[q] = "tasked"
    BY <2>1, TaskOfCaller
  <2>3. \/ Abstract!Move({q}, "tasked", "failed") /\ result'[q] = "failed"
        \/ Abstract!Move({q}, "tasked", "cancelled") /\ result'[q] = "cancelled"
    BY <2>1, <2>2, MovesOne
  <2>4. Abstract!Next
    <3>1. Abstract!Fail({q}) \/ Abstract!Cancel(q)
      BY <2>3 DEF Abstract!Fail, Abstract!Cancel
    <3> QED
      BY <3>1 DEF Abstract!Next
  <2>5. \A p \in Offers : p # o => tasks'[p] = tasks[p]
    BY <2>1 DEF Types, TypeOK
  <2> QED
    BY <2>2, <2>3, <2>4, <2>5 DEF Served
<1> QED
  BY <1>1, <1>2

\* What the broker does with a message from a runner.
LEMMA BrokerReadsServed ==
  ASSUME Types, SlotLife, QueueSound, NEW r \in Runners, BrokerReads(r), UNCHANGED begun
  PROVE  Served
<1>1. CASE TaskOffered(r) \/ RunnerReject(r) \/ RunnerDeferred(r)
  BY <1>1 DEF TaskOffered, RunnerReject, RunnerDeferred, Served
<1>2. CASE RunnerAccept(r)
  <2>1. PICK o \in Offers : o = Named(r)
    BY <1>2, ReceivesFacts DEF RunnerAccept
  <2>2. CASE UNCHANGED <<result, tasks>>
    BY <2>2 DEF Served
  <2>3. CASE ~UNCHANGED <<result, tasks>>
    <3>1. /\ accepting[o] # 0 /\ Contains(pending, accepting[o])
          /\ \/ /\ result' = [result EXCEPT ![accepting[o]] = "tasked"]
                /\ tasks' = [tasks EXCEPT ![o] = accepting[o]]
             \/ result' = [result EXCEPT ![accepting[o]] = "failed"] /\ UNCHANGED tasks
      BY <1>2, <2>1, <2>3 DEF RunnerAccept, Accepted
    <3>2. PICK q \in Requests : q = accepting[o]
      <4>1. accepting[o] \in 0..NumRequests
        BY DEF Types, TypeOK
      <4> QED
        BY <3>1, <4>1, Bounds
    <3>3. result[q] = "queued" /\ tasks[o] = 0
      BY <3>1, <3>2, LifeBooks DEF QueueSound, Tracked
    <3>4. Abstract!Take(q) \/ Abstract!Lose(q)
      BY <3>1, <3>2, <3>3, MovesOne DEF Abstract!Take, Abstract!Lose
    <3>5. \A p \in Offers : tasks[p] # 0 => tasks'[p] = tasks[p]
      BY <3>1, <3>3 DEF Types, TypeOK
    <3> QED
      BY <3>4, <3>5 DEF Served, Abstract!Next
  <2> QED
    BY <2>2, <2>3
<1>3. CASE TaskResult(r)
  <2>0. Receives(r, "result")
    BY <1>3 DEF TaskResult
  <2>1. PICK o \in Offers : o = Named(r) /\ RunnerOf(o) = r
    BY <2>0, ReceivesFacts
  <2>2. Mail(toBroker[RunnerOf(o)], "result", o)
    BY <2>0, <2>1, ReceivesMail
  <2>3. CASE tasks[o] = 0
    BY <1>3, <2>1, <2>3 DEF TaskResult, Served
  <2>4. CASE tasks[o] # 0
    <3>1. PICK q \in Requests : q = tasks[o] /\ result[q] = "tasked"
      BY <2>4, TaskOfCaller
    <3>2. result' = [result EXCEPT ![q] = "returned"] /\ tasks' = [tasks EXCEPT ![o] = 0]
      BY <1>3, <2>1, <2>4, <3>1 DEF TaskResult
    <3>3. Abstract!Answer(q)
      BY <3>1, <3>2, MovesOne DEF Abstract!Answer
    <3>4. \A p \in Offers : p # o => tasks'[p] = tasks[p]
      BY <3>2 DEF Types, TypeOK
    <3> QED
      BY <2>2, <3>3, <3>4 DEF Served, Abstract!Next
  <2> QED
    BY <2>3, <2>4
<1> QED
  BY <1>1, <1>2, <1>3 DEF BrokerReads

\* A runner is deregistered: the callers of its tasks get an error together.
LEMMA DeregisterServed ==
  ASSUME Types, QueueSound, NEW r \in Runners, Deregister(r), UNCHANGED begun
  PROVE  Served
<1> DEFINE mine == {o \in Offers : RunnerOf(o) = r}
           S == {q \in Requests : \E o \in mine : tasks[o] = q}
<1>1. /\ \A o \in Offers : tasks'[o] = IF o \in mine THEN 0 ELSE tasks[o]
      /\ result' = [q \in Requests |-> IF \E o \in mine : tasks[o] = q THEN "failed" ELSE result[q]]
  BY DEF Deregister, Failed
<1>2. \A o \in mine : tasks[o] # 0 => tasks[o] \in S
  BY TaskOfCaller
<1>3. Abstract!Fail(S)
  <2>1. \A q \in S : result[q] = "tasked"
    BY Bounds, TaskOfCaller
  <2>2. result' = [q \in Requests |-> IF q \in S THEN "failed" ELSE result[q]]
    BY <1>1
  <2> HIDE DEF S, mine
  <2> QED
    BY <2>1, <2>2 DEF Abstract!Fail, Abstract!Move
<1>4. \A q \in S : result'[q] = "failed"
  BY <1>1
<1>5. S \in SUBSET Requests
  OBVIOUS
<1> HIDE DEF S, mine
<1> QED
  BY <1>1, <1>2, <1>3, <1>4, <1>5 DEF Served, Abstract!Next

\* Every step but the start of code serves the calls.
LEMMA StepServed ==
  ASSUME Types, SlotLife, QueueSound, [Next]_vars, UNCHANGED begun
  PROVE  Served
<1>1. CASE UNCHANGED vars
  BY <1>1 DEF vars, Served
<1>2. ASSUME NEW r \in Runners, Connections(r) PROVE Served
  <2>1. CASE Connect(r) \/ SocketCloses(r) \/ ConnectionLost(r)
    BY <2>1 DEF Connect, SocketCloses, ConnectionLost, broker, requests, Served
  <2> QED
    BY <1>2, <2>1, DeregisterServed DEF Connections
<1>3. ASSUME NEW r \in Runners, RunnerSteps(r) PROVE Served
  <2>1. UNCHANGED <<result, tasks>>
    BY <1>3 DEF RunnerSteps, OfferSlots, RunnerRegistered, OfferAccepted, OfferDeferred,
         ReceivedSettings, TaskCancelled, BrokerDrains, RunnerStops, RunnerCloses,
         RunnerCrashes, RunnerExits, broker, requests
  <2> QED
    BY <2>1 DEF Served
<1>4. CASE StartDraining \/ CloseConnections
  BY <1>4 DEF StartDraining, CloseConnections, requests, Served
<1> QED
  BY <1>1, <1>2, <1>3, <1>4, RequestServed, OfferServed, BrokerReadsServed DEF Next

\* An error, and a cancellation, are final.
LEMMA ErrorsStay ==
  ASSUME Types, Served, NEW q \in Requests, result[q] \in {"failed", "cancelled"}
  PROVE  result'[q] = result[q]
<1>1. ASSUME NEW S, NEW from \in {"idle", "queued", "tasked"}, NEW to, Abstract!Move(S, from, to)
      PROVE  result'[q] = result[q]
  BY <1>1 DEF Abstract!Move
<1>2. ASSUME Abstract!Next
      PROVE  result'[q] = result[q]
  BY <1>1, <1>2 DEF Abstract!Next, Abstract!Call, Abstract!Refuse, Abstract!Expire, Abstract!Take,
       Abstract!Lose, Abstract!Answer, Abstract!Cancel, Abstract!Fail, Abstract!Begin
<1> QED
  BY <1>2 DEF Served

\* What a runner offers anew was not accepted, and the rest is as before.
LEMMA OfferingWaits ==
  ASSUME NEW r, NEW at, NEW sent, NEW stale, SendOffers(r, at, sent, stale),
         NEW o \in Offers, atRunner'[o] = "waiting"
  PROVE  at[o] = "waiting"
<1>1. PICK new : atRunner' = [p \in Offers |-> IF p \in new THEN "open"
                                               ELSE IF p \in stale THEN "none" ELSE at[p]]
  BY DEF SendOffers
<1> QED
  BY <1>1

\* A task waits for its settings since the runner was asked for its offer.
LEMMA WaitsSince ==
  ASSUME Types, [Next]_vars, NEW o \in Offers, atRunner'[o] = "waiting"
  PROVE  atRunner[o] = "waiting" \/ Mail(toRunner[RunnerOf(o)], "accept", o)
<1>0. atRunner \in [Offers -> Places]
  BY DEF Types, TypeOK
<1>1. CASE UNCHANGED atRunner
  BY <1>1
<1>2. ASSUME NEW r \in Runners, Dies(r)
      PROVE  atRunner[o] = "waiting"
  BY <1>2 DEF Dies
<1>3. ASSUME NEW x \in Offers, NEW sent, FinishTask(x, sent)
      PROVE  atRunner[o] = "waiting"
  <2> DEFINE at == [atRunner EXCEPT ![x] = "none"]
  <2>1. PICK stale : SendOffers(RunnerOf(x), at, sent, stale)
    BY <1>3 DEF FinishTask
  <2>2. at[o] = "waiting"
    BY <2>1, OfferingWaits
  <2> QED
    BY <1>0, <2>2
<1>4. ASSUME NEW x, NEW v, v # "waiting", atRunner' = [atRunner EXCEPT ![x] = v]
      PROVE  atRunner[o] = "waiting"
  BY <1>0, <1>4
<1>5. ASSUME NEW r \in Runners, RunnerSteps(r)
      PROVE  atRunner[o] = "waiting" \/ Mail(toRunner[RunnerOf(o)], "accept", o)
  <2>1. CASE OfferSlots(r)
    BY <2>1, OfferingWaits DEF OfferSlots
  <2>2. CASE RunnerRegistered(r) \/ BrokerDrains(r)
    BY <1>1, <2>2 DEF RunnerRegistered, BrokerDrains
  <2>3. CASE OfferAccepted(r)
    <3>1. CASE \/ UNCHANGED atRunner
               \/ atRunner' = [atRunner EXCEPT ![Meant(r)] = "none"]
      BY <1>1, <1>4, <3>1
    <3>2. CASE atRunner' = [atRunner EXCEPT ![Meant(r)] = "waiting"]
      <4>1. CASE o # Meant(r)
        BY <1>0, <3>2, <4>1
      <4>2. CASE o = Meant(r)
        <5>1. /\ Reads(r, "accept") /\ toRunner[r] \in Seq(Calls(r)) /\ toRunner[r] # <<>>
              /\ Head(toRunner[r]).kind = "accept" /\ Head(toRunner[r]).offer = o
          BY <2>3, <4>2, ReadsFacts DEF OfferAccepted, Meant
        <5>2. Head(toRunner[r]) \in Calls(r) /\ o \in OffersOf({r})
          BY <5>1, CallFacts, HeadTailProperties
        <5>3. RunnerOf(o) = r
          BY <5>2 DEF OffersOf
        <5>4. Mail(toRunner[r], "accept", o)
          BY <5>1, <5>3, ReadsMail, <4>2
        <5> QED
          BY <5>3, <5>4
      <4> QED
        BY <4>1, <4>2
    <3> QED
      BY <2>3, <3>1, <3>2 DEF OfferAccepted
  <2>4. CASE OfferDeferred(r) \/ ReceivedSettings(r)
    <3>1. \/ UNCHANGED atRunner
          \/ \E x : \E v \in {"none", "running"} : atRunner' = [atRunner EXCEPT ![x] = v]
      BY <2>4 DEF OfferDeferred, ReceivedSettings
    <3> QED
      BY <1>1, <1>4, <3>1
  <2>5. CASE TaskCancelled(r)
    <3>1. Meant(r) \in Offers
      BY <2>5, ReadsFacts, CallFacts DEF TaskCancelled, Meant, OffersOf
    <3>2. \/ UNCHANGED atRunner \/ FinishTask(Meant(r), <<>>)
          \/ atRunner' = [atRunner EXCEPT ![Meant(r)] = "aborting"]
      BY <2>5 DEF TaskCancelled
    <3> QED
      BY <1>1, <1>3, <1>4, <3>1, <3>2
  <2>6. CASE RunnerStops(r)
    BY <1>0, <2>6 DEF RunnerStops
  <2>7. CASE RunnerCloses(r) \/ RunnerCrashes(r) \/ RunnerExits(r)
    BY <1>2, <2>7 DEF RunnerCloses, RunnerCrashes, RunnerExits
  <2> QED
    BY <1>5, <2>1, <2>2, <2>3, <2>4, <2>5, <2>6, <2>7 DEF RunnerSteps
<1>6. ASSUME NEW x \in Offers,
             \/ OfferExpires(x) \/ AcceptTimeout(x) \/ TaskTimeout(x) \/ Cancel(x)
             \/ TaskFinishes(x) \/ TaskTimedOut(x)
      PROVE  atRunner[o] = "waiting"
  <2>1. CASE OfferExpires(x) \/ AcceptTimeout(x) \/ Cancel(x)
    BY <1>1, <2>1 DEF OfferExpires, AcceptTimeout, Cancel
  <2>2. CASE TaskTimeout(x)
    <3>1. UNCHANGED atRunner \/ (RunnerOf(x) \in Runners /\ Dies(RunnerOf(x)))
      BY <2>2, OfferFacts DEF TaskTimeout
    <3> QED
      BY <1>1, <1>2, <3>1
  <2>3. CASE TaskFinishes(x)
    <3>1. \E sent : FinishTask(x, sent)
      BY <2>3 DEF TaskFinishes
    <3> QED
      BY <1>3, <3>1
  <2>4. CASE TaskTimedOut(x)
    <3>1. FinishTask(x, <<Message("result", x)>>) \/ atRunner' = [atRunner EXCEPT ![x] = "overdue"]
      BY <2>4 DEF TaskTimedOut
    <3> QED
      BY <1>3, <1>4, <3>1
  <2> QED
    BY <1>6, <2>1, <2>2, <2>3, <2>4
<1>7. CASE \/ \E q \in Requests : Request(q) \/ RequestTimeout(q)
           \/ \E r \in Runners : BrokerReads(r) \/ Connections(r)
           \/ StartDraining \/ CloseConnections \/ UNCHANGED vars
  <2>1. UNCHANGED atRunner
    BY <1>7 DEF Request, RequestTimeout, BrokerReads, TaskOffered, RunnerAccept, RunnerReject,
         RunnerDeferred, TaskResult, Connections, Connect, SocketCloses, ConnectionLost,
         Deregister, StartDraining, CloseConnections, vars
  <2> QED
    BY <1>1, <2>1
<1> QED
  BY <1>5, <1>6, <1>7 DEF Next

\* The settings of a request find the task they are for, or no task: one that waits for
\* settings on their way is tracked for that request, unless the caller knows of an error.
Owed ==
  \A o \in Offers :
    /\ Apart(toRunner[RunnerOf(o)], o)
    /\ \A q \in Requests : Given(toRunner[RunnerOf(o)], o, q) /\ atRunner[o] = "waiting" =>
         tasks[o] = q \/ result[q] \in {"failed", "cancelled"}

\* A step that sends no settings keeps that.
LEMMA OwedQuiet ==
  ASSUME Types, SlotLife, Owed, [Next]_vars, Served, Quiet
  PROVE  Owed'
<1> SUFFICES ASSUME NEW o \in Offers
             PROVE  /\ Apart(toRunner'[RunnerOf(o)], o)
                    /\ \A q \in Requests :
                         Given(toRunner'[RunnerOf(o)], o, q) /\ atRunner'[o] = "waiting" =>
                           tasks'[o] = q \/ result'[q] \in {"failed", "cancelled"}
  BY DEF Owed
<1>1. RunnerOf(o) \in Runners
  BY OfferFacts
<1>2. /\ Apart(toRunner'[RunnerOf(o)], o)
      /\ \A q : Given(toRunner'[RunnerOf(o)], o, q) => Given(toRunner[RunnerOf(o)], o, q)
  BY <1>1 DEF Owed, Quiet, NoMore
<1>3. ASSUME NEW q \in Requests, Given(toRunner'[RunnerOf(o)], o, q), atRunner'[o] = "waiting"
      PROVE  tasks'[o] = q \/ result'[q] \in {"failed", "cancelled"}
  <2>1. Given(toRunner[RunnerOf(o)], o, q)
    BY <1>2, <1>3
  <2>2. Mail(toRunner[RunnerOf(o)], "settings", o)
    BY <2>1 DEF Given, Mail
  <2>3. atRunner[o] = "waiting"
    BY <1>3, <2>2, WaitsSince DEF Owed, Apart
  <2>4. CASE result[q] \in {"failed", "cancelled"}
    BY <2>4, ErrorsStay
  <2>5. CASE tasks[o] = q
    <3>1. ~Mail(toBroker[RunnerOf(o)], "result", o)
      BY <2>3 DEF SlotLife, LifeOf, Life
    <3>2. q # 0
      BY Bounds
    <3> QED
      BY <2>5, <3>1, <3>2 DEF Served
  <2> QED
    BY <2>1, <2>3, <2>4, <2>5 DEF Owed
<1> QED
  BY <1>2, <1>3

\* Settings are sent for a task that is tracked from then on.
LEMMA OwedTaken ==
  ASSUME Types, SlotLife, Owed, NEW o \in Offers, NEW q \in Requests, TakesUp(o, q)
  PROVE  Owed'
<1> DEFINE r == RunnerOf(o)
           m == Settings(o, q)
<1>1. r \in Runners /\ m \in Calls(r) /\ m.kind = "settings" /\ m.offer = o /\ m.request = q
  <2>1. r \in Runners /\ o \in OffersOf({r})
    BY OfferFacts
  <2> HIDE DEF r
  <2> QED
    BY <2>1, CallMade DEF Settings
<1>2. toRunner[r] \in Seq(Calls(r)) /\ ChannelsTyped(toRunner)
  BY <1>1 DEF Types, ChannelsTyped
<1> HIDE DEF r, m
<1>3. /\ \A s \in Runners : s # r => toRunner'[s] = toRunner[s]
      /\ toRunner'[r] = toRunner[r] \/ toRunner'[r] = Append(toRunner[r], m)
  BY <1>1, <1>2, TellFacts DEF TakesUp, r, m
<1>4. /\ \A x \in Offers : x # o => tasks'[x] = tasks[x]
      /\ tasks'[o] = q
      /\ \A p \in Requests : result[p] \in {"failed", "cancelled"} => result'[p] = result[p]
  BY DEF TakesUp, Types, TypeOK
<1>5. UNCHANGED atRunner
  BY DEF TakesUp
<1>6. tasks[o] = 0 /\ ~Mail(toRunner[r], "accept", o)
  <2>1. accepting[o] # 0
    BY Bounds DEF TakesUp
  <2>2. Mail(toBroker[r], "accepted", o)
    BY DEF TakesUp, r
  <2>3. Mentions(toBroker[r], o)
    BY <2>2, MailMentions
  <2>4. LifeOf(o)
    BY DEF SlotLife
  <2> QED
    BY <2>1, <2>3, <2>4 DEF LifeOf, Life, r
<1>7. /\ \A k, x : Mail(Append(toRunner[r], m), k, x) =>
                     Mail(toRunner[r], k, x) \/ (k = "settings" /\ x = o)
      /\ \A x, p : Given(Append(toRunner[r], m), x, p) =>
                     Given(toRunner[r], x, p) \/ (x = o /\ p = q)
  <2> DEFINE t == Append(toRunner[r], m)
  <2>1. \A i \in DOMAIN t : t[i] = m \/ (i \in DOMAIN toRunner[r] /\ t[i] = toRunner[r][i])
    BY <1>1, <1>2, AppendProperties
  <2> HIDE DEF t
  <2>2. /\ \A k, x : Mail(t, k, x) => Mail(toRunner[r], k, x) \/ (k = "settings" /\ x = o)
        /\ \A x, p : Given(t, x, p) => Given(toRunner[r], x, p) \/ (x = o /\ p = q)
    BY <1>1, <2>1 DEF Mail, Given
  <2> QED
    BY <2>2 DEF t
<1> SUFFICES ASSUME NEW x \in Offers
             PROVE  /\ Apart(toRunner'[RunnerOf(x)], x)
                    /\ \A p \in Requests :
                         Given(toRunner'[RunnerOf(x)], x, p) /\ atRunner'[x] = "waiting" =>
                           tasks'[x] = p \/ result'[p] \in {"failed", "cancelled"}
  BY DEF Owed
<1>8. RunnerOf(x) \in Runners
  BY OfferFacts
<1>9. /\ \A k : Mail(toRunner'[RunnerOf(x)], k, x) =>
                  Mail(toRunner[RunnerOf(x)], k, x) \/ (k = "settings" /\ x = o)
      /\ \A p : Given(toRunner'[RunnerOf(x)], x, p) =>
                  Given(toRunner[RunnerOf(x)], x, p) \/ (x = o /\ p = q)
  BY <1>3, <1>7, <1>8
<1>10. /\ Apart(toRunner[RunnerOf(x)], x)
       /\ \A p \in Requests : Given(toRunner[RunnerOf(x)], x, p) /\ atRunner[x] = "waiting" =>
            tasks[x] = p \/ result[p] \in {"failed", "cancelled"}
  BY DEF Owed
<1>11. Apart(toRunner'[RunnerOf(x)], x)
  BY <1>6, <1>9, <1>10 DEF Apart, r
<1>12. ASSUME NEW p \in Requests, Given(toRunner'[RunnerOf(x)], x, p), atRunner'[x] = "waiting"
       PROVE  tasks'[x] = p \/ result'[p] \in {"failed", "cancelled"}
  <2>1. CASE x = o /\ p = q
    BY <1>4, <2>1
  <2>2. CASE ~(x = o /\ p = q)
    <3>1. tasks[x] = p \/ result[p] \in {"failed", "cancelled"}
      BY <1>5, <1>9, <1>10, <1>12, <2>2
    <3>2. p # 0
      BY Bounds
    <3> QED
      BY <1>4, <1>6, <3>1, <3>2
  <2> QED
    BY <2>1, <2>2
<1> QED
  BY <1>11, <1>12

\* The settings arrive: the code begins to run for a caller that may find that it does.
LEMMA BeginsOnce ==
  ASSUME Types, QueueSound, OnceSound, Owed, NEW r \in Runners, ReceivedSettings(r),
         begun' # begun
  PROVE  Abstract!Next
<1> DEFINE m == Head(toRunner[r])
<1>1. /\ toRunner[r] \in Seq(Calls(r)) /\ toRunner[r] # <<>>
      /\ m \in Calls(r) /\ m.kind = "settings"
  BY ReadsFacts DEF ReceivedSettings
<1>2. PICK q \in Requests, o \in Offers : q = m.request /\ o = m.offer /\ RunnerOf(o) = r
  BY <1>1, CallFacts DEF OffersOf
<1>3. 1 \in DOMAIN toRunner[r] /\ m = toRunner[r][1]
  BY <1>1
<1>4. Given(toRunner[r], o, q) /\ Carried(toRunner[r], q)
  BY <1>1, <1>2, <1>3 DEF Given, Carried
<1>5. atRunner[o] = "waiting" /\ begun' = [begun EXCEPT ![q] = @ + 1] /\ UNCHANGED result
  BY <1>2 DEF ReceivedSettings, broker, requests
<1>6. begun[q] = 0
  BY <1>4 DEF OnceSound
<1>7. result[q] \in {"tasked", "failed", "cancelled"}
  <2>1. tasks[o] = q \/ result[q] \in {"failed", "cancelled"}
    BY <1>2, <1>4, <1>5 DEF Owed
  <2>2. q # 0
    BY Bounds
  <2> QED
    BY <2>1, <2>2, TaskOfCaller
<1>8. begun' = [begun EXCEPT ![q] = 1]
  BY <1>5, <1>6
<1>9. Abstract!Begin(q)
  BY <1>5, <1>6, <1>7, <1>8 DEF Abstract!Begin
<1> QED
  BY <1>9 DEF Abstract!Next

\* Every step keeps what is owed.
LEMMA OwedStep ==
  ASSUME Types, SlotLife, QueueSound, OnceSound, Owed, [Next]_vars
  PROVE  Owed' /\ [Abstract!Next]_(Abstract!vars)
<1>1. CASE UNCHANGED begun
  <2>1. Served
    BY <1>1, StepServed
  <2>2. [Abstract!Next]_(Abstract!vars)
    BY <1>1, <2>1 DEF Served, Abstract!vars
  <2> QED
    BY <2>1, <2>2, StepQuiet, OwedQuiet, OwedTaken
<1>2. CASE begun' # begun
  <2>1. PICK r \in Runners : ReceivedSettings(r)
    BY <1>2, BegunKept
  <2>2. Abstract!Next
    BY <1>2, <2>1, BeginsOnce
  <2>3. Served
    <3>1. UNCHANGED <<result, tasks>>
      BY <2>1 DEF ReceivedSettings, broker, requests
    <3> QED
      BY <3>1 DEF Served
  <2>4. Quiet
    BY <2>1, RunnerQuiet DEF RunnerSteps
  <2> QED
    BY <2>2, <2>3, <2>4, OwedQuiet
<1> QED
  BY <1>1, <1>2

\* The broker with its runners implements the calls of CodeCall: a call is settled once
\* and for all, its code begins once at most, after a runner took it, and never once its
\* answer was returned; whatever is lost, late or restarted.
THEOREM CallsImplemented == Spec => CallLifecycle
<1>1. Init => Types /\ SlotLife /\ QueueSound /\ OnceSound
  BY InitTypes, InitLife, InitBooks, InitOnce
<1>2. Init => Owed /\ Abstract!Init
  <2>1. ASSUME Init
        PROVE  \A r \in Runners : toRunner[r] = <<>>
    BY <2>1 DEF Init
  <2>2. \A o, q : Apart(<<>>, o) /\ ~Given(<<>>, o, q)
    BY DEF Apart, Given, Mail
  <2>3. \A o \in Offers : RunnerOf(o) \in Runners
    BY OfferFacts
  <2>4. Init => Abstract!Init
    BY DEF Init, Abstract!Init
  <2> QED
    BY <2>1, <2>2, <2>3, <2>4 DEF Owed
<1>3. /\ Types /\ SlotLife /\ QueueSound /\ OnceSound /\ Owed /\ [Next]_vars
      => /\ Types' /\ SlotLife' /\ QueueSound' /\ OnceSound' /\ Owed'
         /\ [Abstract!Next]_(Abstract!vars)
  BY TypesStep, LifeStep, BooksStep, OnceStep, OwedStep
<1> QED
  BY <1>1, <1>2, <1>3, PTL DEF Spec, CallLifecycle, Abstract!Spec
=============================================================================
