---------------------------- MODULE KernelProofs ----------------------------
(***************************************************************************)
(* What the kernel asserts, and that what is given is not lost, for every  *)
(* set of threads, every order of priorities with the idle thread at its   *)
(* end, every set of events and every number of tokens; and that the       *)
(* virtual timers' alarm is always the one that their list needs, so that  *)
(* they implement TimerService, for every set of timers, every width of    *)
(* the counter and all delays under PollsKeepPace.                         *)
(***************************************************************************)
EXTENDS Kernel, VirtualTimers, FiniteSetTheorems, SequenceTheorems, WellFoundedInduction, TLAPS

Kinds == {"none", "WTSEM", "SUSPENDED", "SLEEPING", "WTOREVT"}
Msgs == {"OK", "RESET", "TIMEOUT"}

-----------------------------------------------------------------------------
(* The invariant.  M stands for the threads that do not wait, of a ready list *)
(* in the middle of a call or at its end.                                     *)

Members(r) == {r.current} \cup ToSet(r.queue)
FallingPrio(q) == \A i, j \in DOMAIN q : i < j => Prio[q[i]] >= Prio[q[j]]
IsQueue(q) == q \in Seq(Threads) /\ IsInjective(q) /\ FallingPrio(q)

ListTrue(r) ==
    /\ r = [current |-> r.current, queue |-> r.queue] /\ r.current \in Threads
    /\ IsQueue(r.queue) /\ r.current \notin ToSet(r.queue)

TopRuns(r) == \A t \in ToSet(r.queue) : Prio[t] <= Prio[r.current]

CallsTrue(M, calls) ==
    /\ calls \in [Threads -> Kinds] /\ calls[idle] = "none"
    /\ \A t \in Threads \ M : calls[t] # "none"

TimersTrue(calls, timers) ==
    timers \in [Threads -> BOOLEAN] /\ \A t \in Threads : timers[t] => calls[t] # "none"

SemTrue(M, calls, cnt, queue) ==
    /\ cnt \in Int /\ queue \in Seq(Threads) /\ IsInjective(queue)
    /\ cnt >= 0 => queue = <<>>
    /\ cnt < 0 => Len(queue) = -cnt
    /\ ToSet(queue) = {t \in Threads \ M : calls[t] = "WTSEM"}

RefTrue(M, calls, ref) ==
    /\ ref \in Threads \cup {NoThread}
    /\ \A t \in Threads : ref = t <=> t \notin M /\ calls[t] = "SUSPENDED"

\* The threads that are about to return with a token.
Takers(M, calls, msgs) == {t \in M : calls[t] = "WTSEM" /\ msgs[t] = "OK"}
Free(cnt) == IF cnt > 0 THEN cnt ELSE 0
TokensTrue(M, calls, msgs, cnt, given) ==
    msgs \in [Threads -> Msgs] /\ given = Free(cnt) + Cardinality(Takers(M, calls, msgs))

EventsTrue(M, calls, pending, masks) ==
    /\ pending \in [Threads -> SUBSET Events] /\ masks \in [Threads -> SUBSET Events]
    /\ \A t \in Threads \ M : calls[t] = "WTOREVT" => pending[t] \cap masks[t] = {}

\* The thread that runs is in no call.
IInv ==
    /\ ListTrue(rlist) /\ TopRuns(rlist) /\ call[currp] = "none"
    /\ CallsTrue(Members(rlist), call) /\ TimersTrue(call, timer)
    /\ SemTrue(Members(rlist), call, s_cnt, s_queue)
    /\ RefTrue(Members(rlist), call, trp)
    /\ TokensTrue(Members(rlist), call, rdymsg, s_cnt, tokens)
    /\ EventsTrue(Members(rlist), call, epending, ewmask)

-----------------------------------------------------------------------------
(* Sequences.                                                                *)

\* What putting an element into a sequence gives.
LEMMA InsertAtElements ==
    ASSUME NEW S, NEW q \in Seq(S), NEW e \in S, NEW i \in 1..(Len(q) + 1)
    PROVE  /\ InsertAt(q, i, e) \in Seq(S)
           /\ Len(InsertAt(q, i, e)) = Len(q) + 1
           /\ \A j \in 1..(Len(q) + 1) :
                  InsertAt(q, i, e)[j] = IF j < i THEN q[j]
                                         ELSE IF j = i THEN e ELSE q[j - 1]
<1> DEFINE a == SubSeq(q, 1, i - 1)
           c == SubSeq(q, i, Len(q))
           ae == a \o <<e>>
<1>1. Len(q) \in Nat /\ a \in Seq(S) /\ Len(a) = i - 1 /\ \A j \in 1..(i - 1) : a[j] = q[j]
  OBVIOUS
<1>2. /\ c \in Seq(S) /\ Len(c) = Len(q) - i + 1
      /\ \A j \in 1..(Len(q) - i + 1) : c[j] = q[i + j - 1]
  OBVIOUS
<1>3. InsertAt(q, i, e) = ae \o c
  BY DEF InsertAt
<1>4. <<e>> \in Seq(S) /\ Len(<<e>>) = 1 /\ <<e>>[1] = e
  OBVIOUS
<1> HIDE DEF a, c
<1>5. ae \in Seq(S) /\ Len(ae) = i /\ \A j \in 1..i : ae[j] = IF j < i THEN q[j] ELSE e
  BY <1>1, <1>4, ConcatProperties
<1> HIDE DEF ae
<1>6. ae \o c \in Seq(S) /\ Len(ae \o c) = Len(q) + 1
  <2>1. ae \o c \in Seq(S) /\ Len(ae \o c) = Len(ae) + Len(c)
    BY <1>5, <1>2, ConcatProperties, Zenon
  <2> QED BY <2>1, <1>5, <1>2
<1>7. ASSUME NEW j \in 1..(Len(q) + 1)
      PROVE  (ae \o c)[j] = IF j < i THEN q[j] ELSE IF j = i THEN e ELSE q[j - 1]
  <2>1. CASE j <= i
    BY <2>1, <1>5, <1>2, ConcatProperties
  <2>2. CASE j > i
    <3>1. PICK k \in 1..(Len(q) - i + 1) : j = k + i
      BY <2>2
    <3>2. (ae \o c)[j] = c[j - i]
      BY <2>2, <1>5, <1>2, ConcatProperties
    <3>3. j - i = k /\ c[k] = q[i + k - 1] /\ i + k - 1 = j - 1
      BY <3>1, <1>2
    <3> QED BY <3>2, <3>3, <2>2
  <2>3. j <= i \/ j > i
    BY <1>1
  <2> QED BY <2>1, <2>2, <2>3, Zenon
<1> QED BY <1>3, <1>6, <1>7

\* What taking an element out of a sequence leaves.
LEMMA RemoveAtElements ==
    ASSUME NEW S, NEW q \in Seq(S), NEW i \in 1..Len(q)
    PROVE  /\ RemoveAt(q, i) \in Seq(S)
           /\ Len(RemoveAt(q, i)) = Len(q) - 1
           /\ \A j \in 1..(Len(q) - 1) :
                  RemoveAt(q, i)[j] = IF j < i THEN q[j] ELSE q[j + 1]
<1> DEFINE a == SubSeq(q, 1, i - 1)
           c == SubSeq(q, i + 1, Len(q))
<1>1. Len(q) \in Nat /\ a \in Seq(S) /\ Len(a) = i - 1 /\ \A j \in 1..(i - 1) : a[j] = q[j]
  OBVIOUS
<1>2. c \in Seq(S) /\ Len(c) = Len(q) - i /\ \A j \in 1..(Len(q) - i) : c[j] = q[i + j]
  OBVIOUS
<1>3. RemoveAt(q, i) = a \o c
  BY DEF RemoveAt
<1> HIDE DEF a, c
<1>4. a \o c \in Seq(S) /\ Len(a \o c) = Len(q) - 1
  <2>1. a \o c \in Seq(S) /\ Len(a \o c) = Len(a) + Len(c)
    BY <1>1, <1>2, ConcatProperties, Zenon
  <2> QED BY <2>1, <1>1, <1>2
<1>5. ASSUME NEW j \in 1..(Len(q) - 1)
      PROVE  (a \o c)[j] = IF j < i THEN q[j] ELSE q[j + 1]
  <2>1. CASE j < i
    BY <2>1, <1>1, <1>2, ConcatProperties
  <2>2. CASE ~(j < i)
    <3>1. (a \o c)[j] = c[j - (i - 1)]
      BY <2>2, <1>1, <1>2, ConcatProperties
    <3>2. j - (i - 1) \in 1..(Len(q) - i)
      BY <2>2
    <3> QED BY <3>1, <3>2, <2>2, <1>2
  <2> QED BY <2>1, <2>2
<1> QED BY <1>3, <1>4, <1>5

\* The head and the tail of a queue.
LEMMA TailElements ==
    ASSUME NEW q \in Seq(Threads), IsInjective(q), q # <<>>
    PROVE  /\ Head(q) \in ToSet(q) /\ Head(q) \in Threads
           /\ Tail(q) \in Seq(Threads) /\ IsInjective(Tail(q)) /\ Len(Tail(q)) = Len(q) - 1
           /\ ToSet(Tail(q)) = ToSet(q) \ {Head(q)}
           /\ FallingPrio(q) => /\ FallingPrio(Tail(q))
                             /\ \A t \in ToSet(Tail(q)) : Prio[t] <= Prio[Head(q)]
<1>1. /\ Head(q) = q[1] /\ Len(q) \in Nat /\ Len(q) >= 1 /\ DOMAIN q = 1..Len(q)
      /\ q \in [1..Len(q) -> Threads]
  OBVIOUS
<1>2. /\ Tail(q) \in Seq(Threads) /\ Len(Tail(q)) = Len(q) - 1
      /\ DOMAIN Tail(q) = 1..(Len(q) - 1)
      /\ \A i \in 1..(Len(q) - 1) : Tail(q)[i] = q[i + 1]
  BY <1>1
<1>3. ToSet(Tail(q)) = ToSet(q) \ {Head(q)}
  <2>1. ASSUME NEW t \in ToSet(Tail(q))
        PROVE  t \in ToSet(q) \ {Head(q)}
    BY <1>1, <1>2 DEF ToSet, IsInjective
  <2>2. ASSUME NEW t \in ToSet(q), t # Head(q)
        PROVE  t \in ToSet(Tail(q))
    <3>1. PICK i \in 1..Len(q) : t = q[i] /\ i # 1
      BY <1>1, <2>2 DEF ToSet
    <3>2. i - 1 \in 1..(Len(q) - 1) /\ Tail(q)[i - 1] = t
      BY <1>1, <1>2, <3>1
    <3> QED BY <3>2, <1>2 DEF ToSet
  <2> QED BY <2>1, <2>2
<1>4. IsInjective(Tail(q))
  BY <1>1, <1>2 DEF IsInjective
<1>5. ASSUME FallingPrio(q)
      PROVE  FallingPrio(Tail(q)) /\ \A t \in ToSet(Tail(q)) : Prio[t] <= Prio[Head(q)]
  <2>1. FallingPrio(Tail(q))
    BY <1>1, <1>2, <1>5 DEF FallingPrio
  <2>2. ASSUME NEW t \in ToSet(Tail(q))
        PROVE  Prio[t] <= Prio[Head(q)]
    <3>1. PICK i \in 1..(Len(q) - 1) : t = q[i + 1]
      BY <1>2 DEF ToSet
    <3>2. Prio[q[1]] >= Prio[q[i + 1]]
      BY <1>1, <1>5, <3>1 DEF FallingPrio
    <3>3. Prio[q[1]] \in Nat /\ Prio[t] \in Nat
      BY <1>1, <3>1, PrioAssumption
    <3> QED BY <3>1, <3>2, <3>3, <1>1
  <2> QED BY <2>1, <2>2
<1>6. Head(q) \in ToSet(q) /\ Head(q) \in Threads
  BY <1>1 DEF ToSet
<1> QED BY <1>2, <1>3, <1>4, <1>5, <1>6

-----------------------------------------------------------------------------
(* The ready list.                                                           *)

\* Priorities are numbers.
LEMMA PrioType == \A t \in Threads : Prio[t] \in Nat
BY PrioAssumption

\* The elements of a sequence.
LEMMA SeqTypes == \A q \in Seq(Threads) : ToSet(q) \subseteq Threads
BY DEF ToSet

\* Those that have at least the given priority are the first of a queue.
AtLeast(q, least) == {i \in DOMAIN q : Prio[q[i]] >= least}
LEMMA FirstOnes ==
    ASSUME NEW q, IsQueue(q), NEW least \in Int
    PROVE  LET n == Cardinality(AtLeast(q, least))
           IN  /\ n \in 0..Len(q)
               /\ \A i \in 1..n : Prio[q[i]] >= least
               /\ n < Len(q) => Prio[q[n + 1]] < least
<1> DEFINE T == {n \in 0..Len(q) : n < Len(q) => Prio[q[n + 1]] < least}
<1>1. /\ Len(q) \in Nat /\ DOMAIN q = 1..Len(q) /\ Len(q) \in T /\ T \subseteq Nat
      /\ \A i \in 1..Len(q) : Prio[q[i]] \in Nat
  BY PrioType DEF IsQueue
<1>2. PICK n \in T : \A m \in T : <<m, n>> \notin OpToRel(<, Nat)
  BY <1>1, NatLessThanWellFounded, WFMin
<1>3. \A m \in T : ~(m < n)
  BY <1>1, <1>2 DEF OpToRel
<1>4. ASSUME NEW i \in 1..n
      PROVE  Prio[q[i]] >= least
  <2>1. /\ i - 1 \in 0..Len(q) /\ i - 1 < Len(q) /\ i - 1 < n /\ (i - 1) + 1 = i
        /\ i \in 1..Len(q)
    BY <1>1
  <2>2. i - 1 \notin T
    BY <2>1, <1>3
  <2>3. ~(Prio[q[i]] < least)
    BY <2>1, <2>2
  <2> QED BY <2>1, <2>3, <1>1
<1>5. n \in 0..Len(q) /\ (n < Len(q) => Prio[q[n + 1]] < least)
  OBVIOUS
<1> HIDE DEF T
<1>6. ASSUME NEW i \in 1..Len(q), i > n
      PROVE  Prio[q[i]] < least
  <2>1. n + 1 \in 1..Len(q) /\ Prio[q[n + 1]] < least
    BY <1>1, <1>5, <1>6
  <2>2. \A k, l \in 1..Len(q) : k < l => Prio[q[k]] >= Prio[q[l]]
    BY <1>1 DEF IsQueue, FallingPrio
  <2>3. n + 1 = i \/ n + 1 < i
    BY <1>5, <1>6
  <2>4. Prio[q[i]] \in Nat /\ Prio[q[n + 1]] \in Nat
    BY <2>1, <1>1
  <2> QED BY <2>1, <2>2, <2>3, <2>4
<1>7. AtLeast(q, least) = 1..n
  <2>1. ASSUME NEW i \in AtLeast(q, least)
        PROVE  i \in 1..n
    BY <1>1, <1>5, <1>6 DEF AtLeast
  <2>2. ASSUME NEW i \in 1..n
        PROVE  i \in AtLeast(q, least)
    BY <1>1, <1>4, <1>5 DEF AtLeast
  <2> QED BY <2>1, <2>2
<1>8. Cardinality(AtLeast(q, least)) = n
  BY <1>5, <1>7, FS_Interval
<1> QED BY <1>4, <1>5, <1>8

\* A thread that is inserted at its priority, behind or before its peers.
LEMMA InsertAfterQueue ==
    ASSUME NEW q, IsQueue(q), NEW t \in Threads \ ToSet(q),
           NEW least \in {Prio[t], Prio[t] + 1}
    PROVE  IsQueue(InsertAfter(q, t, least)) /\ ToSet(InsertAfter(q, t, least)) = ToSet(q) \cup {t}
<1>1. /\ q \in Seq(Threads) /\ Len(q) \in Nat /\ DOMAIN q = 1..Len(q)
      /\ \A i \in 1..Len(q) : q[i] \in Threads /\ q[i] # t /\ Prio[q[i]] \in Nat
      /\ t \in Threads /\ Prio[t] \in Nat /\ least \in Int
  BY PrioType DEF IsQueue, ToSet
<1> DEFINE n == Cardinality(AtLeast(q, least))
           r == InsertAt(q, n + 1, t)
<1>2. /\ n \in 0..Len(q) /\ \A i \in 1..n : Prio[q[i]] >= least
      /\ n < Len(q) => Prio[q[n + 1]] < least
  BY <1>1, FirstOnes
<1>3. InsertAfter(q, t, least) = r
  BY DEF InsertAfter, AtLeast
<1> HIDE DEF n
<1>4. /\ r \in Seq(Threads) /\ Len(r) = Len(q) + 1 /\ DOMAIN r = 1..(Len(q) + 1)
      /\ \A j \in 1..(Len(q) + 1) :
             r[j] = IF j < n + 1 THEN q[j] ELSE IF j = n + 1 THEN t ELSE q[j - 1]
  <2>1. n + 1 \in 1..(Len(q) + 1)
    BY <1>2, <1>1
  <2>2. q \in Seq(Threads) /\ t \in Threads
    BY <1>1
  <2> HIDE DEF r
  <2>4. InsertAt(q, n + 1, t) \in Seq(Threads)
    BY <2>1, <2>2, InsertAtElements
  <2>5. Len(InsertAt(q, n + 1, t)) = Len(q) + 1
    BY <2>1, <2>2, InsertAtElements
  <2>6. \A j \in 1..(Len(q) + 1) :
             InsertAt(q, n + 1, t)[j] =
                 IF j < n + 1 THEN q[j] ELSE IF j = n + 1 THEN t ELSE q[j - 1]
    BY <2>1, <2>2, InsertAtElements
  <2>3. /\ r \in Seq(Threads) /\ Len(r) = Len(q) + 1
        /\ \A j \in 1..(Len(q) + 1) :
             r[j] = IF j < n + 1 THEN q[j] ELSE IF j = n + 1 THEN t ELSE q[j - 1]
    BY <2>4, <2>5, <2>6 DEF r
  <2> HIDE DEF r
  <2> QED BY <2>3
<1> HIDE DEF r
<1>5. ToSet(r) = ToSet(q) \cup {t}
  <2>1. ASSUME NEW u \in ToSet(r)
        PROVE  u \in ToSet(q) \cup {t}
    <3>1. PICK j \in 1..(Len(q) + 1) : u = r[j]
      BY <1>4 DEF ToSet
    <3>2. u = t \/ \E i \in 1..Len(q) : u = q[i]
      <4>1. CASE j < n + 1
        BY <4>1, <3>1, <1>1, <1>2, <1>4
      <4>2. CASE j > n + 1
        <5>1. j - 1 \in 1..Len(q) /\ r[j] = q[j - 1]
          BY <4>2, <1>1, <1>2, <1>4
        <5> QED BY <5>1, <3>1
      <4> QED BY <4>1, <4>2, <3>1, <1>2, <1>4
    <3> QED BY <3>2, <1>1 DEF ToSet
  <2>2. t \in ToSet(r)
    <3>1. n + 1 \in DOMAIN r /\ r[n + 1] = t
      BY <1>1, <1>2, <1>4
    <3> QED BY <3>1 DEF ToSet
  <2>3. ASSUME NEW u \in ToSet(q)
        PROVE  u \in ToSet(r)
    <3>1. PICK i \in 1..Len(q) : u = q[i]
      BY <1>1 DEF ToSet
    <3>2. CASE i < n + 1
      <4>1. i \in DOMAIN r /\ r[i] = u
        BY <1>1, <1>2, <1>4, <3>1, <3>2
      <4> QED BY <4>1 DEF ToSet
    <3>3. CASE ~(i < n + 1)
      <4>1. i + 1 \in DOMAIN r /\ r[i + 1] = u
        BY <1>1, <1>2, <1>4, <3>1, <3>3
      <4> QED BY <4>1 DEF ToSet
    <3> QED BY <3>2, <3>3
  <2> QED BY <2>1, <2>2, <2>3
<1>6. ASSUME NEW i \in 1..(Len(q) + 1), NEW j \in 1..(Len(q) + 1), i < j
      PROVE  r[i] # r[j] /\ Prio[r[i]] >= Prio[r[j]]
  <2>1. \A k, l \in 1..Len(q) : k < l => q[k] # q[l] /\ Prio[q[k]] >= Prio[q[l]]
    BY <1>1 DEF IsQueue, IsInjective, FallingPrio
  <2>2. \A k \in 1..n : Prio[q[k]] >= Prio[t]
    BY <1>1, <1>2
  <2>3. \A k \in (n + 1)..Len(q) : Prio[q[k]] <= Prio[t]
    <3>1. ASSUME n < Len(q)
          PROVE  Prio[q[n + 1]] <= Prio[t]
      BY <3>1, <1>1, <1>2
    <3> QED BY <3>1, <2>1, <1>1, <1>2
  <2>4. r[i] = IF i < n + 1 THEN q[i] ELSE IF i = n + 1 THEN t ELSE q[i - 1]
    BY <1>4
  <2>5. r[j] = IF j < n + 1 THEN q[j] ELSE IF j = n + 1 THEN t ELSE q[j - 1]
    BY <1>4
  <2>6. Len(q) \in Nat /\ n \in 0..Len(q)
    BY <1>1, <1>2
  <2>7. \A k \in 1..Len(q) : q[k] # t
    BY <1>1
  <2>8. CASE j < n + 1
    BY <2>8, <1>6, <2>1, <2>4, <2>5, <2>6
  <2>9. CASE j = n + 1
    BY <2>9, <1>6, <2>2, <2>4, <2>5, <2>6, <2>7
  <2>10. CASE j > n + 1
    <3>1. j - 1 \in 1..Len(q) /\ j - 1 \in (n + 1)..Len(q) /\ r[j] = q[j - 1]
      BY <2>10, <2>5, <2>6
    <3>2. CASE i < n + 1
      BY <3>1, <3>2, <2>1, <2>4, <2>6
    <3>3. CASE i = n + 1
      BY <3>1, <3>3, <2>3, <2>4, <2>6, <2>7
    <3>4. CASE i > n + 1
      <4>1. i - 1 \in 1..Len(q) /\ i - 1 < j - 1 /\ r[i] = q[i - 1]
        BY <3>4, <1>6, <2>4, <2>6
      <4> QED BY <3>1, <4>1, <2>1
    <3> QED BY <3>2, <3>3, <3>4, <2>6
  <2> QED BY <2>8, <2>9, <2>10, <2>6
<1>7. IsInjective(r) /\ FallingPrio(r)
  BY <1>1, <1>4, <1>6 DEF IsInjective, FallingPrio
<1> QED BY <1>3, <1>4, <1>5, <1>7 DEF IsQueue

\* chSchReadyI readies a thread that waits.
LEMMA ReadyList ==
    ASSUME NEW r, ListTrue(r), NEW t \in Threads \ Members(r)
    PROVE  /\ ListTrue(chSchReadyI(r, t)) /\ chSchReadyI(r, t).current = r.current
           /\ Members(chSchReadyI(r, t)) = Members(r) \cup {t}
           /\ TopRuns(r) /\ Prio[t] <= Prio[r.current] => TopRuns(chSchReadyI(r, t))
<1> DEFINE q == InsertAfter(r.queue, t, Prio[t])
<1>1. chSchReadyI(r, t) = [current |-> r.current, queue |-> q]
  BY DEF chSchReadyI, ListTrue
<1>2. IsQueue(q) /\ ToSet(q) = ToSet(r.queue) \cup {t}
  BY InsertAfterQueue DEF ListTrue, Members
<1> HIDE DEF q
<1> QED BY <1>1, <1>2 DEF ListTrue, Members, TopRuns

\* chSchGoSleepS takes the current thread off.
LEMMA SleepList ==
    ASSUME NEW r, ListTrue(r), r.queue # <<>>
    PROVE  /\ ListTrue(chSchGoSleepS(r)) /\ TopRuns(chSchGoSleepS(r))
           /\ chSchGoSleepS(r).current \in ToSet(r.queue)
           /\ Members(chSchGoSleepS(r)) = Members(r) \ {r.current}
<1>1. /\ Head(r.queue) \in ToSet(r.queue) /\ Head(r.queue) \in Threads
      /\ IsQueue(Tail(r.queue)) /\ ToSet(Tail(r.queue)) = ToSet(r.queue) \ {Head(r.queue)}
      /\ \A t \in ToSet(Tail(r.queue)) : Prio[t] <= Prio[Head(r.queue)]
  BY TailElements DEF ListTrue, IsQueue
<1>2. chSchGoSleepS(r) = [current |-> Head(r.queue), queue |-> Tail(r.queue)]
  BY DEF chSchGoSleepS
<1> QED BY <1>1, <1>2 DEF ListTrue, Members, TopRuns

\* chSchRescheduleS leaves a thread of the highest priority that is ready running.
LEMMA RescheduleList ==
    ASSUME NEW r, ListTrue(r)
    PROVE  /\ ListTrue(chSchRescheduleS(r)) /\ TopRuns(chSchRescheduleS(r))
           /\ Members(chSchRescheduleS(r)) = Members(r)
<1> DEFINE h == Head(r.queue)
           tl == Tail(r.queue)
           q == InsertAfter(tl, r.current, Prio[r.current] + 1)
<1>1. CASE Higher(r)
  <2>1. /\ h \in ToSet(r.queue) /\ h \in Threads
        /\ IsQueue(tl) /\ ToSet(tl) = ToSet(r.queue) \ {h}
        /\ \A t \in ToSet(tl) : Prio[t] <= Prio[h]
    BY <1>1, TailElements DEF ListTrue, IsQueue, Higher
  <2>2. Prio[h] > Prio[r.current] /\ r.current \in Threads /\ r.current \notin ToSet(r.queue)
    BY <1>1 DEF Higher, ListTrue
  <2>3. IsQueue(q) /\ ToSet(q) = ToSet(tl) \cup {r.current}
    BY <2>1, <2>2, InsertAfterQueue
  <2>4. chSchRescheduleS(r) = [current |-> h, queue |-> q]
    BY <1>1 DEF chSchRescheduleS
  <2> HIDE DEF h, tl, q
  <2>5. \A t \in ToSet(q) : Prio[t] <= Prio[h]
    BY <2>1, <2>2, <2>3, PrioType
  <2> QED BY <2>1, <2>2, <2>3, <2>4, <2>5 DEF ListTrue, Members, TopRuns
<1>2. CASE ~Higher(r)
  <2>1. chSchRescheduleS(r) = r
    BY <1>2 DEF chSchRescheduleS
  <2>2. TopRuns(r)
    <3>1. CASE r.queue = <<>>
      BY <3>1 DEF TopRuns, ToSet
    <3>2. CASE r.queue # <<>>
      <4>1. /\ h \in Threads /\ ToSet(tl) = ToSet(r.queue) \ {h}
            /\ \A t \in ToSet(tl) : Prio[t] <= Prio[h] /\ t \in Threads
        BY <3>2, TailElements, SeqTypes DEF ListTrue, IsQueue
      <4>2. Prio[h] <= Prio[r.current] /\ r.current \in Threads
        BY <1>2, <3>2, <4>1, PrioType DEF Higher, ListTrue
      <4> HIDE DEF h, tl
      <4> QED BY <4>1, <4>2, PrioType DEF TopRuns
    <3> QED BY <3>1, <3>2
  <2> QED BY <2>1, <2>2
<1> QED BY <1>1, <1>2

\* chSchWakeupS
LEMMA WakeupList ==
    ASSUME NEW r, ListTrue(r), TopRuns(r), NEW t \in Threads \ Members(r)
    PROVE  /\ ListTrue(chSchWakeupS(r, t)) /\ TopRuns(chSchWakeupS(r, t))
           /\ Members(chSchWakeupS(r, t)) = Members(r) \cup {t}
<1>1. CASE Prio[t] <= Prio[r.current]
  BY <1>1, ReadyList DEF chSchWakeupS
<1>2. CASE ~(Prio[t] <= Prio[r.current])
  <2> DEFINE q == InsertAfter(r.queue, r.current, Prio[r.current])
  <2>1. IsQueue(q) /\ ToSet(q) = ToSet(r.queue) \cup {r.current}
    BY InsertAfterQueue DEF ListTrue
  <2>2. chSchWakeupS(r, t) = [current |-> t, queue |-> q]
    BY <1>2 DEF chSchWakeupS, chSchReadyI, ListTrue
  <2> HIDE DEF q
  <2>3. \A u \in ToSet(q) : Prio[u] <= Prio[t]
    BY <2>1, <1>2, PrioType, SeqTypes DEF TopRuns, ListTrue, IsQueue
  <2>4. t \notin ToSet(q) /\ t \in Threads
    BY <2>1 DEF Members
  <2> QED BY <2>1, <2>2, <2>3, <2>4 DEF ListTrue, Members, TopRuns
<1> QED BY <1>1, <1>2

\* chSchDoYieldS
LEMMA YieldList ==
    ASSUME NEW r, ListTrue(r), TopRuns(r)
    PROVE  /\ ListTrue(Yielded(r)) /\ TopRuns(Yielded(r)) /\ Members(Yielded(r)) = Members(r)
<1>1. CASE r.queue # <<>> /\ Prio[Head(r.queue)] >= Prio[r.current]
  <2> DEFINE s == chSchGoSleepS(r)
  <2>1. /\ ListTrue(s) /\ TopRuns(s) /\ s.current = Head(r.queue)
        /\ Members(s) = Members(r) \ {r.current}
    BY <1>1, SleepList DEF chSchGoSleepS
  <2>2. Yielded(r) = chSchReadyI(s, r.current)
    BY <1>1 DEF Yielded
  <2>3. r.current \in Threads /\ r.current \in Members(r) /\ Prio[r.current] <= Prio[s.current]
    BY <1>1, <2>1, PrioType DEF ListTrue, Members
  <2> HIDE DEF s
  <2>4. r.current \in Threads \ Members(s)
    BY <2>1, <2>3
  <2>5. /\ ListTrue(chSchReadyI(s, r.current)) /\ TopRuns(chSchReadyI(s, r.current))
        /\ Members(chSchReadyI(s, r.current)) = Members(s) \cup {r.current}
    BY <2>1, <2>3, <2>4, ReadyList
  <2> QED BY <2>1, <2>2, <2>3, <2>5
<1>2. CASE ~(r.queue # <<>> /\ Prio[Head(r.queue)] >= Prio[r.current])
  BY <1>2 DEF Yielded
<1> QED BY <1>1, <1>2

\* What the readying of all of a sequence leaves.
LEMMA SortedQueue ==
    ASSUME NEW all \in Seq(Threads), IsInjective(all), NEW q \in Sorted(all)
    PROVE  IsQueue(q) /\ ToSet(q) = ToSet(all)
<1> DEFINE D == 1..Len(all)
           Ahead(i, j) == \/ Prio[all[i]] > Prio[all[j]]
                          \/ Prio[all[i]] = Prio[all[j]] /\ i < j
<1>1. /\ DOMAIN all = D /\ Len(all) \in Nat
      /\ \A i \in D : all[i] \in Threads /\ Prio[all[i]] \in Nat
  BY PrioType
<1>2. PICK p \in Injection(D, D) : /\ \A i, j \in D : i < j => Ahead(p[i], p[j])
                                   /\ q = [i \in D |-> all[p[i]]]
  BY <1>1 DEF Sorted
<1>3. p \in [D -> D] /\ \A i, j \in D : p[i] = p[j] => i = j
  BY <1>2 DEF Injection, IsInjective
<1>4. \A k \in D : \E i \in D : p[i] = k
  <2>1. IsFiniteSet(D)
    <3>1. 1 \in Int /\ Len(all) \in Int
      BY <1>1
    <3>2. IsFiniteSet(1..Len(all))
      BY <3>1, FS_Interval, Zenon
    <3> QED BY <3>2
  <2>2. p \in Surjection(D, D)
    BY <1>2, <2>1, FS_Injection
  <2> QED BY <2>2 DEF Surjection
<1>5. /\ q \in Seq(Threads) /\ Len(q) = Len(all) /\ DOMAIN q = D
      /\ \A i \in D : p[i] \in D /\ q[i] = all[p[i]]
  <2>1. \A i \in D : p[i] \in D /\ all[p[i]] \in Threads
    BY <1>1, <1>3
  <2>2. q = [i \in 1..Len(all) |-> all[p[i]]] /\ Len(all) \in Nat
    BY <1>1, <1>2
  <2>3. q \in [1..Len(all) -> Threads]
    BY <2>1, <2>2
  <2>4. q \in Seq(Threads) /\ Len(q) = Len(all) /\ DOMAIN q = 1..Len(all)
    BY <2>2, <2>3
  <2> QED BY <2>1, <2>2, <2>4
<1>6. \A i, j \in D : i < j => Prio[q[i]] >= Prio[q[j]]
  BY <1>1, <1>2, <1>5
<1> HIDE DEF D, Ahead
<1>7. ToSet(q) = ToSet(all)
  BY <1>1, <1>4, <1>5 DEF ToSet
<1>8. IsInjective(q)
  BY <1>1, <1>3, <1>5 DEF IsInjective
<1> QED BY <1>5, <1>6, <1>7, <1>8 DEF IsQueue, FallingPrio

\* A list and another of other threads, from its end.
LEMMA WithReversed ==
    ASSUME NEW q \in Seq(Threads), NEW s \in Seq(Threads), IsInjective(q), IsInjective(s),
           ToSet(q) \cap ToSet(s) = {}
    PROVE  /\ q \o Reverse(s) \in Seq(Threads) /\ IsInjective(q \o Reverse(s))
           /\ ToSet(q \o Reverse(s)) = ToSet(q) \cup ToSet(s)
<1> DEFINE v == Reverse(s)
           n == Len(q)
           m == Len(s)
           c == q \o v
<1>1. /\ n \in Nat /\ m \in Nat /\ DOMAIN q = 1..n /\ DOMAIN s = 1..m
      /\ v \in Seq(Threads) /\ Len(v) = m /\ DOMAIN v = 1..m
      /\ \A i \in 1..m : v[i] = s[m - i + 1] /\ m - i + 1 \in 1..m
  BY DEF Reverse
<1> HIDE DEF v
<1>2. c \in Seq(Threads) /\ Len(c) = n + m
  <2>1. c \in Seq(Threads) /\ Len(c) = Len(q) + Len(v)
    BY <1>1, ConcatProperties, Zenon
  <2> QED BY <2>1, <1>1
<1>3. /\ \A i \in 1..n : i \in 1..(n + m) /\ c[i] = q[i]
      /\ \A i \in 1..m : n + i \in 1..(n + m) /\ c[n + i] = v[i]
  BY <1>1, ConcatProperties
<1> HIDE DEF c
<1>4. \A k \in 1..(n + m) : k \in 1..n \/ \E i \in 1..m : k = n + i
  <2>1. ASSUME NEW k \in 1..(n + m), k \notin 1..n
        PROVE  k - n \in 1..m /\ k = n + (k - n)
    BY <1>1, <2>1
  <2> QED BY <2>1
<1> HIDE DEF n, m
<1>5. \A i \in 1..m : \E j \in 1..m : s[i] = v[j]
  <2>1. ASSUME NEW i \in 1..m
        PROVE  m - i + 1 \in 1..m /\ m - (m - i + 1) + 1 = i
    BY <1>1
  <2> QED BY <1>1, <2>1
<1>6. ToSet(c) = ToSet(q) \cup ToSet(s)
  <2>1. ASSUME NEW t \in ToSet(c)
        PROVE  t \in ToSet(q) \cup ToSet(s)
    <3>1. PICK k \in 1..(n + m) : t = c[k]
      BY <1>2 DEF ToSet
    <3>2. CASE k \in 1..n
      BY <3>1, <3>2, <1>1, <1>3 DEF ToSet
    <3>3. CASE \E i \in 1..m : k = n + i
      BY <3>1, <3>3, <1>1, <1>3 DEF ToSet
    <3> QED BY <3>2, <3>3, <1>4
  <2>2. ASSUME NEW t \in ToSet(q)
        PROVE  t \in ToSet(c)
    BY <1>1, <1>2, <1>3 DEF ToSet
  <2>3. ASSUME NEW t \in ToSet(s)
        PROVE  t \in ToSet(c)
    <3>1. PICK i \in 1..m : t = s[i]
      BY <1>1 DEF ToSet
    <3>2. PICK j \in 1..m : t = v[j]
      BY <3>1, <1>5
    <3>3. n + j \in DOMAIN c /\ c[n + j] = t
      BY <3>2, <1>2, <1>3
    <3> QED BY <3>3 DEF ToSet
  <2> QED BY <2>1, <2>2, <2>3
<1>7. ASSUME NEW k \in 1..(n + m), NEW l \in 1..(n + m), c[k] = c[l]
      PROVE  k = l
  <2>1. \A i \in 1..n, j \in 1..m : q[i] # v[j]
    <3>1. ASSUME NEW i \in 1..n, NEW j \in 1..m
          PROVE  q[i] \in ToSet(q) /\ v[j] \in ToSet(s)
      BY <1>1 DEF ToSet
    <3> QED BY <3>1
  <2>2. \A i, j \in 1..n : q[i] = q[j] => i = j
    BY <1>1 DEF IsInjective
  <2>3. \A i, j \in 1..m : v[i] = v[j] => i = j
    <3>1. \A i, j \in 1..m : s[i] = s[j] => i = j
      BY <1>1 DEF IsInjective
    <3>2. ASSUME NEW i \in 1..m, NEW j \in 1..m, m - i + 1 = m - j + 1
          PROVE  i = j
      BY <1>1, <3>2
    <3>3. \A i \in 1..m : v[i] = s[m - i + 1] /\ m - i + 1 \in 1..m
      BY <1>1
    <3> QED BY <3>1, <3>2, <3>3
  <2> QED BY <1>3, <1>4, <1>7, <2>1, <2>2, <2>3
<1>8. IsInjective(c)
  BY <1>2, <1>7 DEF IsInjective
<1> QED BY <1>2, <1>6, <1>8 DEF c, v

\* dequeue takes one thread out.
LEMMA DequeueElements ==
    ASSUME NEW q \in Seq(Threads), IsInjective(q), NEW t \in ToSet(q)
    PROVE  /\ Without(q, t) \in Seq(Threads) /\ IsInjective(Without(q, t))
           /\ Len(Without(q, t)) = Len(q) - 1 /\ ToSet(Without(q, t)) = ToSet(q) \ {t}
<1> DEFINE k == CHOOSE i \in DOMAIN q : q[i] = t
           r == RemoveAt(q, k)
           n == Len(q)
<1>1. n \in Nat /\ DOMAIN q = 1..n
  OBVIOUS
<1>2. k \in 1..n /\ q[k] = t
  <2>1. \E i \in DOMAIN q : q[i] = t
    BY DEF ToSet
  <2>2. k \in DOMAIN q /\ q[k] = t
    BY <2>1
  <2> QED BY <2>2, <1>1
<1>3. Without(q, t) = r
  BY DEF Without
<1> HIDE DEF k
<1>4. r \in Seq(Threads) /\ Len(r) = n - 1
  <2>1. k \in 1..Len(q)
    BY <1>2
  <2> QED BY <2>1, RemoveAtElements, Zenon
<1>5. \A j \in 1..(n - 1) : r[j] = IF j < k THEN q[j] ELSE q[j + 1]
  <2>1. k \in 1..Len(q)
    BY <1>2
  <2> QED BY <2>1, RemoveAtElements
<1> HIDE DEF r
<1>6. \A i, j \in 1..n : q[i] = q[j] => i = j
  BY <1>1 DEF IsInjective
<1>7. DOMAIN r = 1..(n - 1)
  BY <1>1, <1>4
<1> HIDE DEF n
<1>8. IsInjective(r)
  <2>1. ASSUME NEW i \in 1..(n - 1), NEW j \in 1..(n - 1), r[i] = r[j]
        PROVE  i = j
    <3>1. i \in 1..n /\ i + 1 \in 1..n /\ j \in 1..n /\ j + 1 \in 1..n
      BY <1>1
    <3> QED BY <3>1, <2>1, <1>1, <1>2, <1>5, <1>6
  <2> QED BY <2>1, <1>7 DEF IsInjective
<1>9. ToSet(r) = ToSet(q) \ {t}
  <2>1. ASSUME NEW u \in ToSet(r)
        PROVE  u \in ToSet(q) \ {t}
    <3>1. PICK j \in 1..(n - 1) : u = r[j]
      BY <1>7 DEF ToSet
    <3>2. j \in 1..n /\ j + 1 \in 1..n
      BY <1>1
    <3>3. PICK i \in 1..n : u = q[i] /\ i # k
      BY <3>1, <3>2, <1>1, <1>2, <1>5
    <3> QED BY <3>3, <1>1, <1>2, <1>6 DEF ToSet
  <2>2. ASSUME NEW u \in ToSet(q), u # t
        PROVE  u \in ToSet(r)
    <3>1. PICK i \in 1..n : u = q[i] /\ i # k
      BY <2>2, <1>1, <1>2 DEF ToSet
    <3>2. CASE i < k
      <4>1. i \in 1..(n - 1) /\ r[i] = u
        BY <3>1, <3>2, <1>1, <1>2, <1>5
      <4> QED BY <4>1, <1>7 DEF ToSet
    <3>3. CASE i > k
      <4>1. i - 1 \in 1..(n - 1) /\ ~(i - 1 < k) /\ i - 1 + 1 = i
        BY <3>3, <1>1, <1>2
      <4>2. r[i - 1] = u
        BY <4>1, <3>1, <1>5
      <4> QED BY <4>1, <4>2, <1>7 DEF ToSet
    <3> QED BY <3>1, <3>2, <3>3, <1>2
  <2> QED BY <2>1, <2>2
<1> QED BY <1>3, <1>4, <1>8, <1>9 DEF n

\* enqueue of a thread that is not in the queue.
LEMMA AppendElements ==
    ASSUME NEW q \in Seq(Threads), IsInjective(q), NEW t \in Threads \ ToSet(q)
    PROVE  /\ Append(q, t) \in Seq(Threads) /\ IsInjective(Append(q, t))
           /\ Len(Append(q, t)) = Len(q) + 1 /\ ToSet(Append(q, t)) = ToSet(q) \cup {t}
<1> DEFINE n == Len(q)
           r == Append(q, t)
<1>1. /\ n \in Nat /\ DOMAIN q = 1..n /\ r \in Seq(Threads) /\ Len(r) = n + 1
      /\ DOMAIN r = 1..(n + 1) /\ r[n + 1] = t /\ \A i \in 1..n : r[i] = q[i]
  OBVIOUS
<1>2. \A i \in 1..(n + 1) : i \in 1..n \/ i = n + 1
  BY <1>1
<1>3. \A i \in 1..n : i \in 1..(n + 1)
  BY <1>1
<1>4. n + 1 \in 1..(n + 1)
  BY <1>1
<1> HIDE DEF n, r
<1>5. ToSet(r) = ToSet(q) \cup {t}
  <2>1. ASSUME NEW u \in ToSet(r)
        PROVE  u \in ToSet(q) \cup {t}
    BY <1>1, <1>2 DEF ToSet
  <2>2. ASSUME NEW u \in ToSet(q)
        PROVE  u \in ToSet(r)
    BY <1>1, <1>3 DEF ToSet
  <2>3. t \in ToSet(r)
    BY <1>1, <1>4 DEF ToSet
  <2> QED BY <2>1, <2>2, <2>3
<1>6. IsInjective(r)
  <2>1. \A i \in 1..n : q[i] # t
    BY <1>1 DEF ToSet
  <2> QED BY <2>1, <1>1, <1>2 DEF IsInjective
<1> QED BY <1>1, <1>5, <1>6 DEF n, r

-----------------------------------------------------------------------------
(* The end of a step: what holds of the middle of the call holds after it.   *)

\* The greater of a number and 0.
LEMMA MaxIsFree == ASSUME NEW n \in Int PROVE Max({n, 0}) = Free(n)
<1>1. \E x \in {n, 0} : \A y \in {n, 0} : x >= y
  OBVIOUS
<1> DEFINE m == Max({n, 0})
<1>2. m \in {n, 0} /\ \A y \in {n, 0} : m >= y
  BY <1>1 DEF Max
<1> HIDE DEF m
<1>3. m = Free(n)
  BY <1>2 DEF Free
<1> QED BY <1>3 DEF m

\* The threads of a ready list are threads, the current one among them.
LEMMA MembersType ==
    ASSUME NEW r, ListTrue(r)
    PROVE  Members(r) \subseteq Threads /\ r.current \in Members(r) /\ IsFiniteSet(Members(r))
<1>1. Members(r) \subseteq Threads /\ r.current \in Members(r)
  BY SeqTypes DEF ListTrue, IsQueue, Members
<1> QED BY <1>1, ThreadsAssumption, FS_Subset

\* The takers are finitely many.
LEMMA TakersType ==
    ASSUME NEW M, IsFiniteSet(M), NEW calls, NEW msgs
    PROVE  IsFiniteSet(Takers(M, calls, msgs)) /\ Cardinality(Takers(M, calls, msgs)) \in Nat
<1>1. Takers(M, calls, msgs) \in SUBSET M
  BY DEF Takers
<1>2. IsFiniteSet(Takers(M, calls, msgs))
  BY <1>1, FS_Subset
<1> QED BY <1>2, FS_CardinalityType

\* Whatever a call has done to the lists, the messages and what is waited for,
\* the switch that ends it keeps what was true of them.
LEMMA SwitchStep ==
    ASSUME NEW r, NEW calls, NEW msgs, NEW timers, NEW pending, NEW masks, NEW given,
           ListTrue(r), TopRuns(r),
           CallsTrue(Members(r), calls), currp \in Members(r) => calls[currp] = "none",
           TimersTrue(calls, timers), SemTrue(Members(r), calls, s_cnt', s_queue'),
           RefTrue(Members(r), calls, trp'),
           TokensTrue(Members(r), calls, msgs, s_cnt', given),
           EventsTrue(Members(r), calls, pending, masks),
           Switch(r, calls, msgs, timers, pending, masks, given)
    PROVE  IInv'
<1> DEFINE t == r.current
           M == Members(r)
<1>1. rlist' = r /\ t \in Threads /\ t \in M /\ M \subseteq Threads /\ IsFiniteSet(M)
  BY MembersType DEF Switch
<1>2. CASE t # currp /\ calls[t] # "none"
  <2>1. /\ call' = [calls EXCEPT ![t] = "none"] /\ rdymsg' = [msgs EXCEPT ![t] = "OK"]
        /\ ewmask' = [masks EXCEPT ![t] = {}] /\ timer' = [timers EXCEPT ![t] = FALSE]
    BY <1>2 DEF Switch
  <2>2. /\ epending' = IF calls[t] = "WTOREVT"
                       THEN [pending EXCEPT ![t] = @ \ masks[t]] ELSE pending
        /\ tokens' = IF calls[t] = "WTSEM" /\ msgs[t] = "OK" THEN given - 1 ELSE given
    BY <1>2 DEF Switch
  <2> HIDE DEF t, M
  <2>3. /\ calls \in [Threads -> Kinds] /\ msgs \in [Threads -> Msgs]
        /\ timers \in [Threads -> BOOLEAN]
    BY DEF CallsTrue, TokensTrue, TimersTrue
  <2>4. call'[t] = "none" /\ \A u \in Threads \ {t} : call'[u] = calls[u]
    BY <2>1, <2>3, <1>1
  <2>5. CallsTrue(M, call')
    BY <2>1, <2>3, <1>1 DEF CallsTrue, Kinds, M
  <2>6. TimersTrue(call', timer')
    BY <2>1, <2>3, <1>1 DEF TimersTrue
  <2>7. SemTrue(M, call', s_cnt', s_queue')
    <3>1. {u \in Threads \ M : calls[u] = "WTSEM"} = {u \in Threads \ M : call'[u] = "WTSEM"}
      BY <2>4, <1>1
    <3> QED BY <3>1 DEF SemTrue, M
  <2>8. RefTrue(M, call', trp')
    BY <2>4, <1>1 DEF RefTrue, M
  <2>9. TokensTrue(M, call', rdymsg', s_cnt', tokens')
    <3> DEFINE H == Takers(M, calls, msgs)
               G == Takers(M, call', rdymsg')
    <3>1. G = H \ {t}
      BY <2>1, <2>3, <2>4, <1>1 DEF Takers
    <3>2. IsFiniteSet(H) /\ Cardinality(H) \in Nat
      BY <1>1, TakersType
    <3>3. t \in H <=> calls[t] = "WTSEM" /\ msgs[t] = "OK"
      BY <1>1 DEF Takers
    <3>4. given = Free(s_cnt') + Cardinality(H) /\ Free(s_cnt') \in Int
      BY DEF TokensTrue, M, SemTrue, Free
    <3> HIDE DEF H, G
    <3>5. Cardinality(G) = IF t \in H THEN Cardinality(H) - 1 ELSE Cardinality(H)
      BY <3>1, <3>2, FS_RemoveElement
    <3>6. tokens' = Free(s_cnt') + Cardinality(G)
      BY <3>2, <3>3, <3>4, <3>5, <2>2
    <3>7. rdymsg' \in [Threads -> Msgs]
      BY <2>1, <2>3, <1>1 DEF Msgs
    <3> QED BY <3>6, <3>7 DEF TokensTrue, G
  <2>10. EventsTrue(M, call', epending', ewmask')
    <3>1. pending \in [Threads -> SUBSET Events] /\ masks \in [Threads -> SUBSET Events]
      BY DEF EventsTrue
    <3>2. /\ epending' \in [Threads -> SUBSET Events] /\ ewmask' \in [Threads -> SUBSET Events]
          /\ \A u \in Threads \ {t} : epending'[u] = pending[u] /\ ewmask'[u] = masks[u]
      BY <3>1, <2>1, <2>2, <1>1
    <3> QED BY <3>2, <2>4, <1>1 DEF EventsTrue, M
  <2> QED BY <2>4, <2>5, <2>6, <2>7, <2>8, <2>9, <2>10, <1>1 DEF IInv, currp, M, t
<1>3. CASE ~(t # currp /\ calls[t] # "none")
  <2>1. /\ call' = calls /\ rdymsg' = msgs /\ ewmask' = masks /\ timer' = timers
        /\ epending' = pending /\ tokens' = given
    BY <1>3 DEF Switch
  <2>2. calls[t] = "none"
    BY <1>1, <1>3
  <2> QED BY <2>1, <2>2, <1>1 DEF IInv, currp
<1> QED BY <1>2, <1>3

-----------------------------------------------------------------------------
(* The calls.                                                                *)

\* The current thread goes to sleep in a call: the idle thread is ready behind it.
LEMMA SleepStep ==
    ASSUME IInv, currp # idle, NEW kind \in Kinds \ {"none"}, NEW timed \in BOOLEAN, NEW mask,
           Sleep(kind, timed, mask), Free(s_cnt') = Free(s_cnt),
           SemTrue(Members(rlist) \ {currp}, [call EXCEPT ![currp] = kind], s_cnt', s_queue'),
           RefTrue(Members(rlist) \ {currp}, [call EXCEPT ![currp] = kind], trp'),
           EventsTrue(Members(rlist) \ {currp}, [call EXCEPT ![currp] = kind], epending, mask)
    PROVE  IInv'
<1> DEFINE M == Members(rlist)
           r == chSchGoSleepS(rlist)
           calls == [call EXCEPT ![currp] = kind]
           timers == [timer EXCEPT ![currp] = timed]
<1>1. /\ ListTrue(rlist) /\ call[currp] = "none" /\ CallsTrue(M, call) /\ TimersTrue(call, timer)
      /\ TokensTrue(M, call, rdymsg, s_cnt, tokens)
  BY DEF IInv
<1>2. currp \in Threads /\ currp \in M
  BY <1>1, MembersType DEF currp
<1>3. rlist.queue # <<>>
  <2>1. idle \in M
    BY <1>1, IdleAssumption DEF CallsTrue
  <2> QED BY <2>1 DEF Members, currp, ToSet
<1>4. ListTrue(r) /\ TopRuns(r) /\ Members(r) = M \ {currp}
  BY <1>1, <1>3, SleepList DEF currp
<1> HIDE DEF M, r
<1>5. /\ calls \in [Threads -> Kinds] /\ calls[currp] = kind
      /\ \A t \in Threads \ {currp} : calls[t] = call[t]
  BY <1>1, <1>2 DEF CallsTrue
<1> HIDE DEF calls
<1>6. CallsTrue(Members(r), calls)
  BY <1>1, <1>4, <1>5, IdleAssumption DEF CallsTrue
<1>7. TimersTrue(calls, timers)
  BY <1>1, <1>2, <1>5 DEF TimersTrue
<1>8. TokensTrue(Members(r), calls, rdymsg, s_cnt', tokens)
  <2>1. Takers(M \ {currp}, calls, rdymsg) = Takers(M, call, rdymsg)
    <3>1. M \subseteq Threads
      BY <1>1, MembersType DEF M
    <3> QED BY <3>1, <1>1, <1>5 DEF Takers
  <2> QED BY <2>1, <1>1, <1>4 DEF TokensTrue
<1>9. Switch(r, calls, rdymsg, timers, epending, mask, tokens)
  BY DEF Sleep, r, calls
<1>10. currp \notin Members(r)
  BY <1>4
<1> HIDE DEF timers
<1>11. /\ SemTrue(Members(r), calls, s_cnt', s_queue') /\ RefTrue(Members(r), calls, trp')
       /\ EventsTrue(Members(r), calls, epending, mask)
  BY <1>4 DEF M, calls
<1> QED BY <1>4, <1>6, <1>7, <1>8, <1>9, <1>10, <1>11, SwitchStep

\* chSemWait
LEMMA SemWaitStep ==
    ASSUME IInv, currp # idle, NEW timed \in BOOLEAN, SemWait(timed)
    PROVE  IInv'
<1> DEFINE M == Members(rlist)
           calls == [call EXCEPT ![currp] = "WTSEM"]
<1>1. /\ ListTrue(rlist) /\ call[currp] = "none" /\ CallsTrue(M, call)
      /\ SemTrue(M, call, s_cnt, s_queue) /\ RefTrue(M, call, trp)
      /\ TokensTrue(M, call, rdymsg, s_cnt, tokens) /\ EventsTrue(M, call, epending, ewmask)
  BY DEF IInv
<1>2. currp \in Threads /\ currp \in M /\ M \subseteq Threads /\ IsFiniteSet(M)
  BY <1>1, MembersType DEF currp
<1>3. s_cnt' = s_cnt - 1 /\ trp' = trp /\ s_cnt \in Int
  BY <1>1 DEF SemWait, SemTrue
<1>4. CASE s_cnt > 0
  <2>1. /\ tokens' = tokens - 1
        /\ UNCHANGED <<s_queue, rlist, call, rdymsg, timer, epending, ewmask>>
    BY <1>4 DEF SemWait
  <2>2. SemTrue(M, call, s_cnt', s_queue')
    BY <1>1, <1>3, <1>4, <2>1 DEF SemTrue
  <2>3. TokensTrue(M, call, rdymsg, s_cnt', tokens')
    <3>1. Cardinality(Takers(M, call, rdymsg)) \in Nat
      BY <1>2, TakersType
    <3> QED BY <3>1, <1>1, <1>3, <1>4, <2>1 DEF TokensTrue, Free
  <2> QED BY <1>3, <2>1, <2>2, <2>3 DEF IInv, currp
<1>5. CASE ~(s_cnt > 0)
  <2>1. s_queue' = Append(s_queue, currp) /\ Sleep("WTSEM", timed, ewmask)
    BY <1>5 DEF SemWait
  <2>2. /\ calls \in [Threads -> Kinds] /\ calls[currp] = "WTSEM"
        /\ \A t \in Threads \ {currp} : calls[t] = call[t]
    BY <1>1, <1>2 DEF CallsTrue, Kinds
  <2>3. s_queue \in Seq(Threads) /\ IsInjective(s_queue) /\ currp \notin ToSet(s_queue)
    BY <1>1, <1>2 DEF SemTrue
  <2>4. /\ s_queue' \in Seq(Threads) /\ IsInjective(s_queue') /\ Len(s_queue') = Len(s_queue) + 1
        /\ ToSet(s_queue') = ToSet(s_queue) \cup {currp}
    BY <1>2, <2>1, <2>3, AppendElements
  <2>5. SemTrue(M \ {currp}, calls, s_cnt', s_queue')
    <3>1. Len(s_queue) = -s_cnt /\ s_cnt' < 0
      BY <1>1, <1>3, <1>5 DEF SemTrue
    <3>2. ToSet(s_queue') = {t \in Threads \ (M \ {currp}) : calls[t] = "WTSEM"}
      <4>1. ToSet(s_queue) = {t \in Threads \ M : call[t] = "WTSEM"}
        BY <1>1 DEF SemTrue
      <4> QED BY <4>1, <1>2, <2>2, <2>4
    <3> QED BY <1>3, <2>4, <3>1, <3>2 DEF SemTrue
  <2>6. RefTrue(M \ {currp}, calls, trp')
    BY <1>1, <1>2, <1>3, <2>2 DEF RefTrue
  <2>7. EventsTrue(M \ {currp}, calls, epending, ewmask)
    BY <1>1, <1>2, <2>2 DEF EventsTrue
  <2>8. Free(s_cnt') = Free(s_cnt)
    BY <1>3, <1>5 DEF Free
  <2> HIDE DEF M
  <2> QED BY <2>1, <2>5, <2>6, <2>7, <2>8, SleepStep DEF Kinds, M
<1> QED BY <1>4, <1>5

\* chThdSuspend
LEMMA SuspendStep ==
    ASSUME IInv, currp # idle, NEW timed \in BOOLEAN, Suspend(timed)
    PROVE  IInv'
<1> DEFINE M == Members(rlist)
           calls == [call EXCEPT ![currp] = "SUSPENDED"]
<1>1. /\ ListTrue(rlist) /\ call[currp] = "none" /\ CallsTrue(M, call)
      /\ SemTrue(M, call, s_cnt, s_queue) /\ RefTrue(M, call, trp)
      /\ EventsTrue(M, call, epending, ewmask)
  BY DEF IInv
<1>2. currp \in Threads /\ currp \in M
  BY <1>1, MembersType DEF currp
<1>3. /\ s_cnt' = s_cnt /\ s_queue' = s_queue /\ trp = NoThread /\ trp' = currp
      /\ Sleep("SUSPENDED", timed, ewmask)
  BY DEF Suspend, semVars
<1>4. /\ calls \in [Threads -> Kinds] /\ calls[currp] = "SUSPENDED"
      /\ \A t \in Threads \ {currp} : calls[t] = call[t]
  BY <1>1, <1>2 DEF CallsTrue, Kinds
<1>5. SemTrue(M \ {currp}, calls, s_cnt', s_queue')
  <2>1. {t \in Threads \ M : call[t] = "WTSEM"}
          = {t \in Threads \ (M \ {currp}) : calls[t] = "WTSEM"}
    BY <1>2, <1>4
  <2> QED BY <2>1, <1>1, <1>3 DEF SemTrue
<1>6. RefTrue(M \ {currp}, calls, trp')
  BY <1>1, <1>2, <1>3, <1>4, NoThreadAssumption DEF RefTrue
<1>7. EventsTrue(M \ {currp}, calls, epending, ewmask)
  BY <1>1, <1>2, <1>4 DEF EventsTrue
<1>8. Free(s_cnt') = Free(s_cnt)
  BY <1>3
<1> HIDE DEF M
<1> QED BY <1>3, <1>5, <1>6, <1>7, <1>8, SleepStep DEF Kinds, M

\* A sleep, and a wait for events none of which is pending.
LEMMA PlainSleepStep ==
    ASSUME IInv, currp # idle, NEW kind \in {"SLEEPING", "WTOREVT"}, NEW timed \in BOOLEAN,
           NEW mask \in [Threads -> SUBSET Events],
           \A t \in Threads \ {currp} : mask[t] = ewmask[t],
           kind = "WTOREVT" => epending[currp] \cap mask[currp] = {},
           UNCHANGED <<semVars, trp>>, Sleep(kind, timed, mask)
    PROVE  IInv'
<1> DEFINE M == Members(rlist)
           calls == [call EXCEPT ![currp] = kind]
<1>1. /\ ListTrue(rlist) /\ call[currp] = "none" /\ CallsTrue(M, call)
      /\ SemTrue(M, call, s_cnt, s_queue) /\ RefTrue(M, call, trp)
      /\ EventsTrue(M, call, epending, ewmask)
  BY DEF IInv
<1>2. currp \in Threads /\ currp \in M
  BY <1>1, MembersType DEF currp
<1>3. s_cnt' = s_cnt /\ s_queue' = s_queue /\ trp' = trp
  BY DEF semVars
<1>4. /\ calls \in [Threads -> Kinds] /\ calls[currp] = kind
      /\ \A t \in Threads \ {currp} : calls[t] = call[t]
  BY <1>1, <1>2 DEF CallsTrue, Kinds
<1>5. SemTrue(M \ {currp}, calls, s_cnt', s_queue')
  <2>1. {t \in Threads \ M : call[t] = "WTSEM"}
          = {t \in Threads \ (M \ {currp}) : calls[t] = "WTSEM"}
    BY <1>2, <1>4
  <2> QED BY <2>1, <1>1, <1>3 DEF SemTrue
<1>6. RefTrue(M \ {currp}, calls, trp')
  BY <1>1, <1>2, <1>3, <1>4 DEF RefTrue
<1>7. EventsTrue(M \ {currp}, calls, epending, mask)
  BY <1>1, <1>2, <1>4 DEF EventsTrue
<1>8. Free(s_cnt') = Free(s_cnt)
  BY <1>3
<1> HIDE DEF M
<1> QED BY <1>5, <1>6, <1>7, <1>8, SleepStep DEF Kinds, M

\* chEvtWaitAny
LEMMA EvtWaitAnyStep ==
    ASSUME IInv, currp # idle, EvtWaitAny
    PROVE  IInv'
<1>1. /\ ListTrue(rlist) /\ call[currp] = "none"
      /\ EventsTrue(Members(rlist), call, epending, ewmask)
  BY DEF IInv
<1>2. currp \in Threads /\ currp \in Members(rlist)
  BY <1>1, MembersType DEF currp
<1>3. PICK mask \in SUBSET Events :
        /\ UNCHANGED <<semVars, trp>>
        /\ IF epending[currp] \cap mask # {}
           THEN /\ epending' = [epending EXCEPT ![currp] = @ \ mask]
                /\ UNCHANGED <<ewmask, rlist, call, rdymsg, timer, tokens>>
           ELSE Sleep("WTOREVT", FALSE, [ewmask EXCEPT ![currp] = mask])
  BY DEF EvtWaitAny
<1>4. CASE epending[currp] \cap mask # {}
  <2>1. /\ epending' = [epending EXCEPT ![currp] = @ \ mask]
        /\ UNCHANGED <<ewmask, rlist, call, rdymsg, timer, tokens, s_cnt, s_queue, trp>>
    BY <1>3, <1>4 DEF semVars
  <2>2. EventsTrue(Members(rlist), call, epending', ewmask)
    BY <1>1, <1>2, <2>1 DEF EventsTrue
  <2> QED BY <2>1, <2>2 DEF IInv, currp
<1>5. CASE ~(epending[currp] \cap mask # {})
  <2> DEFINE masks == [ewmask EXCEPT ![currp] = mask]
  <2>1. /\ masks \in [Threads -> SUBSET Events] /\ masks[currp] = mask
        /\ \A t \in Threads \ {currp} : masks[t] = ewmask[t]
    BY <1>1, <1>2 DEF EventsTrue
  <2>2. UNCHANGED <<semVars, trp>> /\ Sleep("WTOREVT", FALSE, masks)
    BY <1>3, <1>5
  <2>3. epending[currp] \cap masks[currp] = {}
    BY <1>5, <2>1
  <2> HIDE DEF masks
  <2> QED BY <2>1, <2>2, <2>3, PlainSleepStep
<1> QED BY <1>4, <1>5

\* Threads that wait become ready with a message.
LEMMA WakeStep ==
    ASSUME IInv, NEW r, NEW ts \in SUBSET (Threads \ Members(rlist)), NEW msg \in Msgs, NEW given,
           ListTrue(r), TopRuns(r), Members(r) = Members(rlist) \cup ts,
           SemTrue(Members(r), call, s_cnt', s_queue'), RefTrue(Members(r), call, trp'),
           TokensTrue(Members(r), call, [t \in Threads |-> IF t \in ts THEN msg ELSE rdymsg[t]],
                      s_cnt', given),
           Wake(r, ts, msg, given)
    PROVE  IInv'
<1>1. /\ call[currp] = "none" /\ CallsTrue(Members(rlist), call) /\ TimersTrue(call, timer)
      /\ EventsTrue(Members(rlist), call, epending, ewmask)
  BY DEF IInv
<1>2. CallsTrue(Members(r), call)
  BY <1>1 DEF CallsTrue
<1>3. EventsTrue(Members(r), call, epending, ewmask)
  BY <1>1 DEF EventsTrue
<1> DEFINE msgs == [t \in Threads |-> IF t \in ts THEN msg ELSE rdymsg[t]]
<1>4. Switch(r, call, msgs, timer, epending, ewmask, given)
  BY DEF Wake
<1>5. TokensTrue(Members(r), call, msgs, s_cnt', given)
  OBVIOUS
<1> HIDE DEF msgs
<1> QED BY <1>1, <1>2, <1>3, <1>4, <1>5, SwitchStep

\* Nobody is woken.
LEMMA NobodyWoken ==
    ASSUME IInv, NEW r, NEW msg, NEW given, ListTrue(r), TopRuns(r), Members(r) = Members(rlist),
           s_cnt' \in Int, s_cnt >= 0, s_cnt' >= 0, given = tokens - Free(s_cnt) + Free(s_cnt'),
           s_queue' = s_queue, trp' = trp, msg \in Msgs, Wake(r, {}, msg, given)
    PROVE  IInv'
<1> DEFINE M == Members(rlist)
           msgs == [t \in Threads |-> IF t \in {} THEN msg ELSE rdymsg[t]]
<1>1. /\ ListTrue(rlist) /\ SemTrue(M, call, s_cnt, s_queue) /\ RefTrue(M, call, trp)
      /\ TokensTrue(M, call, rdymsg, s_cnt, tokens)
  BY DEF IInv
<1>2. SemTrue(M, call, s_cnt', s_queue')
  <2>1. ~(s_cnt' < 0) /\ s_queue' = <<>>
    BY <1>1 DEF SemTrue
  <2> QED BY <2>1, <1>1 DEF SemTrue
<1>3. IsFiniteSet(M) /\ Cardinality(Takers(M, call, rdymsg)) \in Nat
  BY <1>1, MembersType, TakersType
<1>4. msgs = rdymsg
  BY <1>1 DEF TokensTrue
<1>5. TokensTrue(M, call, msgs, s_cnt', given)
  BY <1>1, <1>3, <1>4 DEF TokensTrue, Free, SemTrue
<1> HIDE DEF M
<1> QED BY <1>1, <1>2, <1>5, WakeStep DEF M

\* chSemSignalI, and the list that its caller's switch leaves.
LEMMA SignalledStep ==
    ASSUME IInv, NEW r, ListTrue(r), TopRuns(r),
           Members(r) = Members(rlist) \cup (IF s_cnt < 0 THEN {Head(s_queue)} ELSE {}),
           Signalled(r)
    PROVE  IInv'
<1> DEFINE M == Members(rlist)
           h == Head(s_queue)
<1>1. /\ ListTrue(rlist) /\ SemTrue(M, call, s_cnt, s_queue) /\ RefTrue(M, call, trp)
      /\ TokensTrue(M, call, rdymsg, s_cnt, tokens)
  BY DEF IInv
<1>2. IsFiniteSet(M) /\ M \subseteq Threads
  BY <1>1, MembersType
<1>3. s_cnt' = s_cnt + 1 /\ trp' = trp /\ s_cnt \in Int
  BY <1>1 DEF Signalled, SemTrue
<1>4. CASE s_cnt < 0
  <2> DEFINE msgs == [t \in Threads |-> IF t \in {h} THEN "OK" ELSE rdymsg[t]]
  <2>1. s_queue' = Tail(s_queue) /\ Wake(r, {h}, "OK", tokens + 1) /\ Members(r) = M \cup {h}
    BY <1>4 DEF Signalled
  <2>2. /\ s_queue \in Seq(Threads) /\ IsInjective(s_queue) /\ Len(s_queue) = -s_cnt
        /\ ToSet(s_queue) = {t \in Threads \ M : call[t] = "WTSEM"} /\ s_queue # <<>>
    BY <1>1, <1>3, <1>4 DEF SemTrue
  <2>3. /\ h \in ToSet(s_queue) /\ s_queue' \in Seq(Threads) /\ IsInjective(s_queue')
        /\ Len(s_queue') = Len(s_queue) - 1 /\ ToSet(s_queue') = ToSet(s_queue) \ {h}
    BY <2>1, <2>2, TailElements
  <2> HIDE DEF h
  <2>4. h \in Threads \ M /\ call[h] = "WTSEM"
    BY <2>2, <2>3
  <2>5. SemTrue(M \cup {h}, call, s_cnt', s_queue')
    <3>1. ToSet(s_queue') = {t \in Threads \ (M \cup {h}) : call[t] = "WTSEM"}
      BY <2>2, <2>3
    <3>2. /\ s_cnt' \in Int /\ Len(s_queue') = -s_cnt'
          /\ s_cnt' >= 0 => Len(s_queue') = 0
      BY <1>3, <1>4, <2>2, <2>3
    <3>3. s_cnt' >= 0 => s_queue' = <<>>
      BY <3>2, <2>3, EmptySeq
    <3> QED BY <3>1, <3>2, <3>3, <2>3 DEF SemTrue
  <2>6. RefTrue(M \cup {h}, call, trp')
    BY <1>1, <1>3, <2>4 DEF RefTrue
  <2>7. TokensTrue(M \cup {h}, call, msgs, s_cnt', tokens + 1)
    <3> DEFINE H == Takers(M, call, rdymsg)
               G == Takers(M \cup {h}, call, msgs)
    <3>1. rdymsg \in [Threads -> Msgs] /\ tokens = Free(s_cnt) + Cardinality(H)
      BY <1>1 DEF TokensTrue
    <3>2. /\ msgs \in [Threads -> Msgs] /\ msgs[h] = "OK"
          /\ \A t \in Threads \ {h} : msgs[t] = rdymsg[t]
      BY <3>1, <2>4 DEF Msgs
    <3> HIDE DEF msgs
    <3>3. G = H \cup {h} /\ h \notin H
      BY <3>2, <2>4, <1>2 DEF Takers
    <3>4. IsFiniteSet(H) /\ Cardinality(H) \in Nat
      BY <1>2, TakersType
    <3> HIDE DEF H, G
    <3>5. Cardinality(G) = Cardinality(H) + 1
      BY <3>3, <3>4, FS_AddElement
    <3>6. Free(s_cnt) = 0 /\ Free(s_cnt') = 0
      BY <1>3, <1>4 DEF Free
    <3> QED BY <3>1, <3>2, <3>4, <3>5, <3>6 DEF TokensTrue, G
  <2> HIDE DEF M
  <2> QED BY <2>1, <2>4, <2>5, <2>6, <2>7, WakeStep DEF Msgs, M
<1>5. CASE ~(s_cnt < 0)
  <2>1. /\ s_queue' = s_queue /\ Wake(r, {}, "OK", tokens + 1) /\ Members(r) = Members(rlist)
    BY <1>5 DEF Signalled
  <2>2. /\ s_cnt >= 0 /\ s_cnt' >= 0 /\ s_cnt' \in Int
        /\ tokens + 1 = tokens - Free(s_cnt) + Free(s_cnt')
    <3>1. Cardinality(Takers(M, call, rdymsg)) \in Nat
      BY <1>2, TakersType
    <3> QED BY <3>1, <1>1, <1>3, <1>5 DEF Free, TokensTrue
  <2> QED BY <2>1, <2>2, <1>3, NobodyWoken DEF Msgs
<1> QED BY <1>4, <1>5

\* The waiter that a signal wakes waits, and so does the referenced thread.
LEMMA WaiterWaits ==
    ASSUME IInv
    PROVE  /\ s_cnt < 0 => Head(s_queue) \in Threads \ Members(rlist)
           /\ trp # NoThread => trp \in Threads \ Members(rlist)
<1>1. SemTrue(Members(rlist), call, s_cnt, s_queue) /\ RefTrue(Members(rlist), call, trp)
  BY DEF IInv
<1>2. ASSUME s_cnt < 0
      PROVE  Head(s_queue) \in Threads \ Members(rlist)
  <2>1. s_queue # <<>>
    BY <1>1, <1>2 DEF SemTrue
  <2> QED BY <2>1, <1>1, TailElements DEF SemTrue
<1>3. trp # NoThread => trp \in Threads \ Members(rlist)
  BY <1>1 DEF RefTrue
<1> QED BY <1>2, <1>3

\* chSemSignal
LEMMA SemSignalStep == ASSUME IInv, SemSignal PROVE IInv'
<1> DEFINE r == IF s_cnt < 0 THEN chSchWakeupS(rlist, Head(s_queue)) ELSE rlist
<1>1. ListTrue(rlist) /\ TopRuns(rlist)
  BY DEF IInv
<1>2. /\ ListTrue(r) /\ TopRuns(r)
      /\ Members(r) = Members(rlist) \cup (IF s_cnt < 0 THEN {Head(s_queue)} ELSE {})
  BY <1>1, WaiterWaits, WakeupList
<1>3. Signalled(r)
  BY DEF SemSignal
<1> HIDE DEF r
<1> QED BY <1>2, <1>3, SignalledStep

\* chSemSignalI in an interrupt.
LEMMA SemSignalIStep == ASSUME IInv, SemSignalI PROVE IInv'
<1> DEFINE q == IF s_cnt < 0 THEN chSchReadyI(rlist, Head(s_queue)) ELSE rlist
           r == chSchRescheduleS(q)
<1>1. ListTrue(rlist)
  BY DEF IInv
<1>2. ListTrue(q) /\ Members(q) = Members(rlist) \cup (IF s_cnt < 0 THEN {Head(s_queue)} ELSE {})
  BY <1>1, WaiterWaits, ReadyList
<1> HIDE DEF q
<1>3. ListTrue(r) /\ TopRuns(r) /\ Members(r) = Members(q)
  BY <1>2, RescheduleList
<1>4. Signalled(r)
  BY DEF SemSignalI, q
<1> HIDE DEF r
<1> QED BY <1>2, <1>3, <1>4, SignalledStep

\* chSemReset: the waiters leave with RESET, which takes no token.
LEMMA SemResetStep == ASSUME IInv, SemReset PROVE IInv'
<1> DEFINE M == Members(rlist)
           Woken == ToSet(s_queue)
           all == rlist.queue \o Reverse(s_queue)
           msgs == [t \in Threads |-> IF t \in Woken THEN "RESET" ELSE rdymsg[t]]
           given == tokens - Max({s_cnt, 0})
<1>1. /\ ListTrue(rlist) /\ SemTrue(M, call, s_cnt, s_queue) /\ RefTrue(M, call, trp)
      /\ TokensTrue(M, call, rdymsg, s_cnt, tokens)
  BY DEF IInv
<1>2. IsFiniteSet(M) /\ M \subseteq Threads
  BY <1>1, MembersType
<1>3. PICK q \in Sorted(all) :
        /\ s_cnt' = 0 /\ s_queue' = <<>> /\ UNCHANGED trp
        /\ Wake(chSchRescheduleS([rlist EXCEPT !.queue = q]), Woken, "RESET", given)
  BY DEF SemReset
<1>4. /\ Woken = {t \in Threads \ M : call[t] = "WTSEM"}
      /\ s_queue \in Seq(Threads) /\ IsInjective(s_queue)
  BY <1>1 DEF SemTrue
<1>5. /\ all \in Seq(Threads) /\ IsInjective(all) /\ ToSet(all) = ToSet(rlist.queue) \cup Woken
  <2>1. /\ rlist.queue \in Seq(Threads) /\ IsInjective(rlist.queue)
        /\ ToSet(rlist.queue) \cap Woken = {}
    BY <1>1, <1>4 DEF ListTrue, IsQueue, Members
  <2> QED BY <2>1, <1>4, WithReversed
<1>6. IsQueue(q) /\ ToSet(q) = ToSet(rlist.queue) \cup Woken
  BY <1>5, SortedQueue
<1> DEFINE s == [rlist EXCEPT !.queue = q]
           r == chSchRescheduleS(s)
<1>7. ListTrue(s) /\ Members(s) = M \cup Woken
  <2>1. s = [current |-> rlist.current, queue |-> q]
    BY <1>1 DEF ListTrue
  <2>2. rlist.current \in Threads /\ rlist.current \notin ToSet(rlist.queue) /\ rlist.current \in M
    BY <1>1 DEF ListTrue, Members
  <2>3. rlist.current \notin ToSet(q)
    BY <2>2, <1>4, <1>6
  <2> HIDE DEF s
  <2> QED BY <2>1, <2>2, <2>3, <1>6 DEF ListTrue, Members
<1> HIDE DEF s
<1>8. ListTrue(r) /\ TopRuns(r) /\ Members(r) = M \cup Woken
  BY <1>7, RescheduleList
<1>9. Wake(r, Woken, "RESET", given)
  BY <1>3 DEF s
<1> HIDE DEF r, Woken, all
<1>10. SemTrue(M \cup Woken, call, s_cnt', s_queue')
  <2>1. s_queue' \in Seq(Threads) /\ IsInjective(s_queue') /\ ToSet(s_queue') = {}
    BY <1>3 DEF IsInjective, ToSet
  <2>2. {t \in Threads \ (M \cup Woken) : call[t] = "WTSEM"} = {}
    BY <1>4
  <2> QED BY <2>1, <2>2, <1>3 DEF SemTrue
<1>11. RefTrue(M \cup Woken, call, trp')
  BY <1>1, <1>3, <1>4 DEF RefTrue
<1>12. TokensTrue(M \cup Woken, call, msgs, s_cnt', given)
  <2>1. rdymsg \in [Threads -> Msgs] /\ tokens = Free(s_cnt) + Cardinality(Takers(M, call, rdymsg))
    BY <1>1 DEF TokensTrue
  <2>2. /\ msgs \in [Threads -> Msgs] /\ \A t \in Woken : msgs[t] = "RESET"
        /\ \A t \in Threads \ Woken : msgs[t] = rdymsg[t]
    BY <2>1, <1>4 DEF Msgs
  <2> HIDE DEF msgs
  <2>3. Takers(M \cup Woken, call, msgs) = Takers(M, call, rdymsg)
    BY <2>2, <1>2, <1>4 DEF Takers
  <2>4. Cardinality(Takers(M, call, rdymsg)) \in Nat
    BY <1>2, TakersType
  <2>5. given = tokens - Free(s_cnt) /\ Free(s_cnt) \in Int /\ Free(s_cnt') = 0
    BY <1>1, <1>3, MaxIsFree DEF SemTrue, Free
  <2> HIDE DEF given
  <2> QED BY <2>1, <2>2, <2>3, <2>4, <2>5 DEF TokensTrue
<1>13. Woken \in SUBSET (Threads \ M)
  BY <1>4
<1> HIDE DEF M, given
<1> QED BY <1>8, <1>9, <1>10, <1>11, <1>12, <1>13, WakeStep DEF Msgs, M

\* chThdResumeI, and the list that its caller's switch leaves.
LEMMA ResumedStep ==
    ASSUME IInv, NEW r, ListTrue(r), TopRuns(r), trp # NoThread,
           Members(r) = Members(rlist) \cup {trp}, Resumed(r)
    PROVE  IInv'
<1> DEFINE M == Members(rlist)
           msgs == [t \in Threads |-> IF t \in {trp} THEN "OK" ELSE rdymsg[t]]
<1>1. /\ ListTrue(rlist) /\ SemTrue(M, call, s_cnt, s_queue) /\ RefTrue(M, call, trp)
      /\ TokensTrue(M, call, rdymsg, s_cnt, tokens)
  BY DEF IInv
<1>2. M \subseteq Threads
  BY <1>1, MembersType
<1>3. /\ trp' = NoThread /\ s_cnt' = s_cnt /\ s_queue' = s_queue /\ Wake(r, {trp}, "OK", tokens)
  BY DEF Resumed, semVars
<1>4. trp \in Threads \ M /\ call[trp] = "SUSPENDED"
  BY <1>1 DEF RefTrue
<1>5. SemTrue(M \cup {trp}, call, s_cnt', s_queue')
  <2>1. {t \in Threads \ M : call[t] = "WTSEM"}
          = {t \in Threads \ (M \cup {trp}) : call[t] = "WTSEM"}
    BY <1>4
  <2> QED BY <2>1, <1>1, <1>3 DEF SemTrue
<1>6. RefTrue(M \cup {trp}, call, trp')
  BY <1>1, <1>3, NoThreadAssumption DEF RefTrue
<1>7. TokensTrue(M \cup {trp}, call, msgs, s_cnt', tokens)
  <2>1. rdymsg \in [Threads -> Msgs]
    BY <1>1 DEF TokensTrue
  <2>2. msgs \in [Threads -> Msgs] /\ \A t \in Threads \ {trp} : msgs[t] = rdymsg[t]
    BY <2>1 DEF Msgs
  <2> HIDE DEF msgs
  <2>3. Takers(M \cup {trp}, call, msgs) = Takers(M, call, rdymsg)
    BY <2>2, <1>2, <1>4 DEF Takers
  <2> QED BY <2>2, <2>3, <1>1, <1>3 DEF TokensTrue
<1> HIDE DEF M
<1> QED BY <1>3, <1>4, <1>5, <1>6, <1>7, WakeStep DEF Msgs, M

\* chThdResume, and chThdResumeI in an interrupt.
LEMMA ResumeStep == ASSUME IInv, Resume \/ ResumeI PROVE IInv'
<1>1. ListTrue(rlist) /\ TopRuns(rlist)
  BY DEF IInv
<1>2. trp # NoThread /\ trp \in Threads \ Members(rlist)
  BY WaiterWaits DEF Resume, ResumeI
<1>3. CASE Resume
  <2>1. Resumed(chSchWakeupS(rlist, trp))
    BY <1>3 DEF Resume
  <2> QED BY <2>1, <1>1, <1>2, WakeupList, ResumedStep
<1>4. CASE ResumeI
  <2> DEFINE q == chSchReadyI(rlist, trp)
  <2>1. Resumed(chSchRescheduleS(q))
    BY <1>4 DEF ResumeI
  <2>2. ListTrue(q) /\ Members(q) = Members(rlist) \cup {trp}
    BY <1>1, <1>2, ReadyList
  <2> HIDE DEF q
  <2> QED BY <2>1, <2>2, <1>2, RescheduleList, ResumedStep
<1> QED BY <1>3, <1>4

\* chThdYield
LEMMA YieldStep == ASSUME IInv, chThdYield PROVE IInv'
<1> DEFINE M == Members(rlist)
           r == Yielded(rlist)
           msgs == [t \in Threads |-> IF t \in {} THEN "OK" ELSE rdymsg[t]]
<1>1. /\ ListTrue(rlist) /\ TopRuns(rlist) /\ SemTrue(M, call, s_cnt, s_queue)
      /\ RefTrue(M, call, trp) /\ TokensTrue(M, call, rdymsg, s_cnt, tokens)
  BY DEF IInv
<1>2. ListTrue(r) /\ TopRuns(r) /\ Members(r) = M
  BY <1>1, YieldList
<1>3. s_cnt' = s_cnt /\ s_queue' = s_queue /\ trp' = trp /\ Wake(r, {}, "OK", tokens)
  BY DEF chThdYield, semVars
<1>4. msgs = rdymsg
  BY <1>1 DEF TokensTrue
<1>5. /\ SemTrue(M, call, s_cnt', s_queue') /\ RefTrue(M, call, trp')
      /\ TokensTrue(M, call, msgs, s_cnt', tokens)
  BY <1>1, <1>3, <1>4
<1> HIDE DEF M, r
<1> QED BY <1>2, <1>3, <1>5, WakeStep DEF Msgs, M

\* chEvtSignalI, and the list that its caller's switch leaves: what it adds to the
\* pending events of a thread that waits wakes the thread, or is not waited for.
LEMMA EvtSignalledStep ==
    ASSUME IInv, NEW t \in Threads, NEW e \in Events, NEW r, ListTrue(r), TopRuns(r),
           Members(r) = Members(rlist) \cup (IF WokenBy(t, e) THEN {t} ELSE {}),
           EvtSignalled(t, e, r)
    PROVE  IInv'
<1> DEFINE M == Members(rlist)
           N == Members(r)
           msgs == IF WokenBy(t, e) THEN [rdymsg EXCEPT ![t] = "OK"] ELSE rdymsg
           pending == [epending EXCEPT ![t] = @ \cup {e}]
<1>1. /\ ListTrue(rlist) /\ call[currp] = "none" /\ CallsTrue(M, call) /\ TimersTrue(call, timer)
      /\ SemTrue(M, call, s_cnt, s_queue) /\ RefTrue(M, call, trp)
      /\ TokensTrue(M, call, rdymsg, s_cnt, tokens) /\ EventsTrue(M, call, epending, ewmask)
  BY DEF IInv
<1>2. M \subseteq Threads
  BY <1>1, MembersType
<1>3. WokenBy(t, e) <=> t \notin M /\ call[t] = "WTOREVT" /\ e \in ewmask[t]
  BY DEF WokenBy, Waits, Members, currp, Ready
<1>4. /\ s_cnt' = s_cnt /\ s_queue' = s_queue /\ trp' = trp
      /\ Switch(r, call, msgs, timer, pending, ewmask, tokens)
  BY DEF EvtSignalled, semVars
<1>5. N = IF WokenBy(t, e) THEN M \cup {t} ELSE M
  OBVIOUS
<1> HIDE DEF M, N
<1>6. CallsTrue(N, call)
  BY <1>1, <1>5 DEF CallsTrue
<1>7. SemTrue(N, call, s_cnt', s_queue')
  <2>1. {u \in Threads \ M : call[u] = "WTSEM"} = {u \in Threads \ N : call[u] = "WTSEM"}
    BY <1>3, <1>5
  <2> QED BY <2>1, <1>1, <1>4 DEF SemTrue
<1>8. RefTrue(N, call, trp')
  BY <1>1, <1>3, <1>4, <1>5 DEF RefTrue
<1>9. TokensTrue(N, call, msgs, s_cnt', tokens)
  <2>1. rdymsg \in [Threads -> Msgs]
    BY <1>1 DEF TokensTrue
  <2>2. msgs \in [Threads -> Msgs] /\ \A u \in Threads \ {t} : msgs[u] = rdymsg[u]
    BY <2>1 DEF Msgs
  <2>3. ~WokenBy(t, e) => msgs = rdymsg
    OBVIOUS
  <2> HIDE DEF msgs
  <2>4. Takers(N, call, msgs) = Takers(M, call, rdymsg)
    BY <2>2, <2>3, <1>2, <1>3, <1>5 DEF Takers
  <2> QED BY <2>2, <2>4, <1>1, <1>4 DEF TokensTrue
<1>10. EventsTrue(N, call, pending, ewmask)
  <2>1. epending \in [Threads -> SUBSET Events] /\ ewmask \in [Threads -> SUBSET Events]
    BY <1>1 DEF EventsTrue
  <2>2. /\ pending \in [Threads -> SUBSET Events] /\ pending[t] = epending[t] \cup {e}
        /\ \A u \in Threads \ {t} : pending[u] = epending[u]
    BY <2>1
  <2> HIDE DEF pending
  <2> QED BY <2>1, <2>2, <1>1, <1>3, <1>5 DEF EventsTrue
<1> HIDE DEF msgs, pending
<1> QED BY <1>1, <1>4, <1>6, <1>7, <1>8, <1>9, <1>10, SwitchStep DEF N

\* The ready list after chEvtSignalI.
LEMMA ReadiedList ==
    ASSUME IInv, NEW t \in Threads, NEW e
    PROVE  /\ ListTrue(ReadiedBy(t, e))
           /\ Members(ReadiedBy(t, e)) = Members(rlist) \cup (IF WokenBy(t, e) THEN {t} ELSE {})
           /\ currp \in Quiet => TopRuns(ReadiedBy(t, e))
<1>1. ListTrue(rlist) /\ TopRuns(rlist)
  BY DEF IInv
<1>2. WokenBy(t, e) => t \in Threads \ Members(rlist)
  BY DEF WokenBy, Waits, Members, currp, Ready
<1>3. currp \in Quiet => Prio[t] <= Prio[rlist.current]
  BY QuietAssumption DEF currp
<1> QED BY <1>1, <1>2, <1>3, ReadyList DEF ReadiedBy

\* chEvtSignal, chEvtSignalI in an interrupt and SignalEvt, whose threads have no
\* thread above them.
LEMMA EvtSignalStep == ASSUME IInv, EvtSignal \/ SignalEvt PROVE IInv'
<1>1. CASE EvtSignal
  <2>1. PICK t \in Threads, e \in Events : EvtSignalled(t, e, chSchRescheduleS(ReadiedBy(t, e)))
    BY <1>1 DEF EvtSignal
  <2> QED BY <2>1, ReadiedList, RescheduleList, EvtSignalledStep
<1>2. CASE SignalEvt
  <2>1. PICK t \in Threads, e \in Events : EvtSignalled(t, e, ReadiedBy(t, e)) /\ currp \in Quiet
    BY <1>2 DEF SignalEvt
  <2> QED BY <2>1, ReadiedList, EvtSignalledStep
<1> QED BY <1>1, <1>2

\* A time-out finds the thread waiting: it leaves what it waits for.
LEMMA TimedOutStep ==
    ASSUME IInv, NEW t \in Threads \ Members(rlist), TimedOut(t)
    PROVE  IInv'
<1> DEFINE M == Members(rlist)
           q == chSchReadyI(rlist, t)
           r == chSchRescheduleS(q)
           msgs == [rdymsg EXCEPT ![t] = "TIMEOUT"]
           timers == [timer EXCEPT ![t] = FALSE]
<1>1. /\ ListTrue(rlist) /\ call[currp] = "none" /\ CallsTrue(M, call) /\ TimersTrue(call, timer)
      /\ SemTrue(M, call, s_cnt, s_queue) /\ RefTrue(M, call, trp)
      /\ TokensTrue(M, call, rdymsg, s_cnt, tokens) /\ EventsTrue(M, call, epending, ewmask)
  BY DEF IInv
<1>2. M \subseteq Threads
  BY <1>1, MembersType
<1>3. /\ trp' = IF call[t] = "SUSPENDED" THEN NoThread ELSE trp
      /\ s_cnt' = IF call[t] = "WTSEM" THEN s_cnt + 1 ELSE s_cnt
      /\ s_queue' = IF call[t] = "WTSEM" THEN Without(s_queue, t) ELSE s_queue
      /\ Switch(r, call, msgs, timers, epending, ewmask, tokens)
  BY DEF TimedOut
<1>4. ListTrue(q) /\ Members(q) = M \cup {t}
  BY <1>1, ReadyList
<1> HIDE DEF q
<1>5. ListTrue(r) /\ TopRuns(r) /\ Members(r) = M \cup {t}
  BY <1>4, RescheduleList
<1> DEFINE N == M \cup {t}
<1> HIDE DEF r
<1>6. CallsTrue(N, call)
  BY <1>1 DEF CallsTrue
<1>7. TimersTrue(call, timers)
  BY <1>1 DEF TimersTrue
<1>8. SemTrue(N, call, s_cnt', s_queue') /\ Free(s_cnt') = Free(s_cnt)
  <2>1. CASE call[t] = "WTSEM"
    <3>1. /\ s_queue \in Seq(Threads) /\ IsInjective(s_queue) /\ s_cnt \in Int
          /\ ToSet(s_queue) = {u \in Threads \ M : call[u] = "WTSEM"} /\ t \in ToSet(s_queue)
      BY <2>1, <1>1 DEF SemTrue
    <3>2. s_cnt < 0 /\ Len(s_queue) = -s_cnt
      <4>1. s_queue # <<>>
        BY <3>1 DEF ToSet
      <4> QED BY <4>1, <3>1, <1>1 DEF SemTrue
    <3>3. /\ s_queue' \in Seq(Threads) /\ IsInjective(s_queue')
          /\ Len(s_queue') = Len(s_queue) - 1 /\ ToSet(s_queue') = ToSet(s_queue) \ {t}
      BY <2>1, <3>1, <1>3, DequeueElements
    <3>4. s_cnt' = s_cnt + 1
      BY <2>1, <1>3
    <3>5. ToSet(s_queue') = {u \in Threads \ N : call[u] = "WTSEM"}
      BY <3>1, <3>3
    <3>6. s_cnt' \in Int /\ Len(s_queue') = -s_cnt' /\ (s_cnt' >= 0 => Len(s_queue') = 0)
      BY <3>1, <3>2, <3>3, <3>4
    <3>7. s_cnt' >= 0 => s_queue' = <<>>
      BY <3>3, <3>6, EmptySeq
    <3>8. Free(s_cnt') = Free(s_cnt)
      BY <3>1, <3>2, <3>4 DEF Free
    <3> QED BY <3>3, <3>5, <3>6, <3>7, <3>8 DEF SemTrue
  <2>2. CASE call[t] # "WTSEM"
    <3>1. s_cnt' = s_cnt /\ s_queue' = s_queue
      BY <2>2, <1>3
    <3>2. {u \in Threads \ M : call[u] = "WTSEM"} = {u \in Threads \ N : call[u] = "WTSEM"}
      BY <2>2
    <3> QED BY <3>1, <3>2, <1>1 DEF SemTrue
  <2> QED BY <2>1, <2>2
<1>9. RefTrue(N, call, trp')
  BY <1>1, <1>3, NoThreadAssumption DEF RefTrue
<1>10. TokensTrue(N, call, msgs, s_cnt', tokens)
  <2>1. rdymsg \in [Threads -> Msgs]
    BY <1>1 DEF TokensTrue
  <2>2. /\ msgs \in [Threads -> Msgs] /\ msgs[t] = "TIMEOUT"
        /\ \A u \in Threads \ {t} : msgs[u] = rdymsg[u]
    BY <2>1 DEF Msgs
  <2> HIDE DEF msgs
  <2>3. Takers(N, call, msgs) = Takers(M, call, rdymsg)
    BY <2>2, <1>2 DEF Takers
  <2> QED BY <2>2, <2>3, <1>1, <1>8 DEF TokensTrue
<1>11. EventsTrue(N, call, epending, ewmask)
  BY <1>1 DEF EventsTrue
<1> HIDE DEF msgs, timers
<1> QED BY <1>1, <1>3, <1>5, <1>6, <1>7, <1>8, <1>9, <1>10, <1>11, SwitchStep

\* The time-out's callback: a thread that is ready already keeps its message.
LEMMA WakeupStep == ASSUME IInv, NEW t \in Threads, Wakeup(t) PROVE IInv'
<1>1. /\ call[currp] = "none" /\ TimersTrue(call, timer) /\ timer[t]
      /\ ListTrue(rlist)
  BY DEF IInv, Wakeup
<1>2. t # currp
  BY <1>1 DEF TimersTrue
<1>3. CASE t \in Ready
  <2>1. /\ timer' = [timer EXCEPT ![t] = FALSE]
        /\ UNCHANGED <<rlist, call, rdymsg, epending, tokens, s_cnt, s_queue, trp, ewmask>>
    BY <1>3 DEF Wakeup, semVars
  <2>2. TimersTrue(call, timer')
    BY <2>1, <1>1 DEF TimersTrue
  <2> QED BY <2>1, <2>2 DEF IInv, currp
<1>4. CASE t \notin Ready
  <2>1. TimedOut(t) /\ t \in Threads \ Members(rlist)
    BY <1>2, <1>4 DEF Wakeup, Members, Ready, currp
  <2> QED BY <2>1, TimedOutStep
<1> QED BY <1>3, <1>4

-----------------------------------------------------------------------------
(* The theorems.                                                             *)

\* The threads start ready, in no call.
LEMMA InvInit == ASSUME Init PROVE IInv
<1>1. PICK q \in SetToSeqs(Threads) :
        /\ \A i, j \in DOMAIN q : i < j => Prio[q[i]] >= Prio[q[j]]
        /\ rlist = [current |-> Head(q), queue |-> Tail(q)]
  BY DEF Init
<1> DEFINE n == Cardinality(Threads)
<1>2. n \in Nat
  BY ThreadsAssumption, FS_CardinalityType
<1>3. q \in [1..n -> Threads] /\ \A i, j \in 1..n : i # j => q[i] # q[j]
  BY <1>1 DEF SetToSeqs
<1>4. q \in Seq(Threads) /\ DOMAIN q = 1..n /\ Len(q) = n
  BY <1>2, <1>3
<1>5. IsQueue(q)
  BY <1>1, <1>3, <1>4 DEF IsQueue, IsInjective, FallingPrio
<1>6. ToSet(q) = Threads
  <2>1. q \in Injection(1..n, Threads)
    BY <1>3 DEF Injection, IsInjective
  <2>2. Cardinality(1..n) = n
    BY <1>2, FS_Interval
  <2>3. q \in Surjection(1..n, Threads)
    BY <2>1, <2>2, ThreadsAssumption, FS_Injection
  <2> HIDE DEF n
  <2>4. \A t \in Threads : \E i \in 1..n : q[i] = t
    BY <2>3 DEF Surjection
  <2> QED BY <2>4, <1>3, <1>4 DEF ToSet
<1>7. q # <<>>
  BY <1>6, IdleAssumption DEF ToSet
<1> HIDE DEF n
<1>8. /\ Head(q) \in Threads /\ IsQueue(Tail(q)) /\ ToSet(Tail(q)) = ToSet(q) \ {Head(q)}
      /\ \A t \in ToSet(Tail(q)) : Prio[t] <= Prio[Head(q)]
  BY <1>5, <1>7, TailElements DEF IsQueue
<1>9. ListTrue(rlist) /\ TopRuns(rlist) /\ Members(rlist) = Threads
  BY <1>1, <1>6, <1>8 DEF ListTrue, TopRuns, Members
<1>10. /\ call = [t \in Threads |-> "none"] /\ rdymsg = [t \in Threads |-> "OK"]
       /\ timer = [t \in Threads |-> FALSE] /\ s_cnt = 0 /\ s_queue = <<>> /\ trp = NoThread
       /\ epending = [t \in Threads |-> {}] /\ ewmask = [t \in Threads |-> {}] /\ tokens = 0
  BY DEF Init
<1>11. call[currp] = "none" /\ CallsTrue(Members(rlist), call) /\ TimersTrue(call, timer)
  BY <1>9, <1>10, IdleAssumption DEF CallsTrue, TimersTrue, Kinds, ListTrue, currp
<1>12. SemTrue(Members(rlist), call, s_cnt, s_queue)
  BY <1>9, <1>10 DEF SemTrue, IsInjective, ToSet
<1>13. RefTrue(Members(rlist), call, trp)
  BY <1>9, <1>10, NoThreadAssumption DEF RefTrue
<1>14. TokensTrue(Members(rlist), call, rdymsg, s_cnt, tokens)
  <2>1. Takers(Members(rlist), call, rdymsg) = {}
    BY <1>9, <1>10 DEF Takers
  <2> QED BY <2>1, <1>10, FS_EmptySet DEF TokensTrue, Free, Msgs
<1>15. EventsTrue(Members(rlist), call, epending, ewmask)
  BY <1>9, <1>10 DEF EventsTrue
<1> QED BY <1>9, <1>11, <1>12, <1>13, <1>14, <1>15 DEF IInv

\* Every call and every interrupt keeps the invariant.
LEMMA InvStep == ASSUME IInv, [Next]_vars PROVE IInv'
<1>1. CASE Calls
  <2>1. currp # idle
    BY <1>1 DEF Calls
  <2>2. CASE SemSignal
    BY <2>2, SemSignalStep
  <2>3. CASE SemReset
    BY <2>3, SemResetStep
  <2>4. CASE Resume
    BY <2>4, ResumeStep
  <2>5. CASE EvtWaitAny
    BY <2>1, <2>5, EvtWaitAnyStep
  <2>6. CASE EvtSignal \/ SignalEvt
    BY <2>6, EvtSignalStep
  <2>7. CASE chThdSleep
    <3>1. ewmask \in [Threads -> SUBSET Events]
      BY DEF IInv, EventsTrue
    <3>2. UNCHANGED <<semVars, trp>> /\ Sleep("SLEEPING", TRUE, ewmask)
      BY <2>7 DEF chThdSleep
    <3> QED BY <2>1, <3>1, <3>2, PlainSleepStep
  <2>8. CASE chThdYield
    BY <2>8, YieldStep
  <2>9. ASSUME NEW timed \in BOOLEAN, SemWait(timed)
        PROVE  IInv'
    BY <2>1, <2>9, SemWaitStep
  <2>10. ASSUME NEW timed \in BOOLEAN, Suspend(timed)
         PROVE  IInv'
    BY <2>1, <2>10, SuspendStep
  <2> QED BY <1>1, <2>2, <2>3, <2>4, <2>5, <2>6, <2>7, <2>8, <2>9, <2>10 DEF Calls, GivesUp
<1>2. CASE Interrupts
  <2>1. CASE SemSignalI
    BY <2>1, SemSignalIStep
  <2>2. CASE ResumeI
    BY <2>2, ResumeStep
  <2>3. CASE EvtSignalI
    BY <2>3, EvtSignalStep DEF EvtSignalI
  <2>4. ASSUME NEW t \in Threads, Wakeup(t)
        PROVE  IInv'
    BY <2>4, WakeupStep
  <2> QED BY <1>2, <2>1, <2>2, <2>3, <2>4 DEF Interrupts
<1>3. CASE UNCHANGED vars
  BY <1>3 DEF vars, threadVars, semVars, IInv, currp
<1> QED BY <1>1, <1>2, <1>3 DEF Next

\* The invariant holds in every state.
THEOREM Invariance == Spec => []IInv
<1>1. Init => IInv
  BY InvInit
<1>2. IInv /\ [Next]_vars => IInv'
  BY InvStep
<1> QED BY <1>1, <1>2, PTL DEF Spec

\* No assertion of the kernel's fails: the ready list is in order below the thread
\* that runs, the counter of the semaphore counts the threads in its queue, and a
\* thread is referenced exactly while it is suspended.
THEOREM KernelTrueHolds == Spec => []KernelTrue
<1>1. ASSUME IInv
      PROVE  KernelTrue
  <2> DEFINE M == Members(rlist)
  <2>1. /\ ListTrue(rlist) /\ TopRuns(rlist) /\ call[currp] = "none"
        /\ CallsTrue(M, call) /\ TimersTrue(call, timer)
        /\ SemTrue(M, call, s_cnt, s_queue) /\ RefTrue(M, call, trp)
        /\ TokensTrue(M, call, rdymsg, s_cnt, tokens) /\ EventsTrue(M, call, epending, ewmask)
    BY <1>1 DEF IInv
  <2>2. \A t \in Threads : Waits(t) <=> t \notin M
    BY DEF Waits, Members, currp, Ready
  <2>3. IsFiniteSet(M)
    BY <2>1, MembersType
  <2> HIDE DEF M
  <2>4. TypeOK
    <3>1. /\ rlist \in [current : Threads, queue : Seq(Threads)]
          /\ IsInjective(rlist.queue) /\ currp \notin Ready
      BY <2>1 DEF ListTrue, IsQueue, currp, Ready
    <3>2. tokens \in Nat
      <4>1. Cardinality(Takers(M, call, rdymsg)) \in Nat
        BY <2>3, TakersType
      <4>2. Free(s_cnt) \in Nat
        BY <2>1 DEF Free, SemTrue
      <4> QED BY <4>1, <4>2, <2>1 DEF TokensTrue
    <3>3. /\ call \in [Threads -> Kinds] /\ \A t \in Threads : Waits(t) => call[t] # "none"
      BY <2>1, <2>2 DEF CallsTrue
    <3>4. /\ s_cnt \in Int /\ s_queue \in Seq(Threads) /\ trp \in Threads \cup {NoThread}
          /\ epending \in [Threads -> SUBSET Events] /\ ewmask \in [Threads -> SUBSET Events]
          /\ rdymsg \in [Threads -> Msgs] /\ timer \in [Threads -> BOOLEAN]
      BY <2>1 DEF SemTrue, RefTrue, EventsTrue, TokensTrue, TimersTrue
    <3> QED BY <2>1, <3>1, <3>2, <3>3, <3>4 DEF TypeOK, Kinds, Msgs
  <2>5. PriorityOrder
    <3> DEFINE q == rlist.queue
               all == <<currp>> \o q
    <3>1. /\ q \in Seq(Threads) /\ Len(q) \in Nat /\ DOMAIN q = 1..Len(q)
          /\ <<currp>> \in Seq(Threads) /\ Len(<<currp>>) = 1 /\ <<currp>>[1] = currp
          /\ currp \in Threads
      BY <2>1 DEF ListTrue, IsQueue, currp
    <3>2. \A i, j \in 1..Len(q) : i < j => Prio[q[i]] >= Prio[q[j]]
      BY <2>1, <3>1 DEF ListTrue, IsQueue, FallingPrio
    <3>3. \A i \in 1..Len(q) : Prio[currp] >= Prio[q[i]]
      <4>1. ASSUME NEW i \in 1..Len(q)
            PROVE  q[i] \in ToSet(q) /\ q[i] \in Threads
        BY <3>1 DEF ToSet
      <4>2. \A t \in ToSet(q) : Prio[t] <= Prio[currp]
        BY <2>1 DEF TopRuns, currp
      <4> QED BY <4>1, <4>2, <3>1, PrioType
    <3> HIDE DEF q
    <3>4. /\ all \in Seq(Threads) /\ Len(all) = Len(q) + 1
      <4>1. all \in Seq(Threads) /\ Len(all) = Len(<<currp>>) + Len(q)
        BY <3>1, ConcatProperties, Zenon
      <4> QED BY <4>1, <3>1
    <3>5. \A i \in 1..(Len(q) + 1) : all[i] = IF i = 1 THEN currp ELSE q[i - 1]
      BY <3>1, ConcatProperties
    <3> HIDE DEF all
    <3>6. ASSUME NEW i \in 1..(Len(q) + 1), NEW j \in 1..(Len(q) + 1), i < j
          PROVE  Prio[all[i]] >= Prio[all[j]]
      <4>1. j - 1 \in 1..Len(q) /\ all[j] = q[j - 1]
        BY <3>1, <3>5, <3>6
      <4>2. CASE i = 1
        BY <4>1, <4>2, <3>3, <3>5
      <4>3. CASE i # 1
        <5>1. i - 1 \in 1..Len(q) /\ i - 1 < j - 1 /\ all[i] = q[i - 1]
          BY <3>1, <3>5, <3>6, <4>3
        <5> QED BY <4>1, <5>1, <3>2
      <4> QED BY <4>2, <4>3
    <3>7. DOMAIN all = 1..(Len(q) + 1)
      BY <3>1, <3>4
    <3> QED BY <3>6, <3>7 DEF PriorityOrder, all, q
  <2>6. SemIsConsistent
    <3>1. {t \in Threads \ M : call[t] = "WTSEM"} = {t \in Threads : Waits(t) /\ call[t] = "WTSEM"}
      BY <2>2
    <3> QED BY <3>1, <2>1 DEF SemTrue, SemIsConsistent
  <2>7. ResumedOnce
    BY <2>1, <2>2 DEF RefTrue, ResumedOnce
  <2> QED BY <2>4, <2>5, <2>6, <2>7 DEF KernelTrue
<1> QED BY <1>1, Invariance, PTL

\* What is given is in the counter or with a thread that is about to return, and an
\* event that a thread waits for is not pending.
THEOREM NothingLostHolds == Spec => []NothingLost
<1>1. ASSUME IInv
      PROVE  NothingLost
  <2> DEFINE M == Members(rlist)
  <2>1. /\ call[currp] = "none" /\ SemTrue(M, call, s_cnt, s_queue)
        /\ TokensTrue(M, call, rdymsg, s_cnt, tokens) /\ EventsTrue(M, call, epending, ewmask)
    BY <1>1 DEF IInv
  <2>2. M = {currp} \cup Ready
    BY DEF Members, currp, Ready
  <2> HIDE DEF M
  <2>3. TokensConserved
    <3>1. Takers(M, call, rdymsg) = {t \in Ready : call[t] = "WTSEM" /\ rdymsg[t] = "OK"}
      BY <2>1, <2>2 DEF Takers
    <3>2. Max({s_cnt, 0}) = Free(s_cnt)
      BY <2>1, MaxIsFree DEF SemTrue
    <3> QED BY <3>1, <3>2, <2>1 DEF TokensConserved, TokensTrue
  <2>4. NoEventMissed
    BY <2>1, <2>2 DEF EventsTrue, NoEventMissed, Waits
  <2> QED BY <2>3, <2>4 DEF NothingLost
<1> QED BY <1>1, Invariance, PTL

\* The timer of a call, which lies on its thread's stack, is never armed when the
\* thread runs on.
THEOREM TimerDiesWithCallHolds == Spec => []TimerDiesWithCall
<1>1. ASSUME IInv
      PROVE  TimerDiesWithCall
  BY <1>1 DEF IInv, TimersTrue, TimerDiesWithCall
<1> QED BY <1>1, Invariance, PTL

-----------------------------------------------------------------------------
(* The virtual timers.                                                       *)

\* A set that holds the first number and with each one the next, up to n, holds
\* them all: otherwise there is a least one that it does not hold.
LEMMA UpTo ==
    ASSUME NEW n \in Nat, NEW S, 0 \in S, \A i \in 0 .. n - 1 : i \in S => i + 1 \in S
    PROVE  \A i \in 0 .. n : i \in S
<1> DEFINE T == {i \in 0 .. n : i \notin S}
<1> SUFFICES ASSUME T # {} PROVE FALSE
  OBVIOUS
<1>1. T \subseteq Nat
  OBVIOUS
<1>2. PICK m \in T : \A i \in T : <<i, m>> \notin OpToRel(<, Nat)
  BY <1>1, NatLessThanWellFounded, WFMin
<1>3. \A i \in T : ~(i < m)
  BY <1>1, <1>2 DEF OpToRel
<1>4. /\ m \in 0 .. n /\ m \notin S /\ m # 0
      /\ m - 1 \in 0 .. n - 1 /\ m - 1 < m /\ (m - 1) + 1 = m
  OBVIOUS
<1>5. m - 1 \notin T
  BY <1>3, <1>4
<1>6. m - 1 \in S
  BY <1>4, <1>5
<1> QED
  BY <1>4, <1>6

-----------------------------------------------------------------------------
(* The counter.  Dist(a, b) is how long a is after b.                        *)

Dist(a, b) == (a - b) % W

LEMMA WIsNumber == W \in Nat \ {0} /\ TimeDelta \in Nat /\ TimeDelta >= 2 /\ Latency \in Nat
  BY WAssumption, DeltaAssumption, LatencyAssumption

LEMMA AddIs ==
    ASSUME NEW a \in Counter, NEW x \in Nat, x <= W
    PROVE  (a + x) % W = IF a + x < W THEN a + x ELSE a + x - W
<1>1. W \in Nat \ {0} /\ a \in 0 .. W - 1
  BY WIsNumber DEF Counter
<1>2. CASE a + x < W
  BY <1>1, <1>2
<1>3. CASE a + x >= W
  BY <1>1, <1>3
<1> QED BY <1>1, <1>2, <1>3

LEMMA DistIs ==
    ASSUME NEW a \in Counter, NEW b \in Counter
    PROVE  Dist(a, b) = (IF b <= a THEN a - b ELSE a - b + W) /\ Dist(a, b) \in Counter
<1>1. W \in Nat \ {0} /\ a \in 0 .. W - 1 /\ b \in 0 .. W - 1
  BY WIsNumber DEF Counter
<1>2. CASE b <= a
  BY <1>1, <1>2 DEF Dist, Counter
<1>3. CASE b > a
  <2>1. a - b \in Int /\ -W <= a - b /\ a - b < 0
    BY <1>1, <1>3
  <2>2. (a - b) % W = a - b + W
    BY <1>1, <2>1
  <2> QED BY <1>1, <1>3, <2>2 DEF Dist, Counter
<1> QED BY <1>1, <1>2, <1>3

\* A time that lies x after another, and the way back.
LEMMA Later ==
    ASSUME NEW a \in Counter, NEW b \in Counter, NEW x \in Nat, Dist(a, b) + x < W
    PROVE  (a + x) % W \in Counter /\ Dist((a + x) % W, b) = Dist(a, b) + x
<1>1. W \in Nat \ {0} /\ a \in 0 .. W - 1 /\ b \in 0 .. W - 1 /\ x <= W
  BY WIsNumber, DistIs DEF Counter
<1> DEFINE s == (a + x) % W
<1>2. s = IF a + x < W THEN a + x ELSE a + x - W
  BY <1>1, AddIs
<1> HIDE DEF s
<1>3. Dist(a, b) = IF b <= a THEN a - b ELSE a - b + W
  BY DistIs
<1>4. s \in Counter
  BY <1>1, <1>2 DEF Counter
<1>5. Dist(s, b) = IF b <= s THEN s - b ELSE s - b + W
  BY <1>4, DistIs
<1> QED BY <1>1, <1>2, <1>3, <1>4, <1>5 DEF s

\* The base of the list moves to a time that has passed.
LEMMA BaseMoves ==
    ASSUME NEW a \in Counter, NEW b \in Counter, NEW x \in Counter, x <= Dist(a, b)
    PROVE  (b + x) % W \in Counter /\ Dist(a, (b + x) % W) = Dist(a, b) - x
<1>1. W \in Nat \ {0} /\ a \in 0 .. W - 1 /\ b \in 0 .. W - 1 /\ x \in 0 .. W - 1
  BY WIsNumber DEF Counter
<1> DEFINE s == (b + x) % W
<1>2. s = IF b + x < W THEN b + x ELSE b + x - W
  BY <1>1, AddIs
<1> HIDE DEF s
<1>3. Dist(a, b) = IF b <= a THEN a - b ELSE a - b + W
  BY DistIs
<1>4. s \in Counter
  BY <1>1, <1>2 DEF Counter
<1>5. Dist(a, s) = IF s <= a THEN a - s ELSE a - s + W
  BY <1>4, DistIs
<1> QED BY <1>1, <1>2, <1>3, <1>4, <1>5 DEF s

\* From one time to a later one.
LEMMA Between ==
    ASSUME NEW a \in Counter, NEW b \in Counter, NEW c \in Counter, Dist(a, b) <= Dist(c, b)
    PROVE  Dist(c, a) = Dist(c, b) - Dist(a, b)
<1>1. W \in Nat \ {0} /\ a \in 0 .. W - 1 /\ b \in 0 .. W - 1 /\ c \in 0 .. W - 1
  BY WIsNumber DEF Counter
<1>2. /\ Dist(a, b) = IF b <= a THEN a - b ELSE a - b + W
      /\ Dist(c, b) = IF b <= c THEN c - b ELSE c - b + W
      /\ Dist(c, a) = IF a <= c THEN c - a ELSE c - a + W
  BY DistIs
<1> QED BY <1>1, <1>2

\* A tick brings the counter nearer to every other time.
LEMMA Nearer ==
    ASSUME NEW a \in Counter, NEW c \in Counter, c # a
    PROVE  /\ (a + 1) % W \in Counter /\ Dist(c, a) >= 1
           /\ Dist(c, (a + 1) % W) = Dist(c, a) - 1
           /\ c # (a + 1) % W => Dist(c, a) >= 2
<1>1. W \in Nat \ {0} /\ a \in 0 .. W - 1 /\ c \in 0 .. W - 1
  BY WIsNumber DEF Counter
<1> DEFINE s == (a + 1) % W
<1>2. s = IF a + 1 < W THEN a + 1 ELSE a + 1 - W
  BY <1>1, AddIs
<1> HIDE DEF s
<1>3. s \in Counter
  BY <1>1, <1>2 DEF Counter
<1>4. /\ Dist(c, a) = IF a <= c THEN c - a ELSE c - a + W
      /\ Dist(c, s) = IF s <= c THEN c - s ELSE c - s + W
  BY <1>3, DistIs
<1> QED BY <1>1, <1>2, <1>3, <1>4 DEF s

-----------------------------------------------------------------------------
(* The deadlines of a list.                                                  *)

Entries == [vt : Timers, delta : Counter]

\* f counts the differences of the list together.
Totals(f, list) ==
    /\ f \in [0 .. Len(list) -> Nat] /\ f[0] = 0
    /\ \A k \in 1 .. Len(list) : f[k] = f[k - 1] + list[k].delta

\* The function by which Deadlines is defined, up to entry n.
Sums(f, n, list) == f = [k \in 0 .. n |-> IF k = 0 THEN 0 ELSE f[k - 1] + list[k].delta]

LEMMA SumExists ==
    ASSUME NEW list, NEW n \in Nat
    PROVE  \E f : Sums(f, n, list)
<1> DEFINE S == {i \in 0 .. n : \E f : Sums(f, i, list)}
<1>1. 0 \in S
  <2>1. Sums([k \in 0 .. 0 |-> 0], 0, list)
    BY DEF Sums
  <2> QED BY <2>1
<1>2. ASSUME NEW i \in 0 .. n - 1, i \in S PROVE i + 1 \in S
  <2>1. PICK g : Sums(g, i, list)
    BY <1>2
  <2> DEFINE f == [k \in 0 .. i + 1 |-> IF k = i + 1 THEN g[i] + list[i + 1].delta ELSE g[k]]
  <2>2. \A k \in 0 .. i : f[k] = g[k]
    OBVIOUS
  <2>3. \A k \in 0 .. i + 1 : f[k] = IF k = 0 THEN 0 ELSE f[k - 1] + list[k].delta
    <3> TAKE k \in 0 .. i + 1
    <3>1. CASE k = i + 1
      BY <2>2, <3>1
    <3>2. CASE k # i + 1
      <4>1. k \in 0 .. i /\ f[k] = g[k]
        BY <3>2, <2>2
      <4>2. g[k] = IF k = 0 THEN 0 ELSE g[k - 1] + list[k].delta
        BY <2>1, <4>1 DEF Sums
      <4>3. k # 0 => f[k - 1] = g[k - 1]
        BY <2>2, <4>1
      <4> QED BY <4>1, <4>2, <4>3
    <3> QED BY <3>1, <3>2
  <2>4. f = [k \in 0 .. i + 1 |-> IF k = 0 THEN 0 ELSE f[k - 1] + list[k].delta]
    BY <2>3
  <2> HIDE DEF f
  <2>5. Sums(f, i + 1, list)
    BY <2>4 DEF Sums
  <2> QED BY <2>5
<1> HIDE DEF S
<1>3. n \in S
  BY <1>1, <1>2, UpTo
<1> QED BY <1>3 DEF S

LEMMA DeltaIs ==
    ASSUME NEW list \in Seq(Entries), NEW k \in 1 .. Len(list)
    PROVE  /\ list[k] \in Entries /\ list[k].vt \in Timers
           /\ list[k].delta \in Nat /\ list[k].delta < W
<1>1. list[k] \in Entries
  OBVIOUS
<1>2. list[k].delta \in 0 .. W - 1 /\ list[k].vt \in Timers
  BY <1>1 DEF Entries, Counter
<1> QED BY <1>1, <1>2, WIsNumber

LEMMA DeadlinesAre ==
    ASSUME NEW list \in Seq(Entries)
    PROVE  Totals(Deadlines(list), list)
<1> DEFINE n == Len(list)
           f == CHOOSE f : Sums(f, n, list)
<1>1. Deadlines(list) = f
  BY DEF Deadlines, Sums
<1>2. n \in Nat
  OBVIOUS
<1> HIDE DEF n
<1>3. Sums(f, n, list)
  BY <1>2, SumExists
<1> HIDE DEF f
<1>4. DOMAIN f = 0 .. n /\ f[0] = 0 /\ \A k \in 1 .. n : f[k] = f[k - 1] + list[k].delta
  BY <1>2, <1>3 DEF Sums
<1> DEFINE S == {k \in 0 .. n : f[k] \in Nat}
<1>5. 0 \in S
  BY <1>2, <1>4
<1>6. ASSUME NEW k \in 0 .. n - 1, k \in S PROVE k + 1 \in S
  <2>1. k + 1 \in 1 .. n /\ f[k + 1] = f[k + 1 - 1] + list[k + 1].delta /\ k + 1 - 1 = k
    BY <1>2, <1>4
  <2>2. list[k + 1].delta \in Nat
    BY <2>1, DeltaIs DEF n
  <2> QED BY <1>2, <1>6, <2>1, <2>2
<1>7. \A k \in 0 .. n : k \in S
  BY <1>2, <1>5, <1>6, UpTo
<1>8. f = [k \in 0 .. n |-> f[k]]
  BY <1>3 DEF Sums
<1>9. f \in [0 .. n -> Nat]
  BY <1>7, <1>8
<1> QED BY <1>1, <1>4, <1>9 DEF Totals, n

LEMMA DeadlinesOnly ==
    ASSUME NEW list \in Seq(Entries), NEW f, Totals(f, list)
    PROVE  Deadlines(list) = f
<1> DEFINE n == Len(list)
           g == Deadlines(list)
           S == {k \in 0 .. n : f[k] = g[k]}
<1>1. Totals(g, list) /\ n \in Nat
  BY DeadlinesAre
<1> HIDE DEF g, n
<1>2. 0 \in S
  BY <1>1 DEF Totals
<1>3. ASSUME NEW k \in 0 .. n - 1, k \in S PROVE k + 1 \in S
  <2>1. k + 1 \in 1 .. n /\ k + 1 - 1 = k
    BY <1>1
  <2>2. f[k + 1] = f[k] + list[k + 1].delta /\ g[k + 1] = g[k] + list[k + 1].delta
    BY <1>1, <2>1 DEF Totals, n
  <2> QED BY <1>1, <1>3, <2>1, <2>2
<1>4. \A k \in 0 .. n : k \in S
  BY <1>1, <1>2, <1>3, UpTo
<1>5. f = [k \in 0 .. n |-> f[k]] /\ g = [k \in 0 .. n |-> g[k]]
  BY <1>1 DEF Totals, n
<1>6. f = g
  BY <1>4, <1>5
<1> QED BY <1>6 DEF g

\* Nobody's deadline is before that of an earlier entry.
LEMMA DeadlinesRise ==
    ASSUME NEW list \in Seq(Entries), NEW f, Totals(f, list), NEW i \in 0 .. Len(list)
    PROVE  \A j \in i .. Len(list) : f[i] <= f[j]
<1> DEFINE n == Len(list)
           S == {k \in 0 .. n - i : f[i] <= f[i + k]}
<1>1. n \in Nat /\ i \in 0 .. n /\ \A k \in 0 .. n : f[k] \in Nat
  BY DEF Totals
<1>2. \A k \in 1 .. n : f[k - 1] <= f[k]
  <2> TAKE k \in 1 .. n
  <2>1. f[k] = f[k - 1] + list[k].delta /\ list[k].delta \in Nat
    BY DeltaIs DEF Totals
  <2>2. k - 1 \in 0 .. n
    BY <1>1
  <2> QED BY <1>1, <2>1, <2>2
<1> HIDE DEF n
<1>3. 0 \in S
  BY <1>1
<1>4. ASSUME NEW k \in 0 .. n - i - 1, k \in S PROVE k + 1 \in S
  <2>1. i + (k + 1) \in 1 .. n /\ i + k \in 0 .. n /\ i + (k + 1) - 1 = i + k
    BY <1>1
  <2>2. f[i + k] <= f[i + (k + 1)]
    BY <1>2, <2>1
  <2> QED BY <1>1, <1>4, <2>1, <2>2
<1>5. \A k \in 0 .. n - i : k \in S
  <2>1. n - i \in Nat
    BY <1>1
  <2> QED BY <2>1, <1>3, <1>4, UpTo
<1>6. \A j \in i .. n : j - i \in 0 .. n - i /\ i + (j - i) = j
  BY <1>1
<1> QED BY <1>5, <1>6 DEF n

Distinct(list) == \A i, j \in DOMAIN list : list[i].vt = list[j].vt => i = j
IsList(list) ==
    /\ list \in Seq(Entries) /\ Distinct(list)
    /\ \A i \in DOMAIN list : Deadlines(list)[i] < W

\* The deadline of each timer of the list.
TimersIn(list) == {list[i].vt : i \in DOMAIN list}
Due(list) ==
    [t \in TimersIn(list) |-> Deadlines(list)[CHOOSE i \in DOMAIN list : list[i].vt = t]]

LEMMA DueIs ==
    ASSUME NEW list, Distinct(list), NEW i \in DOMAIN list
    PROVE  list[i].vt \in TimersIn(list) /\ Due(list)[list[i].vt] = Deadlines(list)[i]
<1> DEFINE c == CHOOSE j \in DOMAIN list : list[j].vt = list[i].vt
<1>1. c \in DOMAIN list /\ list[c].vt = list[i].vt
  OBVIOUS
<1>2. c = i
  BY <1>1 DEF Distinct
<1> QED BY <1>2 DEF Due, TimersIn

\* The first entry is due first.
LEMMA FirstIsLeast ==
    ASSUME NEW list, IsList(list), list # <<>>
    PROVE  /\ list[1] \in Entries /\ Head(list) = list[1] /\ list[1].delta \in Nat
           /\ list[1].delta < W
           /\ list[1].vt \in TimersIn(list) /\ Due(list)[list[1].vt] = list[1].delta
           /\ Deadlines(list)[1] = list[1].delta
           /\ \A t \in TimersIn(list) : /\ Due(list)[t] \in Nat /\ Due(list)[t] < W
                                        /\ list[1].delta <= Due(list)[t]
<1> DEFINE f == Deadlines(list)
<1>1. list \in Seq(Entries) /\ Distinct(list) /\ Totals(f, list)
  BY DeadlinesAre DEF IsList
<1>2. 1 \in 1 .. Len(list) /\ DOMAIN list = 1 .. Len(list) /\ Head(list) = list[1]
  BY <1>1
<1>3. f[1] = list[1].delta
  <2>1. f[1] = f[1 - 1] + list[1].delta /\ f[0] = 0 /\ 1 - 1 = 0
    BY <1>1, <1>2 DEF Totals
  <2>2. list[1].delta \in Nat
    BY <1>1, <1>2, DeltaIs
  <2> QED BY <2>1, <2>2
<1>4. ASSUME NEW t \in TimersIn(list)
      PROVE  Due(list)[t] \in Nat /\ Due(list)[t] < W /\ list[1].delta <= Due(list)[t]
  <2>1. PICK i \in 1 .. Len(list) : t = list[i].vt
    BY <1>2 DEF TimersIn
  <2>2. Due(list)[t] = f[i]
    BY <1>1, <1>2, <2>1, DueIs
  <2>3. f[1] <= f[i]
    BY <1>1, <1>2, DeadlinesRise
  <2>4. f[i] \in Nat /\ f[i] < W
    BY <1>1, <1>2 DEF Totals, IsList
  <2> QED BY <1>3, <2>2, <2>3, <2>4
<1>5. list[1] \in Entries /\ list[1].delta \in Nat /\ list[1].delta < W
  BY <1>1, <1>2, DeltaIs
<1>6. list[1].vt \in TimersIn(list) /\ Due(list)[list[1].vt] = list[1].delta
  BY <1>1, <1>2, <1>3, DueIs
<1> QED BY <1>2, <1>3, <1>4, <1>5, <1>6

\* The list without its first entry, which is now its base.
LEMMA TailIsDue ==
    ASSUME NEW list, IsList(list), list # <<>>
    PROVE  /\ IsList(Tail(list)) /\ TimersIn(Tail(list)) = TimersIn(list) \ {list[1].vt}
           /\ \A t \in TimersIn(Tail(list)) :
                  Due(Tail(list))[t] = Due(list)[t] - list[1].delta
<1> DEFINE f == Deadlines(list)
           n == Len(list)
           g == [k \in 0 .. n - 1 |-> f[k + 1] - f[1]]
           new == Tail(list)
<1>1. list \in Seq(Entries) /\ Distinct(list) /\ Totals(f, list) /\ f[1] = list[1].delta
  BY DeadlinesAre, FirstIsLeast DEF IsList
<1>2. /\ n \in Nat /\ n >= 1 /\ DOMAIN list = 1 .. n
      /\ new \in Seq(Entries) /\ Len(new) = n - 1 /\ DOMAIN new = 1 .. n - 1
      /\ \A k \in 1 .. n - 1 : new[k] = list[k + 1]
  BY <1>1
<1>3. \A k \in 0 .. n : f[k] \in Nat /\ (k # 0 => f[k] < W)
  BY <1>1, <1>2 DEF Totals, IsList
<1>4. \A k \in 1 .. n : f[k] = f[k - 1] + list[k].delta
  BY <1>1 DEF Totals
<1>5. \A k \in 1 .. n : f[1] <= f[k]
  BY <1>1, <1>2, DeadlinesRise
<1> HIDE DEF f, n, new
<1>6. Totals(g, new)
  <2>1. g[0] = 0
    BY <1>2, <1>3
  <2>2. \A k \in 0 .. n - 1 : g[k] \in Nat
    BY <1>2, <1>3, <1>5
  <2>3. ASSUME NEW k \in 1 .. n - 1 PROVE g[k] = g[k - 1] + new[k].delta
    <3>1. f[k + 1] = f[k] + list[k + 1].delta
      <4>1. k + 1 \in 1 .. n /\ k + 1 - 1 = k
        BY <1>2
      <4> QED BY <1>4, <4>1
    <3>2. g[k] = f[k + 1] - f[1] /\ g[k - 1] = f[k] - f[1]
      BY <1>2
    <3>3. f[k] \in Nat /\ f[k + 1] \in Nat /\ f[1] \in Nat
      BY <1>2, <1>3
    <3>4. list[k + 1].delta \in Nat
      BY <1>1, <1>2, DeltaIs DEF n
    <3> QED BY <3>1, <3>2, <3>3, <3>4, <1>2
  <2>4. g = [k \in 0 .. n - 1 |-> g[k]]
    OBVIOUS
  <2> HIDE DEF g
  <2> QED BY <1>2, <2>1, <2>2, <2>3, <2>4 DEF Totals
<1>7. Deadlines(new) = g
  BY <1>2, <1>6, DeadlinesOnly
<1>8. Distinct(new)
  <2>1. SUFFICES ASSUME NEW j \in 1 .. n - 1, NEW k \in 1 .. n - 1, new[j].vt = new[k].vt
                 PROVE  j = k
    BY <1>2 DEF Distinct
  <2>2. j + 1 \in 1 .. n /\ k + 1 \in 1 .. n /\ list[j + 1].vt = list[k + 1].vt
    BY <1>2, <2>1
  <2>3. j + 1 = k + 1
    BY <1>1, <1>2, <2>2 DEF Distinct
  <2> QED BY <1>2, <2>3
<1>9. \A i \in DOMAIN new : Deadlines(new)[i] < W
  BY <1>2, <1>3, <1>5, <1>7, WIsNumber
<1>10. TimersIn(new) = TimersIn(list) \ {list[1].vt}
  <2>1. ASSUME NEW t \in TimersIn(new) PROVE t \in TimersIn(list) \ {list[1].vt}
    <3>1. PICK k \in 1 .. n - 1 : t = new[k].vt
      BY <1>2 DEF TimersIn
    <3>2. k + 1 \in 1 .. n /\ k + 1 # 1 /\ 1 \in 1 .. n /\ t = list[k + 1].vt
      BY <1>2, <3>1
    <3>3. list[k + 1].vt # list[1].vt
      BY <1>1, <1>2, <3>2 DEF Distinct
    <3> QED BY <1>2, <3>2, <3>3 DEF TimersIn
  <2>2. ASSUME NEW t \in TimersIn(list), t # list[1].vt PROVE t \in TimersIn(new)
    <3>1. PICK i \in 1 .. n : t = list[i].vt /\ i # 1
      BY <1>2, <2>2 DEF TimersIn
    <3>2. i - 1 \in 1 .. n - 1 /\ new[i - 1] = list[i]
      BY <1>2, <3>1
    <3> QED BY <1>2, <3>1, <3>2 DEF TimersIn
  <2> QED BY <2>1, <2>2
<1>11. ASSUME NEW t \in TimersIn(new) PROVE Due(new)[t] = Due(list)[t] - list[1].delta
  <2>1. PICK i \in 1 .. n - 1 : t = new[i].vt
    BY <1>2 DEF TimersIn
  <2>2. Due(new)[t] = g[i]
    <3>1. Due(new)[new[i].vt] = Deadlines(new)[i]
      BY <1>2, <1>8, DueIs
    <3> HIDE DEF g
    <3> QED BY <1>7, <2>1, <3>1
  <2>3. i + 1 \in 1 .. n /\ t = list[i + 1].vt
    BY <1>2, <2>1
  <2>4. Due(list)[t] = f[i + 1]
    BY <1>1, <1>2, <2>3, DueIs DEF f
  <2> QED BY <1>1, <2>2, <2>4
<1> QED BY <1>2, <1>8, <1>9, <1>10, <1>11 DEF IsList, new

\* What Unlinked leaves.
LEMMA UnlinkedElements ==
    ASSUME IsList(vtlist), NEW i \in DOMAIN vtlist
    PROVE  /\ Unlinked(i) \in Seq(Entries) /\ Len(Unlinked(i)) = Len(vtlist) - 1
           /\ \A k \in 1 .. Len(vtlist) - 1 :
                  /\ k < i => Unlinked(i)[k] = vtlist[k]
                  /\ k > i => Unlinked(i)[k] = vtlist[k + 1]
                  /\ k = i => Unlinked(i)[k] = [vt |-> vtlist[i + 1].vt,
                                 delta |-> vtlist[i].delta + vtlist[i + 1].delta]
<1> DEFINE f == Deadlines(vtlist)
           n == Len(vtlist)
<1>1. /\ vtlist \in Seq(Entries) /\ Totals(f, vtlist) /\ n \in Nat /\ DOMAIN vtlist = 1 .. n
      /\ i \in 1 .. n /\ \A k \in 1 .. n : f[k] < W
  BY DeadlinesAre DEF IsList
<1> HIDE DEF f
<1>2. CASE i = n
  <2>1. Unlinked(i) = SubSeq(vtlist, 1, n - 1)
    BY <1>2 DEF Unlinked, Front
  <2>2. /\ SubSeq(vtlist, 1, n - 1) \in Seq(Entries) /\ Len(SubSeq(vtlist, 1, n - 1)) = n - 1
        /\ \A k \in 1 .. n - 1 : SubSeq(vtlist, 1, n - 1)[k] = vtlist[k]
    BY <1>1
  <2>3. \A k \in 1 .. n - 1 : k < i /\ ~(k > i) /\ k # i
    <3>1. \A m \in Nat : \A k \in 1 .. m - 1 : k < m /\ ~(k > m) /\ k # m
      OBVIOUS
    <3> QED BY <1>1, <1>2, <3>1
  <2> QED BY <2>1, <2>2, <2>3
<1>3. CASE i # n
  <2> DEFINE q == RemoveAt(vtlist, i)
             d == vtlist[i].delta + vtlist[i + 1].delta
  <2>1. /\ q \in Seq(Entries) /\ Len(q) = n - 1
        /\ \A j \in 1 .. n - 1 : q[j] = IF j < i THEN vtlist[j] ELSE vtlist[j + 1]
    <3>1. vtlist \in Seq(Entries) /\ i \in 1 .. Len(vtlist)
      BY <1>1
    <3>2. RemoveAt(vtlist, i) \in Seq(Entries) /\ Len(RemoveAt(vtlist, i)) = Len(vtlist) - 1
      BY <3>1, RemoveAtElements, Zenon
    <3>3. \A j \in 1 .. Len(vtlist) - 1 :
              RemoveAt(vtlist, i)[j] = IF j < i THEN vtlist[j] ELSE vtlist[j + 1]
      BY <3>1, RemoveAtElements, Zenon
    <3> QED BY <3>2, <3>3
  <2>2. i \in 1 .. n - 1 /\ i + 1 \in 1 .. n /\ q[i] = vtlist[i + 1]
    BY <1>1, <1>3, <2>1
  <2>3. d \in Nat /\ d < W
    <3>1. f[i] = f[i - 1] + vtlist[i].delta /\ f[i + 1] = f[i] + vtlist[i + 1].delta
      <4>1. i + 1 - 1 = i
        BY <1>1
      <4> QED BY <1>1, <2>2, <4>1 DEF Totals
    <3>2. f[i - 1] \in Nat /\ f[i] \in Nat /\ f[i + 1] \in Nat /\ f[i + 1] < W
      BY <1>1, <2>2 DEF Totals
    <3>3. vtlist[i].delta \in Nat /\ vtlist[i + 1].delta \in Nat
      BY <1>1, <2>2, DeltaIs
    <3> QED BY <3>1, <3>2, <3>3, WIsNumber
  <2>4. (vtlist[i + 1].delta + vtlist[i].delta) % W = d
    <3>1. vtlist[i].delta \in Nat /\ vtlist[i + 1].delta \in Nat
      BY <1>1, <2>2, DeltaIs
    <3>2. vtlist[i + 1].delta + vtlist[i].delta = d
      BY <3>1
    <3>3. d % W = d
      BY <2>3, WIsNumber
    <3> QED BY <3>2, <3>3
  <2>5. vtlist[i + 1] \in Entries
    BY <1>1, <2>2, DeltaIs
  <2> DEFINE e == [vt |-> vtlist[i + 1].vt, delta |-> d]
  <2>6. e \in Entries /\ e = [vtlist[i + 1] EXCEPT !.delta = d]
    BY <2>3, <2>5, WIsNumber DEF Entries, Counter
  <2>7. Unlinked(i) = [q EXCEPT ![i] = [q[i] EXCEPT !.delta = (@ + vtlist[i].delta) % W]]
    BY <1>3 DEF Unlinked
  <2> HIDE DEF q, d
  <2>8. Unlinked(i) = [q EXCEPT ![i] = e]
    BY <2>2, <2>4, <2>6, <2>7
  <2> HIDE DEF e
  <2>9. /\ Unlinked(i) \in Seq(Entries) /\ Len(Unlinked(i)) = n - 1
        /\ \A j \in 1 .. n - 1 : Unlinked(i)[j] = IF j = i THEN e ELSE q[j]
    BY <2>1, <2>2, <2>6, <2>8
  <2> QED BY <1>1, <2>1, <2>9 DEF e, d
<1> QED BY <1>2, <1>3

\* A timer is taken out; the others stay due when they were.
LEMMA UnlinkedIsDue ==
    ASSUME IsList(vtlist), NEW i \in DOMAIN vtlist
    PROVE  /\ IsList(Unlinked(i)) /\ TimersIn(Unlinked(i)) = TimersIn(vtlist) \ {vtlist[i].vt}
           /\ \A t \in TimersIn(Unlinked(i)) : Due(Unlinked(i))[t] = Due(vtlist)[t]
<1> DEFINE f == Deadlines(vtlist)
           n == Len(vtlist)
           new == Unlinked(i)
           g == [k \in 0 .. n - 1 |-> IF k < i THEN f[k] ELSE f[k + 1]]
<1>1. /\ vtlist \in Seq(Entries) /\ Distinct(vtlist) /\ Totals(f, vtlist)
      /\ n \in Nat /\ DOMAIN vtlist = 1 .. n /\ i \in 1 .. n
  BY DeadlinesAre DEF IsList
<1>2. /\ new \in Seq(Entries) /\ Len(new) = n - 1 /\ DOMAIN new = 1 .. n - 1
      /\ \A k \in 1 .. n - 1 :
             /\ k < i => new[k] = vtlist[k]
             /\ k > i => new[k] = vtlist[k + 1]
             /\ k = i => new[k] = [vt |-> vtlist[i + 1].vt,
                                   delta |-> vtlist[i].delta + vtlist[i + 1].delta]
  <2>1. new \in Seq(Entries) /\ Len(new) = n - 1
    BY UnlinkedElements
  <2> QED BY <2>1, UnlinkedElements
<1>3. \A k \in 0 .. n : f[k] \in Nat /\ (k # 0 => f[k] < W)
  BY <1>1 DEF Totals, IsList
<1>4. \A k \in 1 .. n : f[k] = f[k - 1] + vtlist[k].delta /\ vtlist[k].delta \in Nat
  BY <1>1, DeltaIs DEF Totals
<1>5. f[0] = 0
  BY <1>1 DEF Totals
<1>6. \A k \in 1 .. n - 1 : new[k].vt = IF k < i THEN vtlist[k].vt ELSE vtlist[k + 1].vt
  BY <1>1, <1>2
<1> HIDE DEF f, n, new
<1>7. Totals(g, new)
  <2>1. g[0] = 0
    BY <1>1, <1>5
  <2>2. \A k \in 0 .. n - 1 : g[k] \in Nat
    BY <1>1, <1>3
  <2>3. ASSUME NEW k \in 1 .. n - 1 PROVE g[k] = g[k - 1] + new[k].delta
    <3>1. /\ f[k] = f[k - 1] + vtlist[k].delta /\ f[k + 1] = f[k] + vtlist[k + 1].delta
          /\ vtlist[k].delta \in Nat /\ vtlist[k + 1].delta \in Nat
      <4>1. k + 1 \in 1 .. n /\ k + 1 - 1 = k
        BY <1>1
      <4> QED BY <1>1, <1>4, <4>1
    <3>2. /\ g[k] = IF k < i THEN f[k] ELSE f[k + 1]
          /\ g[k - 1] = IF k - 1 < i THEN f[k - 1] ELSE f[k]
      BY <1>1
    <3>3. f[k - 1] \in Nat /\ f[k] \in Nat /\ f[k + 1] \in Nat
      BY <1>1, <1>3
    <3>4. CASE k < i
      BY <1>1, <1>2, <3>1, <3>2, <3>3, <3>4
    <3>5. CASE k = i
      <4>1. new[k].delta = vtlist[k].delta + vtlist[k + 1].delta
        BY <1>2, <3>5
      <4> QED BY <1>1, <3>1, <3>2, <3>3, <3>5, <4>1
    <3>6. CASE k > i
      BY <1>1, <1>2, <3>1, <3>2, <3>3, <3>6
    <3> QED BY <1>1, <3>4, <3>5, <3>6
  <2>4. g = [k \in 0 .. n - 1 |-> g[k]]
    OBVIOUS
  <2> HIDE DEF g
  <2> QED BY <1>2, <2>1, <2>2, <2>3, <2>4 DEF Totals
<1>8. Deadlines(new) = g
  BY <1>2, <1>7, DeadlinesOnly
<1>9. Distinct(new)
  <2>1. SUFFICES ASSUME NEW j \in 1 .. n - 1, NEW k \in 1 .. n - 1, new[j].vt = new[k].vt
                 PROVE  j = k
    BY <1>2 DEF Distinct
  <2>2. j + 1 \in 1 .. n /\ k + 1 \in 1 .. n /\ j \in 1 .. n /\ k \in 1 .. n
    BY <1>1
  <2> QED BY <1>1, <1>6, <2>1, <2>2 DEF Distinct
<1>10. \A k \in DOMAIN new : Deadlines(new)[k] < W
  BY <1>1, <1>2, <1>3, <1>8
<1>11. TimersIn(new) = TimersIn(vtlist) \ {vtlist[i].vt}
  <2>1. ASSUME NEW t \in TimersIn(new) PROVE t \in TimersIn(vtlist) \ {vtlist[i].vt}
    <3>1. PICK k \in 1 .. n - 1 : t = new[k].vt
      BY <1>2 DEF TimersIn
    <3>2. k + 1 \in 1 .. n /\ k \in 1 .. n
      BY <1>1
    <3> QED BY <1>1, <1>6, <3>1, <3>2 DEF TimersIn, Distinct
  <2>2. ASSUME NEW t \in TimersIn(vtlist), t # vtlist[i].vt PROVE t \in TimersIn(new)
    <3>1. PICK k \in 1 .. n : t = vtlist[k].vt /\ k # i
      BY <1>1, <2>2 DEF TimersIn
    <3>2. CASE k < i
      <4>1. k \in 1 .. n - 1 /\ new[k].vt = vtlist[k].vt
        BY <1>1, <1>6, <3>1, <3>2
      <4> QED BY <1>2, <3>1, <4>1 DEF TimersIn
    <3>3. CASE k > i
      <4>1. k - 1 \in 1 .. n - 1 /\ new[k - 1].vt = vtlist[k].vt
        <5>1. k - 1 \in 1 .. n - 1 /\ ~(k - 1 < i) /\ k - 1 + 1 = k
          BY <1>1, <3>3
        <5> QED BY <1>6, <5>1
      <4> QED BY <1>2, <3>1, <4>1 DEF TimersIn
    <3> QED BY <1>1, <3>1, <3>2, <3>3
  <2> QED BY <2>1, <2>2
<1>12. ASSUME NEW t \in TimersIn(new) PROVE Due(new)[t] = Due(vtlist)[t]
  <2>1. PICK k \in 1 .. n - 1 : t = new[k].vt
    BY <1>2 DEF TimersIn
  <2>2. Due(new)[t] = g[k]
    BY <1>2, <1>8, <1>9, <2>1, DueIs
  <2> DEFINE m == IF k < i THEN k ELSE k + 1
  <2>3. m \in 1 .. n /\ t = vtlist[m].vt /\ g[k] = f[m]
    BY <1>1, <1>6, <2>1
  <2> HIDE DEF m
  <2>4. Due(vtlist)[t] = f[m]
    BY <1>1, <2>3, DueIs DEF f
  <2> QED BY <2>2, <2>3, <2>4
<1> QED BY <1>2, <1>9, <1>10, <1>11, <1>12 DEF IsList, new

\* The place of a deadline in the list.
LEMMA PlaceIs ==
    ASSUME IsList(vtlist), NEW d \in Nat
    PROVE  LET f == Deadlines(vtlist)
               p == Place(d, 1)
           IN /\ p.at \in 1 .. Len(vtlist) + 1 /\ p.delta = d - f[p.at - 1]
              /\ \A k \in 1 .. p.at - 1 : f[k] < d
              /\ p.at <= Len(vtlist) => f[p.at] >= d
<1> DEFINE f == Deadlines(vtlist)
           n == Len(vtlist)
           later == {k \in 1 .. n : f[k] - f[1 - 1] >= d}
           at == IF later = {} THEN n + 1 ELSE Min(later)
<1>1. Totals(f, vtlist) /\ n \in Nat
  BY DeadlinesAre DEF IsList
<1>2. Place(d, 1) = [at |-> at, delta |-> d - (f[at - 1] - f[1 - 1])]
  BY DEF Place
<1>3. /\ f[1 - 1] = 0 /\ \A k \in 0 .. n : f[k] \in Nat
  <2>1. 1 - 1 = 0
    OBVIOUS
  <2> QED BY <1>1, <2>1 DEF Totals
<1> HIDE DEF f, n
<1>4. \A k \in 1 .. n : k \in later <=> f[k] >= d
  BY <1>3
<1>5. /\ at \in 1 .. n + 1
      /\ \A k \in 1 .. at - 1 : f[k] < d
      /\ at <= n => f[at] >= d
  <2>1. CASE later = {}
    <3>1. at = n + 1
      BY <2>1
    <3>2. \A k \in 1 .. n : f[k] < d
      BY <1>3, <1>4, <2>1
    <3> QED BY <1>1, <3>1, <3>2
  <2>2. CASE later # {}
    <3>1. later \subseteq Nat
      BY <1>1
    <3> HIDE DEF later
    <3>2. PICK m \in later : \A i \in later : <<i, m>> \notin OpToRel(<, Nat)
      BY <2>2, <3>1, NatLessThanWellFounded, WFMin
    <3>3. \A i \in later : m <= i
      <4> TAKE i \in later
      <4>1. ~(i < m) /\ i \in Nat /\ m \in Nat
        BY <3>1, <3>2 DEF OpToRel
      <4> QED BY <4>1
    <3> DEFINE c == Min(later)
    <3>4. c \in later /\ \A i \in later : c <= i
      <4>1. \E x \in later : \A y \in later : x <= y
        BY <3>2, <3>3
      <4> QED BY <4>1 DEF Min
    <3>5. at = c
      BY <2>2
    <3> HIDE DEF c, at
    <3>6. c \in 1 .. n /\ f[c] >= d
      <4>1. c \in 1 .. n
        BY <3>4 DEF later
      <4> QED BY <1>4, <3>4, <4>1
    <3>7. ASSUME NEW k \in 1 .. c - 1 PROVE f[k] < d
      <4>1. k \in 1 .. n /\ ~(c <= k) /\ f[k] \in Nat
        BY <1>1, <1>3, <3>6
      <4>2. k \notin later
        BY <3>4, <4>1
      <4> QED BY <1>4, <4>1, <4>2
    <3> QED BY <1>1, <3>5, <3>6, <3>7
  <2> QED BY <2>1, <2>2
<1> HIDE DEF at, later
<1>6. d - (f[at - 1] - f[1 - 1]) = d - f[at - 1]
  <2>1. at - 1 \in 0 .. n
    BY <1>1, <1>5
  <2> QED BY <1>3, <2>1
<1> QED BY <1>2, <1>5, <1>6 DEF f, n

\* A timer is put in; the others stay due when they were.
LEMMA InsertIsDue ==
    ASSUME IsList(vtlist), NEW d \in Nat, d < W, NEW vt \in Timers, vt \notin TimersIn(vtlist)
    PROVE  LET new == Insert(vt, Place(d, 1).at, Place(d, 1).delta)
           IN /\ IsList(new) /\ new # <<>> /\ TimersIn(new) = TimersIn(vtlist) \cup {vt}
              /\ Due(new)[vt] = d
              /\ \A t \in TimersIn(vtlist) : Due(new)[t] = Due(vtlist)[t]
<1> DEFINE f == Deadlines(vtlist)
           n == Len(vtlist)
           at == Place(d, 1).at
           delta == Place(d, 1).delta
           new == Insert(vt, at, delta)
           g == [k \in 0 .. n + 1 |-> IF k < at THEN f[k] ELSE IF k = at THEN d ELSE f[k - 1]]
<1>1. /\ vtlist \in Seq(Entries) /\ Distinct(vtlist) /\ Totals(f, vtlist)
      /\ n \in Nat /\ DOMAIN vtlist = 1 .. n
  BY DeadlinesAre DEF IsList
<1>2. /\ at \in 1 .. n + 1 /\ delta = d - f[at - 1]
      /\ \A k \in 1 .. at - 1 : f[k] < d
      /\ at <= n => f[at] >= d
  BY PlaceIs
<1>3. \A k \in 0 .. n : f[k] \in Nat /\ (k # 0 => f[k] < W)
  BY <1>1 DEF Totals, IsList
<1>4. \A k \in 1 .. n : f[k] = f[k - 1] + vtlist[k].delta /\ vtlist[k].delta \in Nat
  BY <1>1, DeltaIs DEF Totals
<1>5. f[0] = 0
  BY <1>1 DEF Totals
<1> HIDE DEF f
<1>6. new = [k \in 1 .. n + 1 |->
                 CASE k < at -> vtlist[k]
                   [] k = at -> [vt |-> vt, delta |-> delta]
                   [] k = at + 1 -> [vtlist[at] EXCEPT !.delta = @ - delta]
                   [] OTHER -> vtlist[k - 1]]
  BY DEF Insert
<1> HIDE DEF n, at, delta
<1>7. delta \in Nat /\ delta < W
  <2>1. CASE at = 1
    BY <1>2, <1>5, <2>1
  <2>2. CASE at # 1
    <3>1. at - 1 \in 1 .. at - 1 /\ at - 1 \in 0 .. n
      BY <1>1, <1>2, <2>2
    <3>2. f[at - 1] < d /\ f[at - 1] \in Nat
      BY <1>2, <1>3, <3>1
    <3> QED BY <1>2, <3>2, WIsNumber
  <2> QED BY <2>1, <2>2
<1>8. at <= n => vtlist[at].delta - delta = f[at] - d /\ f[at] - d \in Nat /\ f[at] - d < W
  <2> SUFFICES ASSUME at <= n
               PROVE  vtlist[at].delta - delta = f[at] - d /\ f[at] - d \in Nat /\ f[at] - d < W
    OBVIOUS
  <2>1. at \in 1 .. n /\ at - 1 \in 0 .. n
    BY <1>1, <1>2
  <2>2. f[at] = f[at - 1] + vtlist[at].delta /\ vtlist[at].delta \in Nat
    BY <1>4, <2>1
  <2>3. f[at - 1] \in Nat /\ f[at] \in Nat /\ f[at] < W /\ f[at] >= d
    BY <1>2, <1>3, <2>1
  <2> QED BY <1>2, <2>2, <2>3, WIsNumber
<1>9. \A k \in 1 .. n + 1 :
          /\ k < at => new[k] = vtlist[k]
          /\ k = at => new[k] = [vt |-> vt, delta |-> delta]
          /\ k = at + 1 => new[k] = [vtlist[at] EXCEPT !.delta = @ - delta]
          /\ k > at + 1 => new[k] = vtlist[k - 1]
  BY <1>1, <1>2, <1>6
<1>10. at <= n => [vtlist[at] EXCEPT !.delta = @ - delta]
                    = [vt |-> vtlist[at].vt, delta |-> f[at] - d]
  <2> SUFFICES ASSUME at <= n
               PROVE  [vtlist[at] EXCEPT !.delta = @ - delta]
                        = [vt |-> vtlist[at].vt, delta |-> f[at] - d]
    OBVIOUS
  <2>1. at \in 1 .. n
    BY <1>1, <1>2
  <2>2. vtlist[at] \in [vt : Timers, delta : Counter]
    BY <1>1, <2>1, DeltaIs DEF Entries, n
  <2>3. vtlist[at] = [vt |-> vtlist[at].vt, delta |-> vtlist[at].delta]
    BY <2>2
  <2> QED BY <1>8, <2>3
<1>11. /\ new \in Seq(Entries) /\ Len(new) = n + 1 /\ DOMAIN new = 1 .. n + 1
  <2>1. ASSUME NEW k \in 1 .. n + 1 PROVE new[k] \in Entries
    <3>1. CASE k < at
      <4>1. k \in 1 .. n
        BY <1>1, <1>2, <3>1
      <4> QED BY <1>1, <1>9, <3>1, <4>1
    <3>2. CASE k = at
      BY <1>7, <1>9, <3>2, WIsNumber DEF Entries, Counter
    <3>3. CASE k = at + 1
      <4>1. at <= n /\ at \in 1 .. n
        BY <1>1, <1>2, <3>3
      <4>2. new[k] = [vt |-> vtlist[at].vt, delta |-> f[at] - d]
        BY <1>9, <1>10, <3>3, <4>1
      <4>3. vtlist[at].vt \in Timers
        BY <1>1, <4>1, DeltaIs DEF n
      <4> QED BY <1>8, <4>1, <4>2, <4>3, WIsNumber DEF Entries, Counter
    <3>4. CASE k > at + 1
      <4>1. k - 1 \in 1 .. n
        BY <1>1, <1>2, <3>4
      <4> QED BY <1>1, <1>9, <3>4, <4>1
    <3> QED BY <1>1, <1>2, <3>1, <3>2, <3>3, <3>4
  <2>2. new = [k \in 1 .. n + 1 |-> new[k]]
    BY <1>6
  <2>3. n + 1 \in Nat
    BY <1>1
  <2> HIDE DEF new
  <2>4. new \in [1 .. n + 1 -> Entries]
    BY <2>1, <2>2
  <2> QED BY <2>3, <2>4
<1> DEFINE old(k) == IF k < at THEN k ELSE k - 1
<1>12. \A k \in 1 .. n + 1 : k # at => old(k) \in 1 .. n /\ new[k].vt = vtlist[old(k)].vt
  <2> TAKE k \in 1 .. n + 1
  <2>1. CASE k < at
    BY <1>1, <1>2, <1>9, <2>1
  <2>2. CASE k = at + 1
    <3>1. at <= n /\ at \in 1 .. n /\ old(k) = at
      BY <1>1, <1>2, <2>2
    <3>2. new[k] = [vt |-> vtlist[at].vt, delta |-> f[at] - d]
      BY <1>9, <1>10, <2>2, <3>1
    <3> QED BY <3>1, <3>2
  <2>3. CASE k > at + 1
    <3>1. old(k) = k - 1 /\ k - 1 \in 1 .. n
      BY <1>1, <1>2, <2>3
    <3> QED BY <1>9, <2>3, <3>1
  <2> QED BY <1>1, <1>2, <2>1, <2>2, <2>3
<1>13. new[at].vt = vt
  BY <1>2, <1>9
<1>14. \A k \in 1 .. n + 1 : k # at => g[k] = f[old(k)]
  BY <1>1, <1>2
<1>15. g[at] = d
  BY <1>1, <1>2
<1>16. Totals(g, new)
  <2>1. g[0] = 0
    BY <1>1, <1>2, <1>5
  <2>2. \A k \in 0 .. n + 1 : g[k] \in Nat
    BY <1>1, <1>2, <1>3
  <2>3. ASSUME NEW k \in 1 .. n + 1 PROVE g[k] = g[k - 1] + new[k].delta
    <3>1. CASE k < at
      <4>1. /\ k \in 1 .. n /\ g[k] = f[k] /\ g[k - 1] = f[k - 1]
            /\ new[k].delta = vtlist[k].delta
        BY <1>1, <1>2, <1>9, <3>1
      <4> QED BY <1>4, <4>1
    <3>2. CASE k = at
      <4>1. g[k] = d /\ g[k - 1] = f[at - 1] /\ new[k].delta = delta
        BY <1>1, <1>2, <1>9, <3>2
      <4>2. at - 1 \in 0 .. n
        BY <1>1, <1>2
      <4>3. f[at - 1] \in Nat
        BY <1>3, <4>2
      <4> QED BY <1>2, <4>1, <4>3
    <3>3. CASE k = at + 1
      <4>1. at <= n /\ at \in 1 .. n
        BY <1>1, <1>2, <3>3
      <4>2. g[k] = f[at] /\ g[k - 1] = d
        BY <1>1, <1>2, <3>3
      <4>3. new[k].delta = f[at] - d
        BY <1>9, <1>10, <3>3, <4>1
      <4>4. f[at] \in Nat
        BY <1>1, <1>3, <4>1
      <4> QED BY <4>2, <4>3, <4>4
    <3>4. CASE k > at + 1
      <4>1. k - 1 \in 1 .. n /\ g[k] = f[k - 1] /\ g[k - 1] = f[k - 1 - 1]
        BY <1>1, <1>2, <3>4
      <4>2. new[k].delta = vtlist[k - 1].delta
        BY <1>9, <3>4
      <4> QED BY <1>4, <4>1, <4>2
    <3> QED BY <1>1, <1>2, <3>1, <3>2, <3>3, <3>4
  <2>4. g = [k \in 0 .. n + 1 |-> g[k]]
    OBVIOUS
  <2> HIDE DEF g, new
  <2> QED BY <1>11, <2>1, <2>2, <2>3, <2>4 DEF Totals
<1> HIDE DEF g, new
<1>17. Deadlines(new) = g
  BY <1>11, <1>16, DeadlinesOnly
<1>18. Distinct(new)
  <2>1. \A k \in 1 .. n + 1 : k # at => new[k].vt # vt
    BY <1>1, <1>12 DEF TimersIn
  <2>2. SUFFICES ASSUME NEW j \in 1 .. n + 1, NEW k \in 1 .. n + 1, new[j].vt = new[k].vt
                 PROVE  j = k
    BY <1>11 DEF Distinct
  <2>3. CASE j = at \/ k = at
    BY <1>13, <2>1, <2>2, <2>3
  <2>4. CASE j # at /\ k # at
    <3>1. old(j) = old(k)
      <4>1. old(j) \in DOMAIN vtlist /\ old(k) \in DOMAIN vtlist
            /\ vtlist[old(j)].vt = vtlist[old(k)].vt
        BY <1>1, <1>12, <2>2, <2>4
      <4> HIDE DEF old
      <4> QED BY <1>1, <4>1 DEF Distinct
    <3> QED BY <1>1, <1>2, <2>4, <3>1
  <2> QED BY <2>3, <2>4
<1>19. \A k \in DOMAIN new : Deadlines(new)[k] < W
  <2> TAKE k \in DOMAIN new
  <2>1. CASE k = at
    BY <1>15, <1>17, <2>1
  <2>2. CASE k # at
    <3>1. k \in 1 .. n + 1 /\ old(k) \in 1 .. n /\ g[k] = f[old(k)]
      BY <1>11, <1>12, <1>14, <2>2
    <3> HIDE DEF old
    <3>2. f[old(k)] < W
      BY <1>1, <1>3, <3>1
    <3> QED BY <1>17, <3>1, <3>2
  <2> QED BY <2>1, <2>2
<1>20. \A t \in TimersIn(vtlist) :
           \E k \in 1 .. n + 1 : k # at /\ new[k].vt = t /\ Due(vtlist)[t] = f[old(k)]
  <2> TAKE t \in TimersIn(vtlist)
  <2>1. PICK i \in 1 .. n : vtlist[i].vt = t
    BY <1>1 DEF TimersIn
  <2> DEFINE k == IF i < at THEN i ELSE i + 1
  <2>2. k \in 1 .. n + 1 /\ k # at /\ old(k) = i
    BY <1>1, <1>2
  <2>3. Due(vtlist)[t] = f[i]
    BY <1>1, <2>1, DueIs DEF f
  <2>4. new[k].vt = t
    <3> HIDE DEF k, old
    <3> QED BY <1>12, <2>1, <2>2
  <2> HIDE DEF k
  <2>5. Due(vtlist)[t] = f[old(k)]
    BY <2>2, <2>3
  <2> QED BY <2>2, <2>4, <2>5
<1>21. \A t \in TimersIn(vtlist) : t \in TimersIn(new) /\ Due(new)[t] = Due(vtlist)[t]
  <2> TAKE t \in TimersIn(vtlist)
  <2>1. PICK k \in 1 .. n + 1 : k # at /\ new[k].vt = t /\ Due(vtlist)[t] = f[old(k)]
    BY <1>20
  <2> HIDE DEF old
  <2>2. Due(new)[new[k].vt] = Deadlines(new)[k] /\ new[k].vt \in TimersIn(new)
    BY <1>11, <1>18, DueIs
  <2>3. g[k] = f[old(k)]
    BY <1>14, <2>1 DEF old
  <2> QED BY <1>17, <2>1, <2>2, <2>3
<1>22. vt \in TimersIn(new) /\ Due(new)[vt] = d
  <2>1. Due(new)[new[at].vt] = Deadlines(new)[at] /\ new[at].vt \in TimersIn(new)
    BY <1>2, <1>11, <1>18, DueIs
  <2> QED BY <1>13, <1>15, <1>17, <2>1
<1>23. TimersIn(new) \subseteq TimersIn(vtlist) \cup {vt}
  <2> SUFFICES ASSUME NEW k \in 1 .. n + 1 PROVE new[k].vt \in TimersIn(vtlist) \cup {vt}
    BY <1>11 DEF TimersIn
  <2>1. CASE k = at
    BY <1>13, <2>1
  <2>2. CASE k # at
    <3> HIDE DEF old
    <3> QED BY <1>1, <1>12, <2>2 DEF TimersIn
  <2> QED BY <2>1, <2>2
<1>24. TimersIn(new) = TimersIn(vtlist) \cup {vt}
  BY <1>21, <1>22, <1>23
<1>25. new # <<>>
  BY <1>1, <1>11
<1> QED BY <1>11, <1>18, <1>19, <1>21, <1>22, <1>24, <1>25 DEF IsList, new, at, delta

-----------------------------------------------------------------------------
(* The invariant of the timers.                                              *)

First == vtlist[1].delta

\* A poll will soon advance the base of the list.
Near == \E t \in TimersIn(vtlist) \cap Periodic : Due(vtlist)[t] <= Slack + Safe(Period)

HwTypes ==
    /\ now \in Counter /\ CCR \in Counter /\ CC1IE \in BOOLEAN /\ CC1IF \in BOOLEAN
    /\ lasttime \in Counter /\ isr \in {"no", "loop", "callback"} /\ ticks \in 0 .. Latency
    /\ write \in [kind : {"none", "start", "set"}, at : Counter, late : BOOLEAN]
    /\ write.kind = "none" => write = NoWrite

\* The alarm is on while there are timers; no time counts before it.
AlarmIsOn ==
    /\ CC1IE <=> vtlist # <<>> /\ write.kind # "start"
    /\ isr = "loop" => vtlist # <<>>
    /\ isr = "no" /\ ~Alarm => ticks = 0

PollIsNear ==
    /\ vtlist # <<>> /\ isr # "callback" => Near
    /\ isr = "callback" => Near \/ ~Polls

\* How late the interrupt is.
LateInCallback == isr = "callback" => Passed <= TimeDelta - 1 + ticks
LateAtAlarm ==
    vtlist # <<>> /\ (Alarm \/ isr = "loop") => Passed <= First + TimeDelta - 1 + ticks

\* The alarm that is set, and the one that is about to be.
AlarmIsSet ==
    vtlist # <<>> /\ isr = "no" /\ ~Alarm /\ write.kind = "none" =>
        CCR # now /\ Passed + Dist(CCR, now) <= First + TimeDelta - 1
LateWrite == IF write.late THEN 1 ELSE 0
WriteIsAhead ==
    write.kind # "none" =>
        /\ vtlist # <<>>
        /\ Passed + TimeDelta <= Dist(write.at, lasttime) + LateWrite
        /\ Dist(write.at, lasttime) <= First + TimeDelta - 1

TimerInv ==
    /\ HwTypes /\ IsList(vtlist) /\ AlarmIsOn /\ PollIsNear
    /\ LateInCallback /\ LateAtAlarm /\ AlarmIsSet /\ WriteIsAhead

LEMMA ArmedIs == Armed = TimersIn(vtlist)
  BY DEF Armed, TimersIn

LEMMA SafeIs ==
    ASSUME PollsKeepPace
    PROVE  /\ Slack \in Nat /\ Slack = Latency + TimeDelta - 1
           /\ Safe(Period) \in Nat /\ Safe(Period) >= TimeDelta
           /\ \A d \in Delays \cup {Period} :
                  /\ Safe(d) \in Nat /\ Safe(d) >= TimeDelta
                  /\ Safe(Period) + 2 * Slack + Safe(d) < W
<1>1. \A d \in Delays \cup {Period} : d \in Nat
  BY DelaysAssumption, WIsNumber
<1>2. \A d \in Delays \cup {Period} : Safe(d) \in Nat /\ Safe(d) >= TimeDelta
  BY <1>1, WIsNumber DEF Safe
<1>3. Slack \in Nat /\ Slack = Latency + TimeDelta - 1
  BY WIsNumber DEF Slack
<1> QED BY <1>2, <1>3 DEF PollsKeepPace

LEMMA PassedIs ==
    ASSUME HwTypes
    PROVE  Passed = Dist(now, lasttime) /\ Passed \in Nat /\ Passed < W /\ W \in Nat
<1>1. Dist(now, lasttime) \in Counter
  BY DistIs DEF HwTypes
<1> QED BY <1>1, WIsNumber DEF Passed, Dist, Counter

LEMMA InCounter ==
    ASSUME NEW a \in Counter
    PROVE  a \in Nat /\ a < W
  BY WIsNumber DEF Counter

LEMMA TimesAre ==
    ASSUME HwTypes
    PROVE  /\ now \in Counter /\ CCR \in Counter /\ lasttime \in Counter /\ write.at \in Counter
           /\ Dist(CCR, now) \in Nat /\ Dist(write.at, lasttime) \in Nat
           /\ LateWrite \in 0 .. 1 /\ write.kind \in {"none", "start", "set"}
<1>1. now \in Counter /\ CCR \in Counter /\ lasttime \in Counter
  BY DEF HwTypes
<1>2. write.at \in Counter /\ write.kind \in {"none", "start", "set"}
  BY DEF HwTypes
<1>3. Dist(CCR, now) \in Counter /\ Dist(write.at, lasttime) \in Counter
  BY <1>1, <1>2, DistIs
<1>4. Dist(CCR, now) \in Nat /\ Dist(write.at, lasttime) \in Nat
  BY <1>3, InCounter
<1> QED BY <1>1, <1>2, <1>4 DEF LateWrite

\* The first entry is a poll or due before it.
LEMMA FirstIsNear ==
    ASSUME PollsKeepPace, TimerInv, vtlist # <<>>
    PROVE  First \in Nat /\ First < W /\ (Near => First <= Slack + Safe(Period))
<1>1. IsList(vtlist)
  BY DEF TimerInv
<1>2. First \in Nat /\ First < W
  BY <1>1, FirstIsLeast DEF First
<1>3. ASSUME Near PROVE First <= Slack + Safe(Period)
  <2>1. PICK t \in TimersIn(vtlist) : Due(vtlist)[t] <= Slack + Safe(Period)
    BY <1>3 DEF Near
  <2>2. First <= Due(vtlist)[t] /\ Due(vtlist)[t] \in Nat
    BY <1>1, <2>1, FirstIsLeast DEF First
  <2> QED BY <1>2, <2>1, <2>2, SafeIs
<1> QED BY <1>2, <1>3

\* Since the base's time so little has passed that the counter does not wrap.
LEMMA Room ==
    ASSUME PollsKeepPace, TimerInv, vtlist # <<>> \/ isr = "callback"
    PROVE  /\ Passed <= Safe(Period) + 2 * Slack
           /\ Passed + TimeDelta < W /\ Passed + 1 < W
           /\ \A d \in Delays \cup {Period} : Passed + Safe(d) < W
<1>1. HwTypes /\ Passed \in Nat /\ W \in Nat /\ ticks \in Nat /\ ticks <= Latency
  BY PassedIs, WIsNumber DEF TimerInv, HwTypes
<1>2. Passed <= Safe(Period) + 2 * Slack
  <2>1. CASE isr = "callback"
    BY <1>1, <2>1, SafeIs, WIsNumber DEF TimerInv, LateInCallback
  <2>2. CASE isr # "callback"
    <3>1. vtlist # <<>> /\ First \in Nat /\ First <= Slack + Safe(Period)
      BY <2>2, FirstIsNear DEF TimerInv, PollIsNear
    <3>2. CASE Alarm \/ isr = "loop"
      BY <1>1, <3>1, <3>2, SafeIs, WIsNumber DEF TimerInv, LateAtAlarm
    <3>3. CASE ~Alarm /\ isr = "no" /\ write.kind = "none"
      <4>1. Dist(CCR, now) \in Nat
        BY <1>1, TimesAre
      <4> QED BY <1>1, <3>1, <3>3, <4>1, SafeIs, WIsNumber DEF TimerInv, AlarmIsSet
    <3>4. CASE write.kind # "none"
      <4>1. Dist(write.at, lasttime) \in Nat /\ LateWrite \in 0 .. 1
        BY <1>1, TimesAre
      <4> QED BY <1>1, <3>1, <3>4, <4>1, SafeIs, WIsNumber DEF TimerInv, WriteIsAhead
    <3> QED BY <1>1, <2>2, <3>2, <3>3, <3>4 DEF HwTypes
  <2> QED BY <2>1, <2>2
<1> QED BY <1>1, <1>2, SafeIs, WIsNumber

LEMMA TimerInit == VtInit => TimerInv
<1> SUFFICES ASSUME VtInit PROVE TimerInv
  OBVIOUS
<1>1. HwTypes
  <2>1. 0 \in Counter /\ W - 1 \in Counter /\ 0 \in 0 .. Latency
    BY WIsNumber DEF Counter
  <2>2. NoWrite \in [kind : {"none", "start", "set"}, at : Counter, late : BOOLEAN]
    BY <2>1 DEF NoWrite
  <2> QED BY <2>1, <2>2 DEF VtInit, HwTypes
<1>2. IsList(vtlist)
  BY DEF VtInit, IsList, Distinct
<1> QED
  BY <1>1, <1>2 DEF VtInit, TimerInv, AlarmIsOn, PollIsNear, LateInCallback, LateAtAlarm,
     AlarmIsSet, WriteIsAhead, NoWrite, Alarm

LEMMA WriteAlarmStep ==
    ASSUME PollsKeepPace, TimerInv, WriteAlarm
    PROVE  TimerInv'
<1> DEFINE A == Dist(write.at, lasttime)
<1>1. /\ HwTypes /\ vtlist' = vtlist /\ Passed' = Passed /\ First' = First
      /\ Passed = Dist(now, lasttime) /\ Passed \in Nat /\ W \in Nat
  BY PassedIs DEF WriteAlarm, TimerInv, listVars, Passed, First
<1>2. /\ vtlist # <<>> /\ Passed + TimeDelta <= A + LateWrite /\ A <= First + TimeDelta - 1
      /\ LateWrite \in 0 .. 1
  BY DEF WriteAlarm, TimerInv, WriteIsAhead, LateWrite
<1>3. First \in Nat /\ A \in Nat /\ write.at \in Counter
  BY <1>1, <1>2, FirstIsNear, TimesAre
<1>4. Dist(write.at, now) = A - Passed /\ write.at # now
  <2>1. Passed <= A /\ Passed # A
    BY <1>1, <1>2, <1>3, WIsNumber
  <2> QED BY <1>1, <1>3, <2>1, Between DEF HwTypes
<1>5. HwTypes'
  <2>1. /\ now' = now /\ CCR' = write.at /\ lasttime' = lasttime /\ isr' = isr
        /\ ticks' = ticks /\ write' = NoWrite
        /\ CC1IE' \in BOOLEAN /\ CC1IF' \in BOOLEAN
    BY <1>1 DEF WriteAlarm, listVars, HwTypes
  <2>2. 0 \in Counter
    BY WIsNumber DEF Counter
  <2>3. NoWrite \in [kind : {"none", "start", "set"}, at : Counter, late : BOOLEAN]
    BY <2>2 DEF NoWrite
  <2> QED BY <1>1, <1>3, <2>1, <2>3 DEF HwTypes
<1>6. IsList(vtlist)'
  BY <1>1 DEF TimerInv
<1>7. write.kind = "start" => ~Alarm /\ ~Alarm'
  BY <1>1 DEF TimerInv, AlarmIsOn, WriteAlarm, Alarm, HwTypes
<1>8. write.kind = "set" => (Alarm' <=> Alarm)
  BY DEF WriteAlarm, Alarm
<1>9. write.kind \in {"start", "set"}
  BY <1>1 DEF HwTypes, WriteAlarm
<1>10. AlarmIsOn'
  BY <1>1, <1>2, <1>7, <1>8, <1>9 DEF TimerInv, AlarmIsOn, WriteAlarm, NoWrite, listVars
<1>11. PollIsNear'
  BY <1>1 DEF TimerInv, PollIsNear, Near, Polls, Armed, WriteAlarm
<1>12. LateInCallback' /\ LateAtAlarm'
  BY <1>1, <1>7, <1>8, <1>9 DEF TimerInv, LateInCallback, LateAtAlarm, WriteAlarm
<1>13. AlarmIsSet'
  <2>1. CCR' = write.at /\ now' = now
    BY DEF WriteAlarm
  <2> QED BY <1>1, <1>2, <1>3, <1>4, <2>1 DEF AlarmIsSet
<1>14. WriteIsAhead'
  BY DEF WriteAlarm, WriteIsAhead, NoWrite
<1> QED
  BY <1>5, <1>6, <1>10, <1>11, <1>12, <1>13, <1>14 DEF TimerInv

LEMMA TickStep ==
    ASSUME PollsKeepPace, TimerInv, Tick
    PROVE  TimerInv'
<1> DEFINE P == Passed
<1>1. /\ HwTypes /\ P = Dist(now, lasttime) /\ P \in Nat /\ W \in Nat
      /\ vtlist' = vtlist /\ lasttime' = lasttime /\ CCR' = CCR /\ isr' = isr
      /\ CC1IE' = CC1IE /\ First' = First /\ now' = (now + 1) % W
  BY PassedIs DEF TimerInv, Tick, listVars, First
<1>2. (Alarm \/ isr # "no" => ticks' = ticks + 1 /\ ticks < Latency)
      /\ (~Alarm /\ isr = "no" => ticks' = 0)
  BY DEF Tick
<1>3. /\ write.kind # "none" => ~write.late /\ write' = [write EXCEPT !.late = TRUE]
      /\ write.kind = "none" => write = NoWrite /\ write' = NoWrite
      /\ write'.kind = write.kind
  BY <1>1 DEF Tick, HwTypes, NoWrite
<1>4. now \in Counter /\ CCR \in Counter /\ now' \in Counter
  BY <1>1, WIsNumber DEF HwTypes, Counter
<1>5. ASSUME vtlist # <<>> \/ isr = "callback" PROVE Passed' = P + 1
  <2>1. Dist(now, lasttime) + 1 < W
    BY <1>1, <1>5, Room
  <2>2. Dist(now', lasttime') = P + 1
    BY <1>1, <1>4, <2>1, Later DEF HwTypes
  <2> QED BY <2>2 DEF Passed, Dist
<1>6. CCR # now => /\ Dist(CCR, now) >= 1 /\ Dist(CCR, now') = Dist(CCR, now) - 1
                   /\ Dist(CCR, now) \in Nat
  <2> SUFFICES ASSUME CCR # now
               PROVE  /\ Dist(CCR, now) >= 1 /\ Dist(CCR, now') = Dist(CCR, now) - 1
                      /\ Dist(CCR, now) \in Nat
    OBVIOUS
  <2> QED BY <1>1, <1>4, Nearer, TimesAre
<1>7. /\ CC1IF' = (CC1IF \/ CCR = now') /\ CC1IF \in BOOLEAN /\ CC1IE \in BOOLEAN
      /\ (Alarm => Alarm')
      /\ (~Alarm /\ Alarm' => CCR = now' /\ CC1IE)
      /\ (CC1IE /\ ~Alarm' => CCR # now')
  BY <1>1 DEF Tick, HwTypes, Alarm
<1>8. vtlist # <<>> => First \in Nat
  BY FirstIsNear
<1>9. HwTypes'
  <2>1. ticks' \in 0 .. Latency
    BY <1>1, <1>2, WIsNumber DEF HwTypes
  <2>2. write' \in [kind : {"none", "start", "set"}, at : Counter, late : BOOLEAN]
    BY <1>1, <1>3 DEF HwTypes
  <2> QED BY <1>1, <1>3, <1>4, <1>7, <2>1, <2>2 DEF HwTypes
<1>10. IsList(vtlist)'
  BY <1>1 DEF TimerInv
<1>11. AlarmIsOn'
  <2>1. (CC1IE' <=> vtlist' # <<>> /\ write'.kind # "start") /\ (isr' = "loop" => vtlist' # <<>>)
    BY <1>1, <1>3 DEF TimerInv, AlarmIsOn
  <2>2. isr' = "no" /\ ~Alarm' => ticks' = 0
    BY <1>1, <1>2, <1>7
  <2> QED BY <2>1, <2>2 DEF AlarmIsOn
<1>12. PollIsNear'
  BY <1>1 DEF TimerInv, PollIsNear, Near, Polls, Armed
<1>13. LateInCallback'
  <2> SUFFICES ASSUME isr = "callback" PROVE Passed' <= TimeDelta - 1 + ticks'
    BY <1>1 DEF LateInCallback
  <2>1. P <= TimeDelta - 1 + ticks /\ ticks \in Nat
    BY <1>1 DEF TimerInv, LateInCallback, HwTypes
  <2> QED BY <1>1, <1>2, <1>5, <2>1, WIsNumber
<1>14. LateAtAlarm'
  <2> SUFFICES ASSUME vtlist # <<>>, Alarm' \/ isr = "loop"
               PROVE  Passed' <= First + TimeDelta - 1 + ticks'
    BY <1>1 DEF LateAtAlarm
  <2>0. Passed' = P + 1 /\ ticks \in Nat
    BY <1>1, <1>5 DEF HwTypes
  <2>1. CASE Alarm \/ isr = "loop"
    <3>1. P <= First + TimeDelta - 1 + ticks /\ ticks' = ticks + 1
      BY <1>2, <2>1 DEF TimerInv, LateAtAlarm
    <3> QED BY <1>1, <1>8, <2>0, <3>1, WIsNumber
  <2>2. CASE isr = "callback"
    <3>1. P <= TimeDelta - 1 + ticks /\ ticks' = ticks + 1
      BY <1>2, <2>2 DEF TimerInv, LateInCallback
    <3> QED BY <1>1, <1>8, <2>0, <3>1, WIsNumber
  <2>3. CASE ~Alarm /\ isr = "no"
    <3>1. Alarm' /\ CCR = now' /\ CC1IE /\ ticks' = 0
      BY <1>2, <1>7, <2>3
    <3>2. CASE write.kind = "none"
      <4>1. CCR # now /\ P + Dist(CCR, now) <= First + TimeDelta - 1
        BY <2>3, <3>2 DEF TimerInv, AlarmIsSet
      <4> QED BY <1>1, <1>6, <1>8, <2>0, <3>1, <4>1, WIsNumber
    <3>3. CASE write.kind # "none"
      <4>1. /\ P + TimeDelta <= Dist(write.at, lasttime) + LateWrite
            /\ Dist(write.at, lasttime) <= First + TimeDelta - 1
        BY <3>3 DEF TimerInv, WriteIsAhead
      <4>2. LateWrite = 0 /\ Dist(write.at, lasttime) \in Nat
        BY <1>1, <1>3, <3>3, TimesAre DEF LateWrite, HwTypes
      <4> QED BY <1>1, <1>8, <2>0, <3>1, <4>1, <4>2, WIsNumber
    <3> QED BY <3>2, <3>3
  <2> QED BY <1>1, <2>1, <2>2, <2>3 DEF HwTypes
<1>15. AlarmIsSet'
  <2> SUFFICES ASSUME vtlist # <<>>, isr = "no", ~Alarm', write.kind = "none"
               PROVE  CCR # now' /\ Passed' + Dist(CCR, now') <= First + TimeDelta - 1
    BY <1>1, <1>3 DEF AlarmIsSet
  <2>1. CC1IE /\ ~Alarm /\ CCR # now'
    BY <1>7 DEF TimerInv, AlarmIsOn
  <2>2. CCR # now /\ P + Dist(CCR, now) <= First + TimeDelta - 1
    BY <2>1 DEF TimerInv, AlarmIsSet
  <2> QED BY <1>1, <1>5, <1>6, <1>8, <2>1, <2>2, WIsNumber
<1>16. WriteIsAhead'
  <2> SUFFICES ASSUME write.kind # "none"
               PROVE  /\ vtlist # <<>>
                      /\ Passed' + TimeDelta <= Dist(write'.at, lasttime) + LateWrite'
                      /\ Dist(write'.at, lasttime) <= First + TimeDelta - 1
    BY <1>1, <1>3 DEF WriteIsAhead
  <2>1. /\ vtlist # <<>>
        /\ P + TimeDelta <= Dist(write.at, lasttime) + LateWrite
        /\ Dist(write.at, lasttime) <= First + TimeDelta - 1
    BY DEF TimerInv, WriteIsAhead
  <2>2. write'.at = write.at /\ LateWrite = 0 /\ LateWrite' = 1
    BY <1>1, <1>3 DEF LateWrite, HwTypes
  <2>3. Dist(write.at, lasttime) \in Nat
    BY <1>1, TimesAre
  <2> QED BY <1>1, <1>5, <2>1, <2>2, <2>3, WIsNumber
<1> QED
  BY <1>9, <1>10, <1>11, <1>12, <1>13, <1>14, <1>15, <1>16 DEF TimerInv

LEMMA IrqEnterStep ==
    ASSUME TimerInv, IrqEnter
    PROVE  TimerInv'
<1>1. /\ HwTypes /\ vtlist' = vtlist /\ lasttime' = lasttime /\ now' = now /\ CCR' = CCR
      /\ CC1IE' = CC1IE /\ write' = write /\ ticks' = ticks /\ isr' = "loop" /\ CC1IF' = FALSE
      /\ write = NoWrite /\ Alarm /\ isr = "no"
  BY DEF IrqEnter, TimerInv, listVars
<1>2. Passed' = Passed /\ First' = First
  BY <1>1 DEF Passed, First
<1>3. vtlist # <<>>
  BY <1>1 DEF TimerInv, AlarmIsOn, Alarm
<1>4. HwTypes' /\ IsList(vtlist)'
  BY <1>1 DEF HwTypes, TimerInv
<1>5. AlarmIsOn' /\ AlarmIsSet' /\ WriteIsAhead' /\ LateInCallback'
  BY <1>1, <1>3 DEF TimerInv, AlarmIsOn, AlarmIsSet, WriteIsAhead, LateInCallback, NoWrite
<1>6. PollIsNear'
  BY <1>1, <1>3 DEF TimerInv, PollIsNear, Near
<1>7. LateAtAlarm'
  BY <1>1, <1>2, <1>3 DEF TimerInv, LateAtAlarm
<1> QED
  BY <1>4, <1>5, <1>6, <1>7 DEF TimerInv

\* A later deadline leaves a bound on the lateness as it is.
LEMMA LaterIsFine ==
    ASSUME NEW p \in Nat, NEW f \in Nat, NEW g \in Nat, NEW t \in Nat,
           p <= f + TimeDelta - 1 + t, f <= g
    PROVE  p <= g + TimeDelta - 1 + t
  BY WIsNumber

LEMMA NotYetDue ==
    ASSUME NEW p \in Nat, NEW g \in Nat, NEW t \in Nat, p < g
    PROVE  p <= g + TimeDelta - 1 + t
  BY WIsNumber

LEMMA TriggerStep ==
    ASSUME PollsKeepPace, TimerInv, Trigger
    PROVE  TimerInv'
<1>1. /\ HwTypes /\ IsList(vtlist) /\ vtlist # <<>> /\ isr = "loop" /\ write = NoWrite
      /\ Head(vtlist).delta <= Passed /\ Passed = Dist(now, lasttime) /\ Passed \in Nat
  BY PassedIs DEF Trigger, Expired, TimerInv
<1>2. /\ now' = now /\ CCR' = CCR /\ CC1IF' = CC1IF /\ write' = write /\ ticks' = ticks
      /\ isr' = "callback" /\ vtlist' = Tail(vtlist)
      /\ CC1IE' = (CC1IE /\ vtlist' # <<>>)
      /\ lasttime' = (lasttime + Head(vtlist).delta) % W
  BY DEF Trigger
<1>3. Head(vtlist).delta = First /\ First \in Counter /\ First \in Nat
  <2>1. Head(vtlist) = vtlist[1] /\ vtlist[1] \in Entries /\ vtlist[1].delta \in Nat
    BY <1>1, FirstIsLeast
  <2> QED BY <2>1 DEF First, Entries
<1>4. lasttime' \in Counter /\ Passed' = Passed - First
  <2>1. /\ (lasttime + First) % W \in Counter
        /\ Dist(now, (lasttime + First) % W) = Dist(now, lasttime) - First
    BY <1>1, <1>3, BaseMoves DEF HwTypes
  <2> QED BY <1>1, <1>2, <1>3, <2>1 DEF Passed, Dist
<1>5. /\ IsList(vtlist)' /\ TimersIn(vtlist') = TimersIn(vtlist) \ {vtlist[1].vt}
      /\ \A t \in TimersIn(vtlist') : Due(vtlist')[t] = Due(vtlist)[t] - First
  BY <1>1, <1>2, TailIsDue DEF First
<1>6. HwTypes'
  BY <1>1, <1>2, <1>4 DEF HwTypes
<1>7. CC1IE
  BY <1>1 DEF TimerInv, AlarmIsOn, NoWrite
<1>8. AlarmIsOn' /\ AlarmIsSet' /\ WriteIsAhead'
  BY <1>1, <1>2, <1>7 DEF AlarmIsOn, AlarmIsSet, WriteIsAhead, NoWrite
<1>9. Passed' <= TimeDelta - 1 + ticks /\ Passed' \in Nat /\ ticks \in Nat
  <2>1. Passed <= First + TimeDelta - 1 + ticks /\ ticks \in Nat
    BY <1>1 DEF TimerInv, LateAtAlarm, HwTypes
  <2> QED BY <1>1, <1>3, <1>4, <2>1, WIsNumber
<1>10. LateInCallback'
  BY <1>2, <1>9 DEF LateInCallback
<1>11. LateAtAlarm'
  <2> SUFFICES ASSUME vtlist' # <<>> PROVE Passed' <= First' + TimeDelta - 1 + ticks'
    BY DEF LateAtAlarm
  <2>1. First' \in Nat
    BY <1>5, FirstIsLeast DEF First
  <2>2. ticks' = ticks
    BY <1>2
  <2>3. Passed' <= 0 + TimeDelta - 1 + ticks
    BY <1>9, WIsNumber
  <2>4. Passed' <= First' + TimeDelta - 1 + ticks
    BY <1>9, <2>1, <2>3, LaterIsFine
  <2> QED BY <2>2, <2>4
<1>12. PollIsNear'
  <2> SUFFICES ASSUME Polls' PROVE Near'
    BY <1>2 DEF PollIsNear
  <2>1. PICK t \in TimersIn(vtlist) \cap Periodic : Due(vtlist)[t] <= Slack + Safe(Period)
    BY <1>1 DEF TimerInv, PollIsNear, Near
  <2>2. t \in TimersIn(vtlist')
    BY <2>1, ArmedIs DEF Polls, Armed, TimersIn
  <2>3. Due(vtlist')[t] = Due(vtlist)[t] - First /\ Due(vtlist)[t] \in Nat
    BY <1>1, <1>5, <2>1, <2>2, FirstIsLeast
  <2>4. Due(vtlist')[t] <= Slack + Safe(Period)
    BY <1>3, <2>1, <2>3, SafeIs
  <2> QED BY <2>1, <2>2, <2>4 DEF Near
<1> QED
  BY <1>5, <1>6, <1>8, <1>10, <1>11, <1>12 DEF TimerInv

LEMMA CallbackReturnsStep ==
    ASSUME PollsKeepPace, TimerInv, CallbackReturns
    PROVE  TimerInv'
<1>1. /\ HwTypes /\ IsList(vtlist) /\ isr = "callback" /\ write = NoWrite /\ Polls
      /\ UNCHANGED <<now, CCR, CC1IE, CC1IF, vtlist, lasttime, write, ticks>> /\ isr' = "loop"
  BY DEF CallbackReturns, TimerInv, hwVars, listVars
<1>2. Passed' = Passed /\ First' = First /\ HwTypes' /\ IsList(vtlist)'
  BY <1>1 DEF Passed, First, HwTypes
<1>3. Near /\ vtlist # <<>>
  BY <1>1 DEF TimerInv, PollIsNear, Near, TimersIn
<1>4. Near'
  BY <1>1, <1>3 DEF Near
<1>5. AlarmIsOn' /\ AlarmIsSet' /\ WriteIsAhead' /\ LateInCallback' /\ PollIsNear'
  BY <1>1, <1>3, <1>4 DEF TimerInv, AlarmIsOn, AlarmIsSet, WriteIsAhead, LateInCallback,
     PollIsNear, NoWrite
<1>6. LateAtAlarm'
  <2>1. First \in Nat
    BY <1>1, <1>3, FirstIsLeast DEF First
  <2>2. Passed <= TimeDelta - 1 + ticks /\ ticks \in Nat /\ Passed \in Nat
    BY <1>1, PassedIs DEF TimerInv, LateInCallback, HwTypes
  <2>3. Passed <= First + TimeDelta - 1 + ticks
    BY <2>1, <2>2, WIsNumber
  <2> QED BY <1>1, <1>2, <2>3 DEF LateAtAlarm
<1> QED
  BY <1>2, <1>5, <1>6 DEF TimerInv

\* What the compare register is to get when the first entry is due in a while.
LEMMA NextAlarm ==
    ASSUME HwTypes, NEW first \in Nat, first < W, Passed < first, Passed + TimeDelta < W,
           To("set", now + Safe(first - Passed))
    PROVE  /\ write' \in [kind : {"none", "start", "set"}, at : Counter, late : BOOLEAN]
           /\ write'.kind = "set" /\ ~write'.late
           /\ Passed + TimeDelta <= Dist(write'.at, lasttime)
           /\ Dist(write'.at, lasttime) <= first + TimeDelta - 1
<1> DEFINE x == Safe(first - Passed)
<1>1. Passed = Dist(now, lasttime) /\ Passed \in Nat /\ W \in Nat
  BY PassedIs
<1>2. /\ x \in Nat /\ Passed + x < W /\ x >= TimeDelta /\ Passed + x <= first + TimeDelta - 1
  BY <1>1, WIsNumber DEF Safe
<1> HIDE DEF x
<1>3. (now + x) % W \in Counter /\ Dist((now + x) % W, lasttime) = Passed + x
  BY <1>1, <1>2, Later DEF HwTypes
<1>4. write' = [kind |-> "set", at |-> (now + x) % W, late |-> FALSE]
  BY DEF To, x
<1> HIDE DEF To
<1> QED BY <1>1, <1>2, <1>3, <1>4, WIsNumber

LEMMA TickEndsStep ==
    ASSUME PollsKeepPace, TimerInv, TickEnds
    PROVE  TimerInv'
<1>1. /\ HwTypes /\ IsList(vtlist) /\ isr = "loop" /\ write = NoWrite /\ vtlist # <<>>
      /\ UNCHANGED <<now, CCR, CC1IE, CC1IF, vtlist, lasttime>> /\ isr' = "no" /\ ticks' = 0
      /\ ~(Head(vtlist).delta <= Passed) /\ To("set", now + Safe(Head(vtlist).delta - Passed))
  BY DEF TickEnds, TimerInv, AlarmIsOn, Expired, hwVars, listVars
<1>2. First = Head(vtlist).delta /\ First \in Nat /\ First < W /\ Passed \in Nat
  BY <1>1, FirstIsLeast, PassedIs DEF First
<1>3. Passed < First /\ Passed + TimeDelta < W
  BY <1>1, <1>2, Room
<1>4. /\ write' \in [kind : {"none", "start", "set"}, at : Counter, late : BOOLEAN]
      /\ write'.kind = "set" /\ ~write'.late
      /\ Passed + TimeDelta <= Dist(write'.at, lasttime)
      /\ Dist(write'.at, lasttime) <= First + TimeDelta - 1
  BY <1>1, <1>2, <1>3, NextAlarm
<1>5. Passed' = Passed /\ First' = First
  BY <1>1 DEF Passed, First
<1>6. HwTypes'
  BY <1>1, <1>4, WIsNumber DEF HwTypes
<1>7. CC1IE
  BY <1>1 DEF TimerInv, AlarmIsOn, NoWrite
<1>8. AlarmIsOn' /\ AlarmIsSet' /\ LateInCallback'
  BY <1>1, <1>4, <1>7 DEF AlarmIsOn, AlarmIsSet, LateInCallback
<1>9. PollIsNear' /\ IsList(vtlist)'
  BY <1>1 DEF TimerInv, PollIsNear, Near
<1>10. WriteIsAhead'
  <2>1. LateWrite' = 0
    BY <1>4 DEF LateWrite
  <2>2. Dist(write'.at, lasttime) \in Nat
    BY <1>6, <1>1, TimesAre, DistIs, InCounter DEF HwTypes
  <2> QED BY <1>1, <1>2, <1>4, <1>5, <2>1, <2>2, WIsNumber DEF WriteIsAhead
<1>11. LateAtAlarm'
  BY <1>1, <1>2, <1>3, <1>5, WIsNumber DEF LateAtAlarm
<1> QED
  BY <1>6, <1>8, <1>9, <1>10, <1>11 DEF TimerInv

\* A list of one timer.
LEMMA SingleIsDue ==
    ASSUME NEW vt \in Timers, NEW d \in Counter
    PROVE  LET new == <<[vt |-> vt, delta |-> d]>>
           IN IsList(new) /\ new # <<>> /\ TimersIn(new) = {vt} /\ Due(new)[vt] = d
                /\ new[1].delta = d
<1> DEFINE e == [vt |-> vt, delta |-> d]
           new == <<e>>
<1>1. e \in Entries
  BY DEF Entries
<1> HIDE DEF e
<1>2. new \in Seq(Entries) /\ Len(new) = 1 /\ DOMAIN new = {1} /\ new[1] = e /\ new # <<>>
  BY <1>1
<1>3. e.vt = vt /\ e.delta = d /\ d \in Nat /\ d < W
  BY InCounter DEF e
<1> HIDE DEF new
<1>4. Totals(Deadlines(new), new)
  BY <1>2, DeadlinesAre
<1>5. Deadlines(new)[1] = d
  <2>1. Deadlines(new)[1] = Deadlines(new)[1 - 1] + new[1].delta /\ Deadlines(new)[0] = 0
    BY <1>2, <1>4 DEF Totals
  <2> QED BY <1>2, <1>3, <2>1
<1>6. Distinct(new)
  BY <1>2 DEF Distinct
<1>7. new[1].vt \in TimersIn(new) /\ Due(new)[new[1].vt] = d
  BY <1>2, <1>5, <1>6, DueIs
<1>8. TimersIn(new) = {vt}
  BY <1>2, <1>3 DEF TimersIn
<1> QED BY <1>2, <1>3, <1>5, <1>6, <1>7, <1>8 DEF IsList, new, e

LEMMA DelayIs ==
    ASSUME NEW vt \in Timers, NEW delay, Set(vt, delay)
    PROVE  /\ delay \in Delays \cup {Period}
           /\ vt \in Periodic => delay = Period
           /\ vt \notin Periodic => Polls
           /\ vt \notin TimersIn(vtlist) /\ write = NoWrite /\ isr \in {"no", "callback"}
           /\ UNCHANGED <<now, CCR, CC1IE, CC1IF, isr, ticks>>
  BY ArmedIs DEF Set, Calling, hwVars

\* The first timer of all.
LEMMA SetFirstStep ==
    ASSUME PollsKeepPace, TimerInv, NEW vt \in Timers, NEW delay, Set(vt, delay), vtlist = <<>>
    PROVE  TimerInv' /\ TimersIn(vtlist') = {vt} /\ Passed' = 0 /\ Due(vtlist')[vt] = Safe(delay)
<1> DEFINE d == Safe(delay)
<1>1. /\ HwTypes /\ delay \in Delays \cup {Period} /\ write = NoWrite
      /\ isr \in {"no", "callback"}
      /\ UNCHANGED <<now, CCR, CC1IE, CC1IF, isr, ticks>>
  BY DelayIs DEF TimerInv
<1>2. /\ d \in Nat /\ d >= TimeDelta /\ d < W /\ d \in Counter /\ W \in Nat
  <2>1. d \in Nat /\ d >= TimeDelta /\ d < W
    BY <1>1, SafeIs, WIsNumber
  <2> QED BY <2>1, WIsNumber DEF Counter
<1>3. /\ vtlist' = <<[vt |-> vt, delta |-> d]>> /\ lasttime' = now
      /\ write' = [kind |-> "start", at |-> (now + d) % W, late |-> FALSE]
  BY DEF Set, To
<1> HIDE DEF d
<1>4. /\ IsList(vtlist)' /\ vtlist' # <<>> /\ TimersIn(vtlist') = {vt} /\ Due(vtlist')[vt] = d
      /\ First' = d
  BY <1>2, <1>3, SingleIsDue DEF First
<1>5. Dist(now, now) = 0 /\ Passed' = 0
  <2>1. Dist(now, now) = 0
    BY <1>1, DistIs, InCounter DEF HwTypes
  <2> QED BY <1>1, <1>3, <2>1 DEF Passed, Dist
<1>6. (now + d) % W \in Counter /\ Dist((now + d) % W, now) = d
  <2>1. Dist(now, now) + d < W
    BY <1>2, <1>5
  <2> QED BY <1>1, <1>2, <1>5, <2>1, Later DEF HwTypes
<1>7. HwTypes'
  <2>1. write' \in [kind : {"none", "start", "set"}, at : Counter, late : BOOLEAN]
        /\ write'.kind # "none"
    BY <1>3, <1>6
  <2> QED BY <1>1, <1>3, <2>1 DEF HwTypes
<1>8. ~CC1IE
  BY <1>1 DEF TimerInv, AlarmIsOn, HwTypes
<1>9. AlarmIsOn'
  <2>1. write'.kind = "start" /\ ~CC1IE' /\ (Alarm' <=> Alarm)
    BY <1>1, <1>3, <1>8 DEF Alarm
  <2>2. (isr' = "no" /\ ~Alarm' => ticks' = 0) /\ isr' # "loop"
    BY <1>1, <2>1 DEF TimerInv, AlarmIsOn
  <2> QED BY <2>1, <2>2 DEF AlarmIsOn
<1>10. AlarmIsSet'
  BY <1>3 DEF AlarmIsSet
<1>11. LateInCallback'
  BY <1>1, <1>5, <1>7, WIsNumber DEF LateInCallback, HwTypes
<1>12. LateAtAlarm'
  BY <1>1, <1>8 DEF LateAtAlarm, Alarm
<1>13. WriteIsAhead'
  <2>1. write'.at = (now + d) % W /\ LateWrite' = 0
    BY <1>3 DEF LateWrite
  <2>2. Dist(write'.at, lasttime') = d
    BY <1>3, <1>6, <2>1
  <2> QED BY <1>2, <1>4, <1>5, <2>1, <2>2, WIsNumber DEF WriteIsAhead
<1>14. vt \in Periodic /\ delay = Period
  <2>1. vt \notin Periodic => Periodic \subseteq {}
    BY DelayIs DEF Polls, Armed
  <2> QED BY <2>1, DelayIs DEF PollsKeepPace
<1>15. PollIsNear'
  <2>1. d <= Slack + Safe(Period)
    BY <1>2, <1>14, SafeIs DEF d
  <2>2. Near'
    BY <1>4, <1>14, <2>1 DEF Near
  <2> QED BY <2>2 DEF PollIsNear
<1> QED
  BY <1>4, <1>5, <1>7, <1>9, <1>10, <1>11, <1>12, <1>13, <1>15 DEF TimerInv, d

\* One more timer: the list, and the compare value that is to be written.
LEMMA SetMore ==
    ASSUME PollsKeepPace, TimerInv, NEW vt \in Timers, NEW delay, Set(vt, delay), vtlist # <<>>
    PROVE  LET d == Passed + Safe(delay)
           IN /\ d \in Nat /\ d < W
              /\ vtlist' = Insert(vt, Place(d, 1).at, Place(d, 1).delta)
              /\ lasttime' = lasttime
              /\ d < First => write' = [kind |-> "set", at |-> (lasttime + d) % W, late |-> FALSE]
              /\ ~(d < First) => write' = write
<1> DEFINE d == Passed + Safe(delay)
<1>1. d \in Nat /\ d < W
  <2>1. delay \in Delays \cup {Period}
    BY DelayIs
  <2>2. Safe(delay) \in Nat /\ Passed + Safe(delay) < W
    BY <2>1, SafeIs, Room
  <2> QED BY <2>2, PassedIs DEF TimerInv
<1>2. (Passed + Safe(delay)) % W = d /\ ~(d < Passed)
  <2>1. d % W = d
    BY <1>1, WIsNumber
  <2>2. Safe(delay) \in Nat
    BY DelayIs, SafeIs
  <2> QED BY <1>1, <2>1, <2>2, PassedIs DEF TimerInv
<1> HIDE DEF d
<1>3. /\ vtlist' = Insert(vt, Place(d, 1).at, Place(d, 1).delta) /\ lasttime' = lasttime
      /\ IF d < vtlist[1].delta THEN To("set", lasttime + d) ELSE write' = write
  BY <1>2 DEF Set
<1> QED
  BY <1>1, <1>3 DEF To, First, d

LEMMA SetMoreStep ==
    ASSUME PollsKeepPace, TimerInv, NEW vt \in Timers, NEW delay, Set(vt, delay), vtlist # <<>>
    PROVE  /\ TimerInv' /\ TimersIn(vtlist') = TimersIn(vtlist) \cup {vt} /\ Passed' = Passed
           /\ Due(vtlist')[vt] = Passed + Safe(delay)
           /\ \A t \in TimersIn(vtlist) : Due(vtlist')[t] = Due(vtlist)[t]
<1> DEFINE d == Passed + Safe(delay)
<1>1. /\ HwTypes /\ IsList(vtlist) /\ delay \in Delays \cup {Period} /\ write = NoWrite
      /\ isr \in {"no", "callback"} /\ vt \notin TimersIn(vtlist)
      /\ UNCHANGED <<now, CCR, CC1IE, CC1IF, isr, ticks>>
  BY DelayIs DEF TimerInv
<1>2. /\ d \in Nat /\ d < W /\ vtlist' = Insert(vt, Place(d, 1).at, Place(d, 1).delta)
      /\ lasttime' = lasttime
      /\ d < First => write' = [kind |-> "set", at |-> (lasttime + d) % W, late |-> FALSE]
      /\ ~(d < First) => write' = write
  BY SetMore
<1>3. /\ Passed \in Nat /\ Safe(delay) \in Nat /\ Passed + TimeDelta <= d /\ W \in Nat
      /\ d = Passed + Safe(delay)
  BY <1>1, PassedIs, SafeIs, WIsNumber
<1>4. First \in Nat /\ First < W
  BY <1>1, FirstIsLeast DEF First
<1> HIDE DEF d
<1>5. /\ IsList(vtlist)' /\ vtlist' # <<>> /\ TimersIn(vtlist') = TimersIn(vtlist) \cup {vt}
      /\ Due(vtlist')[vt] = d
      /\ \A t \in TimersIn(vtlist) : Due(vtlist')[t] = Due(vtlist)[t]
  BY <1>1, <1>2, InsertIsDue
<1>6. First' \in Nat /\ First' = IF d < First THEN d ELSE First
  <2>1. /\ First' \in Nat /\ vtlist'[1].vt \in TimersIn(vtlist')
        /\ Due(vtlist')[vtlist'[1].vt] = First'
        /\ \A t \in TimersIn(vtlist') : First' <= Due(vtlist')[t]
    BY <1>5, FirstIsLeast DEF First
  <2>2. /\ vtlist[1].vt \in TimersIn(vtlist) /\ Due(vtlist)[vtlist[1].vt] = First
        /\ \A t \in TimersIn(vtlist) : First <= Due(vtlist)[t]
    BY <1>1, FirstIsLeast DEF First
  <2>3. First' <= d /\ First' <= First
    BY <1>5, <2>1, <2>2
  <2>4. First' = d \/ First <= First'
    BY <1>5, <2>1, <2>2
  <2> QED BY <1>2, <1>4, <2>1, <2>3, <2>4
<1>7. Passed' = Passed
  BY <1>1, <1>2 DEF Passed
<1>8. (lasttime + d) % W \in Counter /\ Dist((lasttime + d) % W, lasttime) = d
  <2>1. Dist(lasttime, lasttime) = 0 /\ lasttime \in Counter
    BY <1>1, DistIs, InCounter DEF HwTypes
  <2> QED BY <1>2, <2>1, Later
<1>9. /\ HwTypes' /\ write'.kind # "start"
      /\ d < First => /\ write'.kind = "set" /\ ~write'.late
                      /\ Dist(write'.at, lasttime') = d
      /\ ~(d < First) => write' = NoWrite
  <2>1. CASE d < First
    <3>1. /\ write' = [kind |-> "set", at |-> (lasttime + d) % W, late |-> FALSE]
          /\ lasttime' = lasttime
      BY <1>2, <2>1
    <3>2. /\ write' \in [kind : {"none", "start", "set"}, at : Counter, late : BOOLEAN]
          /\ write'.kind = "set" /\ ~write'.late /\ write'.at = (lasttime + d) % W
      BY <1>8, <3>1
    <3> QED BY <1>1, <1>8, <2>1, <3>1, <3>2 DEF HwTypes
  <2>2. CASE ~(d < First)
    <3>1. write' = write /\ lasttime' = lasttime
      BY <1>2, <2>2
    <3> QED BY <1>1, <2>2, <3>1 DEF HwTypes, NoWrite
  <2> QED BY <2>1, <2>2
<1>10. Alarm' <=> Alarm
  BY <1>1 DEF Alarm
<1>11. AlarmIsOn'
  <2>1. CC1IE' /\ isr' # "loop"
    BY <1>1 DEF TimerInv, AlarmIsOn, NoWrite
  <2>2. isr' = "no" /\ ~Alarm' => ticks' = 0
    BY <1>1, <1>10 DEF TimerInv, AlarmIsOn
  <2> QED BY <1>5, <1>9, <2>1, <2>2 DEF AlarmIsOn
<1>12. PollIsNear'
  <2>1. ASSUME Near PROVE Near'
    BY <1>5, <2>1 DEF Near
  <2>2. CASE Near
    BY <2>1, <2>2 DEF PollIsNear
  <2>3. CASE ~Near
    <3>1. isr = "callback" /\ ~Polls
      BY <1>1, <2>3 DEF TimerInv, PollIsNear
    <3>2. vt \in Periodic /\ delay = Period
      BY <3>1, DelayIs
    <3>3. Passed <= TimeDelta - 1 + ticks /\ ticks \in Nat /\ ticks <= Latency
      BY <1>1, <3>1, WIsNumber DEF TimerInv, LateInCallback, HwTypes
    <3>4. d <= Slack + Safe(Period)
      BY <1>3, <3>2, <3>3, SafeIs, WIsNumber
    <3>5. Near'
      BY <1>5, <3>2, <3>4 DEF Near
    <3> QED BY <3>5 DEF PollIsNear
  <2> QED BY <2>2, <2>3
<1>13. LateInCallback'
  BY <1>1, <1>7 DEF TimerInv, LateInCallback
<1>14. LateAtAlarm'
  <2> SUFFICES ASSUME Alarm PROVE Passed' <= First' + TimeDelta - 1 + ticks'
    BY <1>1, <1>10 DEF LateAtAlarm
  <2>1. Passed <= First + TimeDelta - 1 + ticks /\ ticks \in Nat /\ ticks' = ticks
    BY <1>1 DEF TimerInv, LateAtAlarm, HwTypes
  <2> QED BY <1>3, <1>4, <1>6, <1>7, <2>1, WIsNumber
<1>15. AlarmIsSet'
  <2> SUFFICES ASSUME ~(d < First), isr = "no", ~Alarm
               PROVE  CCR' # now' /\ Passed' + Dist(CCR', now') <= First' + TimeDelta - 1
    BY <1>1, <1>9, <1>10 DEF AlarmIsSet
  <2>1. CCR # now /\ Passed + Dist(CCR, now) <= First + TimeDelta - 1
    BY <1>1 DEF TimerInv, AlarmIsSet, NoWrite
  <2> QED BY <1>1, <1>6, <1>7, <2>1
<1>16. WriteIsAhead'
  <2> SUFFICES ASSUME d < First
               PROVE  /\ Passed' + TimeDelta <= Dist(write'.at, lasttime') + LateWrite'
                      /\ Dist(write'.at, lasttime') <= First' + TimeDelta - 1
    BY <1>5, <1>9 DEF WriteIsAhead, NoWrite
  <2>1. LateWrite' = 0 /\ Dist(write'.at, lasttime') = d /\ First' = d
    BY <1>6, <1>9 DEF LateWrite
  <2> QED BY <1>2, <1>3, <1>7, <2>1, WIsNumber
<1> QED
  BY <1>3, <1>5, <1>7, <1>9, <1>11, <1>12, <1>13, <1>14, <1>15, <1>16 DEF TimerInv

\* A timer is reset; the polls go on.
LEMMA ResetStep ==
    ASSUME PollsKeepPace, TimerInv, NEW vt \in Timers, Reset(vt)
    PROVE  /\ TimerInv' /\ vt \in TimersIn(vtlist) /\ TimersIn(vtlist') = TimersIn(vtlist) \ {vt}
           /\ Passed' = Passed /\ \A t \in TimersIn(vtlist') : Due(vtlist')[t] = Due(vtlist)[t]
<1>1. PICK i \in DOMAIN vtlist :
          /\ Calling /\ Polls /\ vtlist[i].vt = vt /\ vt \notin Periodic
          /\ vtlist' = Unlinked(i)
          /\ CC1IE' = (CC1IE /\ vtlist' # <<>>)
          /\ IF i = 1 /\ vtlist' # <<>> /\ Passed < Head(vtlist').delta
             THEN To("set", now + Safe(Head(vtlist').delta - Passed))
             ELSE UNCHANGED write
          /\ UNCHANGED <<now, CCR, CC1IF, lasttime, isr>>
          /\ ticks' = IF isr = "no" /\ ~Alarm' THEN 0 ELSE ticks
  BY DEF Reset
<1>2. /\ HwTypes /\ IsList(vtlist) /\ write = NoWrite /\ isr \in {"no", "callback"}
      /\ vtlist # <<>> /\ vt \in TimersIn(vtlist)
  <2>1. vtlist \in Seq(Entries) /\ i \in 1 .. Len(vtlist)
    BY <1>1 DEF TimerInv, IsList
  <2>2. vtlist # <<>>
    BY <2>1
  <2> QED BY <1>1, <2>2 DEF TimerInv, Calling, TimersIn
<1>3. /\ IsList(vtlist)' /\ TimersIn(vtlist') = TimersIn(vtlist) \ {vt}
      /\ \A t \in TimersIn(vtlist') : Due(vtlist')[t] = Due(vtlist)[t]
  BY <1>1, <1>2, UnlinkedIsDue
<1>4. Near /\ Near' /\ vtlist' # <<>>
  <2>1. Near
    BY <1>1, <1>2 DEF TimerInv, PollIsNear
  <2>2. Near'
    BY <1>1, <1>3, <2>1 DEF Near
  <2> QED BY <2>1, <2>2 DEF Near, TimersIn
<1>5. Passed' = Passed /\ Passed \in Nat /\ W \in Nat
  BY <1>1, <1>2, PassedIs DEF Passed
<1>6. CC1IE /\ CC1IE' /\ (Alarm' <=> Alarm)
  <2>1. CC1IE
    BY <1>2 DEF TimerInv, AlarmIsOn, NoWrite
  <2> QED BY <1>1, <1>4, <2>1 DEF Alarm
<1>7. ticks' = ticks
  BY <1>1, <1>6 DEF TimerInv, AlarmIsOn
<1>8. First \in Nat /\ First' \in Nat /\ First' < W /\ First <= First' /\ (i # 1 => First' = First)
  <2>1. /\ First' \in Nat /\ First' < W /\ vtlist'[1].vt \in TimersIn(vtlist')
        /\ Due(vtlist')[vtlist'[1].vt] = First'
        /\ \A t \in TimersIn(vtlist') : First' <= Due(vtlist')[t]
    BY <1>3, <1>4, FirstIsLeast DEF First
  <2>2. /\ First \in Nat /\ vtlist[1].vt \in TimersIn(vtlist)
        /\ Due(vtlist)[vtlist[1].vt] = First
        /\ \A t \in TimersIn(vtlist) : First <= Due(vtlist)[t]
    BY <1>2, FirstIsLeast DEF First
  <2>3. First <= First'
    BY <1>3, <2>1, <2>2
  <2>4. ASSUME i # 1 PROVE First' <= First
    <3>1. 1 \in DOMAIN vtlist
      BY <1>2 DEF IsList
    <3>2. vtlist[1].vt # vt
      BY <1>1, <1>2, <2>4, <3>1 DEF IsList, Distinct
    <3> QED BY <1>3, <2>1, <2>2, <3>2
  <2> QED BY <2>1, <2>2, <2>3, <2>4
<1>9. Head(vtlist').delta = First'
  BY <1>3, <1>4, FirstIsLeast DEF First
<1>10. CASE i = 1 /\ Passed < First'
  <2>1. To("set", now + Safe(First' - Passed)) /\ Passed + TimeDelta < W
    BY <1>1, <1>2, <1>4, <1>9, <1>10, Room
  <2>2. /\ write' \in [kind : {"none", "start", "set"}, at : Counter, late : BOOLEAN]
        /\ write'.kind = "set" /\ ~write'.late
        /\ Passed + TimeDelta <= Dist(write'.at, lasttime)
        /\ Dist(write'.at, lasttime) <= First' + TimeDelta - 1
    BY <1>2, <1>8, <1>10, <2>1, NextAlarm
  <2>3. HwTypes'
    BY <1>1, <1>2, <1>6, <1>7, <2>2 DEF HwTypes
  <2>4. AlarmIsOn' /\ AlarmIsSet'
    BY <1>1, <1>2, <1>4, <1>6, <1>7, <2>2 DEF TimerInv, AlarmIsOn, AlarmIsSet
  <2>5. LateInCallback' /\ PollIsNear'
    BY <1>1, <1>4, <1>5, <1>7 DEF TimerInv, LateInCallback, PollIsNear
  <2>6. LateAtAlarm'
    <3>1. ticks' \in Nat
      BY <2>3, WIsNumber DEF HwTypes
    <3>2. Passed' <= First' + TimeDelta - 1 + ticks'
      BY <1>5, <1>8, <1>10, <3>1, NotYetDue
    <3> QED BY <3>2 DEF LateAtAlarm
  <2>7. WriteIsAhead'
    <3>1. LateWrite' = 0 /\ Dist(write'.at, lasttime) \in Nat
      <4>1. Dist(write'.at, lasttime) \in Counter
        BY <1>2, <2>2, DistIs DEF HwTypes
      <4> QED BY <2>2, <4>1, InCounter DEF LateWrite
    <3> QED BY <1>1, <1>4, <1>5, <2>2, <3>1, WIsNumber DEF WriteIsAhead
  <2> QED BY <1>2, <1>3, <1>5, <2>3, <2>4, <2>5, <2>6, <2>7 DEF TimerInv
<1>11. CASE ~(i = 1 /\ Passed < First')
  <2>1. write' = write
    BY <1>1, <1>4, <1>9, <1>11
  <2>2. HwTypes'
    BY <1>1, <1>2, <1>6, <1>7, <2>1 DEF HwTypes
  <2>3. AlarmIsOn'
    BY <1>1, <1>2, <1>4, <1>6, <1>7, <2>1 DEF TimerInv, AlarmIsOn, NoWrite
  <2>4. LateInCallback' /\ PollIsNear' /\ WriteIsAhead'
    BY <1>1, <1>2, <1>4, <1>5, <1>7, <2>1
       DEF TimerInv, LateInCallback, PollIsNear, WriteIsAhead, NoWrite
  <2>5. LateAtAlarm'
    <3> SUFFICES ASSUME Alarm PROVE Passed' <= First' + TimeDelta - 1 + ticks'
      BY <1>1, <1>2, <1>6 DEF LateAtAlarm
    <3>1. Passed <= First + TimeDelta - 1 + ticks /\ ticks \in Nat
      BY <1>2 DEF TimerInv, LateAtAlarm, HwTypes
    <3>2. Passed <= First' + TimeDelta - 1 + ticks
      BY <1>5, <1>8, <3>1, LaterIsFine
    <3> QED BY <1>5, <1>7, <3>2
  <2>6. AlarmIsSet'
    <3> SUFFICES ASSUME isr = "no", ~Alarm
                 PROVE  CCR' # now' /\ Passed' + Dist(CCR', now') <= First' + TimeDelta - 1
      BY <1>1, <1>6 DEF AlarmIsSet
    <3>1. CCR # now /\ Passed + Dist(CCR, now) <= First + TimeDelta - 1
      BY <1>2 DEF TimerInv, AlarmIsSet, NoWrite
    <3>2. Dist(CCR, now) \in Nat /\ CCR' = CCR /\ now' = now
      BY <1>1, <1>2, TimesAre
    <3> QED BY <1>5, <1>8, <3>1, <3>2, WIsNumber
  <2> QED BY <1>2, <1>3, <1>5, <2>2, <2>3, <2>4, <2>5, <2>6 DEF TimerInv
<1> QED
  BY <1>10, <1>11

LEMMA TimerStep ==
    ASSUME PollsKeepPace
    PROVE  TimerInv /\ [VtNext]_vtVars => TimerInv'
<1> SUFFICES ASSUME TimerInv, [VtNext]_vtVars PROVE TimerInv'
  OBVIOUS
<1>1. ASSUME NEW vt \in Timers, Reset(vt) PROVE TimerInv'
  BY <1>1, ResetStep
<1>2. ASSUME NEW vt \in Timers, NEW delay \in Delays \cup {Period}, Set(vt, delay)
      PROVE  TimerInv'
  BY <1>2, SetFirstStep, SetMoreStep
<1>3. CASE UNCHANGED vtVars
  <2>1. UNCHANGED <<now, CCR, CC1IE, CC1IF, vtlist, lasttime, isr, write, ticks>>
    BY <1>3 DEF vtVars, hwVars, listVars
  <2> QED
    BY <2>1 DEF TimerInv, HwTypes, AlarmIsOn, PollIsNear, LateInCallback, LateAtAlarm, AlarmIsSet,
       WriteIsAhead, Near, Polls, Armed, Passed, First, Alarm, LateWrite
<1> QED
  BY <1>1, <1>2, <1>3, WriteAlarmStep, IrqEnterStep, TriggerStep, CallbackReturnsStep,
     TickEndsStep, TickStep DEF VtNext

\* The compare register and the list agree at every moment: an alarm that is set, or
\* about to be written, is never late (chVTDoSetI, chVTDoResetI, chVTDoTickI).
THEOREM AlarmTrueHolds == ASSUME PollsKeepPace PROVE VtSpec => []AlarmTrue
<1>1. TimerInv => VtTypeOK
  BY DEF TimerInv, HwTypes, IsList, Distinct, Entries, VtTypeOK
<1>2. TimerInv => AlarmIsAhead
  <2> SUFFICES ASSUME TimerInv, vtlist # <<>>, isr = "no", write = NoWrite, ~Alarm
               PROVE  CC1IE /\ ((CCR - now) % W \in
                            1 .. LET left == Head(vtlist).delta - Passed
                                 IN IF left < 1 THEN TimeDelta - 1 ELSE left + TimeDelta - 1)
    BY DEF AlarmIsAhead
  <2>1. CC1IE
    BY DEF TimerInv, AlarmIsOn, NoWrite
  <2>2. HwTypes /\ Head(vtlist).delta = First /\ First \in Nat
    BY FirstIsLeast DEF TimerInv, First
  <2>3. CCR # now /\ Passed + Dist(CCR, now) <= First + TimeDelta - 1
    BY DEF TimerInv, AlarmIsSet, NoWrite
  <2>4. Dist(CCR, now) >= 1 /\ Dist(CCR, now) \in Nat /\ Passed \in Nat
    BY <2>2, <2>3, Nearer, TimesAre, PassedIs
  <2>5. Dist(CCR, now) \in 1 .. LET left == First - Passed
                                IN IF left < 1 THEN TimeDelta - 1 ELSE left + TimeDelta - 1
    BY <2>2, <2>3, <2>4, WIsNumber
  <2> QED BY <2>1, <2>2, <2>5 DEF Dist
<1>3. TimerInv => NotExceeded
  <2> SUFFICES ASSUME TimerInv, write.kind # "none"
               PROVE  (now - lasttime) % W <= (write.at - lasttime) % W
    BY DEF NotExceeded
  <2>1. HwTypes /\ Passed + TimeDelta <= Dist(write.at, lasttime) + LateWrite
    BY DEF TimerInv, WriteIsAhead
  <2>2. Passed <= Dist(write.at, lasttime)
    BY <2>1, TimesAre, PassedIs, WIsNumber
  <2> QED BY <2>2 DEF Passed, Dist
<1> QED
  BY <1>1, <1>2, <1>3, TimerInit, TimerStep, PTL DEF VtSpec, AlarmTrue

-----------------------------------------------------------------------------
(* The timers implement TimerService.                                        *)

LEMMA LeftIs ==
    /\ Left = [t \in TimersIn(vtlist) |-> Due(vtlist)[t] - Passed]
    /\ Left' = [t \in TimersIn(vtlist') |-> Due(vtlist')[t] - Passed']
<1>1. /\ \A t \in TimersIn(vtlist) :
             Due(vtlist)[t] = Deadlines(vtlist)[CHOOSE i \in DOMAIN vtlist : vtlist[i].vt = t]
      /\ \A t \in TimersIn(vtlist') :
             Due(vtlist')[t] = Deadlines(vtlist')[CHOOSE i \in DOMAIN vtlist' : vtlist'[i].vt = t]
  BY DEF Due
<1>2. Armed = TimersIn(vtlist) /\ Armed' = TimersIn(vtlist')
  BY DEF Armed, TimersIn
<1> QED BY <1>1, <1>2 DEF Left

\* A step that leaves the deadlines alone is none of the service's.
LEMMA SameLeft ==
    ASSUME vtlist' = vtlist, now' = now, lasttime' = lasttime
    PROVE  Left' = Left
  BY DEF Left, Armed, Passed

LEMMA LeftIsInt ==
    ASSUME TimerInv
    PROVE  \A t \in TimersIn(vtlist) : Due(vtlist)[t] \in Nat /\ Left[t] \in Int
<1> SUFFICES ASSUME NEW t \in TimersIn(vtlist)
             PROVE  Due(vtlist)[t] \in Nat /\ Left[t] \in Int
  OBVIOUS
<1>1. IsList(vtlist) /\ vtlist # <<>> /\ Passed \in Nat
  BY PassedIs DEF TimerInv, TimersIn
<1>2. Due(vtlist)[t] \in Nat
  BY <1>1, FirstIsLeast
<1>3. Left[t] = Due(vtlist)[t] - Passed
  BY LeftIs
<1> QED BY <1>1, <1>2, <1>3

LEMMA SetArms ==
    ASSUME PollsKeepPace, TimerInv,
           NEW vt \in Timers, NEW delay \in Delays \cup {Period}, Set(vt, delay)
    PROVE  Service!Arm(vt, delay)
<1> DEFINE old == TimersIn(vtlist)
           new == TimersIn(vtlist')
<1>1. vt \notin old
  BY DelayIs
<1>2. /\ new = old \cup {vt} /\ Due(vtlist')[vt] - Passed' = Safe(delay)
      /\ \A t \in old : Due(vtlist')[t] - Passed' = Due(vtlist)[t] - Passed
  <2>1. CASE vtlist = <<>>
    <3>1. new = {vt} /\ Passed' = 0 /\ Due(vtlist')[vt] = Safe(delay) /\ old = {}
      BY <2>1, SetFirstStep DEF TimersIn
    <3>2. Safe(delay) \in Nat
      BY SafeIs
    <3> QED BY <3>1, <3>2
  <2>2. CASE vtlist # <<>>
    <3>1. /\ new = old \cup {vt} /\ Passed' = Passed
          /\ Due(vtlist')[vt] = Passed + Safe(delay)
          /\ \A t \in old : Due(vtlist')[t] = Due(vtlist)[t]
      BY <2>2, SetMoreStep
    <3>2. Safe(delay) \in Nat /\ Passed \in Nat
      BY SafeIs, PassedIs DEF TimerInv
    <3> QED BY <3>1, <3>2
  <2> QED BY <2>1, <2>2
<1>3. DOMAIN Left = old /\ \A t \in old : Left[t] = Due(vtlist)[t] - Passed
  BY LeftIs
<1>4. Left' = [t \in new |-> Due(vtlist')[t] - Passed']
  BY LeftIs
<1> HIDE DEF old, new
<1>5. Left' = [t \in old \cup {vt} |-> IF t # vt THEN Left[t] ELSE Safe(delay)]
  BY <1>1, <1>2, <1>3, <1>4
<1> QED BY <1>1, <1>3, <1>5 DEF Service!Arm, Service!Armed, Safe

LEMMA ResetDisarms ==
    ASSUME PollsKeepPace, TimerInv, NEW vt \in Timers, Reset(vt)
    PROVE  Service!Disarm(vt)
<1> DEFINE old == TimersIn(vtlist)
           new == TimersIn(vtlist')
<1>1. /\ vt \in old /\ new = old \ {vt} /\ Passed' = Passed
      /\ \A t \in new : Due(vtlist')[t] = Due(vtlist)[t]
  BY ResetStep
<1>2. DOMAIN Left = old /\ \A t \in old : Left[t] = Due(vtlist)[t] - Passed
  BY LeftIs
<1>3. Left' = [t \in new |-> Due(vtlist')[t] - Passed']
  BY LeftIs
<1> HIDE DEF old, new
<1>4. Left' = [t \in old \ {vt} |-> Left[t]]
  BY <1>1, <1>2, <1>3
<1> QED BY <1>1, <1>2, <1>4 DEF Service!Disarm, Service!Without, Service!Armed

\* The timer whose callback is called is due, and due before every other.
LEMMA TriggerFires ==
    ASSUME PollsKeepPace, TimerInv, Trigger
    PROVE  \E t \in Timers : Service!Fire(t)
<1> DEFINE old == TimersIn(vtlist)
           new == TimersIn(vtlist')
           t == vtlist[1].vt
<1>1. /\ HwTypes /\ IsList(vtlist) /\ vtlist # <<>> /\ Head(vtlist).delta <= Passed
      /\ Passed \in Nat /\ now' = now /\ vtlist' = Tail(vtlist)
      /\ lasttime' = (lasttime + Head(vtlist).delta) % W
  BY PassedIs DEF Trigger, Expired, TimerInv
<1>2. /\ vtlist[1] \in Entries /\ Head(vtlist).delta = First /\ First \in Nat
      /\ t \in old /\ Due(vtlist)[t] = First
      /\ \A u \in old : Due(vtlist)[u] \in Nat /\ First <= Due(vtlist)[u]
  BY <1>1, FirstIsLeast DEF First
<1>3. First \in Counter /\ t \in Timers
  BY <1>2 DEF Entries, First
<1>4. new = old \ {t} /\ \A u \in new : Due(vtlist')[u] = Due(vtlist)[u] - First
  BY <1>1, TailIsDue DEF First
<1>5. Passed' = Passed - First
  <2>1. Dist(now, (lasttime + First) % W) = Dist(now, lasttime) - First
    BY <1>1, <1>2, <1>3, PassedIs, BaseMoves DEF HwTypes
  <2> QED BY <1>1, <1>2, <2>1 DEF Passed, Dist
<1>6. DOMAIN Left = old /\ \A u \in old : Left[u] = Due(vtlist)[u] - Passed
  BY LeftIs
<1>7. Left' = [u \in new |-> Due(vtlist')[u] - Passed']
  BY LeftIs
<1> HIDE DEF old, new, t
<1>8. \A u \in new : Due(vtlist')[u] - Passed' = Left[u]
  <2> SUFFICES ASSUME NEW u \in new PROVE Due(vtlist')[u] - Passed' = Left[u]
    OBVIOUS
  <2>1. u \in old /\ Due(vtlist')[u] = Due(vtlist)[u] - First
    BY <1>4
  <2> QED BY <1>1, <1>2, <1>5, <1>6, <2>1
<1>9. Left' = [u \in old \ {t} |-> Left[u]]
  BY <1>4, <1>7, <1>8
<1>10. Left[t] <= 0 /\ \A u \in old : Left[t] <= Left[u]
  BY <1>1, <1>2, <1>6
<1> QED BY <1>2, <1>3, <1>6, <1>9, <1>10 DEF Service!Fire, Service!Without, Service!Armed

\* Time does not go on when a timer is late by Slack.
LEMMA TickTicks ==
    ASSUME PollsKeepPace, TimerInv, Tick
    PROVE  Service!Tick
<1> DEFINE old == TimersIn(vtlist)
           P == Passed
<1>1. /\ HwTypes /\ IsList(vtlist) /\ P = Dist(now, lasttime) /\ P \in Nat /\ W \in Nat
      /\ vtlist' = vtlist /\ lasttime' = lasttime /\ now' = (now + 1) % W
      /\ ticks \in Nat /\ (Alarm \/ isr # "no" => ticks < Latency)
      /\ write.kind # "none" => ~write.late
  BY PassedIs DEF TimerInv, Tick, listVars, HwTypes
<1>2. DOMAIN Left = old /\ \A u \in old : Left[u] = Due(vtlist)[u] - P
  BY LeftIs
<1>3. Left' = [u \in old |-> Due(vtlist)[u] - Passed']
  BY <1>1, LeftIs
<1>4. ASSUME NEW t \in old PROVE Left[t] > -Slack /\ Passed' = P + 1 /\ Due(vtlist)[t] \in Nat
  <2>1. vtlist # <<>>
    BY <1>1, <1>4 DEF TimersIn
  <2>2. First \in Nat /\ First <= Due(vtlist)[t] /\ Due(vtlist)[t] \in Nat
    BY <1>1, <1>4, <2>1, FirstIsLeast DEF First
  <2>3. Passed' = P + 1
    <3>1. Dist(now, lasttime) + 1 < W
      BY <1>1, <2>1, Room
    <3>2. Dist(now', lasttime) = P + 1
      BY <1>1, <3>1, Later DEF HwTypes
    <3> QED BY <1>1, <3>2 DEF Passed, Dist
  <2>4. P < First + Slack
    <3>1. CASE isr = "callback"
      BY <1>1, <2>2, <3>1, SafeIs, WIsNumber DEF TimerInv, LateInCallback
    <3>2. CASE isr # "callback" /\ (Alarm \/ isr = "loop")
      BY <1>1, <2>1, <2>2, <3>2, SafeIs, WIsNumber DEF TimerInv, LateAtAlarm
    <3>3. CASE isr = "no" /\ ~Alarm /\ write.kind = "none"
      <4>1. CCR # now /\ P + Dist(CCR, now) <= First + TimeDelta - 1
        BY <2>1, <3>3 DEF TimerInv, AlarmIsSet
      <4>2. Dist(CCR, now) >= 1 /\ Dist(CCR, now) \in Nat
        BY <1>1, <4>1, Nearer, TimesAre
      <4> QED BY <1>1, <2>2, <4>1, <4>2, SafeIs, WIsNumber
    <3>4. CASE isr = "no" /\ ~Alarm /\ write.kind # "none"
      <4>1. /\ P + TimeDelta <= Dist(write.at, lasttime) + LateWrite
            /\ Dist(write.at, lasttime) <= First + TimeDelta - 1
        BY <3>4 DEF TimerInv, WriteIsAhead
      <4>2. LateWrite = 0 /\ Dist(write.at, lasttime) \in Nat
        BY <1>1, <3>4, TimesAre DEF LateWrite, HwTypes
      <4> QED BY <1>1, <2>2, <4>1, <4>2, SafeIs, WIsNumber
    <3> QED BY <1>1, <3>1, <3>2, <3>3, <3>4 DEF HwTypes
  <2>5. Left[t] = Due(vtlist)[t] - P
    BY <1>2, <1>4
  <2> HIDE DEF P
  <2> QED BY <1>1, <2>2, <2>3, <2>4, <2>5, SafeIs
<1> HIDE DEF old, P
<1>5. \A t \in old : Due(vtlist)[t] - Passed' = Left[t] - 1
  <2> SUFFICES ASSUME NEW t \in old PROVE Due(vtlist)[t] - Passed' = Left[t] - 1
    OBVIOUS
  <2> QED BY <1>1, <1>2, <1>4
<1>6. Left' = [t \in old |-> Left[t] - 1]
  BY <1>3, <1>5
<1> QED BY <1>2, <1>4, <1>6 DEF Service!Tick, Service!Armed

\* Every step of the timers is one of the service, or leaves its state alone.
LEMMA ServiceStep ==
    ASSUME PollsKeepPace, TimerInv, [VtNext]_vtVars
    PROVE  [Service!Next]_Left
<1>1. CASE UNCHANGED vtVars
  BY <1>1, SameLeft DEF vtVars, hwVars, listVars
<1>2. CASE WriteAlarm \/ IrqEnter \/ CallbackReturns \/ TickEnds
  BY <1>2, SameLeft DEF WriteAlarm, IrqEnter, CallbackReturns, TickEnds, hwVars, listVars
<1>3. CASE Trigger
  BY <1>3, TriggerFires DEF Service!Next
<1>4. CASE Tick
  BY <1>4, TickTicks DEF Service!Next
<1>5. ASSUME NEW vt \in Timers, Reset(vt) PROVE Service!Next
  BY <1>5, ResetDisarms DEF Service!Next
<1>6. ASSUME NEW vt \in Timers, NEW delay \in Delays \cup {Period}, Set(vt, delay)
      PROVE  Service!Next
  BY <1>6, SetArms DEF Service!Next
<1> QED
  BY <1>1, <1>2, <1>3, <1>4, <1>5, <1>6 DEF VtNext

\* A timer fires once, never before its delay is over, at most Slack ticks after it,
\* and in the order of the deadlines: what the kernel's timers do is what the program
\* counts on (chVTDoSetI, chVTDoResetI, chVTDoTickI).  That it fires at all is the
\* part of the promise that needs fairness.
THEOREM TimersKeepTime ==
    ASSUME PollsKeepPace
    PROVE  VtSpec => Service!Init /\ [][Service!Next]_Left
<1>1. VtInit => Service!Init
  <2> SUFFICES ASSUME VtInit PROVE Service!Init
    OBVIOUS
  <2>1. TimersIn(vtlist) = {}
    BY DEF VtInit, TimersIn
  <2>2. Left = [t \in {} |-> Due(vtlist)[t] - Passed]
    BY <2>1, LeftIs
  <2> QED BY <2>2 DEF Service!Init
<1>2. TimerInv /\ [VtNext]_vtVars => [Service!Next]_Left
  BY ServiceStep
<1> QED
  BY <1>1, <1>2, TimerInit, TimerStep, PTL DEF VtSpec
=============================================================================
