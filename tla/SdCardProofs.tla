---------------------------- MODULE SdCardProofs ----------------------------
(***************************************************************************)
(* What the access to the SD card promises for every set of threads until  *)
(* it is disturbed (a mount while the card is in use, or a cable that is   *)
(* pulled while the mass storage waits for the card): no assertion fails,  *)
(* the semaphore stays true to the threads, and they are served one at a   *)
(* time in the order of coming, whether waits time out or not.  And, even  *)
(* then: who has had the semaphore is told OK only for its own transfer.  *)
(***************************************************************************)
EXTENDS SdCard, SequenceTheorems, TLAPS

\* The driver is busy exactly while a thread is inside, and the thread to wake
\* is suspended.
DriverTrue ==
    /\ \A t \in Threads : pc[t] \in InDriver => state # "BLK_READY"
    /\ state # "BLK_READY" => \E t \in Threads : pc[t] \in InDriver
    /\ ref # none => pc[ref] = "suspended"
    /\ \A t \in Threads : pc[t] = "suspended" => ref = t

\* What holds until the card is disturbed.
SdInv == TypeOK /\ ~halted /\ SemaphoreAgrees /\ DriverTrue

\* Two threads that hold the semaphore are one.
LEMMA OneHolder ==
    ASSUME SemaphoreAgrees, NEW s \in Threads, NEW t \in Threads,
           pc[s] \in InDriver \cup {"got"}, pc[t] \in InDriver \cup {"got"}
    PROVE  s = t /\ cnt + Len(queue) = 0
<1>1. s \in Holders /\ t \in Holders
  BY DEF Holders
<1>2. cnt + Len(queue) = 0 /\ \E h \in Threads : Holders = {h}
  BY <1>1 DEF SemaphoreAgrees, CountTrue
<1> QED BY <1>1, <1>2

\* What taking an element out of a sequence leaves.
LEMMA RemoveAtElements ==
    ASSUME NEW S, NEW q \in Seq(S), NEW i \in 1..Len(q)
    PROVE  /\ RemoveAt(q, i) \in Seq(S)
           /\ Len(RemoveAt(q, i)) = Len(q) - 1
           /\ \A j \in 1..(Len(q) - 1) :
                  RemoveAt(q, i)[j] = IF j < i THEN q[j] ELSE q[j + 1]
<1> DEFINE a == SubSeq(q, 1, i - 1)
           b == SubSeq(q, i + 1, Len(q))
<1>1. a \in Seq(S) /\ Len(a) = i - 1 /\ \A j \in 1..(i - 1) : a[j] = q[j]
  OBVIOUS
<1>2. b \in Seq(S) /\ Len(b) = Len(q) - i /\ \A j \in 1..(Len(q) - i) : b[j] = q[i + j]
  OBVIOUS
<1>3. RemoveAt(q, i) = a \o b
  BY DEF RemoveAt
<1> HIDE DEF a, b
<1>4. a \o b \in Seq(S) /\ Len(a \o b) = Len(q) - 1
  <2>1. a \o b \in Seq(S) /\ Len(a \o b) = Len(a) + Len(b)
    BY <1>1, <1>2, ConcatProperties, Zenon
  <2> QED BY <2>1, <1>1, <1>2
<1>5. ASSUME NEW j \in 1..(Len(q) - 1)
      PROVE  (a \o b)[j] = IF j < i THEN q[j] ELSE q[j + 1]
  <2>1. CASE j < i
    BY <2>1, <1>1, <1>2, ConcatProperties
  <2>2. CASE ~(j < i)
    <3>1. (a \o b)[j] = b[j - (i - 1)]
      BY <2>2, <1>1, <1>2, ConcatProperties
    <3>2. j - (i - 1) \in 1..(Len(q) - i)
      BY <2>2
    <3> QED BY <3>1, <3>2, <2>2, <1>2
  <2> QED BY <2>1, <2>2
<1> QED BY <1>3, <1>4, <1>5

\* The types that the steps of the semaphore need.
SemTypes == pc \in [Threads -> Places] /\ cnt \in Int /\ queue \in Seq(Threads)

\* A thread comes.
LEMMA SemWaitStep ==
    ASSUME SemTypes, SemaphoreAgrees, NEW t \in Threads, pc[t] = "away",
           SemWait(t, cnt, queue)
    PROVE  SemTypes' /\ SemaphoreAgrees'
<1> USE DEF SemTypes
<1>1. CASE Holders = {} /\ cnt = 1 /\ queue = <<>>
  <2>1. cnt' = 0 /\ queue' = <<>> /\ pc' = [pc EXCEPT ![t] = "got"]
    BY <1>1 DEF SemWait
  <2>2. Holders' = {t}
    BY <2>1, <1>1 DEF Holders, InDriver
  <2>3. QueueTrue'
    BY <2>1, <1>1 DEF SemaphoreAgrees, QueueTrue, Queued
  <2>4. queue' \in Seq(Threads) /\ Len(queue') = 0
    BY <2>1, EmptySeq
  <2>5. cnt' + Len(queue') = 0
    BY <2>1, <2>4
  <2> QED BY <2>1, <2>2, <2>3, <2>4, <2>5 DEF SemaphoreAgrees, CountTrue, Places
<1>2. CASE cnt + Len(queue) = 0 /\ \E h \in Threads : Holders = {h}
  <2>1. /\ cnt' = cnt - 1 /\ queue' = Append(queue, t)
        /\ pc' = [pc EXCEPT ![t] = "sem"]
    BY <1>2 DEF SemWait
  <2>2. Holders' = Holders
    BY <2>1 DEF Holders, InDriver
  <2>3. ~Queued(t)
    BY DEF SemaphoreAgrees, QueueTrue
  <2>4. /\ Len(queue') = Len(queue) + 1 /\ queue' \in Seq(Threads)
        /\ \A i \in 1..Len(queue) : queue'[i] = queue[i]
        /\ queue'[Len(queue) + 1] = t
    BY <2>1
  <2>5. QueueTrue'
    <3>1. \A s \in Threads : Queued(s)' <=> Queued(s) \/ s = t
      BY <2>4 DEF Queued
    <3>2. \A i, j \in DOMAIN queue' : queue'[i] = queue'[j] => i = j
      <4>1. \A i \in 1..Len(queue) : queue[i] # t
        BY <2>3 DEF Queued
      <4>2. \A i, j \in 1..Len(queue) : queue[i] = queue[j] => i = j
        BY DEF SemaphoreAgrees, QueueTrue
      <4>3. DOMAIN queue' = 1..Len(queue) \cup {Len(queue) + 1}
        BY <2>4
      <4> QED BY <2>4, <4>1, <4>2, <4>3
    <3>3. \A s \in Threads : pc'[s] = "sem" <=> pc[s] = "sem" \/ s = t
      BY <2>1
    <3> QED BY <3>1, <3>2, <3>3 DEF SemaphoreAgrees, QueueTrue
  <2>6. CountTrue'
    BY <1>2, <2>1, <2>2, <2>4 DEF CountTrue
  <2> QED BY <2>1, <2>4, <2>5, <2>6 DEF SemaphoreAgrees, Places
<1> QED BY <1>1, <1>2 DEF SemaphoreAgrees, CountTrue

\* The thread that holds the semaphore signals it.
LEMMA SemSignalStep ==
    ASSUME SemTypes, SemaphoreAgrees, NEW t \in Threads,
           pc[t] \in InDriver \cup {"got"}, SemSignal(t)
    PROVE  SemTypes' /\ SemaphoreAgrees'
<1> USE DEF SemTypes
<1>1. cnt + Len(queue) = 0 /\ Holders = {t}
  BY OneHolder DEF SemaphoreAgrees, CountTrue, Holders
<1>2. CASE queue = <<>>
  <2>1. cnt' = 1 /\ queue' = <<>> /\ pc' = [pc EXCEPT ![t] = "away"]
    BY <1>1, <1>2 DEF SemSignal
  <2>2. Holders' = {}
    BY <2>1, <1>1 DEF Holders, InDriver
  <2>3. QueueTrue'
    BY <2>1, <1>2 DEF SemaphoreAgrees, QueueTrue, Queued
  <2> QED BY <2>1, <2>2, <2>3 DEF SemaphoreAgrees, CountTrue, Places
<1>3. CASE queue # <<>>
  <2> DEFINE h == Head(queue)
  <2>1. /\ cnt' = cnt + 1 /\ queue' = Tail(queue)
        /\ pc' = [pc EXCEPT ![t] = "away", ![h] = "got"]
    BY <1>1, <1>3 DEF SemSignal
  <2>2. /\ h = queue[1] /\ h \in Threads /\ Len(queue') = Len(queue) - 1
        /\ queue' \in Seq(Threads) /\ Len(queue) >= 1
        /\ \A i \in 1..(Len(queue) - 1) : queue'[i] = queue[i + 1]
    BY <1>3, <2>1
  <2> HIDE DEF h
  <2>3. pc[h] = "sem" /\ h # t
    <3>1. Queued(h)
      BY <2>2 DEF Queued
    <3> QED BY <3>1, <2>2 DEF SemaphoreAgrees, QueueTrue, InDriver
  <2>4. Holders' = {h}
    BY <2>1, <2>2, <2>3, <1>1 DEF Holders, InDriver
  <2>5. QueueTrue'
    <3>1. \A s \in Threads : Queued(s)' <=> Queued(s) /\ s # h
      <4>1. ASSUME NEW s \in Threads, Queued(s)' PROVE Queued(s) /\ s # h
        <5>1. PICK i \in 1..(Len(queue) - 1) : queue'[i] = s
          BY <4>1, <2>2 DEF Queued
        <5>2. queue[i + 1] = s /\ i + 1 \in 1..Len(queue)
          BY <5>1, <2>2
        <5>3. \A j, k \in 1..Len(queue) : queue[j] = queue[k] => j = k
          BY DEF SemaphoreAgrees, QueueTrue
        <5>4. i + 1 # 1 /\ 1 \in 1..Len(queue)
          BY <2>2
        <5>5. s # queue[1]
          BY <5>2, <5>3, <5>4
        <5> QED BY <5>2, <5>5, <2>2 DEF Queued
      <4>2. ASSUME NEW s \in Threads, Queued(s), s # h PROVE Queued(s)'
        <5>1. PICK i \in DOMAIN queue : queue[i] = s
          BY <4>2 DEF Queued
        <5>2. i - 1 \in 1..(Len(queue) - 1)
          BY <5>1, <4>2, <2>2
        <5>3. queue'[i - 1] = s /\ i - 1 \in DOMAIN queue'
          BY <5>1, <5>2, <2>2
        <5> QED BY <5>3 DEF Queued
      <4> QED BY <4>1, <4>2
    <3>2. \A i, j \in DOMAIN queue' : queue'[i] = queue'[j] => i = j
      BY <2>2 DEF SemaphoreAgrees, QueueTrue
    <3>3. \A s \in Threads : pc'[s] = "sem" <=> pc[s] = "sem" /\ s # h
      BY <2>1, <2>2, <2>3 DEF InDriver
    <3> QED BY <3>1, <3>2, <3>3 DEF SemaphoreAgrees, QueueTrue
  <2>6. CountTrue'
    BY <1>1, <2>1, <2>2, <2>4 DEF CountTrue
  <2> QED BY <2>1, <2>2, <2>5, <2>6 DEF SemaphoreAgrees, Places
<1> QED BY <1>2, <1>3

\* A thread that waits leaves the queue, wherever it stands in it.
LEMMA DequeueStep ==
    ASSUME SemTypes, QueueTrue, NEW t \in Threads, pc[t] = "sem", Dequeue(t)
    PROVE  /\ queue' \in Seq(Threads) /\ Len(queue') = Len(queue) - 1
           /\ \A s \in Threads : Queued(s)' <=> Queued(s) /\ s # t
           /\ \A i, j \in DOMAIN queue' : queue'[i] = queue'[j] => i = j
<1> USE DEF SemTypes
<1>1. PICK k \in 1..Len(queue) : queue[k] = t /\ queue' = RemoveAt(queue, k)
  BY DEF QueueTrue, Queued, Dequeue
<1>2. /\ queue' \in Seq(Threads) /\ Len(queue') = Len(queue) - 1
      /\ \A j \in 1..(Len(queue) - 1) :
             queue'[j] = IF j < k THEN queue[j] ELSE queue[j + 1]
  BY <1>1, RemoveAtElements
<1>3. \A i, j \in 1..Len(queue) : queue[i] = queue[j] => i = j
  BY DEF QueueTrue
<1>4. DOMAIN queue' = 1..(Len(queue) - 1)
  BY <1>2
<1>5. ASSUME NEW s \in Threads, Queued(s)' PROVE Queued(s) /\ s # t
  <2>1. PICK i \in 1..(Len(queue) - 1) : queue'[i] = s
    BY <1>4, <1>5 DEF Queued
  <2>2. CASE i < k
    BY <2>1, <2>2, <1>1, <1>2, <1>3 DEF Queued
  <2>3. CASE ~(i < k)
    <3>1. queue[i + 1] = s /\ i + 1 \in 1..Len(queue) /\ i + 1 # k
      BY <2>1, <2>3, <1>2
    <3> QED BY <3>1, <1>1, <1>3 DEF Queued
  <2> QED BY <2>2, <2>3
<1>6. ASSUME NEW s \in Threads, Queued(s), s # t PROVE Queued(s)'
  <2>1. PICK i \in 1..Len(queue) : queue[i] = s
    BY <1>6 DEF Queued
  <2>2. CASE i < k
    BY <2>1, <2>2, <1>2, <1>4 DEF Queued
  <2>3. CASE ~(i < k)
    <3>1. i # k
      BY <2>1, <1>1, <1>6
    <3>2. i - 1 \in 1..(Len(queue) - 1) /\ ~(i - 1 < k) /\ (i - 1) + 1 = i
      BY <2>3, <3>1
    <3>3. queue'[i - 1] = s
      BY <3>2, <1>2, <2>1
    <3> QED BY <3>2, <3>3, <1>4 DEF Queued
  <2> QED BY <2>2, <2>3
<1>7. \A i, j \in DOMAIN queue' : queue'[i] = queue'[j] => i = j
  BY <1>2, <1>3, <1>4
<1> QED BY <1>2, <1>5, <1>6, <1>7

LEMMA TimeOutStep ==
    ASSUME SemTypes, SemaphoreAgrees, NEW t \in Threads, TimeOut(t)
    PROVE  SemTypes' /\ SemaphoreAgrees'
<1> USE DEF SemTypes
<1>1. /\ pc[t] = "sem" /\ pc' = [pc EXCEPT ![t] = "late"] /\ cnt' = cnt + 1
      /\ Dequeue(t)
  BY DEF TimeOut
<1>2. /\ queue' \in Seq(Threads) /\ Len(queue') = Len(queue) - 1
      /\ \A s \in Threads : Queued(s)' <=> Queued(s) /\ s # t
      /\ \A i, j \in DOMAIN queue' : queue'[i] = queue'[j] => i = j
  BY <1>1, DequeueStep DEF SemaphoreAgrees
<1>3. QueueTrue'
  BY <1>1, <1>2 DEF SemaphoreAgrees, QueueTrue
<1>4. Holders' = Holders
  BY <1>1 DEF Holders, InDriver
<1>5. Queued(t)
  BY <1>1 DEF SemaphoreAgrees, QueueTrue
<1>6. queue # <<>>
  BY <1>5 DEF Queued
<1>7. cnt + Len(queue) = 0 /\ \E h \in Threads : Holders = {h}
  BY <1>6 DEF SemaphoreAgrees, CountTrue
<1>8. CountTrue'
  BY <1>1, <1>2, <1>4, <1>7 DEF CountTrue
<1> QED BY <1>1, <1>2, <1>3, <1>8 DEF SemaphoreAgrees, Places

\* A thread that holds the semaphore goes on, or one that was late returns.
LEMMA InsideStep ==
    ASSUME SemTypes, SemaphoreAgrees, NEW t \in Threads, NEW p \in Places,
           pc' = [pc EXCEPT ![t] = p], UNCHANGED semVars,
           \/ pc[t] \in InDriver \cup {"got"} /\ p \in InDriver
           \/ pc[t] = "late" /\ p = "away"
    PROVE  SemTypes' /\ SemaphoreAgrees'
<1> USE DEF SemTypes, semVars
<1>1. Holders' = Holders
  BY DEF Holders, InDriver
<1>2. \A s \in Threads : pc'[s] = "sem" <=> pc[s] = "sem"
  BY DEF InDriver
<1>3. QueueTrue'
  BY <1>2 DEF SemaphoreAgrees, QueueTrue, Queued
<1>4. CountTrue'
  BY <1>1 DEF SemaphoreAgrees, CountTrue
<1> QED BY <1>3, <1>4 DEF SemaphoreAgrees

-----------------------------------------------------------------------------
(* Types, whatever disturbs the card.                                        *)

LEMMA SemWaitType ==
    ASSUME SemTypes, NEW t \in Threads, NEW c \in Int, NEW q \in Seq(Threads),
           SemWait(t, c, q)
    PROVE  SemTypes' /\ cpu' \in {t, none}
<1> USE DEF SemTypes
<1>1. cnt' \in Int /\ cpu' \in {t, none}
  BY DEF SemWait
<1>2. pc' \in [Threads -> Places]
  BY DEF SemWait, Places
<1>3. queue' \in Seq(Threads)
  BY DEF SemWait
<1> QED BY <1>1, <1>2, <1>3

LEMMA SemSignalType ==
    ASSUME SemTypes, NEW t \in Threads, SemSignal(t)
    PROVE  SemTypes'
<1> USE DEF SemTypes
<1>1. CASE cnt < 1 /\ queue # <<>>
  <2>1. /\ queue' = Tail(queue) /\ cnt' = cnt + 1
        /\ pc' = [pc EXCEPT ![t] = "away", ![Head(queue)] = "got"]
    BY <1>1 DEF SemSignal
  <2>2. Tail(queue) \in Seq(Threads)
    BY <1>1
  <2> QED BY <2>1, <2>2 DEF Places
<1>2. CASE ~(cnt < 1 /\ queue # <<>>)
  BY <1>2 DEF SemSignal, Places
<1> QED BY <1>1, <1>2

LEMMA DequeueType ==
    ASSUME queue \in Seq(Threads), NEW t \in Threads, Dequeue(t)
    PROVE  queue' \in Seq(Threads)
<1>1. CASE queue' = <<>>
  BY <1>1, EmptySeq
<1>2. CASE \E i \in DOMAIN queue : queue' = RemoveAt(queue, i)
  BY <1>2, RemoveAtElements
<1> QED BY <1>1, <1>2 DEF Dequeue

LEMMA TypeInit == Init => TypeOK
<1> SUFFICES ASSUME Init PROVE TypeOK
  OBVIOUS
<1>1. queue \in Seq(Threads)
  BY EmptySeq DEF Init
<1>2. /\ moved \in [Threads -> BOOLEAN] /\ mask \in BOOLEAN /\ halted \in BOOLEAN
      /\ fsType \in BOOLEAN /\ disturbed \in BOOLEAN
  BY Zenon DEF Init
<1> QED BY <1>1, <1>2 DEF Init, TypeOK, Places, Operations, Results

LEMMA TypeNext == TypeOK /\ [Next]_vars => TypeOK'
<1> SUFFICES ASSUME TypeOK, [Next]_vars PROVE TypeOK'
  OBVIOUS
<1>0. SemTypes
  BY DEF TypeOK, SemTypes
<1>1. ASSUME NEW t \in Threads, NEW o \in Operations, Call(t, o) PROVE TypeOK'
  <2>1. SemTypes' /\ cpu' \in {t, none}
    BY <1>0, <1>1, SemWaitType DEF Call, SemTypes
  <2> QED BY <1>1, <2>1 DEF Call, TypeOK, SemTypes, cardVars, Results
<1>2. ASSUME NEW t \in Threads, Mount(t) PROVE TypeOK'
  <2>1. disturbed' \in BOOLEAN
    BY <1>2 DEF Mount, TypeOK
  <2>2. CASE state = "BLK_READY"
    <3>1. SemTypes' /\ cpu' \in {t, none}
      <4>1. SemWait(t, 1, <<>>)
        BY <1>2, <2>2 DEF Mount
      <4>2. 1 \in Int /\ <<>> \in Seq(Threads)
        BY EmptySeq
      <4> QED BY <1>0, <4>1, <4>2, SemWaitType
    <3> QED BY <1>2, <2>1, <2>2, <3>1 DEF Mount, TypeOK, SemTypes, cardVars, Results, Operations
  <2>3. CASE state # "BLK_READY"
    <3>1. queue' \in Seq(Threads)
      BY <1>2, <2>3, EmptySeq DEF Mount
    <3> QED BY <1>2, <2>1, <2>3, <3>1 DEF Mount, TypeOK, cardVars, Results, Operations
  <2> QED BY <2>2, <2>3
<1>3. ASSUME NEW t \in Threads, TimeOut(t) PROVE TypeOK'
  <2>1. queue' \in Seq(Threads)
    BY <1>3, DequeueType DEF TimeOut, TypeOK
  <2> QED BY <1>3, <2>1 DEF TimeOut, TypeOK, cardVars, callVars, Places
\* Whatever the end of a call is: the thread leaves the driver.
<1>4. ASSUME NEW t \in Threads, NEW failed \in BOOLEAN, Leave(t, failed),
             ref' = ref, mask' \in BOOLEAN, sta' \in SUBSET {"DATAEND", "error"}, owner' = owner,
             moved' \in [Threads -> BOOLEAN]
      PROVE  TypeOK'
  <2>1. SemTypes'
    BY <1>0, <1>4, SemSignalType DEF Leave
  <2> QED BY <1>4, <2>1 DEF Leave, Return, DiskResult, TypeOK, SemTypes, Results
<1>5. ASSUME NEW t \in Threads, ReturnLate(t) PROVE TypeOK'
  BY <1>5 DEF ReturnLate, Return, DiskResult, TypeOK, semVars, cardVars, Results, Places
<1>6. ASSUME NEW t \in Threads, Enter(t) PROVE TypeOK'
  <2>1. CASE state = "BLK_READY"
    <3>1. state' \in Operations /\ halted' = halted /\ cpu' = t
      BY <1>6, <2>1 DEF Enter, TypeOK
    <3>2. pc' \in [Threads -> Places]
      BY <1>6, <2>1 DEF Enter, TypeOK, Places
    <3> QED BY <1>6, <3>1, <3>2 DEF Enter, TypeOK, callVars, semVars
  <2>2. CASE state # "BLK_READY"
    <3>1. halted' \in BOOLEAN /\ UNCHANGED <<state, pc, cpu>>
      BY <1>6, <2>2 DEF Enter
    <3> QED BY <1>6, <3>1 DEF Enter, TypeOK, callVars, semVars
  <2> QED BY <2>1, <2>2
<1>7. ASSUME NEW t \in Threads, OutOfRange(t) PROVE TypeOK'
  BY <1>7, <1>4 DEF OutOfRange, TypeOK
<1>8. ASSUME NEW t \in Threads, CardBusy(t) PROVE TypeOK'
  BY <1>8 DEF CardBusy, TypeOK, callVars, semVars, cardVars
<1>9. ASSUME NEW t \in Threads, CardFails(t) PROVE TypeOK'
  BY <1>9, <1>4 DEF CardFails, TypeOK
<1>10. ASSUME NEW t \in Threads, CardReady(t) PROVE TypeOK'
  BY <1>10 DEF CardReady, ClearFlags, TypeOK, callVars, semVars, Places
<1>11. ASSUME NEW t \in Threads, CommandFails(t) PROVE TypeOK'
  BY <1>11, <1>4 DEF CommandFails, ClearFlags, TypeOK
<1>12. ASSUME NEW t \in Threads, WaitTransactionEnd(t) PROVE TypeOK'
  BY <1>12 DEF WaitTransactionEnd, TypeOK, callVars, semVars, Places
<1>13. ASSUME NEW t \in Threads, Finish(t) PROVE TypeOK'
  BY <1>13, <1>4 DEF Finish, ClearFlags, FailsAtEnd, TypeOK
<1>14. ASSUME Irq PROVE TypeOK'
  BY <1>14 DEF Irq, TypeOK, callVars, semVars, Places
<1>15. ASSUME NEW t \in Threads, Unplug(t) PROVE TypeOK'
  BY <1>15 DEF Unplug, TypeOK, callVars, semVars, cardVars, Places
<1>16. CASE UNCHANGED vars
  BY <1>16 DEF TypeOK, vars, callVars, semVars, cardVars
<1> QED BY <1>1, <1>2, <1>3, <1>5, <1>6, <1>7, <1>8, <1>9, <1>10, <1>11, <1>12, <1>13,
           <1>14, <1>15, <1>16 DEF Next, Step

\* Every variable of the card and of its users keeps its type, whatever disturbs
\* the card.
THEOREM SdCardType == Spec => []TypeOK
  BY TypeInit, TypeNext, PTL DEF Spec

-----------------------------------------------------------------------------
(* The invariant.                                                            *)

LEMMA SdInit == Init => SdInv
<1> SUFFICES ASSUME Init PROVE SdInv
  OBVIOUS
<1>1. TypeOK
  BY TypeInit
<1>2. Holders = {}
  BY DEF Init, Holders, InDriver
<1>3. SemaphoreAgrees
  BY <1>2 DEF Init, SemaphoreAgrees, QueueTrue, CountTrue, Queued
<1>4. DriverTrue
  BY DEF Init, DriverTrue, InDriver
<1> QED BY <1>1, <1>3, <1>4 DEF Init, SdInv

\* As long as a step does not disturb the card it keeps the invariant.
LEMMA SdNext == SdInv /\ [Next]_vars /\ ~disturbed' => SdInv'
<1> SUFFICES ASSUME SdInv, [Next]_vars, ~disturbed' PROVE SdInv'
  OBVIOUS
<1> USE DEF SdInv
<1>0. SemTypes
  BY DEF TypeOK, SemTypes
<1>1. ASSUME NEW t \in Threads, NEW o \in Operations, Call(t, o) PROVE SdInv'
  <2>1. SemTypes' /\ SemaphoreAgrees'
    BY <1>0, <1>1, SemWaitStep DEF Call
  <2>2. pc' \in {[pc EXCEPT ![t] = "sem"], [pc EXCEPT ![t] = "got"]} /\ cpu' \in {t, none}
    BY <1>1 DEF Call, SemWait
  <2>3. TypeOK'
    BY <1>1, <2>1, <2>2 DEF Call, TypeOK, SemTypes, cardVars, Results
  <2>4. DriverTrue'
    BY <1>1, <2>2 DEF Call, DriverTrue, TypeOK, cardVars, InDriver
  <2> QED BY <1>1, <2>1, <2>3, <2>4 DEF Call
\* A mount that finds nobody at the card finds the semaphore as it makes it.
<1>2. ASSUME NEW t \in Threads, Mount(t) PROVE SdInv'
  <2>1. Holders = {} /\ cnt = 1 /\ queue = <<>>
    BY <1>2 DEF Mount, SemaphoreAgrees, CountTrue
  <2>2. state = "BLK_READY"
    BY <2>1 DEF DriverTrue, Holders
  <2>3. SemWait(t, cnt, queue)
    BY <1>2, <2>1, <2>2 DEF Mount
  <2>4. SemTypes' /\ SemaphoreAgrees'
    BY <1>0, <1>2, <2>3, SemWaitStep DEF Mount
  <2>5. pc' \in {[pc EXCEPT ![t] = "sem"], [pc EXCEPT ![t] = "got"]} /\ cpu' \in {t, none}
    BY <2>3 DEF SemWait
  <2>6. TypeOK'
    BY <1>2, <2>2, <2>4, <2>5 DEF Mount, TypeOK, SemTypes, cardVars, Results, Operations
  <2>7. DriverTrue'
    BY <1>2, <2>5 DEF Mount, DriverTrue, TypeOK, cardVars, InDriver
  <2> QED BY <1>2, <2>4, <2>6, <2>7 DEF Mount
<1>3. ASSUME NEW t \in Threads, TimeOut(t) PROVE SdInv'
  <2>1. SemTypes' /\ SemaphoreAgrees'
    BY <1>0, <1>3, TimeOutStep
  <2>2. TypeOK'
    BY <1>3, <2>1 DEF TimeOut, TypeOK, SemTypes, cardVars, callVars
  <2>3. DriverTrue'
    BY <1>3 DEF TimeOut, DriverTrue, TypeOK, cardVars, InDriver
  <2> QED BY <1>3, <2>1, <2>2, <2>3 DEF TimeOut
\* Whatever the end of a call is: the thread leaves the driver.
<1>4. ASSUME NEW t \in Threads, NEW failed \in BOOLEAN, Leave(t, failed),
             pc[t] \in InDriver \cup {"got"},
             pc[t] = "got" => state = "BLK_READY",
             pc[t] # "suspended", ref' = ref, mask' \in BOOLEAN,
             sta' \in SUBSET {"DATAEND", "error"}, owner' = owner,
             moved' \in [Threads -> BOOLEAN]
      PROVE  SdInv'
  <2>1. SemTypes' /\ SemaphoreAgrees'
    BY <1>0, <1>4, SemSignalStep DEF Leave
  <2>2. TypeOK'
    BY <1>4, <2>1 DEF Leave, Return, DiskResult, TypeOK, SemTypes, Results
  <2>3. \A s \in Threads : pc'[s] \notin InDriver
    <3>1. \A s \in Threads : pc[s] \in InDriver => s = t
      BY <1>4, OneHolder
    <3>2. /\ pc'[t] = "away"
          /\ \A s \in Threads : s # t => pc'[s] \in {pc[s], "got"}
      <4>1. \/ pc' = [pc EXCEPT ![t] = "away"]
            \/ pc' = [pc EXCEPT ![t] = "away", ![Head(queue)] = "got"] /\ Head(queue) # t
        <5>1. queue # <<>> => Queued(Head(queue)) /\ Head(queue) \in Threads
          BY DEF TypeOK, Queued
        <5>2. ~Queued(t)
          BY <1>4 DEF SemaphoreAgrees, QueueTrue, InDriver
        <5> QED BY <1>4, <5>1, <5>2 DEF Leave, SemSignal
      <4> QED BY <4>1 DEF TypeOK
    <3> QED BY <3>1, <3>2 DEF InDriver
  <2>4. ref = none
    <3>1. ref # none => ref \in Threads /\ pc[ref] \in InDriver
      BY DEF TypeOK, DriverTrue, InDriver
    <3> QED BY <3>1, <1>4, OneHolder DEF DriverTrue
  <2>5. DriverTrue'
    BY <1>4, <2>3, <2>4 DEF Leave, DriverTrue, InDriver
  <2> QED BY <1>4, <2>1, <2>2, <2>5 DEF Leave, Return
<1>5. ASSUME NEW t \in Threads, ReturnLate(t) PROVE SdInv'
  <2>1. SemTypes' /\ SemaphoreAgrees'
    BY <1>0, <1>5, InsideStep DEF ReturnLate, Places
  <2>2. TypeOK'
    BY <1>5, <2>1 DEF ReturnLate, Return, DiskResult, TypeOK, SemTypes, cardVars, Results
  <2>3. DriverTrue'
    BY <1>5 DEF ReturnLate, DriverTrue, TypeOK, cardVars, InDriver
  <2> QED BY <1>5, <2>1, <2>2, <2>3 DEF ReturnLate, Return
<1>6. ASSUME NEW t \in Threads, Enter(t) PROVE SdInv'
  <2>1. state = "BLK_READY"
    BY <1>6, OneHolder DEF Enter, DriverTrue, InDriver
  <2>2. SemTypes' /\ SemaphoreAgrees'
    BY <1>0, <1>6, <2>1, InsideStep DEF Enter, Places, InDriver
  <2>3. TypeOK'
    BY <1>6, <2>1, <2>2 DEF Enter, TypeOK, SemTypes, callVars
  <2>4. DriverTrue'
    BY <1>6, <2>1 DEF Enter, DriverTrue, TypeOK, InDriver, Operations
  <2> QED BY <1>6, <2>1, <2>2, <2>3, <2>4 DEF Enter
<1>7. ASSUME NEW t \in Threads, OutOfRange(t) PROVE SdInv'
  BY <1>7, <1>4 DEF OutOfRange, TypeOK
<1>8. ASSUME NEW t \in Threads, CardBusy(t) PROVE SdInv'
  BY <1>8 DEF CardBusy, TypeOK, SemaphoreAgrees, QueueTrue, CountTrue, Queued, Holders,
     DriverTrue, callVars, semVars, cardVars
<1>9. ASSUME NEW t \in Threads, CardFails(t) PROVE SdInv'
  BY <1>9, <1>4 DEF CardFails, TypeOK, InDriver
<1>10. ASSUME NEW t \in Threads, CardReady(t) PROVE SdInv'
  <2>1. SemTypes' /\ SemaphoreAgrees'
    BY <1>0, <1>10, InsideStep DEF CardReady, Places, InDriver
  <2>2. TypeOK'
    BY <1>10, <2>1 DEF CardReady, ClearFlags, TypeOK, SemTypes, callVars
  <2>3. DriverTrue'
    BY <1>10 DEF CardReady, DriverTrue, TypeOK, InDriver
  <2> QED BY <1>10, <2>1, <2>2, <2>3 DEF CardReady
<1>11. ASSUME NEW t \in Threads, CommandFails(t) PROVE SdInv'
  BY <1>11, <1>4 DEF CommandFails, ClearFlags, TypeOK, InDriver
<1>12. ASSUME NEW t \in Threads, WaitTransactionEnd(t) PROVE SdInv'
  <2>1. ref = none
    <3>1. ref # none => ref \in Threads /\ pc[ref] \in InDriver /\ pc[ref] # pc[t]
      BY <1>12 DEF WaitTransactionEnd, TypeOK, DriverTrue, InDriver
    <3> QED BY <3>1, <1>12, OneHolder DEF WaitTransactionEnd, InDriver
  <2>2. \/ pc' = [pc EXCEPT ![t] = "suspended"] /\ ref' = t
        \/ pc' = [pc EXCEPT ![t] = "awake"] /\ ref' = ref
    BY <1>12, <2>1 DEF WaitTransactionEnd
  <2>3. SemTypes' /\ SemaphoreAgrees'
    BY <1>0, <1>12, <2>2, InsideStep DEF WaitTransactionEnd, Places, InDriver
  <2>4. TypeOK'
    BY <1>12, <2>1, <2>2, <2>3 DEF WaitTransactionEnd, TypeOK, SemTypes, callVars
  <2>5. DriverTrue'
    <3>1. \A s \in Threads : pc[s] # "suspended"
      BY <2>1, ThreadsAssumption DEF DriverTrue
    <3> QED BY <1>12, <2>1, <2>2, <3>1 DEF WaitTransactionEnd, DriverTrue, TypeOK, InDriver
  <2> QED BY <1>12, <2>1, <2>3, <2>4, <2>5 DEF WaitTransactionEnd
<1>13. ASSUME NEW t \in Threads, Finish(t) PROVE SdInv'
  BY <1>13, <1>4 DEF Finish, ClearFlags, FailsAtEnd, TypeOK, InDriver
<1>14. ASSUME Irq PROVE SdInv'
  <2>1. CASE ref = none
    <3>1. TypeOK'
      BY <1>14, TypeNext DEF Next
    <3>2. UNCHANGED <<pc, cnt, queue, state, ref, halted>>
      BY <1>14, <2>1 DEF Irq, semVars
    <3> QED BY <3>1, <3>2 DEF SemaphoreAgrees, QueueTrue, CountTrue, Queued, Holders, DriverTrue
  <2>2. CASE ref # none
    <3>1. ref \in Threads /\ pc[ref] = "suspended" /\ pc' = [pc EXCEPT ![ref] = "awake"]
      BY <1>14, <2>2 DEF Irq, TypeOK, DriverTrue
    <3>2. SemTypes' /\ SemaphoreAgrees'
      BY <1>0, <1>14, <3>1, InsideStep DEF Irq, Places, InDriver
    <3>3. TypeOK'
      BY <1>14, <3>1, <3>2 DEF Irq, TypeOK, SemTypes, callVars
    <3>4. DriverTrue'
      BY <1>14, <3>1 DEF Irq, DriverTrue, TypeOK, InDriver
    <3> QED BY <1>14, <3>1, <3>2, <3>3, <3>4 DEF Irq
  <2> QED BY <2>1, <2>2
<1>15. ASSUME NEW t \in Threads, Unplug(t) PROVE FALSE
  BY <1>15 DEF Unplug
<1>16. CASE UNCHANGED vars
  BY <1>16 DEF TypeOK, SemaphoreAgrees, QueueTrue, CountTrue, Queued, Holders, DriverTrue,
     vars, callVars, semVars, cardVars
<1> QED BY <1>1, <1>2, <1>3, <1>5, <1>6, <1>7, <1>8, <1>9, <1>10, <1>11, <1>12, <1>13,
           <1>14, <1>15, <1>16 DEF Next, Step

\* A card that is disturbed stays so.
LEMMA StaysDisturbed == disturbed /\ [Next]_vars => disturbed'
  BY DEF Next, vars, Call, Mount, TimeOut, CardBusy, Unplug, Step, ReturnLate, Enter,
     OutOfRange, CardFails, CardReady, CommandFails, WaitTransactionEnd, Finish, Leave, Irq

LEMMA SdAlways == Spec => [](disturbed \/ SdInv)
<1>1. Init => disturbed \/ SdInv
  BY SdInit
<1>2. (disturbed \/ SdInv) /\ [Next]_vars => (disturbed \/ SdInv)'
  BY SdNext, StaysDisturbed
<1> QED BY <1>1, <1>2, PTL DEF Spec

-----------------------------------------------------------------------------
(* The theorems.                                                             *)

\* Unless the card is disturbed nobody enters the driver while it works for
\* another thread: the assertions of sdcRead, sdcWrite and chThdSuspendS never
\* fail.
THEOREM DriverNeverHalts == Spec => []NeverHalts
<1>1. disturbed \/ SdInv => NeverHalts
  BY DEF SdInv, NeverHalts
<1> QED BY <1>1, SdAlways, PTL

\* Until the card is disturbed the count and the queue of semSDRW always tell
\* where the threads are, however waits time out.
THEOREM SemaphoreStaysTrue == Spec => []SemaphoreTrue
<1>1. disturbed \/ SdInv => SemaphoreTrue
  BY DEF SdInv, SemaphoreTrue
<1> QED BY <1>1, SdAlways, PTL

\* Driver, semaphore and threads agree (SDRead, SDWrite, sdcRead, sdcWrite).
THEOREM CardStaysTrue == Spec => []CardTrue
<1>1. TypeOK /\ NeverHalts /\ SemaphoreTrue => CardTrue
  BY DEF CardTrue
<1> QED BY <1>1, SdCardType, DriverNeverHalts, SemaphoreStaysTrue, PTL

-----------------------------------------------------------------------------
(* The results.                                                              *)

\* A call that ends makes a new result for its own thread only; a thread that is
\* woken by the signal goes on with the semaphore.
LEMMA LeaveResults ==
    ASSUME TypeOK, NEW t \in Threads, NEW failed \in BOOLEAN, Leave(t, failed),
           NEW s \in Threads, s # t
    PROVE  pc'[s] \in {pc[s], "got"}
<1>1. queue # <<>> => Head(queue) \in Threads
  BY DEF TypeOK
<1> QED BY <1>1 DEF Leave, SemSignal, TypeOK

\* One thread at a time is in the driver, whatever has disturbed the semaphore: the
\* driver's state is looked at on the way in.
DriverAlone ==
    \A t \in Threads : pc[t] \in InDriver =>
        /\ state # "BLK_READY"
        /\ \A s \in Threads : pc[s] \in InDriver => s = t

\* The transfer that was started is the one of the thread inside, and the flag of its
\* end is set only when the card has done it.
StatusIsOwn ==
    \A t \in Threads : pc[t] \in {"armed", "suspended", "awake"} =>
        owner = t /\ ("DATAEND" \in sta => moved[t])

OwnInv == DriverAlone /\ StatusIsOwn

LEMMA OwnInit == Init => OwnInv
  BY DEF Init, OwnInv, DriverAlone, StatusIsOwn, InDriver

\* The end of a call empties the driver.
LEMMA LeaveEmpties ==
    ASSUME TypeOK, OwnInv, NEW t \in Threads, NEW failed \in BOOLEAN, Leave(t, failed),
           state = "BLK_READY" \/ pc[t] \in InDriver
    PROVE  \A s \in Threads : pc'[s] \notin InDriver
<1> SUFFICES ASSUME NEW s \in Threads PROVE pc'[s] \notin InDriver
  OBVIOUS
<1>1. CASE s = t
  BY <1>1 DEF Leave, SemSignal, TypeOK, InDriver
<1>2. CASE s # t
  BY <1>2, LeaveResults DEF OwnInv, DriverAlone, InDriver
<1> QED BY <1>1, <1>2

LEMMA OwnNext == TypeOK /\ OwnInv /\ [Next]_vars => OwnInv'
<1> SUFFICES ASSUME TypeOK, OwnInv, [Next]_vars PROVE OwnInv'
  OBVIOUS
<1> USE DEF OwnInv, DriverAlone, StatusIsOwn, InDriver, cardVars
\* A thread that moves outside the driver changes nothing in it.
<1>1. ASSUME NEW t \in Threads, NEW p \in Places \ InDriver, pc' = [pc EXCEPT ![t] = p],
             pc[t] \notin InDriver, UNCHANGED <<state, sta, owner>>,
             \A s \in Threads \ {t} : moved'[s] = moved[s]
      PROVE  OwnInv'
  BY <1>1 DEF TypeOK
<1>2. ASSUME NEW t \in Threads, NEW o \in Operations, Call(t, o) PROVE OwnInv'
  <2>1. \E p \in {"sem", "got"} : pc' = [pc EXCEPT ![t] = p]
    BY <1>2 DEF Call, SemWait
  <2> QED BY <1>2, <2>1, <1>1 DEF Call, TypeOK, Places
<1>3. ASSUME NEW t \in Threads, Mount(t) PROVE OwnInv'
  <2>1. \E p \in {"away", "sem", "got"} : pc' = [pc EXCEPT ![t] = p]
    BY <1>3 DEF Mount, SemWait, TypeOK
  <2> QED BY <1>3, <2>1, <1>1 DEF Mount, TypeOK, Places
<1>4. ASSUME NEW t \in Threads, TimeOut(t) PROVE OwnInv'
  BY <1>4, <1>1 DEF TimeOut, Places, callVars
<1>5. ASSUME NEW t \in Threads, ReturnLate(t) PROVE OwnInv'
  BY <1>5, <1>1 DEF ReturnLate, Places
<1>6. ASSUME NEW t \in Threads, Enter(t) PROVE OwnInv'
  <2>1. op[t] # "BLK_READY"
    BY DEF TypeOK, Operations
  <2> QED BY <1>6, <2>1 DEF Enter, TypeOK, callVars
<1>7. ASSUME NEW t \in Threads,
             OutOfRange(t) \/ CardFails(t) \/ CommandFails(t) \/ Finish(t)
      PROVE  OwnInv'
  <2>1. \E failed \in BOOLEAN : Leave(t, failed) /\ (state = "BLK_READY" \/ pc[t] \in InDriver)
    BY <1>7 DEF OutOfRange, CardFails, CommandFails, Finish, FailsAtEnd
  <2> QED BY <2>1, LeaveEmpties
<1>8. ASSUME NEW t \in Threads, CardReady(t) PROVE OwnInv'
  BY <1>8 DEF CardReady, ClearFlags, TypeOK, callVars
<1>9. ASSUME NEW t \in Threads, WaitTransactionEnd(t) \/ Unplug(t) PROVE OwnInv'
  BY <1>9 DEF WaitTransactionEnd, Unplug, TypeOK, callVars
<1>10. ASSUME Irq PROVE OwnInv'
  BY <1>10 DEF Irq, TypeOK
<1>11. CASE (\E t \in Threads : CardBusy(t)) \/ UNCHANGED vars
  BY <1>11 DEF CardBusy, vars, callVars
<1> QED BY <1>2, <1>3, <1>4, <1>5, <1>6, <1>7, <1>8, <1>9, <1>10, <1>11 DEF Next, Step

\* A call returns RES_OK only when the card has done its own transfer (SDRead, SDWrite,
\* sdc_lld_wait_transaction_end), whatever mounts, time-outs and pulled cables come in
\* between; unless it has waited for the semaphore in vain.
THEOREM OkMeansOwnTransferHolds == Spec => OkMeansOwnTransfer
<1> DEFINE Earned == \A t \in Threads :
           pc[t] \notin {"away", "late"} /\ pc'[t] = "away" /\ result'[t] = "RES_OK"
               => moved'[t]
<1>1. TypeOK /\ OwnInv /\ [Next]_vars => Earned
  <2> SUFFICES ASSUME TypeOK, OwnInv, [Next]_vars, NEW s \in Threads,
                      pc[s] \notin {"away", "late"},
                      pc'[s] = "away", result'[s] = "RES_OK"
               PROVE  moved'[s]
    OBVIOUS
  \* Only the end of a transfer lets a call succeed.
  <2>1. ASSUME NEW t \in Threads, NEW failed \in BOOLEAN, Leave(t, failed)
        PROVE  s = t /\ ~failed
    <3>1. s = t
      BY <2>1, LeaveResults
    <3>2. result'[t] = DiskResult(failed)
      BY <2>1 DEF Leave, Return, TypeOK
    <3> QED BY <3>1, <3>2 DEF DiskResult
  <2>2. ASSUME NEW t \in Threads, Finish(t) PROVE moved'[s]
    <3>1. PICK stopFails \in BOOLEAN : Leave(t, FailsAtEnd(stopFails))
      BY <2>2 DEF Finish
    <3>2. FailsAtEnd(stopFails) \in BOOLEAN
      BY DEF FailsAtEnd
    <3>3. s = t /\ ~FailsAtEnd(stopFails)
      BY <3>1, <3>2, <2>1
    <3>4. moved' = moved /\ pc[t] = "awake"
      BY <2>2 DEF Finish
    <3> QED BY <3>3, <3>4 DEF FailsAtEnd, OwnInv, StatusIsOwn
  <2>3. ASSUME NEW t \in Threads, OutOfRange(t) \/ CardFails(t) \/ CommandFails(t)
        PROVE  FALSE
    BY <2>3, <2>1 DEF OutOfRange, CardFails, CommandFails
  \* Every other step leaves a thread where it is, or moves it on, not away.
  <2>4. ASSUME NEW t \in Threads, NEW o \in Operations, Call(t, o) PROVE FALSE
    BY <2>4 DEF Call, SemWait, TypeOK
  <2>5. ASSUME NEW t \in Threads, Mount(t) PROVE FALSE
    BY <2>5 DEF Mount, SemWait, TypeOK
  <2>6. ASSUME NEW t \in Threads, ReturnLate(t) PROVE FALSE
    BY <2>6 DEF ReturnLate, TypeOK
  <2>7. ASSUME NEW t \in Threads,
               TimeOut(t) \/ CardBusy(t) \/ Unplug(t) \/ Enter(t) \/ CardReady(t)
                 \/ WaitTransactionEnd(t)
        PROVE  FALSE
    BY <2>7 DEF TimeOut, CardBusy, Unplug, Enter, CardReady, WaitTransactionEnd, TypeOK
  <2>8. ASSUME Irq PROVE FALSE
    BY <2>8 DEF Irq, TypeOK
  <2>9. CASE UNCHANGED vars
    BY <2>9 DEF vars
  <2> QED BY <2>2, <2>3, <2>4, <2>5, <2>6, <2>7, <2>8, <2>9 DEF Next, Step
<1>2. TypeOK /\ OwnInv /\ [Next]_vars => [Earned]_vars
  BY <1>1
<1> QED BY <1>2, OwnInit, OwnNext, SdCardType, PTL DEF Spec, OkMeansOwnTransfer

-----------------------------------------------------------------------------
(* The implementation of SdService.                                          *)

client == [t \in Threads |-> Client(pc[t])]

\* The client that is served is the thread that holds the semaphore.
LEMMA ServedHolds == ASSUME TypeOK PROVE Service!Served = Holders
  BY DEF TypeOK, Service!Served, Holders, Client, Places, InDriver

\* A thread that takes or waits for the semaphore asks.
LEMMA AskStep ==
    ASSUME SdInv, NEW t \in Threads, pc[t] = "away", SemWait(t, cnt, queue)
    PROVE  Service!Ask(t)
<1> USE DEF SdInv
<1>1. client[t] = "away"
  BY DEF client, Client
<1>2. CASE Holders = {} /\ cnt = 1
  <2>1. pc' = [pc EXCEPT ![t] = "got"] /\ queue' = queue
    BY <1>2 DEF SemWait
  <2>2. client' = [client EXCEPT ![t] = "served"]
    BY <2>1 DEF client, Client, TypeOK
  <2> QED BY <1>1, <1>2, <2>1, <2>2, ServedHolds DEF Service!Ask, client
<1>3. CASE cnt + Len(queue) = 0 /\ \E h \in Threads : Holders = {h}
  <2>1. pc' = [pc EXCEPT ![t] = "sem"] /\ queue' = Append(queue, t)
    BY <1>3 DEF SemWait, TypeOK
  <2>2. client' = [client EXCEPT ![t] = "waits"]
    BY <2>1 DEF client, Client, TypeOK
  <2> QED BY <1>1, <1>3, <2>1, <2>2, ServedHolds DEF Service!Ask, client
<1> QED BY <1>2, <1>3 DEF SemaphoreAgrees, CountTrue

\* The end of a call of the thread that holds the semaphore is a leave.
LEMMA LeaveStep ==
    ASSUME SdInv, NEW t \in Threads, pc[t] \in InDriver \cup {"got"}, SemSignal(t)
    PROVE  Service!Leave(t)
<1> USE DEF SdInv
<1>1. client[t] = "served"
  BY DEF client, Client, InDriver
<1>2. cnt + Len(queue) = 0
  BY OneHolder
<1>3. CASE queue = <<>>
  <2>1. pc' = [pc EXCEPT ![t] = "away"] /\ queue' = queue
    BY <1>3 DEF SemSignal
  <2>2. client' = [client EXCEPT ![t] = "away"]
    BY <2>1 DEF client, Client, TypeOK
  <2> QED BY <1>1, <1>3, <2>1, <2>2 DEF Service!Leave, client
<1>4. CASE queue # <<>>
  <2>1. /\ pc' = [pc EXCEPT ![t] = "away", ![Head(queue)] = "got"]
        /\ queue' = Tail(queue)
    BY <1>2, <1>4 DEF SemSignal, TypeOK
  <2>2. client' = [client EXCEPT ![t] = "away", ![Head(queue)] = "served"]
    BY <2>1 DEF client, Client, TypeOK
  <2> QED BY <1>1, <1>4, <2>1, <2>2 DEF Service!Leave, client
<1> QED BY <1>3, <1>4

\* A timeout is a giving up.
LEMMA GiveUpStep ==
    ASSUME SdInv, NEW t \in Threads, TimeOut(t)
    PROVE  Service!GiveUp(t)
<1> USE DEF SdInv
<1>1. client[t] = "waits" /\ pc' = [pc EXCEPT ![t] = "late"]
  BY DEF client, Client, TimeOut
<1>2. client' = [client EXCEPT ![t] = "away"]
  BY <1>1 DEF client, Client, TypeOK
<1>3. \E i \in DOMAIN queue : queue[i] = t /\ queue' = RemoveAt(queue, i)
  BY DEF TimeOut, Dequeue, SemaphoreAgrees, QueueTrue, Queued
<1> QED BY <1>1, <1>2, <1>3, Zenon DEF Service!GiveUp, Service!RemoveAt, RemoveAt, client

\* A step inside the driver is a stutter of the service.
LEMMA StutterStep ==
    ASSUME SdInv, NEW t \in Threads, NEW p \in Places,
           pc' = [pc EXCEPT ![t] = p], queue' = queue,
           Client(p) = Client(pc[t])
    PROVE  UNCHANGED <<client, queue>>
  BY DEF client, SdInv, TypeOK

LEMMA ServiceStep ==
    SdInv /\ [Next]_vars /\ ~disturbed' => [Service!Serve]_<<client, queue>>
<1> SUFFICES ASSUME SdInv, [Next]_vars, ~disturbed'
             PROVE  [Service!Serve]_<<client, queue>>
  OBVIOUS
<1> USE DEF SdInv
<1>1. ASSUME NEW t \in Threads, NEW o \in Operations, Call(t, o) PROVE Service!Serve
  BY <1>1, AskStep DEF Call, Service!Serve
<1>2. ASSUME NEW t \in Threads, Mount(t) PROVE Service!Serve
  <2>1. Holders = {} /\ cnt = 1 /\ queue = <<>>
    BY <1>2 DEF Mount, SemaphoreAgrees, CountTrue
  <2>2. SemWait(t, cnt, queue)
    BY <1>2, <2>1 DEF Mount, DriverTrue, Holders
  <2> QED BY <1>2, <2>2, AskStep DEF Mount, Service!Serve
<1>3. ASSUME NEW t \in Threads, TimeOut(t) PROVE Service!Serve
  BY <1>3, GiveUpStep DEF Service!Serve
<1>4. ASSUME NEW t \in Threads, NEW failed \in BOOLEAN, Leave(t, failed),
             pc[t] \in InDriver \cup {"got"}
      PROVE  Service!Serve
  BY <1>4, LeaveStep DEF Leave, Service!Serve
<1>5. ASSUME NEW t \in Threads,
             ReturnLate(t) \/ Enter(t) \/ CardReady(t) \/ WaitTransactionEnd(t)
      PROVE  UNCHANGED <<client, queue>>
  <2>1. CASE ReturnLate(t)
    BY <2>1, StutterStep DEF ReturnLate, Client, Places, semVars
  <2>2. CASE Enter(t)
    <3>1. state = "BLK_READY"
      BY <2>2, OneHolder DEF Enter, DriverTrue, InDriver
    <3> QED BY <2>2, <3>1, StutterStep DEF Enter, Client, Places, semVars
  <2>3. CASE CardReady(t)
    BY <2>3, StutterStep DEF CardReady, Client, Places, semVars
  <2>4. CASE WaitTransactionEnd(t)
    <3>1. CASE pc' = pc
      BY <2>4, <3>1 DEF WaitTransactionEnd, semVars, client
    <3>2. CASE \E p \in {"suspended", "awake"} : pc' = [pc EXCEPT ![t] = p]
      BY <2>4, <3>2, StutterStep DEF WaitTransactionEnd, Client, Places, semVars
    <3> QED BY <2>4, <3>1, <3>2 DEF WaitTransactionEnd
  <2> QED BY <1>5, <2>1, <2>2, <2>3, <2>4
<1>6. ASSUME NEW t \in Threads,
             OutOfRange(t) \/ CardFails(t) \/ CommandFails(t) \/ Finish(t)
      PROVE  Service!Serve
  BY <1>6, <1>4 DEF OutOfRange, CardFails, CommandFails, Finish, FailsAtEnd, InDriver
<1>7. ASSUME NEW t \in Threads, CardBusy(t) PROVE UNCHANGED <<client, queue>>
  BY <1>7 DEF CardBusy, semVars, client
<1>8. ASSUME Irq PROVE UNCHANGED <<client, queue>>
  <2>1. CASE ref = none
    BY <1>8, <2>1 DEF Irq, semVars, client
  <2>2. CASE ref # none
    BY <1>8, <2>2, StutterStep DEF Irq, TypeOK, DriverTrue, Client, Places, semVars
  <2> QED BY <2>1, <2>2
<1>9. ASSUME NEW t \in Threads, Unplug(t) PROVE FALSE
  BY <1>9 DEF Unplug
<1>10. CASE UNCHANGED vars
  BY <1>10 DEF vars, semVars, client
<1> QED BY <1>1, <1>2, <1>3, <1>5, <1>6, <1>7, <1>8, <1>9, <1>10 DEF Next, Step

\* Until it is disturbed the access to the card implements SdService: SDRead and
\* SDWrite serve the threads one at a time in the order of their coming.
THEOREM CardImplementsService == Spec => ServesInOrder
<1>1. Init => Service!Init
  BY DEF Init, Service!Init, Client
<1>2. TypeOK /\ TypeOK' /\ (disturbed \/ SdInv) /\ [Next]_vars
        => [Service!Next]_(Service!vars)
  <2> SUFFICES ASSUME TypeOK, TypeOK', disturbed \/ SdInv, [Next]_vars
               PROVE  [Service!Next]_(Service!vars)
    OBVIOUS
  <2>1. disturbed \in BOOLEAN /\ disturbed' \in BOOLEAN
    BY DEF TypeOK
  <2>2. CASE disturbed'
    BY <2>1, <2>2 DEF Service!Next
  <2>3. CASE ~disturbed'
    <3>1. SdInv /\ disturbed' = disturbed /\ ~disturbed
      BY <2>1, <2>3, StaysDisturbed
    <3>2. [Service!Serve]_<<client, queue>>
      BY <2>3, <3>1, ServiceStep
    <3>3. CASE Service!Serve
      BY <3>1, <3>3 DEF Service!Next
    <3>4. CASE UNCHANGED <<client, queue>>
      BY <3>1, <3>4 DEF Service!vars, client
    <3> QED BY <3>2, <3>3, <3>4
  <2> QED BY <2>2, <2>3
<1> QED BY <1>1, <1>2, SdAlways, SdCardType, PTL DEF Spec, ServesInOrder, Service!Spec
=============================================================================
