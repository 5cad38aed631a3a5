------------------------------- MODULE SdCard -------------------------------
(***************************************************************************)
(* The SD card and the threads that read and write it: SDRead and SDWrite  *)
(* with the binary semaphore semSDRW (sd/fatfs_diskio.c), the block driver *)
(* (os/hal/sdc.c), its low level part with the SDIO interrupt              *)
(* (os/hal/sdc_lld.c), and the kernel's semaphore (chsem.c, chbsem.h).     *)
(*                                                                         *)
(* The file system (ff.c) is not reentrant and takes no lock of its own.   *)
(* Its first call mounts the volume (chk_mounted): disk_initialize makes   *)
(* the semaphore anew, then the boot sector is read.  One read stands for  *)
(* the two or three of a mount, and a mount may fail.                      *)
(*                                                                         *)
(* All threads have priority NORMALPRIO, without time slices: cpu names    *)
(* the thread that has the processor and cannot be preempted by another;   *)
(* only interrupts come in between.  A thread that is ready takes the      *)
(* processor when it is free.                                              *)
(***************************************************************************)
EXTENDS Integers, Sequences, SequencesExt

CONSTANTS
    Threads,       \* Sound, App and UsbOut
    FatUsers,      \* those that come through the file system
    UsbUsers,      \* those that an unplugged cable may ready: UsbOut
    none           \* no thread

ASSUME ThreadsAssumption == FatUsers \subseteq Threads /\ none \notin Threads
ASSUME UsbAssumption == UsbUsers \subseteq Threads

Operations == {"BLK_READING", "BLK_WRITING"}
Results == {"none", "RES_OK", "RES_ERROR", "FR_NOT_READY"}

\* Places of a thread: "away" from the card; "sem", in the queue of the
\* semaphore; "late", woken by the timeout; "got", it has the semaphore;
\* "state", asking for the card's state (_sdc_wait_for_transfer_state);
\* "armed", transaction started; "suspended" in sdc_lld_wait_transaction_end;
\* "awake", about to look at the result.
Places == {"away", "sem", "late", "got", "state", "armed", "suspended", "awake"}
InDriver == {"state", "armed", "suspended", "awake"}

VARIABLES
    pc,        \* place of every thread
    op,        \* the operation of every thread's last call
    mounting,  \* the threads whose call is the read of a mount
    cnt,       \* semSDRW.s_cnt
    queue,     \* semSDRW.s_queue
    state,     \* SDCD1.state
    ref,       \* SDCD1.thread, the thread to wake
    mask,      \* SDIO->MASK is not zero: the interrupt is enabled
    sta,       \* SDIO->STA: the flags of "DATAEND" and "error" that are set
    fsType,    \* fs->fs_type is not zero: the volume is mounted
    cpu,       \* the thread that keeps the processor
    halted,    \* an assertion has failed: chSysHalt
    result,    \* what the last call of every thread returned
    owner,     \* history: the thread whose transfer was started last
    moved,     \* history: the card has done the transfer of that call
    disturbed  \* history: the semaphore was made anew while it was in use, or a
               \* thread was readied in the driver by an unplugged cable

callVars == <<op, mounting, result, moved>>
semVars == <<cnt, queue>>
cardVars == <<state, ref, mask, sta>>
vars == <<pc, callVars, semVars, cardVars, owner, fsType, cpu, halted, disturbed>>

\* The threads that have the semaphore.
Holders == {t \in Threads : pc[t] \in InDriver \cup {"got"}}

Init ==
    /\ pc = [t \in Threads |-> "away"]
    /\ op = [t \in Threads |-> "BLK_READING"]
    /\ mounting = {}
    /\ cnt = 1 /\ queue = <<>>
    /\ state = "BLK_READY" /\ ref = none /\ mask = FALSE /\ sta = {}
    /\ fsType = FALSE
    /\ cpu = none /\ halted = FALSE
    /\ result = [t \in Threads |-> "none"]
    /\ owner = none /\ moved = [t \in Threads |-> FALSE]
    /\ disturbed = FALSE

Runs(t) == cpu \in {none, t} /\ ~halted

-----------------------------------------------------------------------------
(* The binary semaphore.                                                     *)

\* chBSemWaitTimeout with the count c and the queue q.
SemWait(t, c, q) ==
    /\ cnt' = c - 1
    /\ IF c - 1 < 0
       THEN pc' = [pc EXCEPT ![t] = "sem"] /\ queue' = Append(q, t) /\ cpu' = none
       ELSE pc' = [pc EXCEPT ![t] = "got"] /\ queue' = q /\ cpu' = t

\* A slip: the last one that came is woken.
SemSignalLast(t) ==
    IF cnt < 1 /\ queue # <<>>
    THEN /\ cnt' = cnt + 1 /\ queue' = SubSeq(queue, 1, Len(queue) - 1)
         /\ pc' = [pc EXCEPT ![t] = "away", ![queue[Len(queue)]] = "got"]
    ELSE /\ cnt' = IF cnt < 1 THEN cnt + 1 ELSE cnt
         /\ pc' = [pc EXCEPT ![t] = "away"]
         /\ UNCHANGED queue

\* chBSemSignal: the first of the queue has the semaphore from now on.  When
\* the count is below 1 after it was raised, the queue is not empty (the
\* assertion of chSemSignalI).
SemSignal(t) ==
    IF cnt < 1 /\ queue # <<>>
    THEN /\ cnt' = cnt + 1 /\ queue' = Tail(queue)
         /\ pc' = [pc EXCEPT ![t] = "away", ![Head(queue)] = "got"]
    ELSE /\ cnt' = IF cnt < 1 THEN cnt + 1 ELSE cnt
         /\ pc' = [pc EXCEPT ![t] = "away"]
         /\ UNCHANGED queue

\* queue_dequeue of a thread that the list knows takes it out of its place.  Of
\* one that waits in a list that was made anew it leaves the list empty: the
\* links of the thread lead to the head of the list on both sides.
Dequeue(t) ==
    IF \E j \in DOMAIN queue : queue[j] = t
    THEN \E i \in DOMAIN queue : queue[i] = t /\ queue' = RemoveAt(queue, i)
    ELSE queue' = <<>>

-----------------------------------------------------------------------------
(* SDRead and SDWrite.                                                       *)

\* A call of a thread that does not need the file system, or that finds the
\* volume mounted.
Call(t, o) ==
    /\ Runs(t) /\ pc[t] = "away"
    /\ t \in FatUsers => fsType
    /\ op' = [op EXCEPT ![t] = o]
    /\ moved' = [moved EXCEPT ![t] = FALSE]
    /\ result' = [result EXCEPT ![t] = "none"]
    /\ SemWait(t, cnt, queue)
    /\ UNCHANGED <<mounting, cardVars, owner, fsType, halted, disturbed>>

\* chk_mounted while the volume is not mounted: disk_initialize makes the
\* semaphore anew, whoever has it or waits for it; the mount goes on if the
\* driver is ready.
Mount(t) ==
    /\ Runs(t) /\ pc[t] = "away"
    /\ t \in FatUsers /\ ~fsType
    /\ op' = [op EXCEPT ![t] = "BLK_READING"]
    /\ moved' = [moved EXCEPT ![t] = FALSE]
    /\ IF state = "BLK_READY"
       THEN /\ SemWait(t, 1, <<>>)
            /\ mounting' = mounting \cup {t}
            /\ result' = [result EXCEPT ![t] = "none"]
       ELSE /\ cnt' = 1 /\ queue' = <<>>
            /\ result' = [result EXCEPT ![t] = "FR_NOT_READY"]
            /\ UNCHANGED <<pc, mounting, cpu>>
    /\ disturbed' = (disturbed \/ Holders # {})
    /\ UNCHANGED <<cardVars, owner, fsType, halted>>

\* A slip: the waiting thread leaves without giving its count back.
TimeOutKeepsCount(t) ==
    /\ pc[t] = "sem" /\ ~halted
    /\ pc' = [pc EXCEPT ![t] = "late"]
    /\ Dequeue(t)
    /\ UNCHANGED <<callVars, cnt, cardVars, owner, fsType, cpu, halted, disturbed>>

\* The kernel's timer wakes a thread that has waited for 3.6 s (wakeup in
\* chschd.c); it gives back the count.
TimeOut(t) ==
    /\ pc[t] = "sem" /\ ~halted
    /\ pc' = [pc EXCEPT ![t] = "late"]
    /\ cnt' = cnt + 1
    /\ Dequeue(t)
    /\ UNCHANGED <<callVars, cardVars, owner, fsType, cpu, halted, disturbed>>

\* What disk_read and disk_write make of the value of SDRead.
DiskResult(failed) == IF failed THEN "RES_ERROR" ELSE "RES_OK"

\* The call is over.  A mount that has read its sector may find a FAT volume.
Return(t, failed) ==
    /\ result' = [result EXCEPT ![t] = DiskResult(failed)]
    /\ mounting' = mounting \ {t}
    /\ IF t \in mounting /\ ~failed
       THEN fsType' \in {fsType, TRUE}
       ELSE UNCHANGED fsType
    /\ UNCHANGED op

\* SDRead after MSG_TIMEOUT: return false.
ReturnLate(t) ==
    /\ Runs(t) /\ pc[t] = "late"
    /\ pc' = [pc EXCEPT ![t] = "away"]
    /\ Return(t, FALSE)
    /\ cpu' = none
    /\ UNCHANGED <<semVars, cardVars, owner, halted, moved, disturbed>>

\* The end of sdcRead, and of SDRead: the driver is ready and the semaphore
\* signalled.
Leave(t, failed) ==
    /\ state' = "BLK_READY"
    /\ SemSignal(t)
    /\ Return(t, failed)
    /\ cpu' = none
    /\ UNCHANGED <<halted, disturbed>>

-----------------------------------------------------------------------------
(* sdcRead and sdcWrite.                                                     *)

\* osalDbgAssert(sdcp->state == BLK_READY, "invalid state").
Enter(t) ==
    /\ Runs(t) /\ pc[t] = "got"
    /\ IF state = "BLK_READY"
       THEN /\ state' = op[t]
            /\ pc' = [pc EXCEPT ![t] = "state"]
            /\ cpu' = t
            /\ UNCHANGED halted
       ELSE halted' = TRUE /\ UNCHANGED <<state, pc, cpu>>
    /\ UNCHANGED <<callVars, semVars, ref, mask, sta, owner, fsType, disturbed>>

\* The blocks are beyond the capacity of the card: HAL_FAILED.
OutOfRange(t) ==
    /\ Runs(t) /\ pc[t] = "got" /\ state = "BLK_READY"
    /\ Leave(t, TRUE)
    /\ UNCHANGED <<ref, mask, sta, owner, moved>>

\* The card still programs or sends: the thread sleeps for 1 ms and asks again.
CardBusy(t) ==
    /\ Runs(t) /\ pc[t] = "state"
    /\ cpu' = none
    /\ UNCHANGED <<pc, callVars, semVars, cardVars, owner, fsType, halted, disturbed>>

\* The card does not answer, or is in another state.
CardFails(t) ==
    /\ Runs(t) /\ pc[t] = "state"
    /\ Leave(t, TRUE)
    /\ UNCHANGED <<ref, mask, sta, owner, moved>>

\* A slip: STM32_SDIO_ICR_ALL_FLAGS without the flag of the end.
ClearErrors(flags) == flags \ {"error"}

\* SDIO->ICR = STM32_SDIO_ICR_ALL_FLAGS: flags stay set until they are cleared.
ClearFlags(flags) == flags \ {"DATAEND", "error"}

\* The transaction is prepared and started.
CardReady(t) ==
    /\ Runs(t) /\ pc[t] = "state"
    /\ pc' = [pc EXCEPT ![t] = "armed"]
    /\ mask' = TRUE /\ sta' = ClearFlags(sta)
    /\ owner' = t
    /\ cpu' = t
    /\ UNCHANGED <<callVars, semVars, state, ref, fsType, halted, disturbed>>

\* The card refuses the read or write command: sdc_lld_error_cleanup.
CommandFails(t) ==
    /\ Runs(t) /\ pc[t] = "armed"
    /\ Leave(t, TRUE)
    /\ mask' = FALSE /\ sta' = ClearFlags(sta)
    /\ UNCHANGED <<ref, owner, moved>>

\* A slip: the mask is not looked at.
SuspendAnyway(t) ==
    /\ Runs(t) /\ pc[t] = "armed"
    /\ ref' = t /\ pc' = [pc EXCEPT ![t] = "suspended"] /\ cpu' = none
    /\ UNCHANGED <<callVars, semVars, state, mask, sta, owner, fsType, halted, disturbed>>

\* sdc_lld_wait_transaction_end: "the mask is checked before going to sleep
\* because the interrupt may have occurred".
WaitTransactionEnd(t) ==
    /\ Runs(t) /\ pc[t] = "armed"
    /\ IF mask
       THEN IF ref = none
            THEN /\ ref' = t /\ cpu' = none
                 /\ pc' = [pc EXCEPT ![t] = "suspended"]
                 /\ UNCHANGED halted
            ELSE halted' = TRUE /\ UNCHANGED <<ref, cpu, pc>>
       ELSE pc' = [pc EXCEPT ![t] = "awake"] /\ UNCHANGED <<ref, cpu, halted>>
    /\ UNCHANGED <<callVars, semVars, state, mask, sta, owner, fsType, disturbed>>

\* The SDIO interrupt: the data have gone over, or an error or the card's
\* data timeout ends the transaction.  chThdResumeI asserts that the thread is
\* suspended.
Irq ==
    /\ mask /\ ~halted
    /\ IF ref # none /\ pc[ref] # "suspended"
       THEN halted' = TRUE /\ UNCHANGED <<mask, sta, ref, pc, moved>>
       ELSE /\ mask' = FALSE
            /\ \/ sta' = sta \cup {"DATAEND"} /\ moved' = [moved EXCEPT ![owner] = TRUE]
               \/ sta' = sta \cup {"error"} /\ UNCHANGED moved
            /\ ref' = none
            /\ pc' = IF ref = none THEN pc ELSE [pc EXCEPT ![ref] = "awake"]
            /\ UNCHANGED halted
    /\ UNCHANGED <<op, mounting, result, semVars, state, owner, fsType, cpu, disturbed>>

\* MassStorage.Reset of an unplugged cable: App readies the thread UsbOut when it
\* is suspended, be it in here; the reference to it stays.
Unplug(t) ==
    /\ t \in UsbUsers /\ cpu = none /\ ~halted
    /\ pc[t] = "suspended"
    /\ pc' = [pc EXCEPT ![t] = "awake"]
    /\ disturbed' = TRUE
    /\ UNCHANGED <<callVars, semVars, cardVars, owner, fsType, cpu, halted>>

\* sdc_lld_wait_transaction_end fails without DATAEND, and when a transaction
\* of several blocks cannot be stopped.
FailsAtEnd(stopFails) == "DATAEND" \notin sta \/ stopFails

\* The transaction is over; after a failure sdc_lld_error_cleanup masks the interrupt.
Finish(t) ==
    /\ Runs(t) /\ pc[t] = "awake"
    /\ \E stopFails \in BOOLEAN :
           /\ Leave(t, FailsAtEnd(stopFails))
           /\ mask' = (mask /\ ~FailsAtEnd(stopFails))
    /\ sta' = ClearFlags(sta)
    /\ UNCHANGED <<ref, owner, moved>>

-----------------------------------------------------------------------------
Step(t) ==
    \/ ReturnLate(t) \/ Enter(t) \/ OutOfRange(t)
    \/ CardFails(t) \/ CardReady(t)
    \/ CommandFails(t) \/ WaitTransactionEnd(t) \/ Finish(t)

Next ==
    \/ \E t \in Threads :
           \/ \E o \in Operations : Call(t, o)
           \/ Mount(t) \/ TimeOut(t) \/ CardBusy(t) \/ Unplug(t) \/ Step(t)
    \/ Irq

\* A ready thread runs at some time although others run in between: the ready
\* list is in order of arrival.  SF also says that a card that is asked again and
\* again is not busy for ever.  A transaction ends: the data timer of the SDIO
\* (DTIMER) interrupts it when the card does not.
Fairness ==
    /\ \A t \in Threads : SF_vars(Step(t))
    /\ WF_vars(Irq)

Spec == Init /\ [][Next]_vars
FairSpec == Spec /\ Fairness

-----------------------------------------------------------------------------
(* Properties.                                                               *)

TypeOK ==
    /\ pc \in [Threads -> Places]
    /\ op \in [Threads -> Operations]
    /\ mounting \in SUBSET FatUsers
    /\ cnt \in Int /\ queue \in Seq(Threads)
    /\ state \in Operations \cup {"BLK_READY"}
    /\ ref \in Threads \cup {none} /\ mask \in BOOLEAN
    /\ sta \subseteq {"DATAEND", "error"} /\ owner \in Threads \cup {none}
    /\ fsType \in BOOLEAN
    /\ cpu \in Threads \cup {none} /\ halted \in BOOLEAN
    /\ result \in [Threads -> Results]
    /\ moved \in [Threads -> BOOLEAN]
    /\ disturbed \in BOOLEAN

\* Unless the volume is mounted while the card is in use, or the cable is pulled
\* while the mass storage waits for the card, no assertion of the driver ever
\* fails: nobody enters sdcRead or sdcWrite while the card is at work for another
\* thread (sdc.c:804, 842), and the reference of the thread to wake is free
\* (chThdSuspendS).
NeverHalts == halted => disturbed

\* A thread is in the queue while it waits, and once.
Queued(t) == \E i \in DOMAIN queue : queue[i] = t
QueueTrue ==
    /\ \A t \in Threads : pc[t] = "sem" <=> Queued(t)
    /\ \A i, j \in DOMAIN queue : queue[i] = queue[j] => i = j

\* The count is 1 when the card is free, otherwise minus the number of those in
\* the queue.
CountTrue ==
    \/ Holders = {} /\ cnt = 1 /\ queue = <<>>
    \/ cnt + Len(queue) = 0 /\ \E h \in Threads : Holders = {h}

\* The count and the queue of semSDRW tell where the threads are.  A timeout, a
\* signal that meets one, or a mount must not leave them askew.
SemaphoreAgrees == QueueTrue /\ CountTrue
SemaphoreTrue == disturbed \/ SemaphoreAgrees

\* The driver's state, the semaphore and the threads agree: nobody enters a driver
\* that is at work, and the semaphore tells who has the card.
CardTrue == TypeOK /\ NeverHalts /\ SemaphoreTrue

\* RES_OK is "Successful" (diskio.h:18): a call returns it only when the card has done
\* the transfer of that very call. No status that an earlier transfer of another thread
\* has left, and no wakeup from elsewhere (MassStorage.Reset), is taken for its end.
\* Excepted is the call whose wait for the semaphore has timed out: SDRead and SDWrite
\* then return false, which is the success of sdcRead, for blocks that have not moved.
OkMeansOwnTransfer ==
    [][\A t \in Threads :
           pc[t] \notin {"away", "late"} /\ pc'[t] = "away" /\ result'[t] = "RES_OK"
               => moved'[t]]_vars

\* Every call comes back: no wakeup is lost between the interrupt and the thread
\* that waits for it, and the semaphore is always handed on.
CallReturns == \A t \in Threads : pc[t] # "away" ~> pc[t] = "away" \/ disturbed

\* Threads as the clients of SdService.
Client(p) ==
    CASE p \in {"away", "late"} -> "away"
      [] p = "sem" -> "waits"
      [] OTHER -> "served"

Service == INSTANCE SdService
    WITH client <- [t \in Threads |-> Client(pc[t])], line <- queue, broken <- disturbed

\* One thread at a time, in the order of coming, from the first call, which finds
\* no volume mounted.
ServesInOrder == Service!Spec
=============================================================================
