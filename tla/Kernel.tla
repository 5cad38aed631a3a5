------------------------------- MODULE Kernel -------------------------------
(***************************************************************************)
(* The kernel's scheduler and the calls that wait (os/src/chschd.c,        *)
(* chsem.c, chthreads.c, chevents.c, os/include/chschd.h): one semaphore,  *)
(* one thread reference, event masks and sleeps, each with its time-out,   *)
(* called by threads and by interrupts.                                    *)
(*                                                                         *)
(* A call holds the lock from its beginning to the switch of threads, and  *)
(* the thread that is switched to ends its own call before the lock is     *)
(* released: both are one step.  An interrupt is one kernel call and the   *)
(* epilogue that may preempt the current thread.                           *)
(***************************************************************************)
EXTENDS Integers, SequencesExt

CONSTANTS
    Threads, Prio,    \* the threads and p_prio
    idle,             \* the idle thread
    NoThread,
    Events,
    Quiet,            \* threads that signal events and do not reschedule (SignalEvt)
    MaxTokens         \* bound: the semaphore's tokens

ASSUME ThreadsAssumption == IsFiniteSet(Threads)
ASSUME PrioAssumption == Prio \in [Threads -> Nat]
ASSUME IdleAssumption == idle \in Threads /\ \A t \in Threads \ {idle} : Prio[t] > Prio[idle]
ASSUME NoThreadAssumption == NoThread \notin Threads
\* They have the common priority, and no thread has a higher one.
ASSUME QuietAssumption == Quiet \subseteq {q \in Threads : \A t \in Threads : Prio[t] <= Prio[q]}
ASSUME TokensAssumption == MaxTokens \in Nat

VARIABLES
    rlist,             \* r_current and r_queue, the ready list
    call,              \* the waiting call in which a thread is, p_state if it waits
    rdymsg, timer,     \* p_u.rdymsg; the call's virtual timer is armed
    s_cnt, s_queue,    \* the semaphore
    trp,               \* the thread reference
    epending, ewmask,  \* p_epending, p_u.ewmask
    tokens             \* history: tokens given and not yet taken by a call's return

threadVars == <<rlist, call, rdymsg, timer, epending, tokens>>
semVars == <<s_cnt, s_queue>>
vars == <<threadVars, semVars, trp, ewmask>>

currp == rlist.current
Ready == ToSet(rlist.queue)
Waits(t) == t # currp /\ t \notin Ready

Init ==
    /\ \E q \in SetToSeqs(Threads) :
           /\ \A i, j \in DOMAIN q : i < j => Prio[q[i]] >= Prio[q[j]]
           /\ rlist = [current |-> Head(q), queue |-> Tail(q)]
    /\ call = [t \in Threads |-> "none"] /\ rdymsg = [t \in Threads |-> "OK"]
    /\ timer = [t \in Threads |-> FALSE]
    /\ s_cnt = 0 /\ s_queue = <<>> /\ trp = NoThread
    /\ epending = [t \in Threads |-> {}] /\ ewmask = [t \in Threads |-> {}]
    /\ tokens = 0

-----------------------------------------------------------------------------
(* The ready list.                                                           *)

\* t goes behind all that have at least the given priority.
InsertAfter(q, t, least) ==
    LET n == Cardinality({i \in DOMAIN q : Prio[q[i]] >= least})
    IN InsertAt(q, n + 1, t)

\* The threads of all by priority, and those of one priority in the order of all:
\* what comes of chSchReadyI for one after the other.
Sorted(all) ==
    LET Ahead(i, j) == \/ Prio[all[i]] > Prio[all[j]]
                       \/ Prio[all[i]] = Prio[all[j]] /\ i < j
    IN {[i \in DOMAIN all |-> all[p[i]]] :
            p \in {p \in Injection(DOMAIN all, DOMAIN all) :
                      \A i, j \in DOMAIN all : i < j => Ahead(p[i], p[j])}}

\* chSchReadyI: behind its peers.
chSchReadyI(r, t) ==
    [r EXCEPT !.queue = InsertAfter(@, t, Prio[t])]

\* chSchGoSleepS, and chSchDoRescheduleBehind after chSchReadyI.
chSchGoSleepS(r) == [current |-> Head(r.queue), queue |-> Tail(r.queue)]

\* chSchRescheduleS and an interrupt's epilogue: the current thread goes ahead
\* of its peers if a thread of a higher priority is ready.
Higher(r) == r.queue # <<>> /\ Prio[Head(r.queue)] > Prio[r.current]
chSchRescheduleS(r) ==
    IF Higher(r)
    THEN [current |-> Head(r.queue),
          queue |-> InsertAfter(Tail(r.queue), r.current, Prio[r.current] + 1)]
    ELSE r

chSchWakeupS(r, t) ==
    IF Prio[t] <= Prio[r.current] THEN chSchReadyI(r, t)
    ELSE [chSchReadyI(r, r.current) EXCEPT !.current = t]

\* chSchDoYieldS
Yielded(r) ==
    IF r.queue # <<>> /\ Prio[Head(r.queue)] >= Prio[r.current]
    THEN chSchReadyI(chSchGoSleepS(r), r.current) ELSE r

\* A slip: the thread that runs again leaves its timer armed.
SwitchLeavesTimer(r, calls, msgs, timers, pending, masks, given) ==
    LET t == r.current
        returns == t # currp /\ calls[t] # "none"
    IN /\ rlist' = r
       /\ rdymsg' = IF returns THEN [msgs EXCEPT ![t] = "OK"] ELSE msgs
       /\ ewmask' = IF returns THEN [masks EXCEPT ![t] = {}] ELSE masks
       /\ call' = IF returns THEN [calls EXCEPT ![t] = "none"] ELSE calls
       /\ timer' = timers
       /\ epending' = IF returns /\ calls[t] = "WTOREVT"
                      THEN [pending EXCEPT ![t] = @ \ masks[t]] ELSE pending
       /\ tokens' = IF returns /\ calls[t] = "WTSEM" /\ msgs[t] = "OK" THEN given - 1 ELSE given

\* The step's end: the thread that is current then ends the call in which it
\* was; chSchGoSleepTimeoutS disarms the timer, chEvtWaitAny takes its events.
\* p_u is a union: what it holds after the call is not read.
Switch(r, calls, msgs, timers, pending, masks, given) ==
    LET t == r.current
        returns == t # currp /\ calls[t] # "none"
    IN /\ rlist' = r
       /\ rdymsg' = IF returns THEN [msgs EXCEPT ![t] = "OK"] ELSE msgs
       /\ ewmask' = IF returns THEN [masks EXCEPT ![t] = {}] ELSE masks
       /\ call' = IF returns THEN [calls EXCEPT ![t] = "none"] ELSE calls
       /\ timer' = IF returns THEN [timers EXCEPT ![t] = FALSE] ELSE timers
       /\ epending' = IF returns /\ calls[t] = "WTOREVT"
                      THEN [pending EXCEPT ![t] = @ \ masks[t]] ELSE pending
       /\ tokens' = IF returns /\ calls[t] = "WTSEM" /\ msgs[t] = "OK" THEN given - 1 ELSE given

\* The current thread sleeps in a call, with or without a time-out.
Sleep(kind, timed, mask) ==
    Switch(chSchGoSleepS(rlist), [call EXCEPT ![currp] = kind], rdymsg,
           [timer EXCEPT ![currp] = timed], epending, mask, tokens)

\* Threads ts are given msg; r is the ready list that results.
Wake(r, ts, msg, given) ==
    Switch(r, call, [t \in Threads |-> IF t \in ts THEN msg ELSE rdymsg[t]],
           timer, epending, ewmask, given)

-----------------------------------------------------------------------------
(* Calls of the current thread.                                              *)

SemWait(timed) ==
    /\ s_cnt' = s_cnt - 1
    /\ UNCHANGED trp
    /\ IF s_cnt > 0
       THEN /\ tokens' = tokens - 1
            /\ UNCHANGED <<s_queue, rlist, call, rdymsg, timer, epending, ewmask>>
       ELSE s_queue' = Append(s_queue, currp) /\ Sleep("WTSEM", timed, ewmask)

Signalled(r) ==
    /\ tokens < MaxTokens
    /\ s_cnt' = s_cnt + 1
    /\ s_queue' = IF s_cnt < 0 THEN Tail(s_queue) ELSE s_queue
    /\ UNCHANGED trp
    /\ Wake(r, IF s_cnt < 0 THEN {Head(s_queue)} ELSE {}, "OK", tokens + 1)

SemSignal == Signalled(IF s_cnt < 0 THEN chSchWakeupS(rlist, Head(s_queue)) ELSE rlist)

\* The waiters become ready from the last to the first.
SemReset ==
    \E q \in Sorted(rlist.queue \o Reverse(s_queue)) :
        /\ s_cnt' = 0 /\ s_queue' = <<>>
        /\ UNCHANGED trp
        /\ Wake(chSchRescheduleS([rlist EXCEPT !.queue = q]), ToSet(s_queue), "RESET",
                tokens - Max({s_cnt, 0}))

Suspend(timed) ==
    /\ trp = NoThread
    /\ trp' = currp
    /\ UNCHANGED semVars
    /\ Sleep("SUSPENDED", timed, ewmask)

Resumed(r) == trp' = NoThread /\ UNCHANGED semVars /\ Wake(r, {trp}, "OK", tokens)

Resume == trp # NoThread /\ Resumed(chSchWakeupS(rlist, trp))

chThdSleep ==
    /\ UNCHANGED <<semVars, trp>>
    /\ Sleep("SLEEPING", TRUE, ewmask)

chThdYield ==
    /\ UNCHANGED <<semVars, trp>>
    /\ Wake(Yielded(rlist), {}, "OK", tokens)

\* chEvtWaitAny
EvtWaitAny ==
    \E mask \in (SUBSET Events) \ {{}} :
        /\ UNCHANGED <<semVars, trp>>
        /\ IF epending[currp] \cap mask # {}
           THEN /\ epending' = [epending EXCEPT ![currp] = @ \ mask]
                /\ UNCHANGED <<ewmask, rlist, call, rdymsg, timer, tokens>>
           ELSE Sleep("WTOREVT", FALSE, [ewmask EXCEPT ![currp] = mask])

\* chEvtSignalI
WokenBy(t, e) == Waits(t) /\ call[t] = "WTOREVT" /\ e \in ewmask[t]
ReadiedBy(t, e) == IF WokenBy(t, e) THEN chSchReadyI(rlist, t) ELSE rlist
EvtSignalled(t, e, r) ==
    /\ UNCHANGED <<semVars, trp>>
    /\ LET msgs == IF WokenBy(t, e) THEN [rdymsg EXCEPT ![t] = "OK"] ELSE rdymsg
       IN Switch(r, call, msgs, timer, [epending EXCEPT ![t] = @ \cup {e}], ewmask, tokens)

\* A slip: chEvtSignal does not reschedule.
EvtSignalOnly ==
    \E t \in Threads \ {idle}, e \in Events : EvtSignalled(t, e, ReadiedBy(t, e))

EvtSignal ==
    \E t \in Threads \ {idle}, e \in Events :
        EvtSignalled(t, e, chSchRescheduleS(ReadiedBy(t, e)))

\* SignalEvt of the program's classes: chEvtSignalI between lock and unlock.
SignalEvt ==
    /\ currp \in Quiet
    /\ \E t \in Threads \ {idle}, e \in Events : EvtSignalled(t, e, ReadiedBy(t, e))

-----------------------------------------------------------------------------
(* Interrupts.                                                               *)

SemSignalI ==
    Signalled(chSchRescheduleS(IF s_cnt < 0 THEN chSchReadyI(rlist, Head(s_queue)) ELSE rlist))

ResumeI == trp # NoThread /\ Resumed(chSchRescheduleS(chSchReadyI(rlist, trp)))

\* chEvtSignalI and the epilogue: what chEvtSignal does, whoever is current.
EvtSignalI == EvtSignal

\* dequeue
Without(q, t) == RemoveAt(q, CHOOSE i \in DOMAIN q : q[i] = t)

\* A slip: the epilogue of the timer's interrupt does not reschedule.
TimedOutStays(t) ==
    /\ trp' = IF call[t] = "SUSPENDED" THEN NoThread ELSE trp
    /\ s_cnt' = IF call[t] = "WTSEM" THEN s_cnt + 1 ELSE s_cnt
    /\ s_queue' = IF call[t] = "WTSEM" THEN Without(s_queue, t) ELSE s_queue
    /\ Switch(chSchReadyI(rlist, t), call, [rdymsg EXCEPT ![t] = "TIMEOUT"],
              [timer EXCEPT ![t] = FALSE], epending, ewmask, tokens)

\* wakeup of a thread that waits: it leaves what it waits for.
TimedOut(t) ==
    /\ trp' = IF call[t] = "SUSPENDED" THEN NoThread ELSE trp
    /\ s_cnt' = IF call[t] = "WTSEM" THEN s_cnt + 1 ELSE s_cnt
    /\ s_queue' = IF call[t] = "WTSEM" THEN Without(s_queue, t) ELSE s_queue
    /\ Switch(chSchRescheduleS(chSchReadyI(rlist, t)), call, [rdymsg EXCEPT ![t] = "TIMEOUT"],
              [timer EXCEPT ![t] = FALSE], epending, ewmask, tokens)

\* A slip: the message of a thread that is ready already is overwritten.
WakeupAlways(t) ==
    /\ timer[t]
    /\ IF t \in Ready
       THEN /\ timer' = [timer EXCEPT ![t] = FALSE] /\ rdymsg' = [rdymsg EXCEPT ![t] = "TIMEOUT"]
            /\ UNCHANGED <<rlist, call, epending, tokens, semVars, trp, ewmask>>
       ELSE TimedOut(t)

\* wakeup, the time-out's callback.
Wakeup(t) ==
    /\ timer[t]
    /\ IF t \in Ready
       THEN /\ timer' = [timer EXCEPT ![t] = FALSE]
            /\ UNCHANGED <<rlist, call, rdymsg, epending, tokens, semVars, trp, ewmask>>
       ELSE TimedOut(t)

GivesUp == chThdSleep \/ chThdYield
Calls ==
    /\ currp # idle
    /\ \/ SemSignal \/ SemReset \/ Resume \/ EvtWaitAny \/ EvtSignal \/ SignalEvt \/ GivesUp
       \/ \E timed \in BOOLEAN : SemWait(timed) \/ Suspend(timed)
Interrupts == SemSignalI \/ ResumeI \/ EvtSignalI \/ \E t \in Threads : Wakeup(t)
Next == Calls \/ Interrupts

Spec == Init /\ [][Next]_vars

\* Time-outs come, and no thread runs for ever without a sleep or a yield.
FairSpec == Spec /\ WF_vars(currp # idle /\ GivesUp) /\ \A t \in Threads : WF_vars(Wakeup(t))

-----------------------------------------------------------------------------
\* Every variable keeps to its values; a thread is current, ready or waiting.
TypeOK ==
    /\ rlist \in [current : Threads, queue : Seq(Threads)] /\ IsInjective(rlist.queue)
    /\ currp \notin Ready
    /\ call \in [Threads -> {"none", "WTSEM", "SUSPENDED", "SLEEPING", "WTOREVT"}]
    /\ call[currp] = "none" /\ \A t \in Threads : Waits(t) => call[t] # "none"
    /\ rdymsg \in [Threads -> {"OK", "RESET", "TIMEOUT"}] /\ timer \in [Threads -> BOOLEAN]
    /\ s_cnt \in Int /\ s_queue \in Seq(Threads) /\ trp \in Threads \cup {NoThread}
    /\ epending \in [Threads -> SUBSET Events] /\ ewmask \in [Threads -> SUBSET Events]
    /\ tokens \in Nat

\* What chSysUnlock and chSchWakeupS assert ("priority order violation"): no
\* ready thread has a higher priority than the current one, and the list is
\* sorted.
PriorityOrder ==
    LET all == <<currp>> \o rlist.queue
    IN \A i, j \in DOMAIN all : i < j => Prio[all[i]] >= Prio[all[j]]

\* What chsem.c asserts ("inconsistent semaphore"), with the exact number: a
\* negative counter counts the threads that wait, through time-outs and resets.
SemIsConsistent ==
    /\ s_cnt >= 0 => s_queue = <<>>
    /\ s_cnt < 0 => Len(s_queue) = -s_cnt
    /\ ToSet(s_queue) = {t \in Threads : Waits(t) /\ call[t] = "WTSEM"}

\* A thread is referenced exactly while it is suspended: nobody resumes it twice.
ResumedOnce == \A t \in Threads : trp = t <=> Waits(t) /\ call[t] = "SUSPENDED"

\* What the kernel asserts, of its ready list and of the queues and references in
\* which threads wait.
KernelTrue == TypeOK /\ PriorityOrder /\ SemIsConsistent /\ ResumedOnce

\* No token is lost or doubled when a signal and a time-out race: what was given
\* is in the counter or with a thread that is about to return OK.
TokensConserved ==
    tokens = Max({s_cnt, 0})
             + Cardinality({t \in Ready : call[t] = "WTSEM" /\ rdymsg[t] = "OK"})

\* No thread waits for an event that is pending.
NoEventMissed ==
    \A t \in Threads : Waits(t) /\ call[t] = "WTOREVT" => epending[t] \cap ewmask[t] = {}

\* What a thread or an interrupt gives is never lost on its way, whichever time-out
\* it races.
NothingLost == TokensConserved /\ NoEventMissed

\* A timer lies on the stack of the call: no thread runs on while it is armed.
TimerDiesWithCall == \A t \in Threads : timer[t] => t # currp /\ call[t] # "none"

\* A thread of the highest priority that is ready runs in the end, and one that
\* waits with a time-out does too.
Top == {t \in Threads : \A u \in Threads : Prio[u] <= Prio[t]}
ReadyRuns == \A t \in Top : (t \in Ready \/ timer[t]) ~> t = currp
=============================================================================
