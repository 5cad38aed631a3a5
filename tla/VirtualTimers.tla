--------------------------- MODULE VirtualTimers ---------------------------
(***************************************************************************)
(* The kernel's virtual timers without a periodic tick (os/src/chvt.c,     *)
(* os/include/chvt.h with CH_CFG_ST_TIMEDELTA > 0): a list of differences  *)
(* between deadlines, a hardware counter that wraps and one compare        *)
(* register.  Init, Next and the like have names of their own, so that the *)
(* module can stand beside Kernel.                                         *)
(*                                                                         *)
(* A call holds the lock, but time passes in it: one tick may come between *)
(* the reading of the counter and the writing of the compare register,     *)
(* which is what CH_CFG_ST_TIMEDELTA is for.  chVTSetI of an armed timer   *)
(* is Reset and Set.                                                       *)
(***************************************************************************)
EXTENDS Integers, SequencesExt

CONSTANTS
    Timers,
    Delays,        \* the delays that timers are set to
    Periodic,      \* timers that are never reset and that their callback sets
    Period,        \* again, as those of the program's polls; their delay
    W,             \* the counter counts modulo W (2^CH_CFG_ST_RESOLUTION)
    TimeDelta,     \* CH_CFG_ST_TIMEDELTA
    Latency        \* most ticks from an alarm to the end of its interrupt

ASSUME WAssumption == W \in Nat /\ W > TimeDelta + Latency
ASSUME DeltaAssumption == TimeDelta \in Nat \ {0, 1}
ASSUME LatencyAssumption == Latency \in Nat
ASSUME DelaysAssumption == Delays \cup {Period} \subseteq 1 .. W - 1
ASSUME PeriodicAssumption == Periodic \subseteq Timers

VARIABLES
    now,               \* the hardware counter
    CCR, CC1IE, CC1IF, \* compare register, interrupt enable, its flag
    vtlist, lasttime,  \* the delta list: [vt, delta]; the time it counts from
    isr,               \* "no" | "loop" | "callback": the timer interrupt
    write,             \* the compare value that a call is about to write; a tick
                       \* has come in the call (late)
    ticks              \* ticks since the alarm

hwVars == <<now, CCR, CC1IE, CC1IF>>
listVars == <<vtlist, lasttime>>
vtVars == <<hwVars, listVars, isr, write, ticks>>

Counter == 0 .. W - 1
NoWrite == [kind |-> "none", at |-> 0, late |-> FALSE]
Passed == (now - lasttime) % W
Armed == {vtlist[i].vt : i \in DOMAIN vtlist}
Alarm == CC1IF /\ CC1IE

VtInit ==
    /\ now \in {0, W - 1} /\ CCR = 0 /\ CC1IE = FALSE /\ CC1IF = FALSE
    /\ vtlist = <<>> /\ lasttime = 0
    /\ isr = "no" /\ write = NoWrite /\ ticks = 0

-----------------------------------------------------------------------------
\* The compare register is written; a first timer also starts the alarm.
WriteAlarm ==
    /\ write.kind # "none"
    /\ CCR' = write.at
    /\ IF write.kind = "start" THEN CC1IF' = FALSE /\ CC1IE' = TRUE
       ELSE UNCHANGED <<CC1IF, CC1IE>>
    /\ write' = NoWrite
    /\ UNCHANGED <<now, listVars, isr, ticks>>

To(kind, at) == write' = [kind |-> kind, at |-> at % W, late |-> FALSE]

\* The deadline of each entry, counted from lasttime.
Deadlines(list) ==
    LET sum[k \in 0 .. Len(list)] == IF k = 0 THEN 0 ELSE sum[k - 1] + list[k].delta
    IN sum

\* chVTDoSetI's walk along the list from entry i with the rest of the delta.
Place(d, i) ==
    LET sum == Deadlines(vtlist)
        later == {k \in i .. Len(vtlist) : sum[k] - sum[i - 1] >= d}
        at == IF later = {} THEN Len(vtlist) + 1 ELSE Min(later)
    IN [at |-> at, delta |-> d - (sum[at - 1] - sum[i - 1])]

Insert(vt, at, delta) ==
    [i \in 1 .. Len(vtlist) + 1 |->
        CASE i < at -> vtlist[i]
          [] i = at -> [vt |-> vt, delta |-> delta]
          [] i = at + 1 -> [vtlist[at] EXCEPT !.delta = @ - delta]
          [] OTHER -> vtlist[i - 1]]

Calling == isr \in {"no", "callback"} /\ write = NoWrite
Polls == Periodic \subseteq Armed

Safe(delay) == IF delay < TimeDelta THEN TimeDelta ELSE delay

\* chVTDoSetI
Set(vt, delay) ==
    LET delta == (Passed + Safe(delay)) % W
        wraps == delta < Passed
        first == vtlist[1].delta
        place == IF wraps THEN Place((delta - first) % W, 2) ELSE Place(delta, 1)
    IN /\ Calling /\ vt \notin Armed
       /\ IF vt \in Periodic THEN delay = Period ELSE Polls /\ delay \in Delays
       /\ IF vtlist = <<>>
          THEN /\ vtlist' = <<[vt |-> vt, delta |-> Safe(delay)]>>
               /\ lasttime' = now
               /\ To("start", now + Safe(delay))
          ELSE /\ vtlist' = Insert(vt, place.at, place.delta)
               /\ IF ~wraps /\ delta < first THEN To("set", lasttime + delta)
                  ELSE UNCHANGED write
               /\ UNCHANGED lasttime
       /\ UNCHANGED <<hwVars, isr, ticks>>

\* The entry at i goes; the next one counts its difference.
Unlinked(i) ==
    IF i = Len(vtlist) THEN Front(vtlist)
    ELSE [RemoveAt(vtlist, i) EXCEPT ![i].delta = (@ + vtlist[i].delta) % W]

\* A slip: the alarm is stopped although another timer has become the first.
ResetStops(vt) ==
    \E i \in DOMAIN vtlist :
        /\ Calling /\ Polls /\ vtlist[i].vt = vt /\ vt \notin Periodic
        /\ vtlist' = Unlinked(i)
        /\ CC1IE' = (CC1IE /\ i > 1)
        /\ UNCHANGED <<write, now, CCR, CC1IF, lasttime, isr, ticks>>

\* chVTDoResetI
Reset(vt) ==
    \E i \in DOMAIN vtlist :
        /\ Calling /\ Polls /\ vtlist[i].vt = vt /\ vt \notin Periodic
        /\ vtlist' = Unlinked(i)
        /\ CC1IE' = (CC1IE /\ vtlist' # <<>>)
        /\ IF i = 1 /\ vtlist' # <<>> /\ Passed < Head(vtlist').delta
           THEN To("set", now + Safe(Head(vtlist').delta - Passed))
           ELSE UNCHANGED write
        /\ UNCHANGED <<now, CCR, CC1IF, lasttime, isr>>
        /\ ticks' = IF isr = "no" /\ ~Alarm' THEN 0 ELSE ticks

-----------------------------------------------------------------------------
\* The interrupt of the timer: chVTDoTickI begins.
IrqEnter ==
    /\ Alarm /\ isr = "no" /\ write = NoWrite
    /\ CC1IF' = FALSE /\ isr' = "loop"
    /\ UNCHANGED <<now, CCR, CC1IE, listVars, write, ticks>>

Expired == vtlist # <<>> /\ Head(vtlist).delta <= Passed

\* A slip: the list's base time is set to the current time.
TriggerAtNow ==
    /\ isr = "loop" /\ write = NoWrite /\ Expired
    /\ lasttime' = now
    /\ vtlist' = Tail(vtlist)
    /\ CC1IE' = (CC1IE /\ vtlist' # <<>>)
    /\ isr' = "callback"
    /\ UNCHANGED <<now, CCR, CC1IF, write, ticks>>

\* One turn of the loop: the timer leaves the list and its callback is called.
Trigger ==
    /\ isr = "loop" /\ write = NoWrite /\ Expired
    /\ lasttime' = (lasttime + Head(vtlist).delta) % W
    /\ vtlist' = Tail(vtlist)
    /\ CC1IE' = (CC1IE /\ vtlist' # <<>>)
    /\ isr' = "callback"
    /\ UNCHANGED <<now, CCR, CC1IF, write, ticks>>

CallbackReturns ==
    /\ isr = "callback" /\ write = NoWrite /\ Polls
    /\ isr' = "loop"
    /\ UNCHANGED <<hwVars, listVars, write, ticks>>

\* The loop's end: the alarm of the next timer, if there is one.
TickEnds ==
    /\ isr = "loop" /\ write = NoWrite /\ ~Expired
    /\ isr' = "no"
    /\ IF vtlist = <<>> THEN UNCHANGED write
       ELSE To("set", now + Safe(Head(vtlist).delta - Passed))
    /\ ticks' = 0
    /\ UNCHANGED <<hwVars, listVars>>

\* Time goes on, by one tick in a call, and by Latency from the alarm to the
\* interrupt's end.
Tick ==
    /\ write.kind # "none" => ~write.late
    /\ Alarm \/ isr # "no" => ticks < Latency
    /\ now' = (now + 1) % W
    /\ CC1IF' = (CC1IF \/ CCR = now')
    /\ write' = IF write = NoWrite THEN NoWrite ELSE [write EXCEPT !.late = TRUE]
    /\ ticks' = IF Alarm \/ isr # "no" THEN ticks + 1 ELSE 0
    /\ UNCHANGED <<CCR, CC1IE, listVars, isr>>

VtNext ==
    \/ WriteAlarm \/ IrqEnter \/ Trigger \/ CallbackReturns \/ TickEnds \/ Tick
    \/ \E vt \in Timers : Reset(vt) \/ \E delay \in Delays \cup {Period} : Set(vt, delay)

VtSpec == VtInit /\ [][VtNext]_vtVars

\* Time goes on; calls and interrupts end; the interrupt comes in a gap between
\* calls, and a callback that makes calls returns.
VtFairSpec ==
    /\ VtSpec
    /\ WF_vtVars(Tick) /\ WF_vtVars(WriteAlarm) /\ WF_vtVars(Trigger) /\ WF_vtVars(TickEnds)
    /\ SF_vtVars(IrqEnter) /\ SF_vtVars(CallbackReturns)
    /\ \A vt \in Periodic : WF_vtVars(Set(vt, Period))

-----------------------------------------------------------------------------
\* Every variable keeps to the values that its type in the code has.
VtTypeOK ==
    /\ now \in Counter /\ CCR \in Counter /\ CC1IE \in BOOLEAN /\ CC1IF \in BOOLEAN
    /\ vtlist \in Seq([vt : Timers, delta : Counter]) /\ lasttime \in Counter
    /\ \A i, j \in DOMAIN vtlist : vtlist[i].vt = vtlist[j].vt => i = j
    /\ isr \in {"no", "loop", "callback"}
    /\ write \in [kind : {"none", "start", "set"}, at : Counter, late : BOOLEAN]
    /\ ticks \in 0 .. Latency

\* Ticks until the deadline of each timer in the list.
Left ==
    LET place == [t \in Armed |-> CHOOSE i \in DOMAIN vtlist : vtlist[i].vt = t]
    IN [t \in Armed |-> Deadlines(vtlist)[place[t]] - Passed]

\* Most ticks from a deadline to the timer's callback.
Slack == Latency + TimeDelta - 1

\* The list, the counter and the compare register do what TimerService promises.
Service == INSTANCE TimerService WITH left <- Left, Shortest <- TimeDelta,
                                      Delays <- Delays \cup {Period},
                                      Slack <- Slack
KeepsPromise == Service!Spec

\* The alarm that is to come is never late: unless the interrupt runs or is
\* about to, the compare register holds a time that the counter reaches before
\* the first deadline or at most TimeDelta - 1 ticks after it.
AlarmIsAhead ==
    vtlist # <<>> /\ isr = "no" /\ write = NoWrite /\ ~Alarm =>
        CC1IE /\ ((CCR - now) % W \in 1 .. LET left == Head(vtlist).delta - Passed
                                          IN IF left < 1 THEN TimeDelta - 1
                                             ELSE left + TimeDelta - 1)

\* What chVTDoTickI asserts of the alarm that it sets ("exceeding delta"), and
\* every other call may assert as well.
NotExceeded == write.kind # "none" => (now - lasttime) % W <= (write.at - lasttime) % W

\* The list and the compare register agree at every moment: the alarm that is set,
\* or about to be written, is the one that the list needs.
AlarmTrue == VtTypeOK /\ AlarmIsAhead /\ NotExceeded

-----------------------------------------------------------------------------
\* What the theorems assume of the constants: there is a poll, and the counter does
\* not wrap in its period, twice the time by which a timer may be late, and one more
\* delay.
PollsKeepPace ==
    /\ Periodic # {}
    /\ \A d \in Delays \cup {Period} : Safe(Period) + 2 * Slack + Safe(d) < W
=============================================================================
