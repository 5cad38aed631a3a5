---------------------------- MODULE TimerService ----------------------------
(***************************************************************************)
(* What the kernel's virtual timers promise: a timer that is armed fires   *)
(* once, never before its delay is over, at most Slack ticks after it, and *)
(* in the order of the deadlines.                                          *)
(***************************************************************************)
EXTENDS Integers

CONSTANTS Timers, Delays, Shortest, Slack

VARIABLE left    \* ticks until the deadline of every timer that is armed

Armed == DOMAIN left
Without(t) == [u \in Armed \ {t} |-> left[u]]

Init == left = [t \in {} |-> 0]

Arm(t, delay) ==
    /\ t \notin Armed
    /\ left' = [u \in Armed \cup {t} |->
                   IF u # t THEN left[u] ELSE IF delay < Shortest THEN Shortest ELSE delay]

Disarm(t) == t \in Armed /\ left' = Without(t)

Fire(t) ==
    /\ t \in Armed /\ left[t] <= 0
    /\ \A u \in Armed : left[t] <= left[u]
    /\ left' = Without(t)

Tick ==
    /\ \A t \in Armed : left[t] > -Slack
    /\ left' = [t \in Armed |-> left[t] - 1]

Next ==
    \/ \E t \in Timers : Disarm(t) \/ Fire(t) \/ \E d \in Delays : Arm(t, d)
    \/ Tick

Spec == Init /\ [][Next]_left /\ WF_left(Tick) /\ \A t \in Timers : WF_left(Fire(t))
=============================================================================
