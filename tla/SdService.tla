------------------------------ MODULE SdService ------------------------------
(***************************************************************************)
(* What SDRead and SDWrite (sd/fatfs_diskio.c) promise to the threads that *)
(* call them, whatever semaphore and driver are behind: the card serves    *)
(* one thread at a time, and the others in the order in which they came,   *)
(* unless they lose patience.  That holds until somebody interferes from   *)
(* outside.                                                                *)
(***************************************************************************)
EXTENDS Integers, Sequences, SequencesExt

CONSTANT Threads

VARIABLES
    client,    \* "away", "waits" or "served", for every thread
    line,      \* the threads that wait, in the order of their coming
    broken     \* somebody has interfered from outside

vars == <<client, line, broken>>

Init ==
    /\ client = [t \in Threads |-> "away"]
    /\ line = <<>>
    /\ broken = FALSE

Served == {t \in Threads : client[t] = "served"}

\* A thread comes and is served at once, or queues up.
Ask(t) ==
    /\ client[t] = "away"
    /\ IF Served = {}
       THEN client' = [client EXCEPT ![t] = "served"] /\ UNCHANGED line
       ELSE client' = [client EXCEPT ![t] = "waits"] /\ line' = Append(line, t)

\* The one that is served leaves; the first of the line is next.
Leave(t) ==
    /\ client[t] = "served"
    /\ IF line = <<>>
       THEN client' = [client EXCEPT ![t] = "away"] /\ UNCHANGED line
       ELSE /\ client' = [client EXCEPT ![t] = "away", ![Head(line)] = "served"]
            /\ line' = Tail(line)

\* A thread in the line has waited too long.
GiveUp(t) ==
    /\ client[t] = "waits"
    /\ client' = [client EXCEPT ![t] = "away"]
    /\ \E i \in DOMAIN line : line[i] = t /\ line' = RemoveAt(line, i)

Serve == \E t \in Threads : Ask(t) \/ Leave(t) \/ GiveUp(t)

\* Once somebody has interfered, nothing is promised.
Next ==
    \/ ~broken /\ UNCHANGED broken /\ Serve
    \/ broken' = TRUE

Spec == Init /\ [][Next]_vars
=============================================================================
