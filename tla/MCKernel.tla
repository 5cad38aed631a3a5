------------------------------ MODULE MCKernel ------------------------------
(***************************************************************************)
(* Two threads of the program's common priority, one of a lower priority   *)
(* (the receiver of the UART), the idle thread.                            *)
(***************************************************************************)
EXTENDS Kernel

CONSTANTS a, b, rx
MCPrio == (a :> 3) @@ (b :> 3) @@ (rx :> 2) @@ (idle :> 1)

\* Sorted is chSchReadyI for one after the other, behind a ready list.
ASSUME SortedAssumption ==
    \A q \in UNION {SetToSeqs(T) : T \in SUBSET Threads} :
        \A n \in {n \in 0..Len(q) : \A i, j \in 1..n : i < j => Prio[q[i]] >= Prio[q[j]]} :
            Sorted(q) = {FoldLeft(LAMBDA l, t : InsertAfter(l, t, Prio[t]),
                                  SubSeq(q, 1, n), SubSeq(q, n + 1, Len(q)))}
=============================================================================
