-------------------------- MODULE PianoCodeHistory --------------------------
(***************************************************************************)
(* PianoCode with a history of the typed keys, so that what the lock       *)
(* accepts can be compared with what was typed.  The history never guards  *)
(* a step.                                                                 *)
(***************************************************************************)
EXTENDS PianoCode

VARIABLES
    typed,     \* the last CodeLen keys and how they were typed
    lapsed,    \* TmrResetCode has expired since the last key
    basis      \* typed, as it was when TmrSignslEvtOfCodeOk last expired

historyVars == <<typed, lapsed, basis>>
hvars == <<vars, historyVars>>

\* What is kept of one key: the key (0 for none yet), whether the reset timer
\* had expired since the key before, and the events that the Piano thread had
\* not yet taken when the key was processed.
Entry == [key : Nibbles, late : BOOLEAN, pend : SUBSET PianoEvents]
NoEntry == [key |-> 0, late |-> FALSE, pend |-> {}]

HInit ==
    /\ Init
    /\ typed = [i \in Positions |-> NoEntry]
    /\ lapsed = FALSE
    /\ basis = [i \in Positions |-> NoEntry]

HKey(k) ==
    /\ CodeProcessing(k)
    /\ typed' = ShiftIn(typed, [key |-> k, late |-> lapsed, pend |-> piPend])
    /\ lapsed' = FALSE
    /\ UNCHANGED <<appPend, basis>>

HTick ==
    /\ Tick
    /\ lapsed' = (lapsed \/ Expires(tReset))
    /\ basis' = IF Expires(tSignal) THEN typed ELSE basis
    /\ UNCHANGED typed

HNext ==
    \/ \E k \in Keys : HKey(k)
    \/ HTick
    \/ (Wake \/ Handle \/ AppTakes \/ AppSignals) /\ UNCHANGED historyVars

HSpec == HInit /\ [][HNext]_hvars

\* The fairness of PianoCode; the history takes no step of its own.
HFairSpec == HSpec /\ Fairness

-----------------------------------------------------------------------------
\* The types of the lock and of the history (Piano.h).
HTypeOK ==
    /\ TypeOK
    /\ typed \in [Positions -> Entry]
    /\ lapsed \in BOOLEAN
    /\ basis \in [Positions -> Entry]

\* The keys of h are the code, and a pause of ResetTicks before one of them
\* went unnoticed only because the Piano thread had not yet taken the reset
\* event when that key and all later ones were processed.
IsCodeEntry(h) ==
    /\ \A i \in Positions : h[i].key = Code[i]
    /\ \A i \in 2..CodeLen : h[i].late =>
           \A j \in i..CodeLen : "ResetCode" \in h[j].pend

\* The cupboard is only ever offered for a typed code: an event that is on its
\* way through the Piano thread stems from an expiry of the 2 s timer at which
\* the last CodeLen keys were the code, typed without a 10 s pause, although
\* keys, expiries and the clearing of the register interleave in any order
\* (CodeProcessing, Piano_t::ITask, the two timer callbacks).
OkStemsFromCode ==
    "SignslOfCodeOk" \in piPend \cup piMsk => IsCodeEntry(basis)

\* No end of the code is its beginning, as in PianoCode.
DoesNotOverlap ==
    \A i \in 1..(CodeLen - 1) : \E m \in 1..i : Code[CodeLen - i + m] # Code[m]

\* h is the code, no key of it came late, and no event was waiting for the
\* Piano thread as one of its keys was processed.
CleanlyTyped(h) ==
    /\ \A i \in Positions : h[i].key = Code[i] /\ h[i].pend = {}
    /\ \A i \in 2..CodeLen : ~h[i].late

\* A code typed on a settled lock is never missed: the key that completes it
\* arms the 2 s timer (CodeProcessing), whatever the register held before the
\* first of its keys.  Holds for codes that do not overlap themselves.
TypedCodeArms ==
    [][typed' # typed /\ CleanlyTyped(typed') => tSignal' = SignalTicks]_hvars
=============================================================================
