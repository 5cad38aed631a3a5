------------------------------ MODULE PianoCode ------------------------------
(***************************************************************************)
(* The code lock of the piano room (Game/Piano.cpp, Game/Piano.h).         *)
(*                                                                         *)
(* Seven keys are typed on a piano.  Piano_t::CodeProcessing, called by    *)
(* the Sensors thread for every pressed key, shifts the key into the       *)
(* register CurrentComb and (re)starts the 10 s timer TmrResetCode; when   *)
(* the register holds PianoCode it also starts the 2 s timer               *)
(* TmrSignslEvtOfCodeOk.  The callbacks of both timers run in the system   *)
(* tick interrupt and only flag an event of the Piano thread               *)
(* (Piano_t::ITask), which clears the register, stops the reset timer and  *)
(* signals EVT_PianoCodeOk to the App thread.                              *)
(*                                                                         *)
(* CurrentComb is a shift register of CodeLen nibbles: <<= 4, += KeyId and *)
(* &= CodeMask drop the oldest nibble and put the key last.  KeyId < 16,   *)
(* so the addition never carries, and before the mask the value stays      *)
(* below 2^32.                                                             *)
(*                                                                         *)
(* Time is counted in ticks of any length; a timer variable holds the      *)
(* ticks left, 0 when the timer is not armed.                              *)
(***************************************************************************)
EXTENDS Integers, Sequences

CONSTANTS
    Keys,         \* key numbers, i + 1 in ProcessKeySens
    Code,         \* PianoCode, as the sequence of its nibbles
    ResetTicks,   \* ResetCode_TimeOut_MS
    SignalTicks   \* SignslEvtOfCodeOk_TimeOut_MS

CodeLen == Len(Code)

ASSUME KeysAssumption == Keys \subseteq 1..15
ASSUME CodeAssumption == Code \in Seq(Keys) /\ Len(Code) > 0
ASSUME TicksAssumption ==
    /\ ResetTicks \in Nat
    /\ SignalTicks \in 1..ResetTicks
    /\ SignalTicks # ResetTicks

VARIABLES
    comb,      \* CurrentComb: nibble i of CodeLen, the last one typed last
    tReset,    \* ticks left to TmrResetCode
    tSignal,   \* ticks left to TmrSignslEvtOfCodeOk
    piPend,    \* events pending in the Piano thread (p_epending)
    piMsk,     \* EvtMsk of Piano_t::ITask, {} while the thread waits
    appPend    \* events pending in the App thread

codeVars == <<comb, tReset, tSignal, piPend, piMsk>>
vars == <<codeVars, appPend>>

PianoEvents == {"ResetCode", "SignslOfCodeOk"}
Positions == 1..CodeLen
Nibbles == Keys \cup {0}    \* what a place of the register can hold
Cleared == [i \in Positions |-> 0]

\* A register of CodeLen places that x enters at the end.
ShiftIn(reg, x) ==
    [i \in Positions |-> IF i = CodeLen THEN x ELSE reg[i + 1]]

CodeInit ==
    /\ comb = Cleared
    /\ tReset = 0
    /\ tSignal = 0
    /\ piPend = {}
    /\ piMsk = {}

-----------------------------------------------------------------------------
(* Slips the properties would catch.                                        *)

\* The signal timer is not stopped by a further key.
CodeProcessingWithoutStop(k) ==
    /\ piMsk = {}
    /\ tReset' = ResetTicks
    /\ comb' = ShiftIn(comb, k)
    /\ tSignal' = IF comb' = Code THEN SignalTicks ELSE tSignal
    /\ UNCHANGED <<piPend, piMsk>>

\* The register is compared before the key is shifted in.
CodeProcessingTooEarly(k) ==
    /\ piMsk = {}
    /\ tReset' = ResetTicks
    /\ comb' = ShiftIn(comb, k)
    /\ tSignal' = IF comb = Code THEN SignalTicks ELSE 0
    /\ UNCHANGED <<piPend, piMsk>>

\* A key does not restart the reset timer.
CodeProcessingUntimed(k) ==
    /\ piMsk = {}
    /\ comb' = ShiftIn(comb, k)
    /\ tSignal' = IF comb' = Code THEN SignalTicks ELSE 0
    /\ UNCHANGED <<tReset, piPend, piMsk>>

\* The second event of the loop is tested with else-if.
SignalsCodeOkElseIf == piMsk = {"SignslOfCodeOk"}

-----------------------------------------------------------------------------
\* Piano_t::CodeProcessing, called in the Sensors thread.  All threads have
\* one priority and there is no time slicing, so the Piano thread is then in
\* chEvtWaitAny (piMsk = {}), perhaps with events pending; a timer interrupt
\* inside the call has the effect it has before the call.
CodeProcessing(k) ==
    /\ piMsk = {}
    /\ tReset' = ResetTicks
    /\ comb' = ShiftIn(comb, k)
    /\ tSignal' = IF comb' = Code THEN SignalTicks ELSE 0
    /\ UNCHANGED <<piPend, piMsk>>

\* One system tick: TmrKLCallback of a timer that expires flags its event.
Expires(t) == t = 1
Countdown(t) == IF t = 0 THEN 0 ELSE t - 1

TimerTick ==
    /\ tReset' = Countdown(tReset)
    /\ tSignal' = Countdown(tSignal)
    /\ piPend' = piPend \cup (IF Expires(tReset) THEN {"ResetCode"} ELSE {})
                        \cup (IF Expires(tSignal) THEN {"SignslOfCodeOk"} ELSE {})
    /\ UNCHANGED <<comb, piMsk>>

\* The Piano thread returns from chEvtWaitAny(ALL_EVENTS) with all its
\* pending events, which are cleared.
PianoWakes ==
    /\ piMsk = {}
    /\ piPend # {}
    /\ piMsk' = piPend
    /\ piPend' = {}
    /\ UNCHANGED <<comb, tReset, tSignal>>

\* The body of the loop of Piano_t::ITask, up to the next chEvtWaitAny.
SignalsCodeOk == "SignslOfCodeOk" \in piMsk

PianoLoopBody ==
    /\ piMsk # {}
    /\ comb' = Cleared
    /\ tReset' = IF SignalsCodeOk THEN 0 ELSE tReset
    /\ piMsk' = {}
    /\ UNCHANGED <<tSignal, piPend>>

-----------------------------------------------------------------------------
(* The lock alone: keys come at any time, and App takes its events, or       *)
(* signals EVT_PianoCodeOk to itself (BtnHandler, OnCmd), at any time.       *)

Init == CodeInit /\ appPend = {}

KeyTyped == \E k \in Keys : CodeProcessing(k) /\ UNCHANGED appPend
Tick == TimerTick /\ UNCHANGED appPend
Wake == PianoWakes /\ UNCHANGED appPend
Handle ==
    /\ PianoLoopBody
    /\ appPend' = IF SignalsCodeOk THEN appPend \cup {"PianoCodeOk"} ELSE appPend
AppTakes == appPend # {} /\ appPend' = {} /\ UNCHANGED codeVars
AppSignals == appPend' = {"PianoCodeOk"} /\ UNCHANGED codeVars

Next == KeyTyped \/ Tick \/ Wake \/ Handle \/ AppTakes \/ AppSignals

\* The tick interrupt keeps coming and the Piano thread, once ready, gets the
\* processor: every other thread blocks.  Nobody has to type.
Fairness == WF_vars(Tick) /\ SF_vars(Wake) /\ WF_vars(Handle)

Spec == Init /\ [][Next]_vars /\ Fairness

-----------------------------------------------------------------------------
\* The types of the lock's variables (Piano.h, l. 117-122; chevents.c).
TypeOK ==
    /\ comb \in [Positions -> Nibbles]
    /\ tReset \in 0..ResetTicks
    /\ tSignal \in 0..SignalTicks
    /\ piPend \subseteq PianoEvents
    /\ piMsk \subseteq PianoEvents
    /\ appPend \subseteq {"PianoCodeOk"}

\* A partly typed code never outlives the reset timeout: while the register
\* holds a key the reset timer runs, or its event waits for the Piano thread,
\* although SignslOfCodeOk stops that timer (Piano_t::ITask).
PartialCodeWillBeReset ==
    comb # Cleared => tReset > 0 \/ "ResetCode" \in piPend \cup piMsk

\* A typed code is always offered: once the 2 s timer runs EVT_PianoCodeOk
\* reaches the App thread unless a further key displaces the code, and once the
\* timer has expired no key can hold the offer back, whatever the reset timer
\* does meanwhile (CodeProcessing, ITask).
Displaced == tSignal = 0 /\ comb \notin {Code, Cleared}

CodeIsOffered ==
    /\ tSignal > 0 ~> "PianoCodeOk" \in appPend \/ Displaced
    /\ "SignslOfCodeOk" \in piPend ~> "PianoCodeOk" \in appPend
=============================================================================
