--------------------------- MODULE PianoCodeProofs ---------------------------
(***************************************************************************)
(* What the code lock promises, for every set of keys, every code and      *)
(* every pair of timeouts.                                                 *)
(***************************************************************************)
EXTENDS PianoCodeHistory, TLAPS

\* The register holds a suffix of the keys in the history.  A key that came
\* late behind another key of the register was processed with the reset event
\* pending, and so was every key after it: the event still waits.
RegisterRemembers ==
    \A i \in Positions :
        comb[i] # 0 =>
            /\ typed[i].key = comb[i]
            /\ i > 1 /\ comb[i - 1] # 0 /\ typed[i].late =>
                  /\ "ResetCode" \in piPend \cup piMsk
                  /\ \A j \in i..CodeLen : "ResetCode" \in typed[j].pend

\* When the reset timer has expired on a register that holds a key, its event
\* has not been handled yet.
LapseIsPending ==
    lapsed /\ comb # Cleared => "ResetCode" \in piPend \cup piMsk

\* The 2 s timer runs only after a typed code.
ArmedByCode == tSignal > 0 => IsCodeEntry(typed)

\* The inductive invariant.
Inv ==
    /\ HTypeOK
    /\ PartialCodeWillBeReset
    /\ LapseIsPending
    /\ RegisterRemembers
    /\ ArmedByCode
    /\ OkStemsFromCode

LEMMA CodeFacts ==
    /\ CodeLen \in Nat \ {0}
    /\ Code \in [Positions -> Keys]
    /\ 0 \notin Keys
    /\ \A i \in Positions : Code[i] # 0
  BY CodeAssumption, KeysAssumption DEF CodeLen, Positions

\* Where a shift leaves the places of a register.
LEMMA ShiftInPlaces ==
    ASSUME NEW reg, NEW x
    PROVE  /\ ShiftIn(reg, x)[CodeLen] = x
           /\ \A i \in Positions : i # CodeLen =>
                 i + 1 \in Positions /\ ShiftIn(reg, x)[i] = reg[i + 1]
  BY CodeFacts DEF ShiftIn, Positions

\* A register stays a register when a key enters it.
LEMMA ShiftInType ==
    ASSUME NEW S, NEW reg \in [Positions -> S], NEW x \in S
    PROVE  ShiftIn(reg, x) \in [Positions -> S]
  BY CodeFacts DEF ShiftIn, Positions

LEMMA InitInv == HInit => Inv
<1> SUFFICES ASSUME HInit PROVE Inv
  OBVIOUS
<1> USE DEF HInit, Init, CodeInit
<1>1. comb = Cleared /\ \A i \in Positions : comb[i] = 0
  BY DEF Cleared
<1>2. NoEntry \in Entry
  BY DEF NoEntry, Entry, Nibbles
<1>3. comb \in [Positions -> Nibbles]
  BY DEF Cleared, Nibbles
<1>4. typed \in [Positions -> Entry] /\ basis \in [Positions -> Entry]
  BY <1>2
<1>5. tReset \in 0..ResetTicks /\ tSignal \in 0..SignalTicks
  BY TicksAssumption
<1>6. HTypeOK
  BY <1>3, <1>4, <1>5 DEF HTypeOK, TypeOK
<1> QED
  BY <1>1, <1>6 DEF Inv, PartialCodeWillBeReset, LapseIsPending,
     RegisterRemembers, ArmedByCode, OkStemsFromCode

\* The types survive every step.
LEMMA TypeStep == HTypeOK /\ [HNext]_hvars => HTypeOK'
<1> SUFFICES ASSUME HTypeOK, [HNext]_hvars PROVE HTypeOK'
  OBVIOUS
<1> USE TicksAssumption DEF HTypeOK, TypeOK
<1>1. ASSUME NEW k \in Keys, HKey(k) PROVE HTypeOK'
  <2> USE <1>1 DEF HKey, CodeProcessing
  <2>0. k \in Nibbles
    BY DEF Nibbles
  <2>1. comb' \in [Positions -> Nibbles]
    BY <2>0, ShiftInType
  <2>2. [key |-> k, late |-> lapsed, pend |-> piPend] \in Entry
    BY <2>0 DEF Entry
  <2>3. typed' \in [Positions -> Entry]
    BY <2>2, ShiftInType
  <2>4. tReset' \in 0..ResetTicks /\ tSignal' \in 0..SignalTicks
    OBVIOUS
  <2> QED
    BY <2>1, <2>3, <2>4
<1>2. CASE HTick
  <2> USE <1>2 DEF HTick, Tick, TimerTick
  <2>1. tReset' \in 0..ResetTicks /\ tSignal' \in 0..SignalTicks
    BY DEF Countdown
  <2>2. piPend' \subseteq PianoEvents
    BY DEF PianoEvents
  <2>3. lapsed' \in BOOLEAN
    BY DEF Expires
  <2>4. basis' \in [Positions -> Entry]
    OBVIOUS
  <2> QED
    BY <2>1, <2>2, <2>3, <2>4
<1>3. CASE Wake /\ UNCHANGED historyVars
  BY <1>3 DEF Wake, PianoWakes, historyVars
<1>4. CASE Handle /\ UNCHANGED historyVars
  BY <1>4 DEF Handle, PianoLoopBody, SignalsCodeOk, Cleared, Nibbles, historyVars
<1>5. CASE (AppTakes \/ AppSignals) /\ UNCHANGED historyVars
  BY <1>5 DEF AppTakes, AppSignals, codeVars, historyVars
<1>6. CASE UNCHANGED hvars
  BY <1>6 DEF hvars, vars, codeVars, historyVars
<1> QED
  BY <1>1, <1>2, <1>3, <1>4, <1>5, <1>6 DEF HNext

\* A key that completes the code was typed as IsCodeEntry says.
LEMMA CompletedCode ==
    ASSUME RegisterRemembers', comb' = Code
    PROVE  IsCodeEntry(typed')
<1>1. \A i \in Positions : comb'[i] # 0 /\ typed'[i].key = Code[i]
  BY CodeFacts DEF RegisterRemembers
<1>2. ASSUME NEW i \in 2..CodeLen, typed'[i].late
      PROVE  \A j \in i..CodeLen : "ResetCode" \in typed'[j].pend
  <2>1. i \in Positions /\ i - 1 \in Positions /\ i > 1
    BY CodeFacts DEF Positions
  <2> QED
    BY <1>1, <1>2, <2>1 DEF RegisterRemembers
<1> QED
  BY <1>1, <1>2 DEF IsCodeEntry

\* The key step keeps the register in agreement with the history.
LEMMA KeyRemembers ==
    ASSUME Inv, NEW k \in Keys, HKey(k)
    PROVE  RegisterRemembers'
<1> DEFINE e == [key |-> k, late |-> lapsed, pend |-> piPend]
<1>2. /\ piMsk = {} /\ piPend' = piPend /\ piMsk' = piMsk
      /\ comb' = ShiftIn(comb, k) /\ typed' = ShiftIn(typed, e)
  BY DEF HKey, CodeProcessing
<1>3. comb'[CodeLen] = k /\ typed'[CodeLen] = e
  BY <1>2, ShiftInPlaces
<1>4. \A i \in Positions : i # CodeLen =>
         /\ i + 1 \in Positions
         /\ comb'[i] = comb[i + 1] /\ typed'[i] = typed[i + 1]
  BY <1>2, ShiftInPlaces
<1>5. ASSUME NEW i \in Positions, comb'[i] # 0
      PROVE  /\ typed'[i].key = comb'[i]
             /\ i > 1 /\ comb'[i - 1] # 0 /\ typed'[i].late =>
                  /\ "ResetCode" \in piPend' \cup piMsk'
                  /\ \A j \in i..CodeLen : "ResetCode" \in typed'[j].pend
  <2>1. CASE i = CodeLen
    <3>1. typed'[i].key = comb'[i]
      BY <1>3, <2>1
    <3>2. ASSUME i > 1, comb'[i - 1] # 0, typed'[i].late
          PROVE  "ResetCode" \in piPend
      <4>1. i - 1 \in Positions /\ i - 1 # CodeLen /\ (i - 1) + 1 = i
        BY <2>1, <3>2, CodeFacts DEF Positions
      <4>2. comb[i] # 0
        BY <1>4, <3>2, <4>1
      <4>3. comb # Cleared
        BY <4>2 DEF Cleared
      <4>4. lapsed
        BY <1>3, <2>1, <3>2
      <4> QED
        BY <1>2, <4>3, <4>4 DEF Inv, LapseIsPending
    <3>3. \A j \in i..CodeLen : j = CodeLen
      BY <2>1, CodeFacts
    <3> QED
      BY <1>2, <1>3, <2>1, <3>1, <3>2, <3>3
  <2>2. CASE i # CodeLen
    <3>1. /\ i + 1 \in Positions
          /\ comb'[i] = comb[i + 1] /\ typed'[i] = typed[i + 1]
      BY <1>4, <2>2
    <3>2. typed'[i].key = comb'[i]
      BY <1>5, <3>1 DEF Inv, RegisterRemembers
    <3>3. ASSUME i > 1, comb'[i - 1] # 0, typed'[i].late
          PROVE  /\ "ResetCode" \in piPend
                 /\ \A j \in i..CodeLen : "ResetCode" \in typed'[j].pend
      <4>1. /\ i - 1 \in Positions /\ i - 1 # CodeLen
            /\ (i - 1) + 1 = i /\ (i + 1) - 1 = i /\ i + 1 > 1
        BY <3>3, CodeFacts DEF Positions
      <4>2. comb[(i + 1) - 1] # 0
        BY <1>4, <3>3, <4>1
      <4>3. /\ "ResetCode" \in piPend \cup piMsk
            /\ \A j \in (i + 1)..CodeLen : "ResetCode" \in typed[j].pend
        BY <1>5, <3>1, <3>3, <4>1, <4>2 DEF Inv, RegisterRemembers
      <4>4. ASSUME NEW j \in i..CodeLen PROVE "ResetCode" \in typed'[j].pend
        <5>1. CASE j = CodeLen
          BY <1>2, <1>3, <4>3, <5>1
        <5>2. CASE j # CodeLen
          <6>1. j \in Positions /\ j + 1 \in (i + 1)..CodeLen
            BY <5>2, CodeFacts DEF Positions
          <6> QED
            BY <1>4, <4>3, <5>2, <6>1
        <5> QED
          BY <5>1, <5>2
      <4> QED
        BY <1>2, <4>3, <4>4
    <3> QED
      BY <1>2, <3>2, <3>3
  <2> QED
    BY <2>1, <2>2
<1> QED
  BY <1>5 DEF RegisterRemembers

LEMMA InvStep == Inv /\ [HNext]_hvars => Inv'
<1> SUFFICES ASSUME Inv, [HNext]_hvars PROVE Inv'
  OBVIOUS
<1>0. HTypeOK'
  BY TypeStep DEF Inv
<1> USE <1>0 DEF Inv
<1>1. ASSUME NEW k \in Keys, HKey(k) PROVE Inv'
  <2> USE <1>1 DEF HKey, CodeProcessing
  <2>1. PartialCodeWillBeReset'
    BY TicksAssumption DEF PartialCodeWillBeReset
  <2>2. LapseIsPending'
    BY DEF LapseIsPending
  <2>3. RegisterRemembers'
    BY KeyRemembers
  <2>4. ArmedByCode'
    <3>1. tSignal' > 0 => comb' = Code
      OBVIOUS
    <3>2. RegisterRemembers' /\ comb' = Code => IsCodeEntry(typed')
      BY CompletedCode
    <3> QED
      BY <2>3, <3>1, <3>2 DEF ArmedByCode
  <2>5. OkStemsFromCode'
    BY DEF OkStemsFromCode, IsCodeEntry
  <2> QED
    BY <2>1, <2>2, <2>3, <2>4, <2>5
<1>2. CASE HTick
  <2> USE <1>2 DEF HTick, Tick, TimerTick
  <2>0. piPend \subseteq piPend'
    OBVIOUS
  <2>1. PartialCodeWillBeReset'
    BY <2>0 DEF PartialCodeWillBeReset, HTypeOK, TypeOK, Expires, Countdown
  <2>2. LapseIsPending'
    <3>1. CASE Expires(tReset)
      BY <3>1 DEF LapseIsPending
    <3>2. CASE ~Expires(tReset)
      BY <2>0, <3>2 DEF LapseIsPending
    <3> QED
      BY <3>1, <3>2
  <2>3. RegisterRemembers'
    BY <2>0 DEF RegisterRemembers
  <2>4. ArmedByCode'
    BY DEF ArmedByCode, HTypeOK, TypeOK, Countdown, IsCodeEntry
  <2>5. OkStemsFromCode'
    <3>1. CASE Expires(tSignal)
      <4>1. basis' = typed /\ IsCodeEntry(typed)
        BY <3>1 DEF Expires, ArmedByCode
      <4> QED
        BY <4>1 DEF OkStemsFromCode, IsCodeEntry
    <3>2. CASE ~Expires(tSignal)
      <4>1. /\ basis' = basis
            /\ "SignslOfCodeOk" \in piPend' => "SignslOfCodeOk" \in piPend
        BY <3>2
      <4> QED
        BY <4>1 DEF OkStemsFromCode, IsCodeEntry
    <3> QED
      BY <3>1, <3>2
  <2> QED
    BY <2>1, <2>2, <2>3, <2>4, <2>5
<1>3. CASE Wake /\ UNCHANGED historyVars
  <2> USE <1>3 DEF Wake, PianoWakes, historyVars
  <2>0. piPend' \cup piMsk' = piPend \cup piMsk
    OBVIOUS
  <2> QED
    BY <2>0 DEF PartialCodeWillBeReset, LapseIsPending, RegisterRemembers,
       ArmedByCode, OkStemsFromCode, IsCodeEntry
<1>4. CASE Handle /\ UNCHANGED historyVars
  <2> USE <1>4 DEF Handle, PianoLoopBody, historyVars
  <2>1. comb' = Cleared /\ \A i \in Positions : comb'[i] = 0
    BY DEF Cleared
  <2>2. Cleared' = Cleared
    BY DEF Cleared
  <2>3. ArmedByCode'
    BY DEF ArmedByCode, IsCodeEntry
  <2>4. OkStemsFromCode'
    BY DEF OkStemsFromCode, IsCodeEntry
  <2> QED
    BY <2>1, <2>2, <2>3, <2>4
       DEF PartialCodeWillBeReset, LapseIsPending, RegisterRemembers
<1>5. CASE (AppTakes \/ AppSignals) /\ UNCHANGED historyVars
  BY <1>5 DEF AppTakes, AppSignals, codeVars, historyVars, PartialCodeWillBeReset,
     LapseIsPending, RegisterRemembers, ArmedByCode, OkStemsFromCode, IsCodeEntry
<1>6. CASE UNCHANGED hvars
  BY <1>6 DEF hvars, vars, codeVars, historyVars, PartialCodeWillBeReset,
     LapseIsPending, RegisterRemembers, ArmedByCode, OkStemsFromCode, IsCodeEntry
<1> QED
  BY <1>1, <1>2, <1>3, <1>4, <1>5, <1>6 DEF HNext

\* The variables keep their types in every behaviour of the lock
\* (Piano_t::CodeProcessing, Piano_t::ITask, the timer callbacks).
THEOREM TypeCorrect == HSpec => []HTypeOK
<1>1. Inv => HTypeOK
  BY DEF Inv
<1> QED
  BY InitInv, InvStep, <1>1, PTL DEF HSpec

\* An offer of the cupboard stems from a typed code, for every code, every key
\* set and every pair of timeouts (Piano_t::ITask, l. 31-35).
THEOREM CupboardOnlyForCode == HSpec => []OkStemsFromCode
<1>1. Inv => OkStemsFromCode
  BY DEF Inv
<1> QED
  BY InitInv, InvStep, <1>1, PTL DEF HSpec

\* A partly typed code never outlives the reset timeout (Piano_t::ITask and
\* Piano_t::CodeProcessing).
THEOREM PartialCodeIsTimed == HSpec => []PartialCodeWillBeReset
<1>1. Inv => PartialCodeWillBeReset
  BY DEF Inv
<1> QED
  BY InitInv, InvStep, <1>1, PTL DEF HSpec
-----------------------------------------------------------------------------
(* A code that is being typed.                                               *)

\* The last i keys are the beginning of the code, typed as CleanlyTyped says.
Begun(i) ==
    /\ \A m \in 1..i : /\ typed[CodeLen - i + m].key = Code[m]
                       /\ typed[CodeLen - i + m].pend = {}
    /\ \A m \in 2..i : ~typed[CodeLen - i + m].late

\* They stand at the end of the register.
Held(i) == \A m \in 1..i : comb[CodeLen - i + m] = Code[m]

\* The keys of a code that is being typed stay in the register unless the reset
\* timer expires, since the register has no other reason to be cleared: the 2 s
\* timer does not run, and its event does not wait.
BegunIsHeld ==
    \A i \in 1..(CodeLen - 1) : Begun(i) =>
        /\ Held(i) \/ lapsed
        /\ tSignal = 0 /\ "SignslOfCodeOk" \notin piPend \cup piMsk
        /\ "ResetCode" \in piPend \cup piMsk => lapsed

\* A key that goes on with a code, or begins one, is held with those before it.
LEMMA KeyIsHeld ==
    ASSUME HTypeOK, BegunIsHeld, NEW k \in Keys, HKey(k), NEW i \in 1..CodeLen, Begun(i)'
    PROVE  Held(i)' /\ piPend = {}
<1> DEFINE e == [key |-> k, late |-> lapsed, pend |-> piPend]
<1>0. CodeLen \in Nat \ {0}
  BY CodeFacts
<1>1. comb' = ShiftIn(comb, k) /\ typed' = ShiftIn(typed, e)
  BY DEF HKey, CodeProcessing
<1>2. comb'[CodeLen] = k /\ typed'[CodeLen] = e
  BY <1>1, ShiftInPlaces
<1>3. \A j \in 1..(CodeLen - 1) : comb'[j] = comb[j + 1] /\ typed'[j] = typed[j + 1]
  BY <1>0, <1>1, ShiftInPlaces DEF Positions
<1> HIDE DEF e
<1>4. /\ \A m \in 1..i : /\ typed'[CodeLen - i + m].key = Code[m]
                         /\ typed'[CodeLen - i + m].pend = {}
      /\ \A m \in 2..i : ~typed'[CodeLen - i + m].late
  BY DEF Begun, CodeLen
<1>5. k = Code[i] /\ piPend = {}
  <2>1. CodeLen - i + i = CodeLen /\ i \in 1..i
    BY <1>0
  <2> QED BY <1>2, <1>4, <2>1 DEF e
<1>6. ASSUME NEW m \in 1..i PROVE comb'[CodeLen - i + m] = Code[m]
  <2>1. CASE m = i
    BY <1>0, <1>2, <1>5, <2>1
  <2>2. CASE m # i
    <3> DEFINE h == i - 1
    <3>0. h \in 1..(CodeLen - 1) /\ m \in 1..h /\ i \in 2..i
      BY <1>0, <2>2
    <3>1. ASSUME NEW n \in 1..h
          PROVE  /\ comb'[CodeLen - i + n] = comb[CodeLen - h + n]
                 /\ typed'[CodeLen - i + n] = typed[CodeLen - h + n]
      <4>1. CodeLen - i + n \in 1..(CodeLen - 1) /\ CodeLen - i + n + 1 = CodeLen - h + n
        BY <1>0, <3>0
      <4> QED BY <1>3, <4>1
    <3>2. Begun(h)
      <4>1. ASSUME NEW n \in 1..h
            PROVE  /\ typed[CodeLen - h + n].key = Code[n]
                   /\ typed[CodeLen - h + n].pend = {}
                   /\ n \in 2..h => ~typed[CodeLen - h + n].late
        <5>1. n \in 1..i /\ (n \in 2..h => n \in 2..i)
          BY <1>0
        <5> QED BY <1>4, <3>1, <5>1
      <4> QED BY <4>1 DEF Begun
    <3>3. ~lapsed
      <4>1. CodeLen - i + i = CodeLen
        BY <1>0
      <4> QED BY <1>2, <1>4, <3>0, <4>1 DEF e
    <3>4. Held(h)
      BY <3>0, <3>2, <3>3 DEF BegunIsHeld
    <3> QED BY <3>0, <3>1, <3>4 DEF Held
  <2> QED BY <2>1, <2>2
<1> QED BY <1>5, <1>6 DEF Held, CodeLen

LEMMA HeldInit == HInit => BegunIsHeld
<1> SUFFICES ASSUME HInit, NEW i \in 1..(CodeLen - 1), Begun(i) PROVE FALSE
  BY DEF BegunIsHeld
<1>1. CodeLen - i + 1 \in Positions /\ 1 \in 1..i /\ 1 \in Positions
  BY CodeFacts DEF Positions
<1>2. typed[CodeLen - i + 1].key = 0
  BY <1>1 DEF HInit, NoEntry
<1> QED BY <1>1, <1>2, CodeFacts DEF Begun

LEMMA HeldStep ==
    ASSUME DoesNotOverlap
    PROVE  HTypeOK /\ BegunIsHeld /\ [HNext]_hvars => BegunIsHeld'
<1> SUFFICES ASSUME HTypeOK, BegunIsHeld, [HNext]_hvars,
                    NEW i \in 1..(CodeLen - 1), Begun(i)'
             PROVE  /\ Held(i)' \/ lapsed'
                    /\ tSignal' = 0 /\ "SignslOfCodeOk" \notin piPend' \cup piMsk'
                    /\ "ResetCode" \in piPend' \cup piMsk' => lapsed'
  BY DEF BegunIsHeld, CodeLen
<1>1. ASSUME NEW k \in Keys, HKey(k)
      PROVE  Held(i)' /\ tSignal' = 0 /\ piPend' \cup piMsk' = {}
  <2>1. Held(i)' /\ piPend = {}
    BY <1>1, KeyIsHeld, CodeFacts
  <2>2. comb' # Code
    BY <2>1 DEF Held, DoesNotOverlap, CodeLen
  <2> QED BY <1>1, <2>1, <2>2 DEF HKey, CodeProcessing
\* The other steps leave the keys alone.
<1>2. CASE typed' = typed
  <2>1. /\ Held(i) \/ lapsed
        /\ tSignal = 0 /\ "SignslOfCodeOk" \notin piPend \cup piMsk
        /\ "ResetCode" \in piPend \cup piMsk => lapsed
    BY <1>2 DEF Begun, BegunIsHeld, CodeLen
  <2>2. comb' = comb => (Held(i)' <=> Held(i))
    BY DEF Held, CodeLen
  <2>3. CASE HTick
    <3>1. comb' = comb /\ tSignal' = 0 /\ "SignslOfCodeOk" \notin piPend' \cup piMsk'
      BY <2>1, <2>3 DEF HTick, Tick, TimerTick, Expires, Countdown
    <3>2. lapsed => lapsed'
      BY <2>3 DEF HTick
    <3>3. "ResetCode" \in piPend' \cup piMsk'
            => "ResetCode" \in piPend \cup piMsk \/ Expires(tReset)
      BY <2>3 DEF HTick, Tick, TimerTick
    <3>4. Expires(tReset) => lapsed'
      BY <2>3 DEF HTick
    <3> QED BY <2>1, <2>2, <3>1, <3>2, <3>3, <3>4
  <2>4. CASE Wake /\ UNCHANGED historyVars
    BY <2>1, <2>2, <2>4 DEF Wake, PianoWakes, historyVars
  <2>5. CASE Handle /\ UNCHANGED historyVars
    <3>1. "ResetCode" \in piMsk
      BY <2>1, <2>5 DEF HTypeOK, TypeOK, PianoEvents, Handle, PianoLoopBody
    <3> QED BY <2>1, <2>5, <3>1 DEF Handle, PianoLoopBody, historyVars
  <2>6. CASE (AppTakes \/ AppSignals) /\ UNCHANGED historyVars
    BY <2>1, <2>2, <2>6 DEF AppTakes, AppSignals, codeVars, historyVars
  <2>7. CASE UNCHANGED hvars
    BY <2>1, <2>2, <2>7 DEF hvars, vars, codeVars, historyVars
  <2>8. ASSUME NEW k \in Keys, HKey(k)
        PROVE  Held(i)' /\ tSignal' = 0 /\ piPend' \cup piMsk' = {}
    BY <2>8, <1>1
  <2> QED BY <2>3, <2>4, <2>5, <2>6, <2>7, <2>8 DEF HNext
<1>3. CASE typed' # typed
  BY <1>1, <1>3 DEF HNext, HTick, historyVars, hvars
<1> QED BY <1>2, <1>3

\* A code that does not overlap itself is never missed on a settled lock: no
\* clearing of the register comes between its keys (CodeProcessing, ITask).
THEOREM TypedCodeIsNotMissed ==
    ASSUME DoesNotOverlap
    PROVE  HSpec => TypedCodeArms
<1> DEFINE Arms == typed' # typed /\ CleanlyTyped(typed') => tSignal' = SignalTicks
<1>1. HTypeOK /\ HTypeOK' /\ BegunIsHeld /\ [HNext]_hvars => Arms
  <2> SUFFICES ASSUME HTypeOK, HTypeOK', BegunIsHeld, [HNext]_hvars,
                      typed' # typed, CleanlyTyped(typed')
               PROVE  tSignal' = SignalTicks
    OBVIOUS
  <2>1. PICK k \in Keys : HKey(k)
    BY DEF HNext, HTick, historyVars, hvars
  <2>2. CodeLen \in 1..CodeLen /\ \A m \in 1..CodeLen : CodeLen - CodeLen + m = m
    BY CodeFacts
  <2>3. Begun(CodeLen)'
    BY <2>2 DEF Begun, CleanlyTyped, CodeLen, Positions
  <2>4. Held(CodeLen)'
    BY <2>1, <2>2, <2>3, KeyIsHeld
  <2>5. \A m \in Positions : comb'[m] = Code[m]
    BY <2>2, <2>4 DEF Held, CodeLen, Positions
  <2>6. comb' = Code
    <3>1. comb' \in [Positions -> Nibbles]
      BY DEF HTypeOK, TypeOK, Positions, Nibbles, CodeLen
    <3> QED BY <2>5, <3>1, CodeFacts
  <2> QED BY <2>1, <2>6 DEF HKey, CodeProcessing
<1>2. HTypeOK /\ HTypeOK' /\ BegunIsHeld /\ [HNext]_hvars => [Arms]_hvars
  BY <1>1
<1> QED
  BY <1>2, HeldInit, HeldStep, TypeCorrect, PTL DEF HSpec, TypedCodeArms
=============================================================================
