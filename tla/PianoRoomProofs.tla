--------------------------- MODULE PianoRoomProofs ---------------------------
(***************************************************************************)
(* What the piano room, the code lock in it and the operator's button      *)
(* promise, for every set of keys and commands, every code and every       *)
(* length of the timeouts, sleeps and delays.                              *)
(***************************************************************************)
EXTENDS PianoRoom, Buttons, SequenceTheorems, TLAPS

-----------------------------------------------------------------------------
(* The room.                                                                 *)

UsbEdges == {"UsbConnected", "UsbDisconnected"}

\* App runs exactly when it has the processor, it waits with no event left, and
\* it sleeps for the USB on behalf of a connection.
AppInTurn ==
    /\ cpu = "App" <=> appPc = "run"
    /\ appPc = "wait" => appMsk = {}
    /\ appPc = "usbSleep" => "UsbConnected" \in appMsk

\* The state App came from holds during its sleep, since only App itself can end
\* the game; and the song is over when the players begin to play.
SongFollowsGame ==
    /\ appPc = "codeSleep" /\ okFrom = "psMelodyPlaying" => State = "psMelodyPlaying"
    /\ State = "psMelodyPlaying" => file # "song"

\* E holds the last edge of the 5 V pin and no other one.
OnlyLastEdge(E) ==
    /\ "UsbConnected" \in E => power
    /\ "UsbDisconnected" \in E => ~power

\* The last edge of the 5 V pin is pending, or being handled, or done.
EdgesInOrder ==
    ~overlap =>
        /\ OnlyLastEdge(appPend)
        /\ appPend \cap UsbEdges = {} =>
              /\ OnlyLastEdge(appMsk)
              /\ appMsk \cap UsbEdges = {} => usbOn = power

\* The inductive invariant.
RoomInv ==
    /\ TypeOK
    /\ OutputsMatchState
    /\ KeysSoundOnPiano
    /\ SongOnCupboard
    /\ AppInTurn
    /\ SongFollowsGame
    /\ EdgesInOrder

LEMMA RoomInit == Init => RoomInv
<1> SUFFICES ASSUME Init PROVE RoomInv
  OBVIOUS
<1> USE DEF Init
<1>1. power \in BOOLEAN /\ appPend \subseteq AppEvents
  BY PowerAssumption DEF AppEvents
<1>2. sleepLeft \in 0..SleepTicks
  BY SleepAssumption
<1>3. TypeOK
  BY <1>1, <1>2 DEF TypeOK, States, Channels, Files
<1>4. AppInTurn /\ SongFollowsGame /\ EdgesInOrder
  BY <1>1 DEF AppInTurn, SongFollowsGame, EdgesInOrder, OnlyLastEdge, UsbEdges
<1> QED
  BY <1>3, <1>4 DEF RoomInv, OutputsMatchState, KeysSoundOnPiano, SongOnCupboard

\* The types survive every step.
LEMMA RoomTypeStep == TypeOK /\ [Next]_vars => TypeOK'
<1> SUFFICES ASSUME TypeOK, [Next]_vars PROVE TypeOK'
  OBVIOUS
<1> USE SleepAssumption
    DEF TypeOK, AppEvents, States, Channels, Files
<1> USE DEF lockVars, soundVars, roomVars, usbVars, appVars
<1>1. ASSUME NEW pressed \in SUBSET Keys, SnsPoll(pressed) PROVE TypeOK'
  BY <1>1 DEF SnsPoll
<1>2. CASE SnsKey
  <2>1. /\ falling' \subseteq falling
        /\ cpu' \in {"none", "Sensors"} /\ file' = "key"
        /\ UNCHANGED <<appPend, appVars, btnQ, usbVars, cupboardOpen, backlight,
                       okFrom>>
    BY <1>2 DEF SnsKey, Play
  <2>2. /\ State' \in States /\ CommonLightON' \in BOOLEAN
        /\ channel' \in Channels /\ volume' \in Channels
    BY <1>2 DEF SnsKey, SwitchToPiano, ONChannelOnly, SetVolume
  <2> QED
    BY <2>1, <2>2
<1>3. ASSUME NEW e \in ButtonEvents, SnsButton(e) PROVE TypeOK'
  BY <1>3 DEF SnsButton
<1>4. CASE SnsPower
  BY <1>4, PowerAssumption DEF SnsPower
<1>5. CASE UartCmd
  BY <1>5 DEF UartCmd
<1>6. CASE PianoWakes
  BY <1>6 DEF PianoWakes
<1>7. CASE PianoHandles
  BY <1>7 DEF PianoHandles
<1>8. CASE PianoWaits
  BY <1>8 DEF PianoWaits
<1>9. CASE AppWaits
  BY <1>9 DEF AppWaits
<1>10. CASE AppCodeOk
  BY <1>10 DEF AppCodeOk, FallAsleep, ONChannelOnly
<1>11. CASE AppButtons
  <2>1. /\ State' \in States /\ CommonLightON' \in BOOLEAN
        /\ cupboardOpen' \in BOOLEAN /\ backlight' \in BOOLEAN
    BY <1>11 DEF AppButtons, Click, DefaultState
  <2>2. /\ appMsk' \subseteq AppEvents /\ appPend' \subseteq AppEvents
        /\ btnQ' = "empty"
        /\ UNCHANGED <<cpu, falling, appPc, sleepLeft, usbVars, soundVars, okFrom>>
    BY <1>11 DEF AppButtons, Leave
  <2> QED
    BY <2>1, <2>2
<1>12. CASE AppUsbConnected
  BY <1>12 DEF AppUsbConnected, FallAsleep, StopSound
<1>13. CASE AppUsbDisconnected
  <2>1. /\ appMsk' \subseteq AppEvents /\ usbOn' \in BOOLEAN
        /\ UNCHANGED <<cpu, falling, appPend, appPc, sleepLeft, btnQ, power,
                       overlap, roomVars, soundVars, okFrom>>
    BY <1>13 DEF AppUsbDisconnected, Leave
  <2> QED
    BY <2>1
<1>14. CASE AppCmdPlay
  BY <1>14 DEF AppCmdPlay, FallAsleep
<1>15. ASSUME NEW c \in Commands, AppCmd(c) PROVE TypeOK'
  BY <1>15 DEF AppCmd, Leave
<1>16. CASE AppWakes
  BY <1>16 DEF AppWakes
<1>17. CASE AppOpens
  BY <1>17 DEF AppOpens, WakeFrom, Leave, Play, SetVolume, OpenCupboard
<1>18. CASE AppUsbConnect
  BY <1>18 DEF AppUsbConnect, WakeFrom, Leave
<1>19. CASE AppPlays
  BY <1>19 DEF AppPlays, WakeFrom, Leave, Play
<1>20. CASE Tick
  BY <1>20 DEF Tick, Lock!Countdown
<1>21. CASE UNCHANGED vars
  BY <1>21 DEF vars
<1> QED
  BY <1>1, <1>2, <1>3, <1>4, <1>5, <1>6, <1>7, <1>8, <1>9, <1>10, <1>11, <1>12, 
     <1>13, <1>14, <1>15, <1>16, <1>17, <1>18, <1>19, <1>20, <1>21
     DEF Next, Sensors, PianoThread, AppRuns, AppResumes

LEMMA RoomStep == RoomInv /\ [Next]_vars => RoomInv'
<1> SUFFICES ASSUME RoomInv, [Next]_vars PROVE RoomInv'
  OBVIOUS
<1>0. TypeOK'
  BY RoomTypeStep DEF RoomInv
<1> USE <1>0 DEF RoomInv
<1> USE DEF lockVars, soundVars, roomVars, usbVars, appVars
<1> USE DEF OutputsMatchState, KeysSoundOnPiano, SongOnCupboard, AppInTurn,
        SongFollowsGame, EdgesInOrder, OnlyLastEdge, UsbEdges
<1>1. ASSUME NEW pressed \in SUBSET Keys, SnsPoll(pressed) PROVE RoomInv'
  BY <1>1 DEF SnsPoll
<1>2. CASE SnsKey
  BY <1>2 DEF SnsKey, SwitchToPiano, ONChannelOnly, SetVolume, Play, TypeOK, States
<1>3. ASSUME NEW e \in ButtonEvents, SnsButton(e) PROVE RoomInv'
  BY <1>3 DEF SnsButton
<1>4. CASE SnsPower
  BY <1>4, PowerAssumption DEF SnsPower, TypeOK
<1>5. CASE UartCmd
  BY <1>5 DEF UartCmd
<1>6. CASE PianoThread
  BY <1>6 DEF PianoThread, PianoWakes, PianoHandles, PianoWaits
<1>7. CASE AppWaits
  BY <1>7 DEF AppWaits
<1>8. CASE AppCodeOk
  BY <1>8 DEF AppCodeOk, FallAsleep, ONChannelOnly, AppAt
<1>9. CASE AppButtons
  BY <1>9 DEF AppButtons, Click, DefaultState, Leave, AppAt
<1>10. CASE AppUsbConnected
  BY <1>10 DEF AppUsbConnected, FallAsleep, StopSound, AppAt
<1>11. CASE AppUsbDisconnected
  BY <1>11 DEF AppUsbDisconnected, Leave, AppAt, TypeOK
<1>12. CASE AppCmdPlay
  BY <1>12 DEF AppCmdPlay, FallAsleep, AppAt
<1>13. ASSUME NEW c \in Commands, AppCmd(c) PROVE RoomInv'
  BY <1>13 DEF AppCmd, Leave, AppAt
<1>14. CASE AppWakes
  BY <1>14 DEF AppWakes
<1>15. CASE AppUsbConnect
  BY <1>15 DEF AppUsbConnect, WakeFrom, Leave, TypeOK
<1>16. CASE AppPlays
  BY <1>16 DEF AppPlays, WakeFrom, Leave, Play
<1>17. CASE AppOpens
  BY <1>17 DEF AppOpens, WakeFrom, Leave, Play, SetVolume, OpenCupboard
<1>18. CASE Tick
  BY <1>18 DEF Tick
<1>19. CASE UNCHANGED vars
  BY <1>19 DEF vars, TypeOK
<1> QED
  BY <1>1, <1>2, <1>3, <1>4, <1>5, <1>6, <1>7, <1>8, <1>9, <1>10, <1>11, <1>12,
     <1>13, <1>14, <1>15, <1>16, <1>17, <1>18, <1>19
     DEF Next, Sensors, AppRuns, AppResumes

\* The room's variables keep their types (main.cpp, Piano.h, buttons.h).
THEOREM RoomTypeCorrect == Spec => []TypeOK
<1>1. RoomInv => TypeOK
  BY DEF RoomInv
<1> QED
  BY RoomInit, RoomStep, <1>1, PTL DEF Spec

\* Lock, backlight and light agree with the state of the game (OpenCupboard,
\* DefaultState, ProcessKeySens, BtnHandler).
THEOREM OutputsFollowState == Spec => []OutputsMatchState
<1>1. RoomInv => OutputsMatchState
  BY DEF RoomInv
<1> QED
  BY RoomInit, RoomStep, <1>1, PTL DEF Spec

\* While the players play, the keys sound from the piano (ProcessKeySens).
THEOREM KeysFromPiano == Spec => []KeysSoundOnPiano
<1>1. RoomInv => KeysSoundOnPiano
  BY DEF RoomInv
<1> QED
  BY RoomInit, RoomStep, <1>1, PTL DEF Spec

\* The song that rewards the players comes from the cupboard, whichever keys are
\* pressed in the 500 ms before it (App_t::ITask l. 177-184).
THEOREM SongFromCupboard == Spec => []SongOnCupboard
<1>1. RoomInv => SongOnCupboard
  BY DEF RoomInv
<1> QED
  BY RoomInit, RoomStep, <1>1, PTL DEF Spec

\* Lock, lights, channel and song stay those of the game (App_t::ITask,
\* ProcessKeySens, BtnHandler).
THEOREM OutputsAreTheGames == Spec => []OutputsFollowGame
<1>1. RoomInv => OutputsFollowGame
  BY DEF RoomInv, OutputsFollowGame
<1> QED
  BY RoomInit, RoomStep, <1>1, PTL DEF Spec

\* The USB side follows the 5 V, whatever keeps App busy (main.cpp l. 195-214).
THEOREM UsbIsAsPower == Spec => []UsbFollowsPower
<1>1. RoomInv => UsbFollowsPower
  BY DEF RoomInv, AppInTurn, EdgesInOrder, UsbFollowsPower, UsbEdges
<1> QED
  BY RoomInit, RoomStep, <1>1, PTL DEF Spec

-----------------------------------------------------------------------------
(* The room's lock is the lock.                                              *)

\* Every step of the room is a step of the lock or leaves it alone: the keys of one poll,
\* the passes of the Piano thread and the ticks are its own, and all that App, the
\* operator and the UART do to its event is what PianoCode allows App.
LEMMA LockStep == TypeOK /\ [Next]_vars => [Lock!Next]_(Lock!vars)
<1> SUFFICES ASSUME TypeOK, [Next]_vars PROVE [Lock!Next]_(Lock!vars)
  OBVIOUS
<1> DEFINE ok == appPend \cap {"PianoCodeOk"}
<1>1. CASE SnsKey
  <2>1. PICK k \in Keys : Lock!CodeProcessing(k)
    BY <1>1 DEF SnsKey, TypeOK
  <2>2. ok' = ok
    BY <1>1 DEF SnsKey
  <2> QED
    BY <2>1, <2>2 DEF Lock!Next, Lock!KeyTyped
<1>2. CASE PianoHandles
  <2>1. Lock!PianoLoopBody /\ ok' = IF Lock!SignalsCodeOk THEN ok \cup {"PianoCodeOk"} ELSE ok
    BY <1>2 DEF PianoHandles
  <2> QED
    BY <2>1 DEF Lock!Next, Lock!Handle
<1>3. CASE PianoWakes
  <2>1. Lock!PianoWakes /\ ok' = ok
    BY <1>3 DEF PianoWakes
  <2> QED
    BY <2>1 DEF Lock!Next, Lock!Wake
<1>4. CASE Tick
  <2>1. Lock!TimerTick /\ ok' = ok
    BY <1>4 DEF Tick
  <2> QED
    BY <2>1 DEF Lock!Next, Lock!Tick
<1>5. CASE lockVars' = lockVars
  <2>1. UNCHANGED Lock!codeVars
    BY <1>5 DEF Lock!codeVars, lockVars
  <2>2. ok' = ok \/ (ok # {} /\ ok' = {}) \/ ok' = {"PianoCodeOk"}
    OBVIOUS
  <2>3. CASE ok' = ok
    BY <2>1, <2>3 DEF Lock!vars
  <2>4. CASE ok # {} /\ ok' = {}
    BY <2>1, <2>4 DEF Lock!Next, Lock!AppTakes
  <2>5. CASE ok' = {"PianoCodeOk"}
    BY <2>1, <2>5 DEF Lock!Next, Lock!AppSignals
  <2> QED
    BY <2>2, <2>3, <2>4, <2>5
<1>6. SnsKey \/ PianoHandles \/ PianoWakes \/ Tick \/ lockVars' = lockVars
  <2>1. CASE Sensors
    BY <2>1 DEF Sensors, SnsPoll, SnsButton, SnsPower
  <2>2. CASE UartCmd
    BY <2>2 DEF UartCmd
  <2>3. CASE PianoThread
    BY <2>3 DEF PianoThread, PianoWaits
  <2>4. CASE AppRuns
    BY <2>4 DEF AppRuns, AppWaits, AppCodeOk, AppButtons, AppUsbConnected, AppUsbDisconnected,
       AppCmdPlay, AppCmd
  <2>5. CASE AppResumes
    BY <2>5 DEF AppResumes, AppWakes, AppOpens, AppUsbConnect, AppPlays
  <2>6. CASE UNCHANGED vars
    BY <2>6 DEF vars
  <2> QED
    BY <2>1, <2>2, <2>3, <2>4, <2>5, <2>6 DEF Next
<1> QED
  BY <1>1, <1>2, <1>3, <1>4, <1>5, <1>6

\* In the room the code lock behaves as PianoCode says (LockBehaves without fairness):
\* neither the sensors' poll nor App's work, the operator or the UART disturb it.
THEOREM LockIsSafe == Spec => Lock!Init /\ [][Lock!Next]_(Lock!vars)
<1>1. Init => Lock!Init
  BY DEF Init, Lock!Init
<1>2. RoomInv => TypeOK
  BY DEF RoomInv
<1> QED
  BY RoomInit, RoomStep, LockStep, <1>1, <1>2, PTL DEF Spec

LEMMA LockTimedStep ==
    Lock!TypeOK /\ Lock!PartialCodeWillBeReset /\ [Lock!Next]_(Lock!vars)
        => Lock!TypeOK' /\ Lock!PartialCodeWillBeReset'
<1> SUFFICES ASSUME Lock!TypeOK, Lock!PartialCodeWillBeReset, [Lock!Next]_(Lock!vars)
             PROVE  Lock!TypeOK' /\ Lock!PartialCodeWillBeReset'
  OBVIOUS
<1> USE LockAssumption DEF Lock!TypeOK, Lock!PartialCodeWillBeReset
<1>1. ASSUME NEW k \in Keys, Lock!CodeProcessing(k), UNCHANGED (appPend \cap {"PianoCodeOk"})
      PROVE  Lock!TypeOK' /\ Lock!PartialCodeWillBeReset'
  <2>1. comb' \in [Lock!Positions -> Lock!Nibbles]
    BY <1>1 DEF Lock!CodeProcessing, Lock!ShiftIn, Lock!Positions, Lock!CodeLen, Lock!Nibbles
  <2> QED
    BY <1>1, <2>1 DEF Lock!CodeProcessing
<1>2. CASE Lock!Tick
  BY <1>2 DEF Lock!Tick, Lock!TimerTick, Lock!Countdown, Lock!Expires, Lock!PianoEvents
<1>3. CASE Lock!Wake
  BY <1>3 DEF Lock!Wake, Lock!PianoWakes
<1>4. CASE Lock!Handle
  <2>1. comb' = Lock!Cleared /\ Lock!Cleared' = Lock!Cleared
    BY <1>4 DEF Lock!Handle, Lock!PianoLoopBody, Lock!Cleared
  <2>2. comb' \in [Lock!Positions -> Lock!Nibbles]
    BY <2>1 DEF Lock!Cleared, Lock!Nibbles
  <2> QED
    BY <1>4, <2>1, <2>2 DEF Lock!Handle, Lock!PianoLoopBody, Lock!SignalsCodeOk
<1>5. CASE Lock!AppTakes \/ Lock!AppSignals
  BY <1>5 DEF Lock!AppTakes, Lock!AppSignals, Lock!codeVars
<1>6. CASE UNCHANGED Lock!vars
  BY <1>6 DEF Lock!vars, Lock!codeVars
<1> QED
  BY <1>1, <1>2, <1>3, <1>4, <1>5, <1>6 DEF Lock!Next, Lock!KeyTyped

\* So in the room too a partly typed code never outlives the reset timeout.
THEOREM RoomCodeIsTimed == Spec => []Lock!PartialCodeWillBeReset
<1>1. Lock!Init => Lock!TypeOK /\ Lock!PartialCodeWillBeReset
  <2> SUFFICES ASSUME Lock!Init PROVE Lock!TypeOK /\ Lock!PartialCodeWillBeReset
    OBVIOUS
  <2>1. comb = Lock!Cleared /\ comb \in [Lock!Positions -> Lock!Nibbles]
    BY DEF Lock!Init, Lock!CodeInit, Lock!Cleared, Lock!Nibbles
  <2> QED
    BY <2>1, LockAssumption DEF Lock!Init, Lock!CodeInit, Lock!TypeOK,
       Lock!PartialCodeWillBeReset
<1> QED
  BY LockIsSafe, LockTimedStep, <1>1, PTL

-----------------------------------------------------------------------------
(* The button.                                                               *)

\* The time since a press, which both timers tell.
TimersAgree == sinceClick = sinceLong

\* The events of a press that is still held: the long press comes with its time.
RowSoFar ==
    IF IsLongPress THEN <<"beShortPress", "beLongPress">> ELSE <<"beShortPress">>

\* What a press that began before the first poll has emitted.
BootRow == IF IsLongPress THEN <<"beLongPress">> ELSE <<>>

HeldDown == pin \in {"pssFalling", "pssLo"}

\* While the button is down the row is the one of its flag; afterwards it is ended.
RowOfPress ==
    /\ HeldDown /\ bootHeld => emitted = BootRow
    /\ HeldDown /\ ~bootHeld => emitted = RowSoFar
    /\ IsLongPress /\ HeldDown => sinceLong = LongPressDelay
    /\ ~HeldDown /\ bootHeld =>
           emitted \in {<<>>, <<"beClick">>, <<"beRelease">>, <<"beLongPress", "beRelease">>}
    /\ ~HeldDown /\ ~bootHeld => emitted \in Rows
    /\ pin = "pssNone" => bootHeld /\ emitted = <<>> /\ ~IsLongPress

\* The inductive invariant.
RowInv == BtnTypeOK /\ TimersAgree /\ RowOfPress

LEMMA ElapsedType ==
    ASSUME NEW n \in 0..LongPressDelay, NEW p \in Periods
    PROVE  /\ Elapsed(n, p) \in 0..LongPressDelay
           /\ n = LongPressDelay => Elapsed(n, p) = LongPressDelay
  BY DelayAssumption DEF Elapsed

\* The rows that the steps make, element by element.
LEMMA AppendToOne ==
    ASSUME NEW a \in BtnEvts, NEW b \in BtnEvts
    PROVE  Append(<<a>>, b) = <<a, b>>
<1> DEFINE s == Append(<<a>>, b)
           t == <<a, b>>
<1>1. s \in Seq(BtnEvts) /\ t \in Seq(BtnEvts) /\ Len(s) = 2 /\ Len(t) = 2
  OBVIOUS
<1>2. s[1] = a /\ t[1] = a /\ s[2] = b /\ t[2] = b
  OBVIOUS
<1> HIDE DEF s, t
<1>3. s = t
  BY <1>1, <1>2, SeqEqual, SMT
<1> QED
  BY <1>3 DEF s, t

LEMMA AppendToTwo ==
    ASSUME NEW a \in BtnEvts, NEW b \in BtnEvts, NEW c \in BtnEvts
    PROVE  Append(<<a, b>>, c) = <<a, b, c>>
<1> DEFINE s == Append(<<a, b>>, c)
           t == <<a, b, c>>
<1>1. s \in Seq(BtnEvts) /\ t \in Seq(BtnEvts) /\ Len(s) = 3 /\ Len(t) = 3
  OBVIOUS
<1>2. s[1] = a /\ t[1] = a /\ s[2] = b /\ t[2] = b /\ s[3] = c /\ t[3] = c
  OBVIOUS
<1> HIDE DEF s, t
<1>3. s = t
  BY <1>1, <1>2, SeqEqual, SMT
<1> QED
  BY <1>3 DEF s, t

LEMMA OneAndOne ==
    ASSUME NEW a \in BtnEvts, NEW b \in BtnEvts
    PROVE  <<a>> \o <<b>> = <<a, b>>
<1> DEFINE s == <<a>> \o <<b>>
           t == <<a, b>>
<1>1. s \in Seq(BtnEvts) /\ t \in Seq(BtnEvts) /\ Len(s) = 2 /\ Len(t) = 2
  OBVIOUS
<1>2. s[1] = a /\ t[1] = a /\ s[2] = b /\ t[2] = b
  OBVIOUS
<1> HIDE DEF s, t
<1>3. s = t
  BY <1>1, <1>2, SeqEqual, SMT
<1> QED
  BY <1>3 DEF s, t

LEMMA OneAndTwo ==
    ASSUME NEW a \in BtnEvts, NEW b \in BtnEvts, NEW c \in BtnEvts
    PROVE  <<a>> \o <<b, c>> = <<a, b, c>>
<1> DEFINE s == <<a>> \o <<b, c>>
           t == <<a, b, c>>
<1>1. s \in Seq(BtnEvts) /\ t \in Seq(BtnEvts) /\ Len(s) = 3 /\ Len(t) = 3
  OBVIOUS
<1>2. s[1] = a /\ t[1] = a /\ s[2] = b /\ t[2] = b /\ s[3] = c /\ t[3] = c
  OBVIOUS
<1> HIDE DEF s, t
<1>3. s = t
  BY <1>1, <1>2, SeqEqual, SMT
<1> QED
  BY <1>3 DEF s, t

LEMMA FirstOfThree ==
    ASSUME NEW a \in BtnEvts, NEW b \in BtnEvts, NEW c \in BtnEvts
    PROVE  SubSeq(<<a, b, c>>, 1, 1) = <<a>>
<1> DEFINE s == SubSeq(<<a, b, c>>, 1, 1)
           t == <<a>>
<1>1. s \in Seq(BtnEvts) /\ t \in Seq(BtnEvts) /\ Len(s) = 1 /\ Len(t) = 1
  OBVIOUS
<1>2. s[1] = a /\ t[1] = a
  OBVIOUS
<1> HIDE DEF s, t
<1>3. s = t
  BY <1>1, <1>2, SeqEqual, SMT
<1> QED
  BY <1>3 DEF s, t

LEMMA TwoOfThree ==
    ASSUME NEW a \in BtnEvts, NEW b \in BtnEvts, NEW c \in BtnEvts
    PROVE  SubSeq(<<a, b, c>>, 1, 2) = <<a, b>>
<1> DEFINE s == SubSeq(<<a, b, c>>, 1, 2)
           t == <<a, b>>
<1>1. s \in Seq(BtnEvts) /\ t \in Seq(BtnEvts) /\ Len(s) = 2 /\ Len(t) = 2
  OBVIOUS
<1>2. s[1] = a /\ t[1] = a /\ s[2] = b /\ t[2] = b
  OBVIOUS
<1> HIDE DEF s, t
<1>3. s = t
  BY <1>1, <1>2, SeqEqual, SMT
<1> QED
  BY <1>3 DEF s, t

LEMMA QueueType ==
    ASSUME BtnTypeOK, NEW e \in BtnEvts, AddEvtToQueue(e)
    PROVE  /\ EvtBuf' \in Seq(BtnEvts) /\ Len(EvtBuf') <= QueueLen
           /\ evtPend' \in BOOLEAN /\ lost' \in BOOLEAN
<1>1. CASE Len(EvtBuf) < QueueLen
  <2>1. EvtBuf' = Append(EvtBuf, e)
    BY <1>1 DEF AddEvtToQueue
  <2>2. EvtBuf' \in Seq(BtnEvts) /\ Len(EvtBuf') = Len(EvtBuf) + 1
    BY <2>1 DEF BtnTypeOK
  <2> QED
    BY <1>1, <2>2, DelayAssumption DEF BtnTypeOK, AddEvtToQueue
<1>2. CASE ~(Len(EvtBuf) < QueueLen)
  BY <1>2 DEF BtnTypeOK, AddEvtToQueue
<1> QED
  BY <1>1, <1>2

LEMMA RowInit == BtnInit => RowInv
<1>1. ASSUME BtnInit PROVE BtnTypeOK
  <2>1. sinceClick \in 0..LongPressDelay /\ sinceLong \in 0..LongPressDelay
    BY <1>1, DelayAssumption DEF BtnInit
  <2>2. EvtBuf \in Seq(BtnEvts)
    BY <1>1 DEF BtnInit
  <2>3. Len(EvtBuf) <= QueueLen
    BY <1>1, DelayAssumption DEF BtnInit
  <2>4. pin \in PinSnsStates /\ app \in {"waits", "sleeps"}
    BY <1>1 DEF BtnInit, PinSnsStates
  <2> QED
    BY <1>1, <2>1, <2>2, <2>3, <2>4 DEF BtnInit, BtnTypeOK
<1>2. BtnInit => TimersAgree /\ RowOfPress
  BY DEF BtnInit, TimersAgree, RowOfPress, HeldDown
<1> QED
  BY <1>1, <1>2 DEF RowInv

LEMMA PollStep ==
    ASSUME RowInv, NEW hi \in BOOLEAN, NEW period \in Periods, Poll(hi, period)
    PROVE  RowInv'
<1> USE DEF RowInv, TimersAgree
<1>0. /\ pin' = StateOf(hi) /\ UNCHANGED app
      /\ Elapsed(sinceClick, period) \in 0..LongPressDelay
      /\ Elapsed(sinceLong, period) \in 0..LongPressDelay
      /\ sinceLong = LongPressDelay => Elapsed(sinceLong, period) = LongPressDelay
  BY ElapsedType DEF Poll, BtnTypeOK
<1>1. CASE Pressed
  <2>1. pin \in {"pssHi", "pssRising"}
    BY <1>0, <1>1 DEF Pressed, StateOf
  <2>2. BtnTypeOK'
    <3>1. /\ EvtBuf' \in Seq(BtnEvts) /\ Len(EvtBuf') <= QueueLen
          /\ evtPend' \in BOOLEAN /\ lost' \in BOOLEAN
      BY <1>1, QueueType DEF Pressed, BtnEvts
    <3>2. sinceClick' \in 0..LongPressDelay /\ sinceLong' \in 0..LongPressDelay
      BY <1>1, DelayAssumption DEF Pressed
    <3>3. pin' \in PinSnsStates /\ app' \in {"waits", "sleeps"}
      BY <1>0, <1>1 DEF Pressed, PinSnsStates, BtnTypeOK
    <3> QED
      BY <1>1, <3>1, <3>2, <3>3 DEF Pressed, BtnTypeOK
  <2>3. RowOfPress'
    BY <1>1 DEF Pressed, RowOfPress, HeldDown, RowSoFar, AddEvtToQueue
  <2> QED
    BY <1>1, <2>2, <2>3 DEF Pressed
<1>2. CASE Released(period)
  <2>1. HeldDown
    BY <1>0, <1>2 DEF Released, StateOf, HeldDown, BtnTypeOK, PinSnsStates
  <2>2. ReleaseEvent(Elapsed(sinceClick, period)) \in {"beClick", "beRelease"}
    BY DEF ReleaseEvent
  <2>3. BtnTypeOK'
    BY <1>0, <1>2, <2>2, QueueType DEF Released, BtnTypeOK, PinSnsStates, BtnEvts
  <2>4. IsLongPress => ReleaseEvent(Elapsed(sinceClick, period)) = "beRelease"
    BY <1>0, <2>1, DelayAssumption DEF ReleaseEvent, RowOfPress
  <2>5. emitted' = Append(emitted, ReleaseEvent(Elapsed(sinceClick, period)))
    BY <1>2, <2>2 DEF Released, AddEvtToQueue
  <2>6. RowOfPress'
    <3> DEFINE e == ReleaseEvent(Elapsed(sinceClick, period))
    <3>1. pin' = "pssRising" /\ bootHeld' = bootHeld /\ ~HeldDown'
      BY <1>2 DEF Released, HeldDown
    <3>2. /\ Append(<<>>, e) = <<e>>
          /\ Append(<<"beShortPress">>, e) = <<"beShortPress", e>>
          /\ Append(<<"beLongPress">>, e) = <<"beLongPress", e>>
          /\ Append(<<"beShortPress", "beLongPress">>, e)
                 = <<"beShortPress", "beLongPress", e>>
      BY <2>2, AppendToOne, AppendToTwo DEF BtnEvts
    <3> HIDE DEF e
    <3>3. e \in {"beClick", "beRelease"} /\ (IsLongPress => e = "beRelease")
      BY <2>2, <2>4 DEF e
    <3>4. emitted' = Append(emitted, e)
      BY <2>5 DEF e
    <3>5. CASE bootHeld
      <4>1. emitted = BootRow
        BY <2>1, <3>5 DEF RowOfPress
      <4>2. emitted' \in {<<>>, <<"beClick">>, <<"beRelease">>, <<"beLongPress", "beRelease">>}
        BY <3>2, <3>3, <3>4, <4>1 DEF BootRow
      <4> QED
        BY <3>1, <3>5, <4>2 DEF RowOfPress
    <3>6. CASE ~bootHeld
      <4>1. emitted = RowSoFar
        BY <2>1, <3>6 DEF RowOfPress
      <4>2. emitted' \in Rows
        BY <3>2, <3>3, <3>4, <4>1 DEF RowSoFar, Rows
      <4> QED
        BY <3>1, <3>6, <4>2 DEF RowOfPress
    <3> QED
      BY <3>5, <3>6
  <2> QED
    BY <1>2, <2>3, <2>6 DEF Released
<1>3. CASE Held(period)
  <2>1. pin \in {"pssFalling", "pssLo", "pssNone"}
    BY <1>0, <1>3 DEF Held, StateOf, BtnTypeOK, PinSnsStates
  <2>2. CASE ~IsLongPress /\ sinceLong' >= LongPressDelay
    <3>1. IsLongPress' = TRUE /\ AddEvtToQueue("beLongPress")
      BY <1>3, <2>2 DEF Held
    <3>2. BtnTypeOK'
      BY <1>0, <1>3, <3>1, QueueType DEF Held, BtnTypeOK, PinSnsStates, BtnEvts
    <3>3. emitted' = Append(emitted, "beLongPress")
      BY <3>1 DEF AddEvtToQueue
    <3>4. sinceLong' = LongPressDelay
      BY <1>0, <1>3, <2>2, DelayAssumption DEF Held
    <3>5. /\ Append(<<>>, "beLongPress") = <<"beLongPress">>
          /\ Append(<<"beShortPress">>, "beLongPress") = <<"beShortPress", "beLongPress">>
      BY AppendToOne DEF BtnEvts
    <3>6. pin' = "pssLo" /\ bootHeld' = bootHeld /\ HeldDown'
      BY <1>3 DEF Held, HeldDown
    <3>7. bootHeld => emitted' = BootRow'
      BY <2>1, <2>2, <3>1, <3>3, <3>5 DEF RowOfPress, HeldDown, BootRow
    <3>8. ~bootHeld => emitted' = RowSoFar'
      BY <2>1, <2>2, <3>1, <3>3, <3>5 DEF RowOfPress, HeldDown, RowSoFar
    <3>9. RowOfPress'
      BY <3>4, <3>6, <3>7, <3>8 DEF RowOfPress
    <3> QED
      BY <1>3, <3>2, <3>9 DEF Held
  <2>3. CASE ~(~IsLongPress /\ sinceLong' >= LongPressDelay)
    <3>1. UNCHANGED <<IsLongPress, queueVars, emitted>>
      BY <1>3, <2>3 DEF Held
    <3>2. BtnTypeOK'
      BY <1>0, <1>3, <3>1 DEF Held, BtnTypeOK, PinSnsStates, queueVars
    <3>3. RowOfPress'
      BY <1>0, <1>3, <2>1, <3>1 DEF Held, RowOfPress, HeldDown, RowSoFar, BootRow
    <3> QED
      BY <1>3, <3>2, <3>3 DEF Held
  <2> QED
    BY <2>2, <2>3
<1>4. CASE Idle(period)
  <2>1. ~HeldDown
    BY <1>0, <1>4 DEF Idle, StateOf, HeldDown
  <2>2. BtnTypeOK'
    BY <1>0, <1>4 DEF Idle, BtnTypeOK, PinSnsStates, queueVars
  <2>3. RowOfPress'
    BY <1>4, <2>1 DEF Idle, RowOfPress, HeldDown
  <2> QED
    BY <1>4, <2>2, <2>3 DEF Idle
<1> QED
  BY <1>1, <1>2, <1>3, <1>4 DEF Poll

LEMMA RowStep == RowInv /\ [BtnNext]_btnVars => RowInv'
<1> SUFFICES ASSUME RowInv, [BtnNext]_btnVars PROVE RowInv'
  OBVIOUS
<1> USE DEF RowInv, TimersAgree, RowOfPress, HeldDown, RowSoFar, BootRow, timerVars
<1>1. ASSUME NEW hi \in BOOLEAN, NEW period \in Periods, Poll(hi, period) PROVE RowInv'
  BY <1>1, PollStep
<1>2. CASE AppHandles
  <2>1. EvtBuf' \in Seq(BtnEvts) /\ Len(EvtBuf') <= QueueLen
    BY <1>2, DelayAssumption DEF AppHandles
  <2>2. UNCHANGED <<pin, sinceClick, sinceLong, IsLongPress, app, emitted, bootHeld, lost>>
        /\ evtPend' = FALSE
    BY <1>2 DEF AppHandles
  <2> QED
    BY <2>1, <2>2 DEF BtnTypeOK
<1>3. CASE AppSleeps \/ AppGoesOn
  BY <1>3 DEF AppSleeps, AppGoesOn, BtnTypeOK, queueVars
<1>4. CASE UNCHANGED btnVars
  BY <1>4 DEF btnVars, BtnTypeOK, queueVars
<1> QED
  BY <1>1, <1>2, <1>3, <1>4 DEF BtnNext

\* What a row begins with: the proof names the length of each piece.
LEMMA Begins ==
    ASSUME NEW s \in Rows \cup {<<>>, <<"beShortPress">>, <<"beShortPress", "beLongPress">>}
    PROVE  BeginsRow(s)
<1>1. CASE s \in Rows
  <2>1. Len(s) \in 0..Len(s) /\ s = SubSeq(s, 1, Len(s))
    BY <1>1 DEF Rows
  <2> QED
    BY <1>1, <2>1 DEF BeginsRow
<1>2. CASE s \notin Rows
  <2> DEFINE long == <<"beShortPress", "beLongPress", "beRelease">>
  <2>1. long \in Rows /\ Len(long) = 3
    BY DEF Rows
  <2>2. /\ SubSeq(long, 1, 0) = <<>>
        /\ SubSeq(long, 1, 1) = <<"beShortPress">>
        /\ SubSeq(long, 1, 2) = <<"beShortPress", "beLongPress">>
    BY FirstOfThree, TwoOfThree DEF BtnEvts
  <2> HIDE DEF long
  <2>3. \E n \in 0..Len(long) : s = SubSeq(long, 1, n)
    <3>1. s \in {<<>>, <<"beShortPress">>, <<"beShortPress", "beLongPress">>}
      BY <1>2
    <3>2. 0 \in 0..Len(long) /\ 1 \in 0..Len(long) /\ 2 \in 0..Len(long)
      BY <2>1
    <3> QED
      BY <2>2, <3>1, <3>2, Zenon
  <2> QED
    BY <2>1, <2>3 DEF BeginsRow
<1> QED
  BY <1>1, <1>2

\* The button's variables keep their types (buttons.cpp, SimpleSensors.cpp).
THEOREM ButtonTypes == BtnSpec => []BtnTypeOK
<1>1. RowInv => BtnTypeOK
  BY DEF RowInv
<1> QED
  BY RowInit, RowStep, <1>1, PTL DEF BtnSpec

\* One press never both ends the game and opens the cupboard, nor opens it twice
\* (ProcessButtons).
THEOREM PressesMakeRows == BtnSpec => []OneRowPerPress
<1>1. RowInv => OneRowPerPress
  <2> SUFFICES ASSUME RowInv PROVE OneRowPerPress
    OBVIOUS
  <2> DEFINE row == IF bootHeld /\ emitted # <<>> THEN <<"beShortPress">> \o emitted
                    ELSE emitted
  <2>1. row \in Rows \cup {<<>>, <<"beShortPress">>, <<"beShortPress", "beLongPress">>}
    <3>1. /\ <<"beShortPress">> \o <<"beLongPress">> = <<"beShortPress", "beLongPress">>
          /\ <<"beShortPress">> \o <<"beClick">> = <<"beShortPress", "beClick">>
          /\ <<"beShortPress">> \o <<"beRelease">> = <<"beShortPress", "beRelease">>
          /\ <<"beShortPress">> \o <<"beLongPress", "beRelease">>
                 = <<"beShortPress", "beLongPress", "beRelease">>
      BY OneAndOne, OneAndTwo DEF BtnEvts
    <3>2. CASE bootHeld
      <4>1. emitted \in {<<>>, <<"beClick">>, <<"beRelease">>, <<"beLongPress">>,
                         <<"beLongPress", "beRelease">>}
        BY <3>2 DEF RowInv, RowOfPress, BootRow
      <4> QED
        BY <3>1, <3>2, <4>1 DEF Rows
    <3>3. CASE ~bootHeld
      BY <3>3 DEF RowInv, RowOfPress, RowSoFar, Rows
    <3> QED
      BY <3>2, <3>3
  <2> HIDE DEF row
  <2>2. BeginsRow(row)
    BY <2>1, Begins
  <2> QED
    BY <2>2 DEF row, OneRowPerPress
<1> QED
  BY RowInit, RowStep, <1>1, PTL DEF BtnSpec

-----------------------------------------------------------------------------
\* A queue without an event that App is told of is empty: App empties it when it takes
\* the event (App_t::ITask, EVT_BUTTONS).
Emptied == Len(EvtBuf) \in Nat /\ (~evtPend => Len(EvtBuf) = 0)

LEMMA EmptiedStep == Emptied /\ RowInv /\ RowInv' /\ [BtnNext]_btnVars => Emptied'
<1> SUFFICES ASSUME Emptied, RowInv, RowInv', [BtnNext]_btnVars PROVE Emptied'
  OBVIOUS
<1>1. Len(EvtBuf') \in Nat
  BY DEF RowInv, BtnTypeOK
<1>2. ASSUME NEW hi \in BOOLEAN, NEW period \in Periods, Poll(hi, period) PROVE Emptied'
  BY <1>1, <1>2 DEF Poll, Pressed, Released, Held, Idle, AddEvtToQueue, queueVars, Emptied
<1>3. CASE AppHandles
  BY <1>3 DEF AppHandles, Emptied
<1>4. CASE AppSleeps \/ AppGoesOn
  BY <1>4 DEF AppSleeps, AppGoesOn, queueVars, Emptied
<1>5. CASE UNCHANGED btnVars
  BY <1>5 DEF btnVars, queueVars, Emptied
<1> QED
  BY <1>2, <1>3, <1>4, <1>5 DEF BtnNext

\* A queue of any length, of one event too, refuses none unless App sleeps in another
\* section ("No need in queue if combo not allowed", buttons.h l. 53).
THEOREM NoneIsRefused == BtnSpec => RefusedInSleep
<1>1. BtnInit => Emptied
  BY DEF BtnInit, Emptied
<1>2. Emptied /\ RowInv /\ [BtnNext]_btnVars => [lost' # lost => app = "sleeps"]_btnVars
  <2> SUFFICES ASSUME Emptied, RowInv, BtnNext, lost' # lost PROVE app = "sleeps"
    BY Zenon
  <2>1. PICK hi \in BOOLEAN, period \in Periods : Poll(hi, period)
    BY DEF BtnNext, AppHandles, AppSleeps, AppGoesOn, queueVars
  <2>2. lost' = (lost \/ Len(EvtBuf) = QueueLen) /\ lost \in BOOLEAN
    BY <2>1 DEF Poll, Pressed, Released, Held, Idle, AddEvtToQueue, queueVars, RowInv, BtnTypeOK
  <2>3. Len(EvtBuf) = QueueLen
    BY <2>2
  <2> QED
    BY <2>1, <2>3, DelayAssumption DEF Emptied, Poll
<1>3. BtnInit => RowInv
  BY RowInit
<1>4. RowInv /\ [BtnNext]_btnVars => RowInv'
  BY RowStep
<1> QED
  BY <1>1, <1>2, <1>3, <1>4, EmptiedStep, PTL DEF BtnSpec, RefusedInSleep
=============================================================================
