---------------------------- MODULE WoodmanProofs ----------------------------
(***************************************************************************)
(* The door of the Woodman room is opened by the game alone, the monologue *)
(* waits for the head, and the gesture player keeps to its tables, for all *)
(* tables of gestures, lengths of sounds, periods and sleeps.              *)
(*                                                                         *)
(* Each invariant follows what one stage of the game passes on to the next *)
(* through timers and event masks, and says of it what a reset of the room *)
(* in between takes away; the history undue holds what no reset takes      *)
(* back.                                                                   *)
(***************************************************************************)
EXTENDS Woodman, NaturalsInduction, WellFoundedInduction, TLAPS

StateNames == {"wsExpectation", "wsWoodmanActive", "wsHeartReturned",
               "wsMonologueCompleted", "wsDoorOpened"}

\* Behind the head and open, the Woodman has his heart.
HeartFirst ==
    State \in {"wsHeartReturned", "wsMonologueCompleted", "wsDoorOpened"} \/ doorOpen => heartBack

\* The sound, its end, and what comes of its end belong to a monologue of this game.
SoundIsOurs ==
    "sound" \notin undue =>
        /\ tmr["sound"] > 0 \/ "PlayEnds" \in aPend \cup aMsk => spoke
        /\ State \in {"wsMonologueCompleted", "wsDoorOpened"} \/ doorOpen => spoke

\* The handcar's signal and the order to give it come with the open door.
SignalIsOurs ==
    "signal" \notin undue => (signal \/ "SignalToHandcar" \in wPend \cup wMsk => doorOpen)

\* When the order to speak is on its way, the head's time is over and no other one can
\* begin; its time-out is one of TmrWait as set by the heart.
HeadIsUp ==
    "life" \notin undue =>
        /\ "CameToLife" \in aPend \cup aMsk =>
               tmr["wait"] = 0 /\ State \notin {"wsExpectation", "wsWoodmanActive"}
        /\ "WaitTimeOut" \in wPend \cup wMsk /\ State = "wsHeartReturned" => tmr["wait"] = 0

-----------------------------------------------------------------------------
(* The order of the states and of the ifs.                                   *)

\* The comparison State < wsHeartReturned (Woodman.cpp l. 53).
LEMMA BeforeHeart ==
    ASSUME NEW s \in StateNames
    PROVE  Rank(s) < Rank("wsHeartReturned") <=> s \in {"wsExpectation", "wsWoodmanActive"}
<1>1. /\ DOMAIN States = 1 .. 5 /\ States[1] = "wsExpectation" /\ States[2] = "wsWoodmanActive"
      /\ States[3] = "wsHeartReturned" /\ States[4] = "wsMonologueCompleted"
      /\ States[5] = "wsDoorOpened"
  BY DEF States
<1>2. \A i, j \in 1 .. 5 : States[i] = States[j] => i = j
  BY <1>1
<1>3. \A i \in 1 .. 5 : Rank(States[i]) = i
  <2> TAKE i \in 1 .. 5
  <2>1. \E j \in DOMAIN States : States[j] = States[i]
    BY <1>1
  <2>2. Rank(States[i]) \in DOMAIN States /\ States[Rank(States[i])] = States[i]
    BY <2>1 DEF Rank
  <2> QED
    BY <1>1, <1>2, <2>2
<1>4. /\ Rank("wsExpectation") = 1 /\ Rank("wsWoodmanActive") = 2 /\ Rank("wsHeartReturned") = 3
      /\ Rank("wsMonologueCompleted") = 4 /\ Rank("wsDoorOpened") = 5
  BY <1>1, <1>3
<1> QED
  BY <1>4 DEF StateNames

\* When an event is handled, those before it in the thread's order are done.
LEMMA InOrder ==
    ASSUME NEW order, NEW msk, NEW i \in DOMAIN order, NEW j \in DOMAIN order,
           IsNext(order[j], msk, order), ~(j <= i)
    PROVE  order[i] \notin msk
  BY DEF IsNext

\* The handlers that sleep come after the one of the gestures.
LEMMA WoodmanOrder ==
    ASSUME NEW msk,
           IsNext("ToWink", msk, WoodmanEvents) \/ IsNext("SignalToHandcar", msk, WoodmanEvents)
    PROVE  "GestureProcessing" \notin msk
<1>1. /\ DOMAIN WoodmanEvents = 1 .. 8 /\ WoodmanEvents[6] = "GestureProcessing"
      /\ WoodmanEvents[7] = "ToWink" /\ WoodmanEvents[8] = "SignalToHandcar"
  BY DEF WoodmanEvents
<1> QED
  BY <1>1, InOrder

LEMMA EntryTypes == \A s \in Seq(Entry) : \A i \in DOMAIN s : s[i].position \in Nat
<1> SUFFICES ASSUME NEW s \in Seq(Entry), NEW i \in DOMAIN s PROVE s[i].position \in Nat
  OBVIOUS
<1>1. s[i] \in Entry
  OBVIOUS
<1> QED BY <1>1 DEF Entry

\* Every set of naturals with a bound has a greatest element.
LEMMA HasGreatest ==
    ASSUME NEW S \in SUBSET Nat, S # {}, NEW b \in Nat, \A n \in S : n <= b
    PROVE  \E n \in S : \A m \in S : m <= n
<1> DEFINE U == {c \in Nat : \A n \in S : n <= c}
<1>1. U # {} /\ U \subseteq Nat
  OBVIOUS
<1>2. PICK c \in U : \A d \in U : <<d, c>> \notin OpToRel(<, Nat)
  BY <1>1, NatLessThanWellFounded, WFMin
<1>3. \A d \in U : ~(d < c)
  BY <1>1, <1>2 DEF OpToRel
<1>4. c \in Nat /\ \A n \in S : n <= c
  OBVIOUS
<1> HIDE DEF U
<1>5. CASE c \in S
  BY <1>4, <1>5
<1>6. CASE c \notin S
  <2>1. \A n \in S : n \in Nat /\ n <= c - 1
    BY <1>4, <1>6
  <2>2. c - 1 \in Nat
    <3>1. PICK n \in S : TRUE
      OBVIOUS
    <3> QED BY <1>4, <2>1, <3>1
  <2>3. c - 1 \in U
    BY <2>1, <2>2 DEF U
  <2> QED BY <1>3, <1>4, <2>3
<1> QED BY <1>5, <1>6

\* The positions of a table have a bound: otherwise there is a shortest beginning of
\* the table that has none.
LEMMA TableHasBound ==
    ASSUME NEW s \in Seq(Entry)
    PROVE  \E b \in Nat : \A i \in DOMAIN s : s[i].position <= b
<1> DEFINE Bounded(n) == \E b \in Nat : \A i \in 1 .. n : s[i].position <= b
           T == {n \in 0 .. Len(s) : ~Bounded(n)}
<1>1. \A i \in 1 .. Len(s) : s[i].position \in Nat
  BY EntryTypes
<1>2. Len(s) \in Nat /\ DOMAIN s = 1 .. Len(s) /\ T \subseteq Nat
  OBVIOUS
<1>3. Bounded(0)
  OBVIOUS
<1>4. ASSUME NEW m \in 1 .. Len(s), Bounded(m - 1) PROVE Bounded(m)
  <2>1. PICK b \in Nat : \A i \in 1 .. m - 1 : s[i].position <= b
    BY <1>4
  <2>2. s[m].position \in Nat
    BY <1>1
  <2>3. \A i \in 1 .. m : s[i].position <= b + s[m].position
    <3> TAKE i \in 1 .. m
    <3>1. CASE i = m
      BY <2>2, <3>1
    <3>2. CASE i # m
      <4>1. i \in 1 .. m - 1 /\ i \in 1 .. Len(s)
        BY <1>2, <3>2
      <4>2. s[i].position \in Nat /\ s[i].position <= b
        BY <1>1, <2>1, <4>1
      <4> QED BY <2>2, <4>2
    <3> QED BY <3>1, <3>2
  <2>4. b + s[m].position \in Nat
    BY <2>2
  <2> QED BY <2>3, <2>4
<1> HIDE DEF Bounded
<1>5. CASE T = {}
  <2>1. Bounded(Len(s))
    BY <1>2, <1>5
  <2> QED BY <1>2, <2>1 DEF Bounded
<1>6. CASE T # {}
  <2>1. PICK m \in T : \A n \in T : <<n, m>> \notin OpToRel(<, Nat)
    BY <1>2, <1>6, NatLessThanWellFounded, WFMin
  <2>2. \A n \in T : ~(n < m)
    BY <1>2, <2>1 DEF OpToRel
  <2>3. m \in 1 .. Len(s) /\ ~Bounded(m)
    <3>1. m \in 0 .. Len(s) /\ ~Bounded(m)
      BY <2>1
    <3>2. m # 0
      BY <1>3, <3>1, Zenon
    <3> QED BY <1>2, <3>1, <3>2
  <2>4. m - 1 \in 0 .. Len(s) /\ m - 1 < m
    BY <1>2, <2>3
  <2>5. m - 1 \notin T
    BY <2>2, <2>4
  <2>6. Bounded(m - 1)
    BY <2>4, <2>5
  <2> QED BY <1>4, <2>3, <2>6
<1> QED BY <1>5, <1>6

\* LastPosition is the greatest position of all tables.
LEMMA LastIsLast ==
    /\ LastPosition \in Nat
    /\ \A g \in DOMAIN Gestures : \A i \in DOMAIN Gestures[g] :
           Gestures[g][i].position <= LastPosition
<1> DEFINE entries == UNION {{Gestures[g][i] : i \in DOMAIN Gestures[g]} : g \in DOMAIN Gestures}
           P == {e.position : e \in entries}
<1>1. \A g \in DOMAIN Gestures : Gestures[g] \in Seq(Entry) /\ Len(Gestures[g]) > 1
  BY TableAssumption
<1>2. \A g \in DOMAIN Gestures : \A i \in DOMAIN Gestures[g] :
          Gestures[g][i].position \in P /\ Gestures[g][i].position \in Nat
  BY <1>1, EntryTypes
<1>3. P \subseteq Nat
  <2>1. \A e \in entries : \E g \in DOMAIN Gestures : \E i \in DOMAIN Gestures[g] :
            e = Gestures[g][i]
    OBVIOUS
  <2> HIDE DEF entries
  <2>2. \A e \in entries : e.position \in Nat
    BY <1>2, <2>1
  <2> QED BY <2>2
<1>4. P # {}
  <2>1. "smile" \in DOMAIN Gestures /\ 1 \in DOMAIN Gestures["smile"]
    BY <1>1, TableAssumption
  <2> QED BY <1>2, <2>1
<1>5. PICK b \in Nat : \A i \in DOMAIN Gestures["monologue"] :
                           Gestures["monologue"][i].position <= b
  BY <1>1, TableHasBound, TableAssumption
<1>6. PICK c \in Nat : \A i \in DOMAIN Gestures["smile"] : Gestures["smile"][i].position <= c
  BY <1>1, TableHasBound, TableAssumption
<1>7. \A p \in P : p <= b + c
  <2>1. \A g \in DOMAIN Gestures : \A i \in DOMAIN Gestures[g] :
            Gestures[g][i].position <= b + c
    BY <1>2, <1>5, <1>6, TableAssumption
  <2> QED BY <2>1
<1>8. LastPosition = CHOOSE n \in P : \A m \in P : m <= n
  BY DEF LastPosition
<1> HIDE DEF P
<1>9. \E n \in P : \A m \in P : m <= n
  <2>1. b + c \in Nat
    OBVIOUS
  <2> QED BY <1>3, <1>4, <1>7, <2>1, HasGreatest
<1>10. LastPosition \in P /\ \A m \in P : m <= LastPosition
  BY <1>8, <1>9
<1> QED BY <1>2, <1>3, <1>10

-----------------------------------------------------------------------------
(* Types.                                                                    *)

WoodmanNames == {"HandcarInTransit", "HandcarParked", "HeartReturn", "WaitTimeOut",
                 "HeartBlinkTimeOut", "GestureProcessing", "ToWink", "SignalToHandcar"}
AppNames == {"CameToLife", "PlayEnds", "GestureCompleted", "Buttons", "UartNewCmd"}
Signals == {"HandcarInTransit", "HandcarParked", "HeartReturn", "HeartBlinkTimeOut"}

\* The events of the two orders, and the states, by their names.
LEMMA Names ==
    /\ {WoodmanEvents[i] : i \in DOMAIN WoodmanEvents} = WoodmanNames
    /\ {AppEvents[i] : i \in DOMAIN AppEvents} = AppNames
    /\ {States[i] : i \in DOMAIN States} = StateNames
<1>1. /\ DOMAIN WoodmanEvents = 1 .. 8
      /\ WoodmanEvents[1] = "HandcarInTransit" /\ WoodmanEvents[2] = "HandcarParked"
      /\ WoodmanEvents[3] = "HeartReturn" /\ WoodmanEvents[4] = "WaitTimeOut"
      /\ WoodmanEvents[5] = "HeartBlinkTimeOut" /\ WoodmanEvents[6] = "GestureProcessing"
      /\ WoodmanEvents[7] = "ToWink" /\ WoodmanEvents[8] = "SignalToHandcar"
  BY DEF WoodmanEvents
<1>2. /\ DOMAIN AppEvents = 1 .. 5
      /\ AppEvents[1] = "CameToLife" /\ AppEvents[2] = "PlayEnds"
      /\ AppEvents[3] = "GestureCompleted" /\ AppEvents[4] = "Buttons"
      /\ AppEvents[5] = "UartNewCmd"
  BY DEF AppEvents
<1>3. /\ DOMAIN States = 1 .. 5
      /\ States[1] = "wsExpectation" /\ States[2] = "wsWoodmanActive"
      /\ States[3] = "wsHeartReturned" /\ States[4] = "wsMonologueCompleted"
      /\ States[5] = "wsDoorOpened"
  BY DEF States
<1>4. 1 .. 8 = {1, 2, 3, 4, 5, 6, 7, 8} /\ 1 .. 5 = {1, 2, 3, 4, 5}
  OBVIOUS
<1>5. {WoodmanEvents[i] : i \in DOMAIN WoodmanEvents} = WoodmanNames
  BY <1>1, <1>4 DEF WoodmanNames
<1>6. {AppEvents[i] : i \in DOMAIN AppEvents} = AppNames
  BY <1>2, <1>4 DEF AppNames
<1>7. {States[i] : i \in DOMAIN States} = StateNames
  BY <1>3, <1>4 DEF StateNames
<1> QED BY <1>5, <1>6, <1>7

\* What is read at a position, in the table or past it, is an entry.
LEMMA EntryIsRead ==
    ASSUME NEW g \in DOMAIN Gestures, NEW i \in Nat, NEW e \in EntriesAt(g, i)
    PROVE  e.position \in Nat
<1>1. CASE i < Len(Gestures[g])
  <2>1. Gestures[g] \in Seq(Entry) /\ i + 1 \in DOMAIN Gestures[g]
    BY <1>1, TableAssumption
  <2> QED BY <1>1, <2>1, EntryTypes DEF EntriesAt
<1>2. CASE ~(i < Len(Gestures[g]))
  BY <1>2 DEF EntriesAt
<1> QED BY <1>1, <1>2

ThreadsOK ==
    /\ cpu \in {"none", "Woodman", "App"} /\ halted \in BOOLEAN
    /\ wPend \subseteq WoodmanNames /\ wMsk \subseteq WoodmanNames
    /\ aPend \subseteq AppNames /\ aMsk \subseteq AppNames
    /\ wPc \in {"wait", "run", "wink", "winking", "signal"}
    /\ aPc \in {"wait", "run", "press"}
    /\ cmd \in {"none", "CameToLife", "Smile", "Wink"}
    /\ State \in StateNames

TimesOK ==
    /\ sleep \in [{"Woodman", "App"} -> Nat]
    /\ tmr \in [{"wait", "gesture", "sound"} -> Nat]
    /\ PGesture \in DOMAIN Gestures
    /\ poss \in 0 .. MaxPoss /\ since \in 0 .. LongAgo

RoomOK ==
    /\ blinking \in BOOLEAN /\ backlight \in BOOLEAN /\ tunnel \in BOOLEAN
    /\ headUp \in BOOLEAN /\ doorOpen \in BOOLEAN /\ signal \in BOOLEAN
    /\ heartBack \in BOOLEAN /\ spoke \in BOOLEAN /\ torn \in BOOLEAN
    /\ undue \subseteq {"sound", "life", "signal"}

GivenOK == given \in 0 .. MaxGiven

TypeInv == ThreadsOK /\ TimesOK /\ RoomOK /\ GivenOK

LEMMA TypesAreTrue == TypeInv => TypeOK
  BY Names DEF TypeInv, ThreadsOK, TimesOK, RoomOK, GivenOK, TypeOK

LEMMA TypesAtFirst == Init => TypeInv
<1> SUFFICES ASSUME Init PROVE TypeInv
  OBVIOUS
<1>1. ThreadsOK
  BY DEF Init, ThreadsOK, StateNames
<1>2. TimesOK
  BY TableAssumption, TicksAssumption, LastIsLast DEF Init, TimesOK, LongAgo
<1>3. RoomOK
  BY DEF Init, RoomOK
<1>4. GivenOK
  BY InputAssumption DEF Init, GivenOK
<1> QED BY <1>1, <1>2, <1>3, <1>4 DEF TypeInv

LEMMA ThreadsTyped == ThreadsOK /\ [Next]_vars => ThreadsOK'
<1> SUFFICES ASSUME ThreadsOK, [Next]_vars PROVE ThreadsOK'
  OBVIOUS
<1> USE DEF ThreadsOK, WoodmanNames, AppNames, StateNames, schedVars, gestureVars, roomVars,
     histVars
<1>1. CASE WaitWoodman
  BY <1>1 DEF WaitWoodman
<1>2. CASE HandcarInTransit
  BY <1>2 DEF HandcarInTransit, Handled
<1>3. CASE HandcarParked
  BY <1>3 DEF HandcarParked, Handled, DefaultState, UnderWay
<1>4. CASE HeartReturn
  BY <1>4 DEF HeartReturn, Handled, EyeON_and_HeartBlinkOFF, IfTimedOut
<1>5. CASE WaitTimeOut
  BY <1>5 DEF WaitTimeOut, Handled
<1>6. CASE HeartBlinkTimeOut
  BY <1>6 DEF HeartBlinkTimeOut, Handled
<1>7. CASE GestureProcessing
  BY <1>7 DEF GestureProcessing, Handled, GestureStep
<1>8. CASE ToWink
  BY <1>8 DEF ToWink, Blocks
<1>9. CASE EyeOff
  BY <1>9 DEF EyeOff
<1>10. CASE EyeOn
  BY <1>10 DEF EyeOn, GoOn
<1>11. CASE SignalToHandcar
  BY <1>11 DEF SignalToHandcar, Blocks
<1>12. CASE SignalEnds
  BY <1>12 DEF SignalEnds, GoOn
<1>13. CASE WaitApp
  BY <1>13 DEF WaitApp
<1>14. CASE CameToLife
  BY <1>14 DEF CameToLife, AppHandled, StartGesture
<1>15. CASE PlayEnds
  BY <1>15 DEF PlayEnds, AppHandled, StartGesture
<1>16. CASE GestureCompleted
  BY <1>16 DEF GestureCompleted, AppHandled
<1>17. CASE PressOn
  BY <1>17 DEF PressOn, EyeON_and_HeartBlinkOFF
<1>18. CASE PressSlept
  BY <1>18 DEF PressSlept, StartGesture
<1>19. CASE PressOff
  BY <1>19 DEF PressOff, AppHandled, DefaultState, UnderWay
<1>20. CASE OnCmd
  BY <1>20 DEF OnCmd, AppHandled, EyeON_and_HeartBlinkOFF, StartGesture
<1>21. CASE Tick
  BY <1>21 DEF Tick
<1>22. ASSUME NEW e \in Signals, SignalEvt(e) PROVE ThreadsOK'
  BY <1>22 DEF SignalEvt, Signals
<1>23. CASE Press \/ \E c \in Commands : Command(c)
  BY <1>23 DEF Press, Command, Commands, Intervenes
<1>24. CASE UNCHANGED vars
  BY <1>24 DEF vars
<1>25. CASE WoodmanThread
  BY <1>25, <1>1, <1>2, <1>3, <1>4, <1>5, <1>6, <1>7, <1>8, <1>9, <1>10, <1>11, <1>12
     DEF WoodmanThread
<1>26. CASE AppThread
  BY <1>26, <1>13, <1>14, <1>15, <1>16, <1>17, <1>18, <1>19, <1>20 DEF AppThread
<1>27. CASE Blink \/ ProcessHandcarCenterSns \/ ProcessHandcarStartSns \/ ProcessHeartSns
  BY <1>27, <1>22 DEF Blink, ProcessHandcarCenterSns, ProcessHandcarStartSns,
     ProcessHeartSns, Signals
<1> QED BY <1>21, <1>23, <1>24, <1>25, <1>26, <1>27 DEF Next

LEMMA TimesTyped == TimesOK /\ [Next]_vars => TimesOK'
<1> SUFFICES ASSUME TimesOK, [Next]_vars PROVE TimesOK'
  OBVIOUS
<1> USE DEF TimesOK, schedVars, gestureVars, roomVars, histVars
<1>1. CASE WaitWoodman
  BY <1>1, TableAssumption, TicksAssumption DEF WaitWoodman
<1>2. CASE HandcarInTransit
  BY <1>2, TableAssumption, TicksAssumption DEF HandcarInTransit, Handled
<1>3. CASE HandcarParked
  BY <1>3, TableAssumption, TicksAssumption DEF HandcarParked, Handled, DefaultState, UnderWay
<1>4. CASE HeartReturn
  BY <1>4, TableAssumption, TicksAssumption DEF HeartReturn, Handled, EyeON_and_HeartBlinkOFF,
     IfTimedOut
<1>5. CASE WaitTimeOut
  BY <1>5, TableAssumption, TicksAssumption DEF WaitTimeOut, Handled
<1>6. CASE HeartBlinkTimeOut
  BY <1>6, TableAssumption, TicksAssumption DEF HeartBlinkTimeOut, Handled
<1>7. CASE GestureProcessing
  <2>1. PICK this \in EntriesAt(PGesture, poss), following \in EntriesAt(PGesture, poss + 1) :
            GestureStep(IF poss = 0 THEN 0 ELSE since, this, following)
    BY <1>7 DEF GestureProcessing
  <2>2. following.position \in Nat
    BY <2>1, EntryIsRead
  <2>3. UNCHANGED <<PGesture, sleep>> /\ LongAgo \in Nat
    BY <1>7, LastIsLast DEF GestureProcessing, Handled, LongAgo
  <2>4. poss' \in 0 .. MaxPoss /\ since' \in 0 .. LongAgo
    BY <2>1, <2>3, TicksAssumption DEF GestureStep
  <2>5. tmr' = tmr \/ \E n \in Nat : tmr' = [tmr EXCEPT !["gesture"] = n]
    BY <2>1, <2>2, <2>3, TicksAssumption DEF GestureStep
  <2> QED BY <2>3, <2>4, <2>5
<1>8. CASE ToWink
  BY <1>8, TableAssumption, TicksAssumption DEF ToWink, Blocks
<1>9. CASE EyeOff
  BY <1>9, TableAssumption, TicksAssumption DEF EyeOff
<1>10. CASE EyeOn
  BY <1>10, TableAssumption, TicksAssumption DEF EyeOn, GoOn
<1>11. CASE SignalToHandcar
  BY <1>11, TableAssumption, TicksAssumption DEF SignalToHandcar, Blocks
<1>12. CASE SignalEnds
  BY <1>12, TableAssumption, TicksAssumption DEF SignalEnds, GoOn
<1>13. CASE WaitApp
  BY <1>13, TableAssumption, TicksAssumption DEF WaitApp
<1>14. CASE CameToLife
  BY <1>14, TableAssumption, TicksAssumption DEF CameToLife, AppHandled, StartGesture
<1>15. CASE PlayEnds
  BY <1>15, TableAssumption, TicksAssumption DEF PlayEnds, AppHandled, StartGesture
<1>16. CASE GestureCompleted
  BY <1>16, TableAssumption, TicksAssumption DEF GestureCompleted, AppHandled
<1>17. CASE PressOn
  BY <1>17, TableAssumption, TicksAssumption DEF PressOn, EyeON_and_HeartBlinkOFF
<1>18. CASE PressSlept
  BY <1>18, TableAssumption, TicksAssumption DEF PressSlept, StartGesture
<1>19. CASE PressOff
  BY <1>19, TableAssumption, TicksAssumption DEF PressOff, AppHandled, DefaultState, UnderWay
<1>20. CASE OnCmd
  BY <1>20, TableAssumption, TicksAssumption DEF OnCmd, AppHandled, EyeON_and_HeartBlinkOFF,
     StartGesture
<1>21. CASE Tick
  <2>1. sleep' = [t \in DOMAIN sleep |-> IF sleep[t] = 0 THEN 0 ELSE sleep[t] - 1]
        /\ tmr' = [t \in DOMAIN tmr |-> IF tmr[t] = 0 THEN 0 ELSE tmr[t] - 1]
    BY <1>21 DEF Tick
  <2>2. \A n \in Nat : (IF n = 0 THEN 0 ELSE n - 1) \in Nat
    OBVIOUS
  <2>3. sleep' \in [{"Woodman", "App"} -> Nat]
    BY <2>1, <2>2
  <2>4. tmr' \in [{"wait", "gesture", "sound"} -> Nat]
    BY <2>1, <2>2
  <2>5. since' = (IF since = LongAgo THEN since ELSE since + 1) /\ poss' = poss
        /\ PGesture' = PGesture
    BY <1>21 DEF Tick, gestureVars
  <2>6. since' \in 0 .. LongAgo
    BY <2>5, LastIsLast DEF LongAgo
  <2> QED BY <2>3, <2>4, <2>5, <2>6
<1>22. ASSUME NEW e \in Signals, SignalEvt(e) PROVE TimesOK'
  BY <1>22, TableAssumption, TicksAssumption DEF SignalEvt, Signals
<1>23. CASE Press \/ \E c \in Commands : Command(c)
  BY <1>23, TableAssumption, TicksAssumption DEF Press, Command, Commands, Intervenes
<1>24. CASE UNCHANGED vars
  BY <1>24 DEF vars
<1>25. CASE WoodmanThread
  BY <1>25, <1>1, <1>2, <1>3, <1>4, <1>5, <1>6, <1>7, <1>8, <1>9, <1>10, <1>11, <1>12
     DEF WoodmanThread
<1>26. CASE AppThread
  BY <1>26, <1>13, <1>14, <1>15, <1>16, <1>17, <1>18, <1>19, <1>20 DEF AppThread
<1>27. CASE Blink \/ ProcessHandcarCenterSns \/ ProcessHandcarStartSns \/ ProcessHeartSns
  BY <1>27, <1>22 DEF Blink, ProcessHandcarCenterSns, ProcessHandcarStartSns,
     ProcessHeartSns, Signals
<1> QED BY <1>21, <1>23, <1>24, <1>25, <1>26, <1>27 DEF Next

LEMMA RoomTyped == RoomOK /\ [Next]_vars => RoomOK'
<1> SUFFICES ASSUME RoomOK, [Next]_vars PROVE RoomOK'
  OBVIOUS
<1> USE DEF RoomOK, schedVars, gestureVars, roomVars, histVars
<1>1. CASE WaitWoodman
  BY <1>1 DEF WaitWoodman
<1>2. CASE HandcarInTransit
  BY <1>2 DEF HandcarInTransit, Handled
<1>3. CASE HandcarParked
  BY <1>3 DEF HandcarParked, Handled, DefaultState, UnderWay
<1>4. CASE HeartReturn
  BY <1>4 DEF HeartReturn, Handled, EyeON_and_HeartBlinkOFF, IfTimedOut
<1>5. CASE WaitTimeOut
  BY <1>5 DEF WaitTimeOut, Handled
<1>6. CASE HeartBlinkTimeOut
  BY <1>6 DEF HeartBlinkTimeOut, Handled
<1>7. CASE GestureProcessing
  BY <1>7 DEF GestureProcessing, Handled, GestureStep
<1>8. CASE ToWink
  BY <1>8 DEF ToWink, Blocks
<1>9. CASE EyeOff
  BY <1>9 DEF EyeOff
<1>10. CASE EyeOn
  BY <1>10 DEF EyeOn, GoOn
<1>11. CASE SignalToHandcar
  BY <1>11 DEF SignalToHandcar, Blocks
<1>12. CASE SignalEnds
  BY <1>12 DEF SignalEnds, GoOn
<1>13. CASE WaitApp
  BY <1>13 DEF WaitApp
<1>14. CASE CameToLife
  BY <1>14 DEF CameToLife, AppHandled, StartGesture
<1>15. CASE PlayEnds
  BY <1>15 DEF PlayEnds, AppHandled, StartGesture
<1>16. CASE GestureCompleted
  BY <1>16 DEF GestureCompleted, AppHandled
<1>17. CASE PressOn
  BY <1>17 DEF PressOn, EyeON_and_HeartBlinkOFF
<1>18. CASE PressSlept
  BY <1>18 DEF PressSlept, StartGesture
<1>19. CASE PressOff
  BY <1>19 DEF PressOff, AppHandled, DefaultState, UnderWay
<1>20. CASE OnCmd
  BY <1>20 DEF OnCmd, AppHandled, EyeON_and_HeartBlinkOFF, StartGesture
<1>21. CASE Tick
  BY <1>21 DEF Tick
<1>22. ASSUME NEW e \in Signals, SignalEvt(e) PROVE RoomOK'
  BY <1>22 DEF SignalEvt, Signals
<1>23. CASE Press \/ \E c \in Commands : Command(c)
  BY <1>23 DEF Press, Command, Commands, Intervenes
<1>24. CASE UNCHANGED vars
  BY <1>24 DEF vars
<1>25. CASE WoodmanThread
  BY <1>25, <1>1, <1>2, <1>3, <1>4, <1>5, <1>6, <1>7, <1>8, <1>9, <1>10, <1>11, <1>12
     DEF WoodmanThread
<1>26. CASE AppThread
  BY <1>26, <1>13, <1>14, <1>15, <1>16, <1>17, <1>18, <1>19, <1>20 DEF AppThread
<1>27. CASE Blink \/ ProcessHandcarCenterSns \/ ProcessHandcarStartSns \/ ProcessHeartSns
  BY <1>27, <1>22 DEF Blink, ProcessHandcarCenterSns, ProcessHandcarStartSns,
     ProcessHeartSns, Signals
<1> QED BY <1>21, <1>23, <1>24, <1>25, <1>26, <1>27 DEF Next

LEMMA GivenTyped == GivenOK /\ [Next]_vars => GivenOK'
<1>1. WoodmanThread \/ AppThread => given' = given
  BY DEF WoodmanThread, WaitWoodman, HandcarInTransit, HandcarParked, HeartReturn, WaitTimeOut,
     HeartBlinkTimeOut, GestureProcessing, ToWink, EyeOff, EyeOn, SignalToHandcar, SignalEnds,
     Blocks, GoOn, AppThread, WaitApp, CameToLife, PlayEnds, GestureCompleted, PressOn, PressSlept,
     PressOff, OnCmd, histVars
<1>2. Tick \/ Blink \/ ProcessHandcarCenterSns \/ ProcessHandcarStartSns \/ ProcessHeartSns
          => given' = given
  BY DEF Tick, Blink, ProcessHandcarCenterSns, ProcessHandcarStartSns, ProcessHeartSns, SignalEvt,
     histVars
<1>3. Press \/ (\E c \in Commands : Command(c)) => given < MaxGiven /\ given' = given + 1
  BY DEF Press, Command, Intervenes
<1>4. UNCHANGED vars => given' = given
  BY DEF vars, histVars
<1>5. [Next]_vars => given' = given \/ (given < MaxGiven /\ given' = given + 1)
  BY <1>1, <1>2, <1>3, <1>4, Zenon DEF Next
<1> QED BY <1>5, InputAssumption DEF GivenOK

LEMMA TypesKept == TypeInv /\ [Next]_vars => TypeInv'
  BY ThreadsTyped, TimesTyped, RoomTyped, GivenTyped DEF TypeInv

-----------------------------------------------------------------------------
(* The door.                                                                 *)

\* A heart that is back stays so until the default state, which locks the door.
LEMMA HeartKept == HeartFirst /\ [Next]_vars => HeartFirst'
<1> SUFFICES ASSUME HeartFirst, [Next]_vars PROVE HeartFirst'
  OBVIOUS
<1> USE DEF HeartFirst, schedVars, gestureVars, roomVars, histVars
<1>1. CASE WaitWoodman
  BY <1>1 DEF WaitWoodman
<1>2. CASE HandcarInTransit
  BY <1>2 DEF HandcarInTransit, Handled
<1>3. CASE HandcarParked
  BY <1>3 DEF HandcarParked, Handled, DefaultState, UnderWay
<1>4. CASE HeartReturn
  BY <1>4 DEF HeartReturn, Handled, EyeON_and_HeartBlinkOFF, IfTimedOut
<1>5. CASE WaitTimeOut
  BY <1>5 DEF WaitTimeOut, Handled
<1>6. CASE HeartBlinkTimeOut
  BY <1>6 DEF HeartBlinkTimeOut, Handled
<1>7. CASE GestureProcessing
  BY <1>7 DEF GestureProcessing, Handled, GestureStep
<1>8. CASE ToWink
  BY <1>8 DEF ToWink, Blocks
<1>9. CASE EyeOff
  BY <1>9 DEF EyeOff
<1>10. CASE EyeOn
  BY <1>10 DEF EyeOn, GoOn
<1>11. CASE SignalToHandcar
  BY <1>11 DEF SignalToHandcar, Blocks
<1>12. CASE SignalEnds
  BY <1>12 DEF SignalEnds, GoOn
<1>13. CASE WaitApp
  BY <1>13 DEF WaitApp
<1>14. CASE CameToLife
  BY <1>14 DEF CameToLife, AppHandled, StartGesture
<1>15. CASE PlayEnds
  BY <1>15 DEF PlayEnds, AppHandled, StartGesture
<1>16. CASE GestureCompleted
  BY <1>16 DEF GestureCompleted, AppHandled
<1>17. CASE PressOn
  BY <1>17 DEF PressOn, EyeON_and_HeartBlinkOFF
<1>18. CASE PressSlept
  BY <1>18 DEF PressSlept, StartGesture
<1>19. CASE PressOff
  BY <1>19 DEF PressOff, AppHandled, DefaultState, UnderWay
<1>20. CASE OnCmd
  BY <1>20 DEF OnCmd, AppHandled, EyeON_and_HeartBlinkOFF, StartGesture
<1>21. CASE Tick
  BY <1>21 DEF Tick
<1>22. ASSUME NEW e \in Signals, SignalEvt(e) PROVE HeartFirst'
  BY <1>22 DEF SignalEvt, Signals
<1>23. CASE Press \/ \E c \in Commands : Command(c)
  BY <1>23 DEF Press, Command, Commands, Intervenes
<1>24. CASE UNCHANGED vars
  BY <1>24 DEF vars
<1>25. CASE WoodmanThread
  BY <1>25, <1>1, <1>2, <1>3, <1>4, <1>5, <1>6, <1>7, <1>8, <1>9, <1>10, <1>11, <1>12
     DEF WoodmanThread
<1>26. CASE AppThread
  BY <1>26, <1>13, <1>14, <1>15, <1>16, <1>17, <1>18, <1>19, <1>20 DEF AppThread
<1>27. CASE Blink \/ ProcessHandcarCenterSns \/ ProcessHandcarStartSns \/ ProcessHeartSns
  BY <1>27, <1>22 DEF Blink, ProcessHandcarCenterSns, ProcessHandcarStartSns,
     ProcessHeartSns, Signals
<1> QED BY <1>21, <1>23, <1>24, <1>25, <1>26, <1>27 DEF Next

\* A default state takes the history spoke back, and names the sound that goes on.
LEMMA SoundKept == TimesOK /\ SoundIsOurs /\ [Next]_vars => SoundIsOurs'
<1> SUFFICES ASSUME TimesOK, SoundIsOurs, [Next]_vars PROVE SoundIsOurs'
  OBVIOUS
<1> USE DEF TimesOK, SoundIsOurs, schedVars, gestureVars, roomVars, histVars
<1>1. CASE WaitWoodman
  BY <1>1 DEF WaitWoodman
<1>2. CASE HandcarInTransit
  BY <1>2 DEF HandcarInTransit, Handled
<1>3. CASE HandcarParked
  BY <1>3 DEF HandcarParked, Handled, DefaultState, UnderWay
<1>4. CASE HeartReturn
  BY <1>4 DEF HeartReturn, Handled, EyeON_and_HeartBlinkOFF, IfTimedOut
<1>5. CASE WaitTimeOut
  BY <1>5 DEF WaitTimeOut, Handled
<1>6. CASE HeartBlinkTimeOut
  BY <1>6 DEF HeartBlinkTimeOut, Handled
<1>7. CASE GestureProcessing
  BY <1>7 DEF GestureProcessing, Handled, GestureStep
<1>8. CASE ToWink
  BY <1>8 DEF ToWink, Blocks
<1>9. CASE EyeOff
  BY <1>9 DEF EyeOff
<1>10. CASE EyeOn
  BY <1>10 DEF EyeOn, GoOn
<1>11. CASE SignalToHandcar
  BY <1>11 DEF SignalToHandcar, Blocks
<1>12. CASE SignalEnds
  BY <1>12 DEF SignalEnds, GoOn
<1>13. CASE WaitApp
  <2>1. aPend' \cup aMsk' \subseteq aPend \cup aMsk
        /\ UNCHANGED <<tmr, State, doorOpen, spoke, undue>>
    BY <1>13 DEF WaitApp
  <2> QED BY <2>1
<1>14. CASE CameToLife
  BY <1>14 DEF CameToLife, AppHandled, StartGesture
<1>15. CASE PlayEnds
  BY <1>15 DEF PlayEnds, AppHandled, StartGesture, IsNext
<1>16. CASE GestureCompleted
  BY <1>16 DEF GestureCompleted, AppHandled
<1>17. CASE PressOn
  BY <1>17 DEF PressOn, EyeON_and_HeartBlinkOFF
<1>18. CASE PressSlept
  BY <1>18 DEF PressSlept, StartGesture
<1>19. CASE PressOff
  BY <1>19 DEF PressOff, AppHandled, DefaultState, UnderWay
<1>20. CASE OnCmd
  BY <1>20 DEF OnCmd, AppHandled, EyeON_and_HeartBlinkOFF, StartGesture
<1>21. CASE Tick
  BY <1>21 DEF Tick
<1>22. ASSUME NEW e \in Signals, SignalEvt(e) PROVE SoundIsOurs'
  BY <1>22 DEF SignalEvt, Signals
<1>23. CASE Press \/ \E c \in Commands : Command(c)
  BY <1>23 DEF Press, Command, Commands, Intervenes
<1>24. CASE UNCHANGED vars
  BY <1>24 DEF vars
<1>25. CASE WoodmanThread
  BY <1>25, <1>1, <1>2, <1>3, <1>4, <1>5, <1>6, <1>7, <1>8, <1>9, <1>10, <1>11, <1>12
     DEF WoodmanThread
<1>26. CASE AppThread
  BY <1>26, <1>13, <1>14, <1>15, <1>16, <1>17, <1>18, <1>19, <1>20 DEF AppThread
<1>27. CASE Blink \/ ProcessHandcarCenterSns \/ ProcessHandcarStartSns \/ ProcessHeartSns
  BY <1>27, <1>22 DEF Blink, ProcessHandcarCenterSns, ProcessHandcarStartSns,
     ProcessHeartSns, Signals
<1> QED BY <1>21, <1>23, <1>24, <1>25, <1>26, <1>27 DEF Next

\* A default state locks the door, and names the signal that is still to come.
LEMMA SignalKept == SignalIsOurs /\ [Next]_vars => SignalIsOurs'
<1> SUFFICES ASSUME SignalIsOurs, [Next]_vars PROVE SignalIsOurs'
  OBVIOUS
<1> USE DEF SignalIsOurs, schedVars, gestureVars, roomVars, histVars
<1>1. CASE WaitWoodman
  BY <1>1 DEF WaitWoodman
<1>2. CASE HandcarInTransit
  BY <1>2 DEF HandcarInTransit, Handled
<1>3. CASE HandcarParked
  BY <1>3 DEF HandcarParked, Handled, DefaultState, UnderWay
<1>4. CASE HeartReturn
  BY <1>4 DEF HeartReturn, Handled, EyeON_and_HeartBlinkOFF, IfTimedOut
<1>5. CASE WaitTimeOut
  BY <1>5 DEF WaitTimeOut, Handled
<1>6. CASE HeartBlinkTimeOut
  BY <1>6 DEF HeartBlinkTimeOut, Handled
<1>7. CASE GestureProcessing
  BY <1>7 DEF GestureProcessing, Handled, GestureStep
<1>8. CASE ToWink
  BY <1>8 DEF ToWink, Blocks
<1>9. CASE EyeOff
  BY <1>9 DEF EyeOff
<1>10. CASE EyeOn
  BY <1>10 DEF EyeOn, GoOn
<1>11. CASE SignalToHandcar
  BY <1>11 DEF SignalToHandcar, Blocks, IsNext
<1>12. CASE SignalEnds
  BY <1>12 DEF SignalEnds, GoOn
<1>13. CASE WaitApp
  BY <1>13 DEF WaitApp
<1>14. CASE CameToLife
  BY <1>14 DEF CameToLife, AppHandled, StartGesture
<1>15. CASE PlayEnds
  BY <1>15 DEF PlayEnds, AppHandled, StartGesture
<1>16. CASE GestureCompleted
  BY <1>16 DEF GestureCompleted, AppHandled
<1>17. CASE PressOn
  BY <1>17 DEF PressOn, EyeON_and_HeartBlinkOFF
<1>18. CASE PressSlept
  BY <1>18 DEF PressSlept, StartGesture
<1>19. CASE PressOff
  BY <1>19 DEF PressOff, AppHandled, DefaultState, UnderWay
<1>20. CASE OnCmd
  BY <1>20 DEF OnCmd, AppHandled, EyeON_and_HeartBlinkOFF, StartGesture
<1>21. CASE Tick
  BY <1>21 DEF Tick
<1>22. ASSUME NEW e \in Signals, SignalEvt(e) PROVE SignalIsOurs'
  BY <1>22 DEF SignalEvt, Signals
<1>23. CASE Press \/ \E c \in Commands : Command(c)
  BY <1>23 DEF Press, Command, Commands, Intervenes
<1>24. CASE UNCHANGED vars
  BY <1>24 DEF vars
<1>25. CASE WoodmanThread
  BY <1>25, <1>1, <1>2, <1>3, <1>4, <1>5, <1>6, <1>7, <1>8, <1>9, <1>10, <1>11, <1>12
     DEF WoodmanThread
<1>26. CASE AppThread
  BY <1>26, <1>13, <1>14, <1>15, <1>16, <1>17, <1>18, <1>19, <1>20 DEF AppThread
<1>27. CASE Blink \/ ProcessHandcarCenterSns \/ ProcessHandcarStartSns \/ ProcessHeartSns
  BY <1>27, <1>22 DEF Blink, ProcessHandcarCenterSns, ProcessHandcarStartSns,
     ProcessHeartSns, Signals
<1> QED BY <1>21, <1>23, <1>24, <1>25, <1>26, <1>27 DEF Next

\* The heart sets the timer when no order to speak is on its way, and names a time-out
\* that is.
LEMMA HeadKept == ThreadsOK /\ TimesOK /\ HeadIsUp /\ [Next]_vars => HeadIsUp'
<1> SUFFICES ASSUME ThreadsOK, TimesOK, HeadIsUp, [Next]_vars PROVE HeadIsUp'
  OBVIOUS
<1> USE DEF ThreadsOK, TimesOK, HeadIsUp, schedVars, gestureVars, roomVars, histVars
<1>1. CASE WaitWoodman
  BY <1>1 DEF WaitWoodman
<1>2. CASE HandcarInTransit
  BY <1>2 DEF HandcarInTransit, Handled
<1>3. CASE HandcarParked
  BY <1>3 DEF HandcarParked, Handled, DefaultState, UnderWay
<1>4. CASE HeartReturn
  <2>1. State \in {"wsExpectation", "wsWoodmanActive"} \/ UNCHANGED <<State, tmr, undue>>
    BY <1>4, BeforeHeart DEF HeartReturn
  <2> QED BY <1>4, <2>1 DEF HeartReturn, Handled, EyeON_and_HeartBlinkOFF, IfTimedOut
<1>5. CASE WaitTimeOut
  BY <1>5 DEF WaitTimeOut, Handled, IsNext
<1>6. CASE HeartBlinkTimeOut
  BY <1>6 DEF HeartBlinkTimeOut, Handled
<1>7. CASE GestureProcessing
  BY <1>7 DEF GestureProcessing, Handled, GestureStep
<1>8. CASE ToWink
  BY <1>8 DEF ToWink, Blocks
<1>9. CASE EyeOff
  BY <1>9 DEF EyeOff
<1>10. CASE EyeOn
  BY <1>10 DEF EyeOn, GoOn
<1>11. CASE SignalToHandcar
  BY <1>11 DEF SignalToHandcar, Blocks
<1>12. CASE SignalEnds
  BY <1>12 DEF SignalEnds, GoOn
<1>13. CASE WaitApp
  BY <1>13 DEF WaitApp
<1>14. CASE CameToLife
  BY <1>14 DEF CameToLife, AppHandled, StartGesture
<1>15. CASE PlayEnds
  BY <1>15 DEF PlayEnds, AppHandled, StartGesture
<1>16. CASE GestureCompleted
  BY <1>16 DEF GestureCompleted, AppHandled
<1>17. CASE PressOn
  BY <1>17 DEF PressOn, EyeON_and_HeartBlinkOFF
<1>18. CASE PressSlept
  BY <1>18 DEF PressSlept, StartGesture
<1>19. CASE PressOff
  BY <1>19 DEF PressOff, AppHandled, DefaultState, UnderWay
<1>20. CASE OnCmd
  BY <1>20 DEF OnCmd, AppHandled, EyeON_and_HeartBlinkOFF, StartGesture
<1>21. CASE Tick
  BY <1>21 DEF Tick
<1>22. ASSUME NEW e \in Signals, SignalEvt(e) PROVE HeadIsUp'
  BY <1>22 DEF SignalEvt, Signals
<1>23. CASE Press \/ \E c \in Commands : Command(c)
  BY <1>23 DEF Press, Command, Commands, Intervenes
<1>24. CASE UNCHANGED vars
  BY <1>24 DEF vars
<1>25. CASE WoodmanThread
  BY <1>25, <1>1, <1>2, <1>3, <1>4, <1>5, <1>6, <1>7, <1>8, <1>9, <1>10, <1>11, <1>12
     DEF WoodmanThread
<1>26. CASE AppThread
  BY <1>26, <1>13, <1>14, <1>15, <1>16, <1>17, <1>18, <1>19, <1>20 DEF AppThread
<1>27. CASE Blink \/ ProcessHandcarCenterSns \/ ProcessHandcarStartSns \/ ProcessHeartSns
  BY <1>27, <1>22 DEF Blink, ProcessHandcarCenterSns, ProcessHandcarStartSns,
     ProcessHeartSns, Signals
<1> QED BY <1>21, <1>23, <1>24, <1>25, <1>26, <1>27 DEF Next

\* The door is never open without the heart, whatever the sensors, the operator and the
\* tables do (HeartReturn_Handler, GestureCompleted_Handler).
THEOREM DoorNeedsHeartHolds == Spec => []DoorNeedsHeart
<1>1. Init => HeartFirst
  BY DEF Init, HeartFirst
<1>2. HeartFirst => DoorNeedsHeart
  BY DEF HeartFirst, DoorNeedsHeart
<1> QED
  BY <1>1, <1>2, HeartKept, PTL DEF Spec

\* The door is open only when the game has come to it, and the handcar's signal means
\* that it is open, for any order of sensors, sounds, gestures, commands and resets: the
\* exceptions are the sound and the signal that a reset has left behind.
THEOREM DoorIsEarnedHolds == Spec => []DoorIsEarned
<1>1. Init => SoundIsOurs /\ SignalIsOurs
  BY DEF Init, SoundIsOurs, SignalIsOurs
<1>2. SoundIsOurs => DoorEarned
  BY Zenon DEF SoundIsOurs, DoorEarned
<1>3. SignalIsOurs => SignalMeansDoor
  BY Zenon DEF SignalIsOurs, SignalMeansDoor
<1>4. DoorNeedsHeart /\ SoundIsOurs /\ SignalIsOurs => DoorIsEarned
  BY <1>2, <1>3 DEF DoorIsEarned
<1> QED
  BY DoorNeedsHeartHolds, TypesAtFirst, TypesKept, SoundKept, SignalKept, <1>1, <1>4, PTL
     DEF Spec, TypeInv

\* The monologue begins only when the head's time is over: the event CameToLife comes from
\* the head's timer and nothing has set it again (ITask l. 46-66). The exceptions are a
\* time-out of the tunnel in the same mask as the heart or behind it, the order of an earlier
\* game, and a command.
THEOREM WaitsForHeadHolds == Spec => WaitsForHead
<1>1. HeadIsUp /\ [Next]_vars => [spoke' /\ ~spoke /\ "life" \notin undue => tmr["wait"] = 0]_vars
  <2> SUFFICES ASSUME HeadIsUp, Next, spoke' # spoke, spoke', "life" \notin undue
               PROVE  tmr["wait"] = 0
    BY Zenon
  <2>1. CameToLife
    BY DEF Next, WoodmanThread, WaitWoodman, HandcarInTransit, HandcarParked, HeartReturn,
       WaitTimeOut, HeartBlinkTimeOut, GestureProcessing, ToWink, EyeOff, EyeOn, SignalToHandcar,
       SignalEnds, Blocks, GoOn, DefaultState, AppThread, WaitApp, PlayEnds, GestureCompleted,
       PressOn, PressSlept, PressOff, OnCmd, Tick, Blink, ProcessHandcarCenterSns,
       ProcessHandcarStartSns, ProcessHeartSns, SignalEvt, Press, Command, Intervenes, histVars
  <2>2. "CameToLife" \in aMsk
    BY <2>1 DEF CameToLife, AppHandled, IsNext
  <2> QED
    BY <2>2 DEF HeadIsUp
<1>2. Init => HeadIsUp
  BY DEF Init, HeadIsUp
<1> QED
  BY <1>1, <1>2, TypesAtFirst, TypesKept, HeadKept, PTL DEF Spec, TypeInv, WaitsForHead

-----------------------------------------------------------------------------
(* The gesture player.                                                       *)

At(i) == Gestures[PGesture][i].position
Ordered == "GestureProcessing" \in wPend \cup wMsk

\* While the thread sleeps no gesture is due in its hands, and none is going on.
PlayerInTurn ==
    /\ wPc = "wait" => wMsk = {}
    /\ wPc = "run" => cpu = "Woodman"
    /\ "GestureProcessing" \in wMsk => wPc = "run" /\ "GestureProcessing" \notin wPend
    /\ ~torn /\ wPc \notin {"wait", "run"} => poss = 0

\* In a gesture the player waits for the time of the next entry, or that time has come,
\* or a reset of the room has stopped its timer.
Counts == tmr["gesture"] > 0 /\ ~Ordered /\ since + tmr["gesture"] = At(poss + 1)
Due == tmr["gesture"] = 0 /\ Ordered /\ since = At(poss + 1)
Stopped == tmr["gesture"] = 0 /\ ~Ordered

\* The entries up to the position follow each other in time, so that the last of the table
\* is not among them.
InSequence == \A j \in 1 .. poss : At(j) < At(j + 1)

PlayerInTable ==
    ~torn => /\ ~halted
             /\ poss < Len(Gestures[PGesture]) /\ InSequence
             /\ poss = 0 => tmr["gesture"] = 0
             /\ poss > 0 => Counts \/ Due \/ Stopped

GestureInv == PlayerInTurn /\ PlayerInTable

LEMMA PlayerTypes ==
    ASSUME TimesOK
    PROVE  /\ poss \in Nat /\ since \in Nat /\ tmr["gesture"] \in Nat
           /\ PGesture \in DOMAIN Gestures
           /\ Gestures[PGesture] \in Seq(Entry) /\ Len(Gestures[PGesture]) \in Nat
           /\ Len(Gestures[PGesture]) > 1
<1>1. poss \in Nat /\ since \in Nat /\ tmr["gesture"] \in Nat /\ PGesture \in DOMAIN Gestures
  BY LastIsLast, TicksAssumption DEF TimesOK, LongAgo
<1>2. Gestures[PGesture] \in Seq(Entry) /\ Len(Gestures[PGesture]) > 1
  BY <1>1, TableAssumption
<1> QED BY <1>1, <1>2

\* The table goes on behind a position up to which its entries follow each other.
LEMMA TableGoesOn ==
    ASSUME TimesOK, poss < Len(Gestures[PGesture]), InSequence
    PROVE  /\ poss + 1 < Len(Gestures[PGesture])
           /\ At(poss + 1) \in Nat /\ At(poss + 2) \in Nat
           /\ EntriesAt(PGesture, poss) = {Gestures[PGesture][poss + 1]}
           /\ EntriesAt(PGesture, poss + 1) = {Gestures[PGesture][poss + 2]}
<1>1. /\ poss \in Nat /\ PGesture \in DOMAIN Gestures
      /\ Gestures[PGesture] \in Seq(Entry) /\ Len(Gestures[PGesture]) \in Nat
  BY PlayerTypes
<1>2. \A i \in 1 .. Len(Gestures[PGesture]) : At(i) \in Nat
  BY <1>1, EntryTypes DEF At
<1>3. PICK i \in 1 .. Len(Gestures[PGesture]) - 1 : At(i + 1) <= At(i)
  BY <1>1, TableAssumption DEF At
<1>4. i \notin 1 .. poss
  <2>1. At(i) \in Nat /\ At(i + 1) \in Nat
    BY <1>1, <1>2
  <2> QED BY <1>3, <2>1 DEF InSequence
<1>5. poss + 1 < Len(Gestures[PGesture])
  BY <1>1, <1>3, <1>4
<1> QED BY <1>1, <1>2, <1>5 DEF EntriesAt

\* A position of the table is not later than the last of all.
LEMMA AtIsEarly ==
    ASSUME TimesOK, poss < Len(Gestures[PGesture])
    PROVE  At(poss + 1) \in Nat /\ At(poss + 1) <= LastPosition /\ LastPosition \in Nat
<1>1. /\ PGesture \in DOMAIN Gestures /\ Gestures[PGesture] \in Seq(Entry) /\ poss \in Nat
      /\ poss + 1 \in DOMAIN Gestures[PGesture]
  BY PlayerTypes
<1> QED BY <1>1, LastIsLast, EntryTypes DEF At

\* A step that leaves the player alone; a reset of the room stops its timer.
LEMMA PlayerApart ==
    ASSUME TimesOK, PlayerInTable, UNCHANGED <<PGesture, poss, since, halted>>,
           ~torn' => ~torn,
           Ordered' <=> Ordered,
           tmr'["gesture"] \in {0, tmr["gesture"]}
    PROVE  PlayerInTable'
  BY DEF PlayerInTable, InSequence, Counts, Due, Stopped, At, TimesOK

\* A gesture begins; in the middle of another one the player is torn.
LEMMA PlayerStarts ==
    ASSUME TimesOK, PlayerInTable, NEW g \in DOMAIN Gestures, StartGesture(g),
           UNCHANGED <<poss, since, halted>>, tmr'["gesture"] = tmr["gesture"]
    PROVE  PlayerInTable'
<1> SUFFICES ASSUME ~torn' PROVE PlayerInTable'
  BY DEF PlayerInTable
<1>1. poss = 0 /\ ~torn /\ poss' = 0 /\ PGesture' = g
  BY DEF StartGesture
<1>2. Len(Gestures[g]) > 1
  BY TableAssumption
<1> QED BY <1>1, <1>2 DEF PlayerInTable, InSequence

\* A gesture of the thread: the next entry of the table, at its time, or its end.
LEMMA PlayerMoves ==
    ASSUME TimesOK, GestureInv, GestureProcessing
    PROVE  PlayerInTable'
<1> DEFINE now == IF poss = 0 THEN 0 ELSE since
<1>1. PICK this \in EntriesAt(PGesture, poss), following \in EntriesAt(PGesture, poss + 1) :
          GestureStep(now, this, following)
  BY DEF GestureProcessing
<1>2. /\ "GestureProcessing" \in wMsk /\ "GestureProcessing" \notin wPend
      /\ wMsk' = wMsk \ {"GestureProcessing"} /\ wPend' = wPend /\ PGesture' = PGesture /\ ~halted
  BY DEF GestureProcessing, Handled, IsNext, GestureInv, PlayerInTurn
<1>3. ~Ordered' /\ Ordered
  BY <1>2 DEF Ordered
<1>4. /\ PGesture \in DOMAIN Gestures /\ Len(Gestures[PGesture]) > 1
      /\ poss \in Nat /\ since \in Nat
  BY PlayerTypes
<1>5. CASE following.position > this.position /\ poss < MaxPoss
  <2> SUFFICES ASSUME ~torn' PROVE PlayerInTable'
    BY DEF PlayerInTable
  <2>1. /\ ~torn /\ poss' = poss + 1 /\ since' = now
        /\ halted' = (following.position = now)
        /\ tmr' = [tmr EXCEPT !["gesture"] =
               IF following.position >= now THEN following.position - now ELSE Longest]
    BY <1>1, <1>5 DEF GestureStep
  <2>2. /\ poss < Len(Gestures[PGesture]) /\ InSequence
        /\ poss > 0 => since = At(poss + 1)
    BY <1>3, <1>4, <2>1 DEF GestureInv, PlayerInTable, Counts, Due, Stopped
  <2>3. /\ poss + 1 < Len(Gestures[PGesture])
        /\ At(poss + 1) \in Nat /\ At(poss + 2) \in Nat
        /\ this.position = At(poss + 1) /\ following.position = At(poss + 2)
    BY <2>2, <1>1, TableGoesOn DEF At
  <2>4. now \in Nat /\ now < At(poss + 2) /\ At(poss + 1) < At(poss + 2)
    BY <1>4, <1>5, <2>2, <2>3
  <2>5. ~halted' /\ tmr'["gesture"] = At(poss + 2) - now
    <3>1. following.position >= now /\ following.position # now
      BY <2>3, <2>4
    <3>2. tmr' = [tmr EXCEPT !["gesture"] = At(poss + 2) - now]
      BY <2>1, <2>3, <3>1
    <3> QED BY <2>1, <3>1, <3>2 DEF TimesOK
  <2>6. InSequence'
    <3> SUFFICES ASSUME NEW j \in 1 .. poss + 1 PROVE At(j) < At(j + 1)
      BY <1>2, <2>1 DEF InSequence, At
    <3>1. CASE j = poss + 1
      BY <1>4, <2>4, <3>1
    <3>2. CASE j # poss + 1
      BY <1>4, <2>2, <3>2 DEF InSequence
    <3> QED BY <3>1, <3>2
  <2>7. At(poss + 2) = At(poss + 1)'
    BY <1>2, <1>4, <2>1 DEF At
  <2>8. Counts'
    BY <1>3, <2>1, <2>4, <2>5, <2>7, <2>3 DEF Counts
  <2> QED BY <1>2, <1>4, <2>1, <2>3, <2>5, <2>6, <2>8 DEF PlayerInTable
<1>6. CASE ~(following.position > this.position /\ poss < MaxPoss)
  <2> SUFFICES ASSUME ~torn' PROVE PlayerInTable'
    BY DEF PlayerInTable
  <2>1. poss' = 0 /\ tmr' = tmr /\ halted' = halted /\ (~torn \/ AtRest)
    BY <1>1, <1>6 DEF GestureStep
  <2>2. tmr["gesture"] = 0
    BY <1>3, <1>4, <2>1 DEF AtRest, GestureInv, PlayerInTable, Counts, Due, Stopped
  <2> QED BY <1>2, <1>4, <2>1, <2>2 DEF PlayerInTable, InSequence
<1> QED BY <1>5, <1>6

\* A tick of the player's timer. No time passes while a gesture is due.
LEMMA PlayerTicks ==
    ASSUME TimesOK, GestureInv, Tick
    PROVE  PlayerInTable'
<1> SUFFICES ASSUME ~torn' PROVE PlayerInTable'
  BY DEF PlayerInTable
<1>1. /\ ~torn /\ UNCHANGED <<wMsk, PGesture, poss, halted>>
      /\ cpu = "none" /\ (wPc = "wait" => wPend = {})
      /\ tmr'["gesture"] = IF tmr["gesture"] = 0 THEN 0 ELSE tmr["gesture"] - 1
      /\ wPend' = wPend \cup (IF tmr["wait"] = 1 THEN {"WaitTimeOut"} ELSE {})
                        \cup (IF tmr["gesture"] = 1 THEN {"GestureProcessing"} ELSE {})
      /\ since' = IF since = LongAgo THEN since ELSE since + 1
  BY DEF Tick, TimesOK
<1>2. tmr["gesture"] \in Nat /\ poss \in Nat /\ since \in Nat
  BY PlayerTypes
<1>3. poss > 0 => ~Ordered
  BY <1>1, <1>2 DEF Ordered, GestureInv, PlayerInTurn
<1>4. /\ ~halted /\ poss < Len(Gestures[PGesture]) /\ InSequence
      /\ poss = 0 => tmr["gesture"] = 0
      /\ poss > 0 => Counts \/ Stopped
  BY <1>1, <1>3 DEF GestureInv, PlayerInTable, Due
<1>5. Ordered' <=> Ordered \/ tmr["gesture"] = 1
  BY <1>1 DEF Ordered
<1>6. InSequence' /\ At(poss + 1)' = At(poss + 1)
  BY <1>1, <1>4 DEF InSequence, At
<1>7. CASE poss = 0
  BY <1>1, <1>2, <1>4, <1>6, <1>7 DEF PlayerInTable
<1>8. CASE poss > 0 /\ Counts
  <2>1. At(poss + 1) \in Nat /\ At(poss + 1) <= LastPosition /\ LastPosition \in Nat
    BY <1>4, AtIsEarly
  <2>2. since' = since + 1
    BY <1>1, <1>2, <1>8, <2>1 DEF Counts, LongAgo
  <2>3. At(poss + 1)' = since' + tmr'["gesture"]
    BY <1>1, <1>2, <1>6, <1>8, <2>1, <2>2 DEF Counts
  <2>4. Counts' \/ Due'
    BY <1>1, <1>2, <1>3, <1>5, <1>8, <2>2, <2>3 DEF Counts, Due
  <2> QED BY <1>1, <1>4, <1>6, <1>8, <2>4 DEF PlayerInTable
<1>9. CASE poss > 0 /\ Stopped
  <2>1. Stopped'
    BY <1>1, <1>2, <1>5, <1>9 DEF Stopped
  <2> QED BY <1>1, <1>4, <1>6, <1>9, <2>1 DEF PlayerInTable
<1> QED BY <1>2, <1>4, <1>7, <1>8, <1>9

\* The threads take turns: what is in the thread's hands is done before App orders more.
LEMMA TurnsKept == PlayerInTurn /\ [Next]_vars => PlayerInTurn'
<1> SUFFICES ASSUME PlayerInTurn, [Next]_vars PROVE PlayerInTurn'
  OBVIOUS
<1> USE DEF PlayerInTurn, schedVars, gestureVars, roomVars, histVars
<1>1. CASE WaitWoodman
  BY <1>1 DEF WaitWoodman
<1>2. CASE HandcarInTransit
  BY <1>2 DEF HandcarInTransit, Handled
<1>3. CASE HandcarParked
  BY <1>3 DEF HandcarParked, Handled, DefaultState, UnderWay
<1>4. CASE HeartReturn
  BY <1>4 DEF HeartReturn, Handled, EyeON_and_HeartBlinkOFF, IfTimedOut
<1>5. CASE WaitTimeOut
  BY <1>5 DEF WaitTimeOut, Handled
<1>6. CASE HeartBlinkTimeOut
  BY <1>6 DEF HeartBlinkTimeOut, Handled
<1>7. CASE GestureProcessing
  BY <1>7 DEF GestureProcessing, Handled, GestureStep
<1>8. CASE ToWink
  <2>1. "GestureProcessing" \notin wMsk
    BY <1>8, WoodmanOrder DEF ToWink, Blocks
  <2> QED BY <1>8, <2>1 DEF ToWink, Blocks
<1>9. CASE EyeOff
  BY <1>9 DEF EyeOff
<1>10. CASE EyeOn
  BY <1>10 DEF EyeOn, GoOn
<1>11. CASE SignalToHandcar
  <2>1. "GestureProcessing" \notin wMsk
    BY <1>11, WoodmanOrder DEF SignalToHandcar, Blocks
  <2> QED BY <1>11, <2>1 DEF SignalToHandcar, Blocks
<1>12. CASE SignalEnds
  BY <1>12 DEF SignalEnds, GoOn
<1>13. CASE WaitApp
  BY <1>13 DEF WaitApp
<1>14. CASE CameToLife
  BY <1>14 DEF CameToLife, AppHandled, StartGesture
<1>15. CASE PlayEnds
  BY <1>15 DEF PlayEnds, AppHandled, StartGesture
<1>16. CASE GestureCompleted
  BY <1>16 DEF GestureCompleted, AppHandled
<1>17. CASE PressOn
  BY <1>17 DEF PressOn, EyeON_and_HeartBlinkOFF
<1>18. CASE PressSlept
  BY <1>18 DEF PressSlept, StartGesture
<1>19. CASE PressOff
  BY <1>19 DEF PressOff, AppHandled, DefaultState, UnderWay
<1>20. CASE OnCmd
  <2>1. /\ AppHandled("UartNewCmd") /\ poss' = poss
        /\ torn' = (torn \/ poss # 0) \/ torn' = torn
    BY <1>20 DEF OnCmd, StartGesture
  <2>2. cpu = "App" /\ UNCHANGED <<wMsk, wPc>>
    BY <2>1 DEF AppHandled
  <2>3. wPc # "run" /\ "GestureProcessing" \notin wMsk
    BY <2>2
  <2>4. ~torn' => ~torn
    BY <2>1, Zenon
  <2> QED BY <2>1, <2>2, <2>3, <2>4
<1>21. CASE Tick
  BY <1>21 DEF Tick
<1>22. ASSUME NEW e \in Signals, SignalEvt(e) PROVE PlayerInTurn'
  BY <1>22 DEF SignalEvt, Signals
<1>23. CASE Press \/ \E c \in Commands : Command(c)
  BY <1>23 DEF Press, Command, Commands, Intervenes
<1>24. CASE UNCHANGED vars
  BY <1>24 DEF vars
<1>25. CASE WoodmanThread
  BY <1>25, <1>1, <1>2, <1>3, <1>4, <1>5, <1>6, <1>7, <1>8, <1>9, <1>10, <1>11, <1>12
     DEF WoodmanThread
<1>26. CASE AppThread
  BY <1>26, <1>13, <1>14, <1>15, <1>16, <1>17, <1>18, <1>19, <1>20 DEF AppThread
<1>27. CASE Blink \/ ProcessHandcarCenterSns \/ ProcessHandcarStartSns \/ ProcessHeartSns
  BY <1>27, <1>22 DEF Blink, ProcessHandcarCenterSns, ProcessHandcarStartSns,
     ProcessHeartSns, Signals
<1> QED BY <1>21, <1>23, <1>24, <1>25, <1>26, <1>27 DEF Next

\* Every other step leaves the player alone, begins a gesture, or stops the timer.
LEMMA PlayerStep == TimesOK /\ GestureInv /\ [Next]_vars => PlayerInTable'
<1> SUFFICES ASSUME TimesOK, GestureInv, [Next]_vars PROVE PlayerInTable'
  OBVIOUS
<1> USE DEF TimesOK, GestureInv, schedVars, gestureVars, roomVars, histVars
<1>1. CASE WaitWoodman
  <2>1. /\ UNCHANGED <<PGesture, poss, since, halted>> /\ (~torn' => ~torn)
        /\ tmr'["gesture"] \in {0, tmr["gesture"]} /\ (Ordered' <=> Ordered)
    BY <1>1 DEF WaitWoodman, Ordered, PlayerInTurn
  <2> QED BY <2>1, PlayerApart
<1>2. CASE HandcarInTransit
  <2>1. /\ UNCHANGED <<PGesture, poss, since, halted>> /\ (~torn' => ~torn)
        /\ tmr'["gesture"] \in {0, tmr["gesture"]} /\ (Ordered' <=> Ordered)
    BY <1>2 DEF HandcarInTransit, Handled, Ordered
  <2> QED BY <2>1, PlayerApart
<1>3. CASE HandcarParked
  <2>1. /\ UNCHANGED <<PGesture, poss, since, halted>> /\ (~torn' => ~torn)
        /\ tmr'["gesture"] \in {0, tmr["gesture"]} /\ (Ordered' <=> Ordered)
    BY <1>3 DEF HandcarParked, Handled, DefaultState, Ordered
  <2> QED BY <2>1, PlayerApart
<1>4. CASE HeartReturn
  <2>1. /\ UNCHANGED <<PGesture, poss, since, halted>> /\ (~torn' => ~torn)
        /\ tmr'["gesture"] \in {0, tmr["gesture"]} /\ (Ordered' <=> Ordered)
    BY <1>4 DEF HeartReturn, Handled, Ordered
  <2> QED BY <2>1, PlayerApart
<1>5. CASE WaitTimeOut
  <2>1. /\ UNCHANGED <<PGesture, poss, since, halted>> /\ (~torn' => ~torn)
        /\ tmr'["gesture"] \in {0, tmr["gesture"]} /\ (Ordered' <=> Ordered)
    BY <1>5 DEF WaitTimeOut, Handled, Ordered
  <2> QED BY <2>1, PlayerApart
<1>6. CASE HeartBlinkTimeOut
  <2>1. /\ UNCHANGED <<PGesture, poss, since, halted>> /\ (~torn' => ~torn)
        /\ tmr'["gesture"] \in {0, tmr["gesture"]} /\ (Ordered' <=> Ordered)
    BY <1>6 DEF HeartBlinkTimeOut, Handled, Ordered
  <2> QED BY <2>1, PlayerApart
<1>7. CASE GestureProcessing
  BY <1>7, PlayerMoves
<1>8. CASE ToWink
  <2>1. /\ UNCHANGED <<PGesture, poss, since, halted>> /\ (~torn' => ~torn)
        /\ tmr'["gesture"] \in {0, tmr["gesture"]} /\ (Ordered' <=> Ordered)
    BY <1>8 DEF ToWink, Blocks, Ordered
  <2> QED BY <2>1, PlayerApart
<1>9. CASE EyeOff
  <2>1. /\ UNCHANGED <<PGesture, poss, since, halted>> /\ (~torn' => ~torn)
        /\ tmr'["gesture"] \in {0, tmr["gesture"]} /\ (Ordered' <=> Ordered)
    BY <1>9 DEF EyeOff, Ordered
  <2> QED BY <2>1, PlayerApart
<1>10. CASE EyeOn
  <2>1. /\ UNCHANGED <<PGesture, poss, since, halted>> /\ (~torn' => ~torn)
        /\ tmr'["gesture"] \in {0, tmr["gesture"]} /\ (Ordered' <=> Ordered)
    BY <1>10 DEF EyeOn, GoOn, Ordered
  <2> QED BY <2>1, PlayerApart
<1>11. CASE SignalToHandcar
  <2>1. /\ UNCHANGED <<PGesture, poss, since, halted>> /\ (~torn' => ~torn)
        /\ tmr'["gesture"] \in {0, tmr["gesture"]} /\ (Ordered' <=> Ordered)
    BY <1>11 DEF SignalToHandcar, Blocks, Ordered
  <2> QED BY <2>1, PlayerApart
<1>12. CASE SignalEnds
  <2>1. /\ UNCHANGED <<PGesture, poss, since, halted>> /\ (~torn' => ~torn)
        /\ tmr'["gesture"] \in {0, tmr["gesture"]} /\ (Ordered' <=> Ordered)
    BY <1>12 DEF SignalEnds, GoOn, Ordered
  <2> QED BY <2>1, PlayerApart
<1>13. CASE WaitApp
  <2>1. /\ UNCHANGED <<PGesture, poss, since, halted>> /\ (~torn' => ~torn)
        /\ tmr'["gesture"] \in {0, tmr["gesture"]} /\ (Ordered' <=> Ordered)
    BY <1>13 DEF WaitApp, Ordered
  <2> QED BY <2>1, PlayerApart
<1>14. CASE CameToLife
  <2>1. /\ StartGesture("monologue") /\ UNCHANGED <<poss, since, halted>>
        /\ tmr'["gesture"] = tmr["gesture"] /\ "monologue" \in DOMAIN Gestures
    BY <1>14, TableAssumption DEF CameToLife
  <2> QED BY <2>1, PlayerStarts
<1>15. CASE PlayEnds
  <2>1. /\ UNCHANGED <<poss, since, halted>> /\ tmr' = tmr /\ "smile" \in DOMAIN Gestures
        /\ \/ StartGesture("smile")
           \/ Ordered' = Ordered /\ UNCHANGED <<PGesture, torn>>
    BY <1>15, TableAssumption DEF PlayEnds, AppHandled, Ordered
  <2> QED BY <2>1, PlayerStarts, PlayerApart
<1>16. CASE GestureCompleted
  <2>1. /\ UNCHANGED <<PGesture, poss, since, halted>> /\ (~torn' => ~torn)
        /\ tmr'["gesture"] \in {0, tmr["gesture"]} /\ (Ordered' <=> Ordered)
    BY <1>16 DEF GestureCompleted, AppHandled, Ordered
  <2> QED BY <2>1, PlayerApart
<1>17. CASE PressOn
  <2>1. /\ UNCHANGED <<PGesture, poss, since, halted>> /\ (~torn' => ~torn)
        /\ tmr'["gesture"] \in {0, tmr["gesture"]} /\ (Ordered' <=> Ordered)
    BY <1>17 DEF PressOn, Ordered
  <2> QED BY <2>1, PlayerApart
<1>18. CASE PressSlept
  <2>1. /\ StartGesture("smile") /\ UNCHANGED <<poss, since, halted>>
        /\ tmr'["gesture"] = tmr["gesture"] /\ "smile" \in DOMAIN Gestures
    BY <1>18, TableAssumption DEF PressSlept
  <2> QED BY <2>1, PlayerStarts
<1>19. CASE PressOff
  <2>1. /\ UNCHANGED <<PGesture, poss, since, halted>> /\ (~torn' => ~torn)
        /\ tmr'["gesture"] \in {0, tmr["gesture"]} /\ (Ordered' <=> Ordered)
    BY <1>19 DEF PressOff, AppHandled, DefaultState, Ordered
  <2> QED BY <2>1, PlayerApart
<1>20. CASE OnCmd
  <2>1. /\ UNCHANGED <<poss, since, halted>> /\ tmr' = tmr /\ "smile" \in DOMAIN Gestures
        /\ \/ StartGesture("smile")
           \/ Ordered' = Ordered /\ UNCHANGED <<PGesture, torn>>
    BY <1>20, TableAssumption DEF OnCmd, AppHandled, Ordered
  <2> QED BY <2>1, PlayerStarts, PlayerApart
<1>21. CASE Tick
  BY <1>21, PlayerTicks
<1>22. ASSUME NEW e \in Signals, SignalEvt(e) PROVE PlayerInTable'
  <2>1. /\ UNCHANGED <<PGesture, poss, since, halted, torn, tmr>> /\ (Ordered' <=> Ordered)
    BY <1>22 DEF SignalEvt, Signals, Ordered
  <2> QED BY <2>1, PlayerApart
<1>23. CASE Press \/ \E c \in Commands : Command(c)
  <2>1. /\ UNCHANGED <<PGesture, poss, since, halted, torn, tmr>> /\ (Ordered' <=> Ordered)
    BY <1>23 DEF Press, Command, Commands, Intervenes, Ordered
  <2> QED BY <2>1, PlayerApart
<1>24. CASE UNCHANGED vars
  <2>1. /\ UNCHANGED <<PGesture, poss, since, halted, torn, tmr>> /\ (Ordered' <=> Ordered)
    BY <1>24 DEF vars, Ordered
  <2> QED BY <2>1, PlayerApart
<1>25. CASE WoodmanThread
  BY <1>25, <1>1, <1>2, <1>3, <1>4, <1>5, <1>6, <1>7, <1>8, <1>9, <1>10, <1>11, <1>12
     DEF WoodmanThread
<1>26. CASE AppThread
  BY <1>26, <1>13, <1>14, <1>15, <1>16, <1>17, <1>18, <1>19, <1>20 DEF AppThread
<1>27. CASE Blink \/ ProcessHandcarCenterSns \/ ProcessHandcarStartSns \/ ProcessHeartSns
  BY <1>27, <1>22 DEF Blink, ProcessHandcarCenterSns, ProcessHandcarStartSns,
     ProcessHeartSns, Signals
<1> QED BY <1>21, <1>23, <1>24, <1>25, <1>26, <1>27 DEF Next

\* The gesture player stops at the entry that ends its table, never sets its timer to a
\* delay of zero or below it, and each entry is played at its own time (ITask l. 76-104),
\* until a gesture is begun, or the thread sleeps, in the middle of another one; and again
\* when it has come to rest. Every variable keeps its type.
THEOREM GesturesFollowTableHolds == Spec => []GesturesFollowTable
<1>1. Init => GestureInv
  BY TableAssumption DEF Init, GestureInv, PlayerInTurn, PlayerInTable, InSequence
<1>2. TypeInv /\ GestureInv /\ [Next]_vars => GestureInv'
  BY TurnsKept, PlayerStep DEF GestureInv, TypeInv
<1>3. TypeInv /\ GestureInv => InTable /\ InTime
  <2> SUFFICES ASSUME TypeInv, GestureInv, ~torn
               PROVE  /\ poss < Len(Gestures[PGesture]) /\ ~halted
                      /\ tmr["gesture"] < Longest
    BY DEF InTable, InTime
  <2>1. /\ poss < Len(Gestures[PGesture]) /\ ~halted /\ tmr["gesture"] \in Nat
        /\ since \in Nat /\ TimesOK
        /\ tmr["gesture"] = 0 \/ since + tmr["gesture"] = At(poss + 1)
    BY LastIsLast, TicksAssumption
       DEF GestureInv, PlayerInTable, Counts, Due, Stopped, TypeInv, TimesOK, LongAgo
  <2>2. At(poss + 1) \in Nat /\ At(poss + 1) <= LastPosition /\ LastPosition \in Nat
    BY <2>1, AtIsEarly
  <2> QED BY <2>1, <2>2, TicksAssumption
<1>4. TypeInv /\ GestureInv => GesturesFollowTable
  BY <1>3, TypesAreTrue DEF GesturesFollowTable
<1> QED
  BY TypesAtFirst, TypesKept, <1>1, <1>2, <1>4, PTL DEF Spec
=============================================================================
