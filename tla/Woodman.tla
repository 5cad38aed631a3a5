------------------------------ MODULE Woodman ------------------------------
(***************************************************************************)
(* The firmware of the Woodman room (main.cpp and Game/Woodman.cpp, built  *)
(* when QUEST_ROOM == WoodmanRoom): the Woodman thread with its three      *)
(* timers, the App thread, the sensors of the room, the player's end of a  *)
(* file, the operator's button and the UART commands.                      *)
(*                                                                         *)
(* The game: a handcar drives through the tunnel, the heart is put back,   *)
(* the Woodman raises his head, speaks a monologue while his mouth follows *)
(* a table of gestures, smiles, winks, and the door opens.                 *)
(*                                                                         *)
(* Both threads have priority NORMALPRIO and the kernel has no time slice: *)
(* a thread keeps the processor (cpu) from one blocking call to the next.  *)
(* A pass of ITask takes all pending events at once (wMsk, aMsk) and       *)
(* handles them in the order of its ifs, one action each.  Time is counted *)
(* in ticks and passes when no thread can run.                             *)
(***************************************************************************)
EXTENDS Integers, Sequences, FiniteSets

CONSTANTS
    Gestures,       \* the tables: "monologue" and "smile" -> entries
    SoundTicks,     \* the lengths that the monologue's file may have
    HeadUpTicks, TunnelTicks,     \* the periods of TmrWait
    WinkTicks, SignalTicks,       \* the sleeps of the Woodman thread
    PressTicks,     \* the sleep of BtnHandler
    Interventions,  \* the button events and UART commands of the operator
    MaxGiven,       \* bound: how many of them
    Longest,        \* stands for the delay of an hour that an underflow gives
    MaxPoss         \* bound: entries read past the end of a table

States == <<"wsExpectation", "wsWoodmanActive", "wsHeartReturned",
            "wsMonologueCompleted", "wsDoorOpened">>
Rank(s) == CHOOSE i \in DOMAIN States : States[i] = s

\* Gesture_t, of which only Position_MS decides anything: how wide the mouth is
\* (Level) goes to the LEDs, which no code reads back.
Entry == [position : Nat]
\* Every table has an entry that is not later than the one before it: its last.
ASSUME TableAssumption ==
    /\ DOMAIN Gestures = {"monologue", "smile"}
    /\ \A g \in DOMAIN Gestures :
           /\ Gestures[g] \in Seq(Entry) /\ Len(Gestures[g]) > 1
           /\ \E i \in 1 .. Len(Gestures[g]) - 1 :
                  Gestures[g][i + 1].position <= Gestures[g][i].position
\* Bound: once StartTime is so long ago that every position is past, it stays so.
LastPosition ==
    LET positions == {e.position : e \in UNION {{Gestures[g][i] : i \in DOMAIN Gestures[g]} :
                                               g \in DOMAIN Gestures}}
    IN CHOOSE n \in positions : \A m \in positions : m <= n
LongAgo == LastPosition + 1

ASSUME TicksAssumption ==
    /\ SoundTicks \subseteq Nat \ {0}
    /\ {HeadUpTicks, TunnelTicks, WinkTicks, SignalTicks, PressTicks} \subseteq Nat \ {0}
    /\ Longest \in Nat /\ Longest > LastPosition /\ MaxPoss \in Nat
Commands == {"CameToLife", "Smile", "Wink"}
ASSUME InputAssumption ==
    Interventions \subseteq {"beShortPress"} \cup Commands /\ MaxGiven \in Nat

VARIABLES
    cpu,                \* the thread that runs, or "none"
    halted,             \* an assertion of the kernel has failed
    wPend, wMsk, wPc,   \* the Woodman thread: events, EvtMsk, where it is
    aPend, aMsk, aPc,   \* the App thread
    cmd,                \* the UART command that waits for App
    sleep,              \* ticks left of the sleep of each thread, 0: no sleep
    tmr,                \* ticks left of TmrWait, GestureProcess_Tmr and the sound
    blinking,           \* HeartBlinkTmr is armed
    State, PGesture,    \* members of Woodman_t
    poss, since,        \* statics of ITask; since: ticks from StartTime, in a gesture
    backlight, tunnel, headUp, doorOpen, signal,   \* outputs, without the LEDs
    heartBack, spoke,   \* history since the last DefaultState
    undue,              \* history: what may come in this game before its time
    torn,               \* history: the gesture player has been disturbed in a gesture
    given               \* the operator's interventions so far

schedVars == <<cpu, wPend, wMsk, wPc, aPend, aMsk, aPc, cmd, sleep>>
gestureVars == <<PGesture, poss, since, halted, torn>>
roomVars == <<backlight, tunnel, headUp, doorOpen, signal>>
histVars == <<heartBack, spoke, undue, given>>
vars == <<schedVars, tmr, blinking, State, gestureVars, roomVars, histVars>>

\* The events of the Woodman thread and of App, in the order of their ifs.
WoodmanEvents == <<"HandcarInTransit", "HandcarParked", "HeartReturn", "WaitTimeOut",
                   "HeartBlinkTimeOut", "GestureProcessing", "ToWink", "SignalToHandcar">>
AppEvents == <<"CameToLife", "PlayEnds", "GestureCompleted", "Buttons", "UartNewCmd">>

\* main(): Woodman.Init and DefaultState.
Init ==
    /\ cpu = "none" /\ halted = FALSE
    /\ wPend = {} /\ wMsk = {} /\ wPc = "wait"
    /\ aPend = {} /\ aMsk = {} /\ aPc = "wait" /\ cmd = "none"
    /\ sleep = [t \in {"Woodman", "App"} |-> 0]
    /\ tmr = [t \in {"wait", "gesture", "sound"} |-> 0]
    /\ blinking = FALSE
    /\ State = "wsExpectation"
    /\ PGesture = "smile" /\ poss = 0 /\ since = LongAgo
    /\ backlight = FALSE /\ tunnel = FALSE /\ headUp = FALSE
    /\ doorOpen = FALSE /\ signal = FALSE
    /\ heartBack = FALSE /\ spoke = FALSE /\ undue = {} /\ torn = FALSE /\ given = 0

-----------------------------------------------------------------------------
(* Operations of Woodman_t.                                                  *)

\* What an earlier game has ordered and nobody takes back: the end of its sound, the
\* start of its monologue, its signal to the handcar.
UnderWay == {x \in {"sound", "life", "signal"} :
    CASE x = "sound" -> tmr["sound"] > 0 \/ "PlayEnds" \in aPend \cup aMsk
      [] x = "life" -> "CameToLife" \in aPend \cup aMsk
      [] x = "signal" -> "SignalToHandcar" \in wPend \cup wMsk}

\* No gesture is going on, and none is ordered.
AtRest == tmr["gesture"] = 0 /\ "GestureProcessing" \notin wPend

\* A slip: the door is not locked again.
DefaultStateDoorOpen ==
    /\ State' = "wsExpectation"
    /\ backlight' = FALSE /\ tunnel' = FALSE /\ headUp' = FALSE
    /\ signal' = FALSE
    /\ tmr' = [tmr EXCEPT !["wait"] = 0, !["gesture"] = 0]
    /\ blinking' = FALSE
    /\ heartBack' = FALSE /\ spoke' = FALSE /\ undue' = UnderWay
    /\ UNCHANGED doorOpen

\* The sound plays on, poss and the events already flagged stay.
DefaultState ==
    /\ State' = "wsExpectation"
    /\ backlight' = FALSE /\ tunnel' = FALSE /\ headUp' = FALSE
    /\ doorOpen' = FALSE /\ signal' = FALSE
    /\ tmr' = [tmr EXCEPT !["wait"] = 0, !["gesture"] = 0]
    /\ blinking' = FALSE
    /\ heartBack' = FALSE /\ spoke' = FALSE /\ undue' = UnderWay

EyeON_and_HeartBlinkOFF == blinking' = FALSE

\* A pass over the events of a mask: the first of its set in the thread's order.
IsNext(e, msk, order) ==
    /\ e \in msk
    /\ \A i, j \in DOMAIN order : order[i] = e /\ order[j] \in msk => i <= j

-----------------------------------------------------------------------------
(* The Woodman thread.                                                       *)

WaitWoodman ==    \* chEvtWaitAny returns
    /\ cpu = "none" /\ ~halted
    /\ wPc = "wait" /\ wPend # {}
    /\ cpu' = "Woodman" /\ wPc' = "run"
    /\ wMsk' = wPend /\ wPend' = {}
    /\ UNCHANGED <<aPend, aMsk, aPc, cmd, sleep, tmr, blinking, State, gestureVars,
                   roomVars, histVars>>

\* A handler that ends without blocking: the next if, or chEvtWaitAny again.
Handled(e) ==
    /\ cpu = "Woodman" /\ wPc = "run" /\ IsNext(e, wMsk, WoodmanEvents) /\ ~halted
    /\ wMsk' = wMsk \ {e}
    /\ cpu' = IF wMsk' = {} THEN "none" ELSE cpu
    /\ wPc' = IF wMsk' = {} THEN "wait" ELSE wPc
    /\ UNCHANGED <<aMsk, aPc, cmd, sleep>>

HandcarInTransit ==
    /\ Handled("HandcarInTransit")
    /\ IF State = "wsExpectation"
       THEN /\ backlight' = TRUE /\ blinking' = TRUE
            /\ tmr' = [tmr EXCEPT !["wait"] = TunnelTicks]
            /\ State' = "wsWoodmanActive"
       ELSE UNCHANGED <<backlight, blinking, tmr, State>>
    /\ UNCHANGED <<wPend, aPend, gestureVars, tunnel, headUp, doorOpen, signal, histVars>>

HandcarParked ==
    /\ Handled("HandcarParked")
    /\ DefaultState
    /\ UNCHANGED <<wPend, aPend, gestureVars, given>>

\* The end of the wait in the tunnel that is not handled yet will count for the head's.
IfTimedOut == IF "WaitTimeOut" \in wPend \cup wMsk THEN {"life"} ELSE {}

\* A slip: nobody waits for the head, and nothing comes after.
HeartReturnNoTimer ==
    /\ Handled("HeartReturn")
    /\ IF Rank(State) < Rank("wsHeartReturned")
       THEN /\ State' = "wsHeartReturned"
            /\ EyeON_and_HeartBlinkOFF /\ headUp' = TRUE
            /\ heartBack' = TRUE /\ UNCHANGED <<tmr, undue>>
       ELSE UNCHANGED <<State, blinking, headUp, tmr, heartBack, undue>>
    /\ UNCHANGED <<wPend, aPend, gestureVars, backlight, tunnel, doorOpen, signal, spoke, given>>

\* A slip: the Woodman comes to life while he raises his head.
HeartReturnAtOnce ==
    /\ Handled("HeartReturn")
    /\ IF Rank(State) < Rank("wsHeartReturned")
       THEN /\ State' = "wsHeartReturned"
            /\ EyeON_and_HeartBlinkOFF /\ headUp' = TRUE
            /\ tmr' = [tmr EXCEPT !["wait"] = HeadUpTicks]
            /\ aPend' = aPend \cup {"CameToLife"}
            /\ heartBack' = TRUE /\ undue' = undue \cup IfTimedOut
       ELSE UNCHANGED <<State, blinking, headUp, tmr, aPend, heartBack, undue>>
    /\ UNCHANGED <<wPend, gestureVars, backlight, tunnel, doorOpen, signal, spoke, given>>

HeartReturn ==
    /\ Handled("HeartReturn")
    /\ IF Rank(State) < Rank("wsHeartReturned")
       THEN /\ State' = "wsHeartReturned"
            /\ EyeON_and_HeartBlinkOFF /\ headUp' = TRUE
            /\ tmr' = [tmr EXCEPT !["wait"] = HeadUpTicks]
            /\ heartBack' = TRUE /\ undue' = undue \cup IfTimedOut
       ELSE UNCHANGED <<State, blinking, headUp, tmr, heartBack, undue>>
    /\ UNCHANGED <<wPend, aPend, gestureVars, backlight, tunnel, doorOpen, signal, spoke, given>>

WaitTimeOut ==
    /\ Handled("WaitTimeOut")
    /\ tunnel' = (tunnel \/ State = "wsWoodmanActive")
    /\ aPend' = aPend \cup IF State = "wsHeartReturned" THEN {"CameToLife"} ELSE {}
    /\ UNCHANGED <<wPend, tmr, blinking, State, gestureVars, backlight, headUp, doorOpen,
                   signal, histVars>>

HeartBlinkTimeOut ==    \* the heart's LEDs change
    /\ Handled("HeartBlinkTimeOut")
    /\ UNCHANGED <<wPend, aPend, tmr, blinking, State, gestureVars, roomVars, histVars>>

\* What is read at index i: past the table, whatever lies there.
EntriesAt(g, i) ==
    IF i < Len(Gestures[g]) THEN {Gestures[g][i + 1]}
    ELSE [position : {0, 1}]

\* The timer for the next entry, if it is a later one.
\* Position_MS - LasrTime is unsigned: a position that is past gives a delay
\* of more than an hour (Longest), and none at all stops the kernel
\* (chVTDoSetI: chDbgCheck(delay != TIME_IMMEDIATE)).
GestureStep(now, this, following) ==
    /\ IF following.position > this.position /\ poss < MaxPoss
       THEN /\ poss' = poss + 1 /\ since' = now /\ UNCHANGED <<aPend, torn>>
            /\ halted' = (following.position = now)
            /\ tmr' = [tmr EXCEPT !["gesture"] =
                   IF following.position >= now THEN following.position - now ELSE Longest]
       ELSE /\ poss' = 0 /\ since' = LongAgo /\ torn' = (torn /\ ~AtRest)
            /\ aPend' = aPend \cup {"GestureCompleted"} /\ UNCHANGED <<tmr, halted>>

\* A slip: the start of the first gesture counts for all.
GestureProcessingOldStart ==
    /\ Handled("GestureProcessing")
    /\ \E this \in EntriesAt(PGesture, poss), following \in EntriesAt(PGesture, poss + 1) :
           GestureStep(since, this, following)
    /\ UNCHANGED <<wPend, PGesture, blinking, State, roomVars, histVars>>

GestureProcessing ==
    /\ Handled("GestureProcessing")
    /\ \E this \in EntriesAt(PGesture, poss), following \in EntriesAt(PGesture, poss + 1) :
           GestureStep(IF poss = 0 THEN 0 ELSE since, this, following)
    /\ UNCHANGED <<wPend, PGesture, blinking, State, roomVars, histVars>>

\* A handler that sleeps: the rest of the mask has to wait.
Blocks(e, place, ticks) ==
    /\ cpu = "Woodman" /\ wPc = "run" /\ IsNext(e, wMsk, WoodmanEvents) /\ ~halted
    /\ wMsk' = wMsk \ {e} /\ wPc' = place
    /\ sleep' = [sleep EXCEPT !["Woodman"] = ticks] /\ cpu' = "none"
    /\ torn' = (torn \/ poss # 0)
    /\ UNCHANGED <<wPend, aPend, aMsk, aPc, cmd, tmr, blinking, State, PGesture, poss,
                   since, halted, backlight, tunnel, headUp, doorOpen, histVars>>

ToWink == Blocks("ToWink", "wink", WinkTicks) /\ UNCHANGED signal
SignalToHandcar == Blocks("SignalToHandcar", "signal", SignalTicks) /\ signal' = TRUE

Woken == cpu = "none" /\ ~halted /\ sleep["Woodman"] = 0

EyeOff ==    \* the left eye closes for another sleep
    /\ Woken /\ wPc = "wink"
    /\ wPc' = "winking"
    /\ sleep' = [sleep EXCEPT !["Woodman"] = WinkTicks]
    /\ UNCHANGED <<cpu, wPend, wMsk, aPend, aMsk, aPc, cmd, tmr, blinking, State,
                   gestureVars, roomVars, histVars>>

\* The rest of the mask after a sleep, or chEvtWaitAny.
GoOn ==
    /\ cpu' = IF wMsk = {} THEN "none" ELSE "Woodman"
    /\ wPc' = IF wMsk = {} THEN "wait" ELSE "run"
    /\ UNCHANGED <<wPend, wMsk, aPend, aMsk, aPc, cmd, sleep, tmr, blinking, State,
                   gestureVars, backlight, tunnel, headUp, doorOpen, histVars>>

EyeOn == Woken /\ wPc = "winking" /\ GoOn /\ UNCHANGED signal

SignalEnds == Woken /\ wPc = "signal" /\ signal' = FALSE /\ GoOn

WoodmanThread ==
    \/ WaitWoodman \/ HandcarInTransit \/ HandcarParked \/ HeartReturn
    \/ WaitTimeOut \/ HeartBlinkTimeOut \/ GestureProcessing
    \/ ToWink \/ EyeOff \/ EyeOn \/ SignalToHandcar \/ SignalEnds

-----------------------------------------------------------------------------
(* The App thread.                                                           *)

WaitApp ==
    /\ cpu = "none" /\ ~halted
    /\ aPc = "wait" /\ aPend # {}
    /\ cpu' = "App" /\ aPc' = "run"
    /\ aMsk' = aPend /\ aPend' = {}
    /\ UNCHANGED <<wPend, wMsk, wPc, cmd, sleep, tmr, blinking, State, gestureVars,
                   roomVars, histVars>>

AppHandled(e) ==
    /\ cpu = "App" /\ aPc = "run" /\ IsNext(e, aMsk, AppEvents) /\ ~halted
    /\ aMsk' = aMsk \ {e}
    /\ cpu' = IF aMsk' = {} THEN "none" ELSE cpu
    /\ aPc' = IF aMsk' = {} THEN "wait" ELSE aPc
    /\ UNCHANGED <<wMsk, wPc, sleep>>

StartGesture(g) ==
    /\ PGesture' = g /\ wPend' = wPend \cup {"GestureProcessing"}
    /\ torn' = (torn \/ poss # 0)

CameToLife ==
    /\ AppHandled("CameToLife")
    /\ \E n \in SoundTicks : tmr' = [tmr EXCEPT !["sound"] = n]
    /\ StartGesture("monologue")
    /\ spoke' = TRUE
    /\ UNCHANGED <<aPend, cmd, blinking, State, poss, since, halted, roomVars,
                   heartBack, undue, given>>

PlayEnds ==
    /\ AppHandled("PlayEnds")
    /\ IF State = "wsHeartReturned"
       THEN State' = "wsMonologueCompleted" /\ StartGesture("smile")
       ELSE UNCHANGED <<State, PGesture, wPend, torn>>
    /\ UNCHANGED <<aPend, cmd, tmr, blinking, poss, since, halted, roomVars, histVars>>

GestureCompleted ==
    /\ AppHandled("GestureCompleted")
    /\ IF State = "wsMonologueCompleted"
       THEN /\ wPend' = wPend \cup {"ToWink", "SignalToHandcar"}
            /\ doorOpen' = TRUE /\ State' = "wsDoorOpened"
       ELSE UNCHANGED <<wPend, doorOpen, State>>
    /\ UNCHANGED <<aPend, cmd, tmr, blinking, gestureVars, backlight, tunnel, headUp,
                   signal, histVars>>

\* BtnHandler: a press with the backlight off shows the smiling Woodman.
PressOn ==
    /\ cpu = "App" /\ aPc = "run" /\ IsNext("Buttons", aMsk, AppEvents) /\ ~halted
    /\ ~backlight
    /\ headUp' = TRUE /\ backlight' = TRUE /\ tunnel' = TRUE
    /\ EyeON_and_HeartBlinkOFF
    /\ aMsk' = aMsk \ {"Buttons"} /\ aPc' = "press" /\ cpu' = "none"
    /\ sleep' = [sleep EXCEPT !["App"] = PressTicks]
    /\ UNCHANGED <<wPend, wMsk, wPc, aPend, cmd, tmr, State, gestureVars, doorOpen,
                   signal, histVars>>

PressSlept ==
    /\ cpu = "none" /\ ~halted /\ aPc = "press" /\ sleep["App"] = 0
    /\ StartGesture("smile")
    /\ cpu' = IF aMsk = {} THEN "none" ELSE "App"
    /\ aPc' = IF aMsk = {} THEN "wait" ELSE "run"
    /\ UNCHANGED <<wMsk, wPc, aPend, aMsk, cmd, sleep, tmr, blinking, State, poss,
                   since, halted, roomVars, histVars>>

PressOff ==
    /\ AppHandled("Buttons") /\ backlight
    /\ DefaultState
    /\ UNCHANGED <<wPend, aPend, cmd, gestureVars, given>>

\* App_t::OnCmd.
OnCmd ==
    /\ AppHandled("UartNewCmd") /\ cmd' = "none"
    /\ \/ /\ cmd = "CameToLife" /\ aPend' = aPend \cup {"CameToLife"}
          /\ undue' = undue \cup {"life"}
          /\ UNCHANGED <<wPend, PGesture, torn, State, blinking, heartBack>>
       \/ /\ cmd = "Smile" /\ State' = "wsMonologueCompleted"
          /\ EyeON_and_HeartBlinkOFF /\ StartGesture("smile")
          /\ heartBack' = TRUE /\ undue' = undue \cup {"sound"} /\ UNCHANGED aPend
       \/ /\ cmd = "Wink" /\ wPend' = wPend \cup {"ToWink"}
          /\ UNCHANGED <<aPend, PGesture, torn, State, blinking, heartBack, undue>>
    /\ UNCHANGED <<tmr, poss, since, halted, roomVars, spoke, given>>

AppThread ==
    \/ WaitApp \/ CameToLife \/ PlayEnds \/ GestureCompleted
    \/ PressOn \/ PressSlept \/ PressOff \/ OnCmd

-----------------------------------------------------------------------------
(* What comes from outside.                                                  *)

SignalEvt(e) ==
    /\ cpu = "none" /\ ~halted
    /\ wPend' = wPend \cup {e}
    /\ UNCHANGED <<cpu, wMsk, wPc, aPend, aMsk, aPc, cmd, sleep, tmr, blinking, State,
                   gestureVars, roomVars, histVars>>

ProcessHandcarCenterSns == SignalEvt("HandcarInTransit")
ProcessHandcarStartSns == SignalEvt("HandcarParked")
ProcessHeartSns == SignalEvt("HeartReturn")

\* The operator presses the button, or types a command.
Intervenes(x) ==
    /\ cpu = "none" /\ ~halted
    /\ x \in Interventions /\ given < MaxGiven /\ given' = given + 1
    /\ UNCHANGED <<cpu, wPend, wMsk, wPc, aMsk, aPc, sleep, tmr, blinking, State,
                   gestureVars, roomVars, heartBack, spoke, undue>>

Press ==
    /\ Intervenes("beShortPress")
    /\ aPend' = aPend \cup {"Buttons"}
    /\ UNCHANGED cmd

Command(c) ==
    /\ cmd = "none"
    /\ Intervenes(c)
    /\ aPend' = aPend \cup {"UartNewCmd"} /\ cmd' = c

\* HeartBlinkTmr is periodic; where in its period it is, is left open.
Blink == blinking /\ SignalEvt("HeartBlinkTimeOut")

\* One tick, when no thread can run: timers, sleeps, the end of the file.
Tick ==
    /\ cpu = "none" /\ ~halted
    /\ wPc = "wait" => wPend = {}
    /\ aPc = "wait" => aPend = {}
    /\ wPc # "wait" => sleep["Woodman"] > 0
    /\ aPc # "wait" => sleep["App"] > 0
    /\ tmr' = [t \in DOMAIN tmr |-> IF tmr[t] = 0 THEN 0 ELSE tmr[t] - 1]
    /\ sleep' = [t \in DOMAIN sleep |-> IF sleep[t] = 0 THEN 0 ELSE sleep[t] - 1]
    /\ wPend' = wPend \cup (IF tmr["wait"] = 1 THEN {"WaitTimeOut"} ELSE {})
                      \cup (IF tmr["gesture"] = 1 THEN {"GestureProcessing"} ELSE {})
    /\ aPend' = aPend \cup IF tmr["sound"] = 1 THEN {"PlayEnds"} ELSE {}
    /\ since' = IF since = LongAgo THEN since ELSE since + 1
    /\ UNCHANGED <<cpu, wMsk, wPc, aMsk, aPc, cmd, blinking, State, PGesture, poss,
                   halted, torn, roomVars, histVars>>

Next ==
    \/ WoodmanThread \/ AppThread \/ Tick \/ Blink
    \/ ProcessHandcarCenterSns \/ ProcessHandcarStartSns \/ ProcessHeartSns
    \/ Press \/ \E c \in Commands : Command(c)

Spec == Init /\ [][Next]_vars

\* The ready list is first in, first out, so a thread is served even though the
\* other one is ready again and again, and time passes whatever comes from
\* outside.  Nobody has to press or to drive anything.
FairSpec == Spec /\ SF_vars(WoodmanThread) /\ SF_vars(AppThread) /\ SF_vars(Tick)

-----------------------------------------------------------------------------
(* What is promised.                                                         *)

\* Every variable keeps to the values that its type in the code has.
TypeOK ==
    /\ cpu \in {"none", "Woodman", "App"} /\ halted \in BOOLEAN
    /\ LET evts == {WoodmanEvents[i] : i \in DOMAIN WoodmanEvents}
       IN wPend \subseteq evts /\ wMsk \subseteq evts
    /\ LET evts == {AppEvents[i] : i \in DOMAIN AppEvents}
       IN aPend \subseteq evts /\ aMsk \subseteq evts
    /\ wPc \in {"wait", "run", "wink", "winking", "signal"}
    /\ aPc \in {"wait", "run", "press"}
    /\ cmd \in {"none", "CameToLife", "Smile", "Wink"}
    /\ sleep \in [{"Woodman", "App"} -> Nat]
    /\ tmr \in [{"wait", "gesture", "sound"} -> Nat]
    /\ State \in {States[i] : i \in DOMAIN States}
    /\ PGesture \in DOMAIN Gestures
    /\ poss \in 0 .. MaxPoss /\ since \in 0 .. LongAgo
    /\ {blinking, backlight, tunnel, headUp, doorOpen, signal} \subseteq BOOLEAN
    /\ {heartBack, spoke, torn} \subseteq BOOLEAN
    /\ undue \subseteq {"sound", "life", "signal"} /\ given \in 0 .. MaxGiven

\* The door is open only when, since the last DefaultState, the heart has been
\* put back (or the operator has given the command Smile).
DoorNeedsHeart == doorOpen => heartBack

\* The door is open only after a monologue has been started since the last
\* DefaultState, unless that DefaultState came in the middle of a monologue: the sound
\* plays on, and its end counts for this game.  The command Smile stands for the end
\* of the sound.
DoorEarned == doorOpen /\ "sound" \notin undue => spoke

\* The handcar gets its signal only while the door is open, unless the last
\* DefaultState has locked a door whose signal was still to come (the thread
\* sleeps, Woodman.cpp:108, with the order in its mask).
SignalMeansDoor == signal /\ "signal" \notin undue => doorOpen

\* The door is open only when the game has come to it, and the handcar's signal
\* means that it is open: for every order of sensors, sounds and gestures, and
\* whoever resets the room and when.
DoorIsEarned == DoorNeedsHeart /\ DoorEarned /\ SignalMeansDoor

\* The gesture player stops at the entry that ends its table.
InTable == ~torn => poss < Len(Gestures[PGesture])

\* The timer for the next gesture is never set to the hour that an unsigned
\* difference below zero stands for, nor to a delay of zero, which halts the kernel.
InTime == ~torn => tmr["gesture"] < Longest /\ ~halted

\* The gesture player, whose position outlives every reset, keeps to its table and
\* to the table's times, with every variable in its type, until a gesture is started
\* in the middle of another one (a reset leaves a middle behind; the file may end
\* before its gestures) or the thread sleeps in the middle of one; and again when
\* the player has come to rest.
GesturesFollowTable == TypeOK /\ InTable /\ InTime

\* The monologue begins only when the time has passed in which the Woodman raises
\* his head ("wait until the Woodman raises his head", Woodman.cpp:52).  Excepted are
\* the time-out of the tunnel that is handled just after the heart (l. 61), a start
\* that an earlier game has left behind, and the operator's command.
WaitsForHead ==
    [][spoke' /\ ~spoke /\ "life" \notin undue => tmr["wait"] = 0]_vars

\* Once the heart is back the door opens, unless the room is reset or the kernel
\* has been halted.
HeartOpensDoor ==
    State = "wsHeartReturned" ~> doorOpen \/ State = "wsExpectation" \/ halted
=============================================================================
