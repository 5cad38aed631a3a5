------------------------------ MODULE PianoRoom ------------------------------
(***************************************************************************)
(* The firmware of the piano room (board.h: QUEST_ROOM == PianoRoom): the  *)
(* App thread (main.cpp, App_t::ITask), the Sensors thread                 *)
(* (SimpleSensors.cpp) with its postprocessors ProcessKeySens,             *)
(* ProcessButtons and Process5VSns, and the Piano thread around the code   *)
(* lock of PianoCode.                                                      *)
(*                                                                         *)
(* All three threads have priority NORMALPRIO and the kernel has no time   *)
(* slice (os/chconf.h: CH_CFG_TIME_QUANTUM 0): a thread keeps the          *)
(* processor from one blocking call (chEvtWaitAny, chThdSleep) to the      *)
(* next.  cpu names the thread that runs.  Only the system tick interrupt  *)
(* comes in between, with the timers' callbacks.                           *)
(*                                                                         *)
(* The outputs of the room are modelled as the code drives them: the       *)
(* cupboard's lock and backlight, the common light, the sound channel that *)
(* is switched on, the volume asked for and the file asked for last.  The  *)
(* player itself is the module Sound.                                      *)
(***************************************************************************)
EXTENDS Integers, Sequences

CONSTANTS
    Keys, Code, ResetTicks, SignalTicks,   \* see PianoCode
    SleepTicks,    \* the 500 ms before the song, in ticks
    UsbTicks,      \* the sleeps of Usb.Init and the 540 ms before Usb.Connect
    ButtonEvents,  \* the events that ProcessButtons can put into the queue
    PowerLevels,   \* the levels that the 5 V sensor can have
    Commands       \* the UART commands that are given

AppEvents ==
    {"PianoCodeOk", "Buttons", "UsbConnected", "UsbDisconnected", "UartNewCmd"}
Channels == {"none", "Piano", "Cupboard"}    \* no channel, SndCh1, SndCh2
Files == {"none", "key", "song", "other"}
States == {"psExpectation", "psMelodyPlaying", "psCupboardOpened"}

ASSUME LockAssumption ==
    /\ Keys \subseteq 1..15 /\ Code \in Seq(Keys) /\ Len(Code) > 0
    /\ ResetTicks \in Nat /\ SignalTicks \in 1..(ResetTicks - 1)
ASSUME SleepAssumption == SleepTicks \in Nat \ {0} /\ UsbTicks \in Nat \ {0}
ASSUME ButtonAssumption ==
    ButtonEvents \subseteq {"beShortPress", "beLongPress", "beClick", "beRelease"}
ASSUME PowerAssumption == PowerLevels \subseteq BOOLEAN
ASSUME CommandsAssumption == Commands \subseteq {"PianoCodeOk", "CameToLife", "Play", "Ping"}

VARIABLES
    comb, tReset, tSignal, piPend, piMsk,   \* the code lock, see PianoCode
    cpu,           \* the thread that runs, "none" when every one is blocked
    falling,       \* keys of the current poll that ProcessKeySens has left
    appPend,       \* events pending in the App thread
    appMsk,        \* events of EvtMsk that App_t::ITask has left
    appPc,         \* "wait", "run", or the sleep App is in
    sleepLeft,     \* ticks left of that sleep
    btnQ,          \* EvtBuf of buttons.cpp, a queue of one event or "empty"
    power,         \* level of the 5 V sensor at the last poll
    usbOn,         \* Usb.Connect() done, no Usb.Shutdown() since
    State,         \* Piano.State
    CommonLightON,
    cupboardOpen,  \* CupboardLock is low
    backlight,     \* CupboardBacklight is high
    channel,       \* the channel ONChannelOnly switched on last
    volume,        \* the level of the last SetVolume
    file,          \* the file of the last Sound.Play
    okFrom,        \* history: State when App last began to handle PianoCodeOk
    overlap        \* history: a USB edge came while one was pending

lockVars == <<comb, tReset, tSignal, piPend, piMsk>>
soundVars == <<channel, volume, file>>
roomVars == <<State, CommonLightON, cupboardOpen, backlight>>
usbVars == <<power, usbOn, overlap>>
appVars == <<appMsk, appPc, sleepLeft>>
vars == <<lockVars, cpu, falling, appPend, appVars, btnQ, usbVars, roomVars,
          soundVars, okFrom>>

Lock == INSTANCE PianoCode WITH appPend <- appPend \cap {"PianoCodeOk"}

\* main(), when App_t::ITask is entered: Piano.Init, Piano.DefaultState, and
\* EVT_USB_CONNECTED signalled when the power was there.
Init ==
    /\ Lock!CodeInit
    /\ cpu = "none"
    /\ falling = {}
    /\ power \in PowerLevels
    /\ appPend = IF power THEN {"UsbConnected"} ELSE {}
    /\ appMsk = {} /\ appPc = "wait" /\ sleepLeft = 0
    /\ btnQ = "empty"
    /\ usbOn = FALSE /\ overlap = FALSE
    /\ State = "psExpectation"
    /\ CommonLightON = FALSE /\ cupboardOpen = FALSE /\ backlight = FALSE
    /\ channel = "none" /\ volume = "none" /\ file = "none"
    /\ okFrom = "psExpectation"

-----------------------------------------------------------------------------
(* Operations of Piano_t (Piano.h) and Sound_t (sound.h) that the threads    *)
(* call.                                                                     *)

\* A slip: the lock opens and the state is left as it is.
OpenCupboardOnly == cupboardOpen' = TRUE /\ UNCHANGED State

OpenCupboard == cupboardOpen' = TRUE /\ State' = "psCupboardOpened"

DefaultState ==
    /\ State' = "psExpectation"
    /\ CommonLightON' = FALSE
    /\ cupboardOpen' = FALSE
    /\ backlight' = FALSE

ONChannelOnly(c) == channel' = c
SetVolume(v) == volume' = v
Play(f) == file' = f
StopSound == file' = "none"

-----------------------------------------------------------------------------
(* Sensors thread.                                                           *)

\* A poll that finds keys newly pressed: ProcessKeySens begins.
SnsPoll(pressed) ==
    /\ cpu = "none"
    /\ pressed # {}
    /\ falling' = pressed
    /\ cpu' = "Sensors"
    /\ UNCHANGED <<lockVars, appPend, appVars, btnQ, usbVars, roomVars,
                   soundVars, okFrom>>

\* The switch of ProcessKeySens on Piano.GetState().
SwitchToPiano ==
    \/ /\ State = "psExpectation"
       /\ State' = "psMelodyPlaying" /\ CommonLightON' = TRUE
       /\ ONChannelOnly("Piano") /\ SetVolume("Piano")
    \/ /\ State = "psCupboardOpened"
       /\ ONChannelOnly("Piano") /\ SetVolume("Piano")
       /\ UNCHANGED <<State, CommonLightON>>
    \/ /\ State = "psMelodyPlaying"
       /\ UNCHANGED <<State, CommonLightON, channel, volume>>

\* One turn of the loop of ProcessKeySens, lowest key first.
SnsKey ==
    /\ cpu = "Sensors"
    /\ SwitchToPiano
    /\ \E k \in falling :
           /\ \A other \in falling : k <= other
           /\ Lock!CodeProcessing(k)
           /\ falling' = falling \ {k}
    /\ Play("key")
    /\ cpu' = IF falling' = {} THEN "none" ELSE cpu
    /\ UNCHANGED <<appPend, appVars, btnQ, usbVars, cupboardOpen, backlight,
                   okFrom>>

\* AddEvtToQueue: the queue of one keeps what it holds, the event is signalled.
SnsButton(e) ==
    /\ cpu = "none"
    /\ btnQ' = IF btnQ = "empty" THEN e ELSE btnQ
    /\ appPend' = appPend \cup {"Buttons"}
    /\ UNCHANGED <<lockVars, cpu, falling, appVars, usbVars, roomVars,
                   soundVars, okFrom>>

\* Process5VSns: the 5 V pin rose or fell since the poll before.
SnsPower ==
    /\ cpu = "none"
    /\ power' \in PowerLevels \ {power}
    /\ appPend' = appPend \cup {IF power THEN "UsbDisconnected" ELSE "UsbConnected"}
    /\ overlap' = (overlap \/ appPend \cap {"UsbConnected", "UsbDisconnected"} # {})
    /\ UNCHANGED <<lockVars, cpu, falling, appVars, btnQ, usbOn, roomVars,
                   soundVars, okFrom>>

\* The UartRx thread has a whole command and waits until it is processed.
UartCmd ==
    /\ cpu = "none"
    /\ Commands # {}
    /\ "UartNewCmd" \notin appPend \cup appMsk
    /\ appPend' = appPend \cup {"UartNewCmd"}
    /\ UNCHANGED <<lockVars, cpu, falling, appVars, btnQ, usbVars, roomVars,
                   soundVars, okFrom>>

-----------------------------------------------------------------------------
(* Piano thread: Piano_t::ITask.                                             *)

\* chEvtWaitAny returns at once when events are pending already.
PianoWakes ==
    /\ cpu \in {"none", "Piano"}
    /\ Lock!PianoWakes
    /\ cpu' = "Piano"
    /\ UNCHANGED <<falling, appPend, appVars, btnQ, usbVars, roomVars,
                   soundVars, okFrom>>

\* A slip: a code is not signalled when the register is reset along with it.
PianoHandlesElseIf ==
    /\ cpu = "Piano"
    /\ Lock!PianoLoopBody
    /\ appPend' = IF piMsk = {"SignslOfCodeOk"} THEN appPend \cup {"PianoCodeOk"}
                                               ELSE appPend
    /\ UNCHANGED <<cpu, falling, appVars, btnQ, usbVars, roomVars, soundVars,
                   okFrom>>

PianoHandles ==
    /\ cpu = "Piano"
    /\ Lock!PianoLoopBody
    /\ appPend' = IF Lock!SignalsCodeOk THEN appPend \cup {"PianoCodeOk"} ELSE appPend
    /\ UNCHANGED <<cpu, falling, appVars, btnQ, usbVars, roomVars, soundVars,
                   okFrom>>

PianoWaits ==
    /\ cpu = "Piano"
    /\ piMsk = {} /\ piPend = {}
    /\ cpu' = "none"
    /\ UNCHANGED <<lockVars, falling, appPend, appVars, btnQ, usbVars, roomVars,
                   soundVars, okFrom>>

-----------------------------------------------------------------------------
(* App thread: App_t::ITask.  The sections of the loop come in this order.   *)

Sections == <<"PianoCodeOk", "Buttons", "UsbConnected", "UsbDisconnected",
              "UartNewCmd">>

\* Section s is the first one that is left.
AppAt(s) ==
    /\ cpu = "App"
    /\ \E i \in DOMAIN Sections :
           /\ Sections[i] = s
           /\ s \in appMsk
           /\ \A j \in 1..(i - 1) : Sections[j] \notin appMsk

\* A slip: the mask is dropped after the first event that is handled.
LeaveAll(s) == appMsk' = {}

Leave(s) == appMsk' = appMsk \ {s}

FallAsleep(where, ticks) ==
    /\ appPc' = where
    /\ sleepLeft' = ticks
    /\ cpu' = "none"

WakeFrom(where) ==
    /\ cpu = "none"
    /\ appPc = where
    /\ sleepLeft = 0
    /\ appPc' = "run"
    /\ cpu' = "App"

AppWakes ==
    /\ \/ cpu = "none" /\ appPc = "wait"
       \/ cpu = "App" /\ appMsk = {}
    /\ appPend # {}
    /\ appMsk' = appPend /\ appPend' = {}
    /\ appPc' = "run" /\ cpu' = "App"
    /\ UNCHANGED <<lockVars, falling, sleepLeft, btnQ, usbVars, roomVars,
                   soundVars, okFrom>>

\* A slip: events that came while App was busy are cleared before the wait.
AppWaitsAfresh ==
    /\ cpu = "App"
    /\ appMsk = {} /\ appPend' = {}
    /\ appPc' = "wait" /\ cpu' = "none"
    /\ UNCHANGED <<lockVars, falling, appMsk, sleepLeft, btnQ, usbVars,
                   roomVars, soundVars, okFrom>>

AppWaits ==
    /\ cpu = "App"
    /\ appMsk = {} /\ appPend = {}
    /\ appPc' = "wait" /\ cpu' = "none"
    /\ UNCHANGED <<lockVars, falling, appPend, appMsk, sleepLeft, btnQ, usbVars,
                   roomVars, soundVars, okFrom>>

\* EVT_PianoCodeOk: the channel is switched, then App sleeps for 500 ms ...
AppCodeOk ==
    /\ AppAt("PianoCodeOk")
    /\ ONChannelOnly("Cupboard")
    /\ FallAsleep("codeSleep", SleepTicks)
    /\ okFrom' = State
    /\ UNCHANGED <<lockVars, falling, appPend, appMsk, btnQ, usbVars, roomVars,
                   volume, file>>

\* ... and plays the song and opens the cupboard.
AppOpens ==
    /\ WakeFrom("codeSleep")
    /\ SetVolume("Cupboard") /\ Play("song")
    /\ backlight' = TRUE
    /\ OpenCupboard
    /\ Leave("PianoCodeOk")
    /\ UNCHANGED <<lockVars, falling, appPend, sleepLeft, btnQ, usbVars,
                   CommonLightON, channel, okFrom>>

\* BtnHandler.
Click ==
    \/ CommonLightON /\ DefaultState
    \/ /\ ~CommonLightON
       /\ CommonLightON' = TRUE
       /\ UNCHANGED <<State, cupboardOpen, backlight>>

\* EVT_BUTTONS: the loop over BtnGetEvt, which empties the queue.
AppButtons ==
    /\ AppAt("Buttons")
    /\ btnQ' = "empty"
    /\ IF btnQ = "beClick" THEN Click ELSE UNCHANGED roomVars
    /\ appPend' = IF btnQ = "beLongPress" THEN appPend \cup {"PianoCodeOk"} ELSE appPend
    /\ Leave("Buttons")
    /\ UNCHANGED <<lockVars, cpu, falling, appPc, sleepLeft, usbVars, soundVars,
                   okFrom>>

\* EVT_USB_CONNECTED: Sound.Stop, Usb.Init and its sleeps, 540 ms, then
\* Usb.Connect.  Nothing the room shows changes between the sleeps.
AppUsbConnected ==
    /\ AppAt("UsbConnected")
    /\ StopSound
    /\ FallAsleep("usbSleep", UsbTicks)
    /\ UNCHANGED <<lockVars, falling, appPend, appMsk, btnQ, usbVars, roomVars,
                   channel, volume, okFrom>>

AppUsbConnect ==
    /\ WakeFrom("usbSleep")
    /\ usbOn' = TRUE
    /\ Leave("UsbConnected")
    /\ UNCHANGED <<lockVars, falling, appPend, sleepLeft, btnQ, power, overlap,
                   roomVars, soundVars, okFrom>>

AppUsbDisconnected ==
    /\ AppAt("UsbDisconnected")
    /\ usbOn' = FALSE
    /\ Leave("UsbDisconnected")
    /\ UNCHANGED <<lockVars, cpu, falling, appPend, appPc, sleepLeft, btnQ,
                   power, overlap, roomVars, soundVars, okFrom>>

\* EVT_UART_NEW_CMD: App_t::OnCmd, then SignalCmdProcessed.  CameToLife, a
\* command for the other room, signals EVENT_MASK(10) too: it is PianoCodeOk.
AppCmd(c) ==
    /\ AppAt("UartNewCmd")
    /\ c # "Play"
    /\ appPend' = IF c \in {"PianoCodeOk", "CameToLife"}
                   THEN appPend \cup {"PianoCodeOk"} ELSE appPend
    /\ Leave("UartNewCmd")
    /\ UNCHANGED <<lockVars, cpu, falling, appPc, sleepLeft, btnQ, usbVars,
                   roomVars, soundVars, okFrom>>

\* The command Play searches a directory, which blocks, and plays a file of it
\* if there is one.
AppCmdPlay ==
    /\ AppAt("UartNewCmd")
    /\ "Play" \in Commands
    /\ FallAsleep("fileSearch", 0)
    /\ UNCHANGED <<lockVars, falling, appPend, appMsk, btnQ, usbVars, roomVars,
                   soundVars, okFrom>>

AppPlays ==
    /\ WakeFrom("fileSearch")
    /\ Play("other") \/ UNCHANGED file
    /\ Leave("UartNewCmd")
    /\ UNCHANGED <<lockVars, falling, appPend, sleepLeft, btnQ, usbVars,
                   roomVars, channel, volume, okFrom>>

-----------------------------------------------------------------------------
\* The system tick: the timers' callbacks, and the end of App's sleep.
Tick ==
    /\ Lock!TimerTick
    /\ sleepLeft' = Lock!Countdown(sleepLeft)
    /\ UNCHANGED <<cpu, falling, appPend, appMsk, appPc, btnQ, usbVars, roomVars,
                   soundVars, okFrom>>

Sensors ==
    \/ \E pressed \in SUBSET Keys : SnsPoll(pressed)
    \/ SnsKey
    \/ \E e \in ButtonEvents : SnsButton(e)
    \/ SnsPower
PianoThread == PianoWakes \/ PianoHandles \/ PianoWaits
AppRuns ==
    \/ AppWaits \/ AppCodeOk \/ AppButtons \/ AppUsbConnected
    \/ AppUsbDisconnected \/ AppCmdPlay \/ \E c \in Commands : AppCmd(c)
AppResumes == AppWakes \/ AppOpens \/ AppUsbConnect \/ AppPlays

Next == Sensors \/ UartCmd \/ PianoThread \/ AppRuns \/ AppResumes \/ Tick

\* A running thread goes on to its next blocking call, and the ready list is
\* first in, first out, so that a ready thread gets the processor between the
\* polls of the Sensors thread; the system tick keeps coming.
Fairness ==
    /\ WF_vars(SnsKey) /\ WF_vars(PianoHandles \/ PianoWaits) /\ WF_vars(AppRuns)
    /\ SF_vars(PianoWakes) /\ SF_vars(AppResumes)
    /\ WF_vars(Tick)

Spec == Init /\ [][Next]_vars /\ Fairness

-----------------------------------------------------------------------------
\* The types of the room's variables (main.cpp, Piano.h, buttons.h).
TypeOK ==
    /\ cpu \in {"none", "Sensors", "Piano", "App"}
    /\ falling \subseteq Keys
    /\ appPend \subseteq AppEvents /\ appMsk \subseteq AppEvents
    /\ appPc \in {"wait", "run", "codeSleep", "usbSleep", "fileSearch"}
    /\ sleepLeft \in 0..SleepTicks \cup 0..UsbTicks
    /\ btnQ \in ButtonEvents \cup {"empty"}
    /\ power \in BOOLEAN /\ usbOn \in BOOLEAN /\ overlap \in BOOLEAN
    /\ State \in States /\ okFrom \in States
    /\ CommonLightON \in BOOLEAN /\ cupboardOpen \in BOOLEAN /\ backlight \in BOOLEAN
    /\ channel \in Channels /\ volume \in Channels /\ file \in Files

\* The outputs agree with Piano.State however the Sensors thread, the button
\* and the App thread interleave: the lock and the backlight are on exactly
\* when the cupboard counts as opened, and a game in progress has its light on,
\* so that one click ends it (OpenCupboard, DefaultState, ProcessKeySens,
\* BtnHandler).
OutputsMatchState ==
    /\ cupboardOpen <=> State = "psCupboardOpened"
    /\ backlight <=> State = "psCupboardOpened"
    /\ State = "psMelodyPlaying" => CommonLightON

\* While the players play, the keys sound from the piano at its own volume;
\* only the 500 ms before the song are excepted (ProcessKeySens switches the
\* channel at the first key only).
KeysSoundOnPiano ==
    State = "psMelodyPlaying" /\ appPc # "codeSleep" =>
        channel = "Piano" /\ volume = "Piano"

\* A song that rewards players who were playing comes from the cupboard at the
\* cupboard's volume: no key pressed in the 500 ms that App sleeps switches the
\* channel back (App_t::ITask l. 177-184, ProcessKeySens).
SongOnCupboard ==
    okFrom = "psMelodyPlaying" =>
        /\ appPc = "codeSleep" => channel = "Cupboard"
        /\ file = "song" => channel = "Cupboard" /\ volume = "Cupboard"

\* Whatever keys, operator, timers and App's sleeps do in between, lock, lights,
\* channel and song stay those of the game.
OutputsFollowGame == TypeOK /\ OutputsMatchState /\ KeysSoundOnPiano /\ SongOnCupboard

\* Whenever App waits with no USB event left, the USB side is up exactly when
\* the 5 V are there, provided no edge came while another was pending: App
\* handles both kinds of one mask in a fixed order (main.cpp l. 195-214).
UsbFollowsPower ==
    appPc = "wait" /\ appPend \cap {"UsbConnected", "UsbDisconnected"} = {}
                   /\ ~overlap => usbOn = power

\* A code that the Piano thread has seen opens the cupboard and starts the
\* song, whatever App is busy with and whatever else is signalled
\* (Piano_t::ITask, App_t::ITask).
CodeOpens ==
    /\ "SignslOfCodeOk" \in piPend ~> appPc = "codeSleep"
    /\ appPc = "codeSleep" ~> cupboardOpen /\ file = "song"

\* In the room the code lock behaves as PianoCode says, its liveness included.
LockBehaves == Lock!Spec
=============================================================================
