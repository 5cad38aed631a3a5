------------------------------- MODULE Buttons -------------------------------
(***************************************************************************)
(* The way of a press of the operator's button to the App thread: the      *)
(* Sensors thread (SimpleSensors.cpp) polls the pin and keeps its state,   *)
(* ProcessButtons (kl_lib/buttons.cpp) makes events of the states and of   *)
(* the time between them, AddEvtToQueue puts them into EvtBuf and signals  *)
(* EVT_BUTTONS, and App_t::ITask (main.cpp) empties the queue when it      *)
(* comes to that event.                                                    *)
(*                                                                         *)
(* The pin is low while the button is held down (BTN_IDLE_LOW is FALSE).   *)
(* There is one button (board.h: BUTTONS_CNT), no repeat, no combo and no  *)
(* double click (buttons.h, l. 36-43).  The threads have one priority and  *)
(* no time slice: a poll runs to its end, and so does App, but for its     *)
(* sleeps, in which polls go on.  The names are not those of PianoRoom.    *)
(***************************************************************************)
EXTENDS Integers, Sequences

CONSTANTS
    Periods,         \* ticks that a poll can take from the one before
    ClickDelay,      \* BTN_CLICK_DELAY_MS
    LongPressDelay,  \* BTN_LONGPRESS_DELAY_MS
    QueueLen         \* BTNS_EVT_Q_LEN

ASSUME DelayAssumption ==
    /\ ClickDelay \in Nat /\ LongPressDelay \in Nat /\ ClickDelay < LongPressDelay
    /\ Periods \subseteq Nat \ {0}
    /\ QueueLen \in Nat \ {0}

BtnEvts == {"beShortPress", "beLongPress", "beRelease", "beClick"}
PinSnsStates == {"pssNone", "pssLo", "pssHi", "pssRising", "pssFalling"}

VARIABLES
    pin,          \* States[i] of the button's pin
    sinceClick,   \* ticks since ClickTimer, LongPressDelay and more as one
    sinceLong,    \* ticks since LongPressTimer, likewise
    IsLongPress,
    EvtBuf,
    evtPend,      \* EVT_BUTTONS is pending in the App thread
    app,          \* "waits" in chEvtWaitAny or "sleeps" in some section
    emitted,      \* history: the events of the current press
    bootHeld,     \* history: this press began before the first poll
    lost          \* history: an event found the queue full

timerVars == <<sinceClick, sinceLong>>
queueVars == <<EvtBuf, evtPend, lost>>
btnVars == <<pin, timerVars, IsLongPress, queueVars, app, emitted, bootHeld>>

BtnInit ==
    /\ pin = "pssNone"
    /\ sinceClick = 0 /\ sinceLong = 0 /\ IsLongPress = FALSE
    /\ EvtBuf = <<>> /\ evtPend = FALSE
    /\ app = "waits"
    /\ emitted = <<>> /\ bootHeld = TRUE /\ lost = FALSE

-----------------------------------------------------------------------------
\* SensorsThread: the next state of a pin that is read as high, or as low.
StateOf(hi) ==
    IF hi THEN IF pin \in {"pssLo", "pssFalling"} THEN "pssRising" ELSE "pssHi"
          ELSE IF pin \in {"pssHi", "pssRising"} THEN "pssFalling" ELSE "pssLo"

\* chVTTimeElapsedSinceX after a further period.
Elapsed(t, period) ==
    IF t + period < LongPressDelay THEN t + period ELSE LongPressDelay

\* AddEvtToQueue: CircBuf_t::Put refuses the event when the queue is full; the
\* signal goes out all the same.
AddEvtToQueue(e) ==
    /\ EvtBuf' = IF Len(EvtBuf) < QueueLen THEN Append(EvtBuf, e) ELSE EvtBuf
    /\ evtPend' = TRUE
    /\ lost' = (lost \/ Len(EvtBuf) = QueueLen)
    /\ emitted' = IF e = "beShortPress" THEN <<e>> ELSE Append(emitted, e)

\* A slip: a click is a press that lasted at least so long.
ReleaseEventReversed(t) == IF t >= ClickDelay THEN "beClick" ELSE "beRelease"

ReleaseEvent(t) == IF t <= ClickDelay THEN "beClick" ELSE "beRelease"

\* The branches of ProcessButtons: press, release, and still held down.
Pressed ==
    /\ pin' = "pssFalling"
    /\ IsLongPress' = FALSE
    /\ sinceClick' = 0 /\ sinceLong' = 0
    /\ AddEvtToQueue("beShortPress")
    /\ bootHeld' = FALSE

Released(period) ==
    /\ pin' = "pssRising"
    /\ AddEvtToQueue(ReleaseEvent(Elapsed(sinceClick, period)))
    /\ sinceClick' = Elapsed(sinceClick, period)
    /\ sinceLong' = Elapsed(sinceLong, period)
    /\ UNCHANGED <<IsLongPress, bootHeld>>

Held(period) ==
    /\ pin' = "pssLo"
    /\ sinceClick' = Elapsed(sinceClick, period)
    /\ sinceLong' = Elapsed(sinceLong, period)
    /\ IF ~IsLongPress /\ sinceLong' >= LongPressDelay
       THEN IsLongPress' = TRUE /\ AddEvtToQueue("beLongPress")
       ELSE UNCHANGED <<IsLongPress, queueVars, emitted>>
    /\ UNCHANGED bootHeld

Idle(period) ==
    /\ pin' = "pssHi"
    /\ sinceClick' = Elapsed(sinceClick, period)
    /\ sinceLong' = Elapsed(sinceLong, period)
    /\ UNCHANGED <<IsLongPress, queueVars, emitted, bootHeld>>

\* One poll of the Sensors thread.  App, if it waits, has taken its event by then.
Poll(hi, period) ==
    /\ app = "sleeps" \/ ~evtPend
    /\ pin' = StateOf(hi)
    /\ Pressed \/ Released(period) \/ Held(period) \/ Idle(period)
    /\ UNCHANGED app

\* A slip: App looks at the event and leaves it in the queue.
AppHandlesNone ==
    /\ app = "waits" /\ evtPend
    /\ evtPend' = FALSE
    /\ UNCHANGED <<pin, timerVars, IsLongPress, app, emitted, bootHeld, EvtBuf, lost>>

\* App_t::ITask comes to EVT_BUTTONS and handles every event of the queue.
AppHandles ==
    /\ app = "waits" /\ evtPend
    /\ evtPend' = FALSE /\ EvtBuf' = <<>>
    /\ UNCHANGED <<pin, timerVars, IsLongPress, app, emitted, bootHeld, lost>>

\* Another section of the loop sleeps (500 ms before the song, 540 ms before the
\* USB is connected) ...
AppSleeps ==
    /\ app = "waits"
    /\ app' = "sleeps"
    /\ UNCHANGED <<pin, timerVars, IsLongPress, queueVars, emitted, bootHeld>>

\* ... and goes on.
AppGoesOn ==
    /\ app = "sleeps"
    /\ app' = "waits"
    /\ UNCHANGED <<pin, timerVars, IsLongPress, queueVars, emitted, bootHeld>>

BtnNext ==
    \/ \E hi \in BOOLEAN, period \in Periods : Poll(hi, period)
    \/ AppHandles \/ AppSleeps \/ AppGoesOn

BtnSpec == BtnInit /\ [][BtnNext]_btnVars

-----------------------------------------------------------------------------
\* The types of the variables (buttons.cpp l. 16-35, SimpleSensors.cpp l. 14).
BtnTypeOK ==
    /\ pin \in PinSnsStates
    /\ sinceClick \in 0..LongPressDelay /\ sinceLong \in 0..LongPressDelay
    /\ EvtBuf \in Seq(BtnEvts) /\ Len(EvtBuf) <= QueueLen
    /\ app \in {"waits", "sleeps"}
    /\ IsLongPress \in BOOLEAN /\ evtPend \in BOOLEAN
    /\ bootHeld \in BOOLEAN /\ lost \in BOOLEAN

\* One press makes one of three rows of events: a short press and a click, a
\* short press and a release, or a long press between these two.  So one press
\* never both ends the game (beClick) and opens the cupboard (beLongPress), and
\* never opens it twice.  A button held since before the first poll makes the
\* row without its short press (ProcessButtons).
Rows == {<<"beShortPress", "beClick">>, <<"beShortPress", "beRelease">>,
         <<"beShortPress", "beLongPress", "beRelease">>}
BeginsRow(s) == \E row \in Rows : \E n \in 0..Len(row) : s = SubSeq(row, 1, n)

OneRowPerPress ==
    BeginsRow(IF bootHeld /\ emitted # <<>> THEN <<"beShortPress">> \o emitted
                                            ELSE emitted)

\* An event is refused only while App sleeps in another section: otherwise a queue
\* of one event is enough ("No need in queue if combo not allowed", buttons.h l. 53).
RefusedInSleep == [][lost' # lost => app = "sleeps"]_btnVars
=============================================================================
