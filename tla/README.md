# A TLA+ model of the quest room firmware

The repository is the firmware of two quest room props on an STM32F205 with the
ChibiOS kernel: the **piano room** (players type a melody on a piano; the right
one opens a cupboard with a song) and the **Woodman room** (a handcar, a heart,
a Woodman who speaks and opens a door). `src/board.h` selects one with
`QUEST_ROOM`, at this commit `PianoRoom`. The modules model both games, the
player, the card, the USB mass storage and the UART that they share, and what
of the kernel they stand on.

## 1. Inventory

| Part | State | Operations | Hard behaviour | What makes it correct |
|---|---|---|---|---|
| Code lock, `Game/Piano.*` | `CurrentComb`, two one-shot timers, events of the Piano thread | `CodeProcessing`, timer callbacks, `ITask` | keys, timer interrupts and thread interleave; flagged events outlive a stopped timer | only a typed code is offered, every typed code is, a partial code is timed |
| Piano room, `main.cpp` | `Piano.State`, outputs, App's event mask | handlers of `App_t::ITask`, `ProcessKeySens`, `BtnHandler`, `Process5VSns`, `OnCmd` | App sleeps in the middle of a handler; masks handled in a fixed order | outputs agree with the state, keys and song sound where they should, a code opens the cupboard |
| Woodman room, `Game/Woodman.*`, `main.cpp` | five states, three timers, a gesture player in statics | `ITask`, `DefaultState`, `StartGesture`, App's handlers | a gesture restarted in its middle, events that outlive a reset, sleeps with a mask in hand | the door is earned, gestures stay in their tables, the game comes to its end |
| Sound player, `sound.*` | `State`, `IDmaIdle`, `CmdBox`, two buffers, the file, DREQ's interrupt | `Play`, `Stop`, `SetVolume`, `ITask`, `ISendNextData`, two interrupts | DMA and DREQ interrupts against sleeps, blocking file calls and callers; a full mailbox; failing reads | no lost wakeup, no cut transfer, chunks in order, the volume arrives, requests and stops are carried out |
| Sensors and button, `kl_lib/SimpleSensors.*`, `kl_lib/buttons.*` | `States`, two timers, `EvtBuf` | the poll, `ProcessButtons`, `BtnGetEvt` | jitter of polls, a queue of one, App asleep | one press makes one row of events; an event is refused only while App sleeps |
| USB mass storage, `usb/MassStorage.*`, with the endpoints of `usb/usb_f2.*` | command block, two buffers, endpoints, the waiting thread | `UsbOutTask`, SCSI commands, `WaitUntilReady`, interrupts, `Reset` | transfers overlap with the card; bus reset, stall, unplugging and a failing card in the middle | Good means done, buffers are used in turn, every command is answered |
| SD card, `sd/fatfs_diskio.c`, `os/hal/sdc*.c` | one semaphore, the driver's state, the SDIO interrupt | `SDRead`, `SDWrite`, `disk_initialize`, `sdcRead`, `sdcWrite` | three users, time-outs, a semaphore made anew, a thread readied from outside | one thread at a time in order, OK means that one's own blocks have moved, every call returns |
| UART and shell, `kl_lib/uart.*`, `kl_sprintf.c`, `shell.h` | two rings, two streams, the command line | `Printf`, `PrintfC`, DMA interrupt, `IRxTask`, `OnCmd` | several writers and an interrupt; the line is read in place | what is printed is sent in order; App gets the lines that were typed |
| ChibiOS, `os/src/*` | ready list, queues, references, events, the timers' delta list and alarm | scheduling, semaphores, suspension, events, `chVTDoSetI`, `chVTDoResetI`, `chVTDoTickI` | time-outs against wakeups; the counter runs on while it is read | nothing is lost or doubled; no timer is early, late or forgotten |
| File lists, `Soundlist.cpp` | count of files, the last number, the file name | `PlayRandomFileFromDir` | a name overwritten while it is in use | in `PianoRoom` only as a search that blocks App |
| FatFs, `sd/ff.c` | mount state, one sector window | files and directories | no lock: two threads use one window | its calls, the mount and what is below it, see section 6 |
| LED drivers, board support, unused peripherals | | | | see section 6 |

How they interact: threads signal each other ChibiOS events (`chEvtSignal`),
which accumulate in a mask per thread until `chEvtWaitAny(ALL_EVENTS)` takes
them all. The Sensors thread polls every 50 ms and calls the postprocessors of
keys, button and 5 V pin in its own context; these call `Piano` and `Sound`
directly and signal App. Timers signal from the system tick interrupt. The Sound
thread is signalled by callers and by two interrupts; commands for the decoder
go through a mailbox of `VS_CMD_BUF_SZ` entries. App starts and resets the mass
storage when the 5 V come and go. Sound and App reach the card through FatFs,
the mass storage thread reaches it directly; all three meet at the semaphore
`semSDRW`. All threads print. The threads of the games have the same priority,
the UART receiver a lower one, and the kernel has no time slice
(`os/chconf.h`: `CH_CFG_TIME_QUANTUM` 0), so a thread keeps the processor until
it blocks; only interrupts come in between.

The hazards of this code, each at its line and with the properties meant to
catch it, are listed in `PROJECT.json`.

## 2. Modules

| Module | Models | Extends / instantiates |
|---|---|---|
| `PianoCode` | `Piano_t`: register, timers, Piano thread | |
| `PianoCodeHistory` | the same with a history of the typed keys | `PianoCode` |
| `PianoRoom` | App, Sensors and Piano threads | `Lock == INSTANCE PianoCode` |
| `Woodman` | Woodman and App threads of that room, sensors, sound, timers | |
| `Sound` | Sound thread, its interrupts, callers, DMA and decoder | |
| `Buttons` | pin, `ProcessButtons`, `EvtBuf`, App | |
| `MassStorage` | mass storage thread, bulk endpoints, interrupts, host, card | |
| `SdCard` | the threads in `SDRead`/`SDWrite`, the driver, SDIO, semaphore, mount | `Service == INSTANCE SdService` |
| `SdService` | abstract: clients are served one at a time, in order | |
| `Vsprintf` | what `kl_vsprintf` puts and counts | |
| `UartTx` | transmit ring, `Printf`, `PrintfC`, the DMA interrupt | `Vsprintf` |
| `UartRx` | receive ring, `IRxTask`, the line, App | |
| `Kernel` | ready list, semaphores, references, sleeps, events, time-outs | |
| `VirtualTimers` | `chvt.c` over the system timer and its compare register | `Service == INSTANCE TimerService` |
| `TimerService` | abstract: timers with deadlines and a bounded lateness | |
| `PianoCodeProofs`, `WoodmanProofs`, `SoundProofs`, `MassStorageProofs`, `SdCardProofs` | theorems about the module of that name (`PianoCodeHistory` for the first) | the module, `TLAPS` |
| `PianoRoomProofs`, `UartProofs`, `KernelProofs` | theorems about `PianoRoom` and `Buttons`, `UartTx` and `UartRx`, `Kernel` and `VirtualTimers` | both modules, `TLAPS` |
| `MC*` | the small instances | each its module |

### Names and correspondence

Variables keep the name of the member they stand for where there is one
(`State`, `IDmaIdle`, `CmdBox`, `IFullSlotsCount`, `vtlist`, `s_cnt`, ...). A
thread's pending events are a set of names (`piPend`, `appPend`, `pend`), the
mask that `chEvtWaitAny` returned another (`piMsk`, `appMsk`, `msk`), from which
a section of the loop takes its event. An action runs from one point at which
another thread can run, or an interrupt makes a difference, to the next.
`Buttons`, `UartRx` and `VirtualTimers` give `Init`, `Next` and the like names of their
own (`BtnNext`, `RxNext`, `VtNext`), so that they can stand beside `PianoRoom`, `UartTx` and `Kernel` in
one theorem module. Definitions under the comment "A slip" are variants of an operation with a
plausible mistake; no next-state relation uses them.

**PianoCode.** `comb` is `CurrentComb` as a sequence of nibbles, which the shift,
the addition and the mask make of the word (keys are below 16, so no carry).
`tReset` and `tSignal` are ticks left; a tick may be of any length.
`CodeProcessing` is one step, because the Sensors thread does not block in it; a
timer interrupt between two of its statements has the effect it has before it
(an expiry of a timer that is restarted or stopped just after leaves the event
flagged, as in the code). In `PianoCode` alone App takes or signals its event at
any time.

**PianoRoom.** `cpu` is the thread that runs. `AppCodeOk` ends in the sleep of
500 ms, `AppOpens` goes on after it. The outputs are the lock, backlight, common
light, sound channel, volume and file asked for last. `SwitchToPiano` is the
switch of `ProcessKeySens` with its fall-through. The sensors' polls, button
events, power edges and commands come at any time, of any kind in the constants.
The command `Play` may or may not find a file. `CameToLife` of the other room
signals the same event bit as `PianoCodeOk` and is one of the commands.
`EVT_PLAY_ENDS` has no handler in this room.

**Woodman.** Both threads take all pending events at once and handle them in the
order of their `if`s, one action each; their sleeps (`ToWink`, the handcar's
signal, `BtnHandler`) are places of their own, and what is left of a mask is
handled after them. `since` counts from `StartTime`, `poss` is the static
position of the gesture player, which no reset touches; the entry read past the
end of a table may be anything, and an unsigned difference below zero sets the
timer to `Longest`. A tick passes when no thread can run. The sensors signal at any
moment, in any state and beside any event that is pending; the handcar that parks
resets the game in every state, as the code does. The sound is `SoundTicks` long, which may be
shorter than its gestures: a read that fails ends a file early. The operator presses the
button or gives a command at most `MaxGiven` times. The tables are constants with a
few entries; the colours of the LEDs are left out, because no code reads them. Two histories
name what the code does not take back: `undue`, set by `DefaultState`, holds the sound, the start of
the monologue and the handcar's signal that are still under way at a reset (and what a
command or a late time-out adds to them); `torn` says that the gesture player has been
disturbed in the middle of a gesture, until it is at rest again.

**Sound.** `pc` is the place of the thread: the sections of the loop, the two sleeps
of 1 ms, and the file calls of `IPlayNew` and of `VsBuf_t::ReadFromFile`. Data
is counted in transfers of 32 bytes. The interrupt of DREQ is a latch (the EXTI
pending bit, set by an edge or by `GenerateIrq`, cleared only by the handler) and
a gate (the NVIC enable bit): an edge that comes while the gate is closed is kept
and runs the handler when the gate opens. The decoder is external: it takes a
transfer and holds DREQ low for a while; `slow` ones raise it only once the
thread waits for it, `any` ones with an arbitrary time of the fall. The soft
reset of the decoder keeps its volume register. Files are numbered by the `Play`
call; `FileErrors` lets every file call fail. Callers run only while the Sound
thread is blocked.

**Buttons.** One pin, polled at one of `Periods` ticks after the last poll; the two
timers saturate at the longer delay. App takes the event unless it sleeps in
another section.

**MassStorage.** `pc` is the thread's place in `UsbOutTask`, `CmdRead10`,
`CmdWrite10` and `WaitUntilReady`; both buffers and the card hold chunks named by
the command and their position, so that a chunk at the wrong place shows. The
test of `Buzy` and the lock are two steps (`WaitUntilReady`, usb_f2.cpp:549). The
host (external) sends a command, moves its data, reads the status and gives up
when an endpoint stalls. `SDRead` and `SDWrite` have three ends: the chunk is moved, they
fail, or the semaphore is late and they return success with nothing moved
(`SdReadEnds`, `SdWriteEnds`; fatfs_diskio.c:54-57, 67). The faults, at most `MaxFaults` of them: an
interrupt in the gap of `WaitUntilReady`, a failing read or write of the card, a late
semaphore, a bus reset, `MassStorageReset`, a pulled cable. `unmoved` names the commands that a late
semaphore has hit.

**SdCard.** The places of a thread go from the semaphore's queue through
`_sdc_wait_for_transfer_state`, the command and the suspension to the result.
Every answer of the card may be an error; the wait for the semaphore may time out;
the SDIO interrupt comes at any moment after the mask is set. The flags of `STA` stay set until the
driver clears them, and `owner` says whose transfer has raised them, so that an end that is left
over can be taken for another one. The first call
through FatFs mounts the volume, and `disk_initialize` makes the semaphore anew.
`disturbed` becomes true when that happens while a thread is in the driver, or
when an unplugged cable readies the thread that waits there. `SdService` has one
action per client: ask, be served, leave, give up.

**UartTx, Vsprintf.** A message is a sequence of pieces, of which only lengths
matter; the ring holds for each slot the message (`tag`) that put it there, and `owed` is the
sequence that the line has still to see. `Printf` is one step under the lock;
`PrintfC` has the read and the write of its `IFullSlotsCount += n` as steps of
their own. `kl_vsprintf` is a fold over the pieces with the limit as an unsigned
word. `upset` records a message that the ring had no room for, or that the interrupt hit
the sum of `PrintfC`.

**UartRx.** The stream writes bytes into its ring for ever; the thread wakes, reads
what has come since its last look, and suspends at the end of a line until App
has handled it.

**Kernel.** `rlist` is the current thread and the ready queue. Every call that blocks
has a time-out or none; the virtual timer's interrupt (`Wakeup`) may come at any
moment between a wakeup and the thread's return. An event signalled from a thread
reschedules, one from an interrupt at its end.

**VirtualTimers.** `vtlist` is the delta list, `CCR` the compare register, `now` the
counter modulo `W`; one tick at most may come between the reading of the time and the
writing of the alarm (`write`, `late`), which is what `CH_CFG_ST_TIMEDELTA` is for. `ticks`
counts the time since the alarm, `Latency` at most until its interrupt is over. The
interrupt's loop runs callbacks, which set and reset timers. `TimerService` knows only how many ticks each armed timer has
left.

## 3. Runs

Each passing run takes less than four minutes on two workers.

| Run | Instance | Distinct states | Shows |
|---|---|---|---|
| `piano_code_history` | 2 keys, code of 3 without self-overlap, timeouts 3 and 1 | 562 000 | only a typed code is offered (a pause may go unnoticed only while its event waits), a partly typed one is always timed, a code typed on a settled lock arms the timer, and an armed code is offered unless a key displaces it in time |
| `piano_room` | 2 keys, code of 2, click and long press, the command Play, no USB | 602 000 | outputs follow the game, every code opens the cupboard, the lock in the room implements `PianoCode` with its fairness |
| `piano_room_usb` | 1 key, code of 1, USB, two commands | 1 530 000 | the USB side follows the 5 V while App is kept busy by everything else |
| `sound` | both kinds of decoder, buffers of 2 chunks, files of 0 and 5, errors, 2 plays, 1 volume, mailbox of 4 | 1 210 000 | no lost wakeup, no transfer cut, the idle flag is true, chunks in order, the volume arrives; with a slow decoder zeroes end and requests are taken |
| `buttons` | delays of 12 and 20 polls, polls late by one, a queue of one | 1 242 | one row of events per press; an event is refused only while App sleeps |
| `mass_storage` | reads, writes, short answers and refused commands of up to 3 chunks, two commands, two faults of six kinds | 3 420 000 | Good means done, buffers and command block are used in turn, the thread sleeps only for a transfer in progress, every command is answered |
| `sd_card` | Sound, App and the mass storage thread | 108 000 | driver and semaphore are true, OK means that one's own transfer has ended, every call returns, the card is served in order (`SdService`) |
| `uart_tx` | ring of 7, messages of 1 to 6 characters, up to 8 owed | 863 000 | what is printed is sent in order, the counter is true, the stream stays in the ring, messages are cut right, nothing waits for ever |
| `uart_rx` | ring of 4, lines of 2, two characters, bursts of 3 | 43 000 | App gets every line as it was typed |
| `woodman` | tables of 4 and 3 entries, a file that ends before or after its gestures, sensors without limit, one press or command | 1 690 000 | the door is earned and opens, gestures follow their tables, the monologue waits for the head |
| `virtual_timers` | a poll and two timers, delays of 1 and 4, a counter of 12 ticks, a latency of 1 | 214 000 | the alarm is never late, the timers implement `TimerService` |
| `kernel` | two threads of one priority, one below, idle; two events, two tokens | 122 000 | what the kernel asserts, no token or event lost, no timer outlives its call, ready threads run |

Several properties are conjunctions of named parts (`IdleFlagTrue`, `CardTrue`,
`BuffersTrue`, `RingTrue`, `LineTrue`, `DoorIsEarned`, `KernelTrue`, `AlarmTrue`,
`OutputsFollowGame`, ...): the module states each part with a comment of its own,
and one of the parts is the type invariant.

Why the bounds are enough. The lock compares positions of a register and two
countdowns: a code of three gives every overlap of old and new keys.
The room's state is finite but for the lock, for which a code of two suffices: it
must only be partly typed, typed, and displaced. In `sound` two plays give a
request during every state of another one, a file of 5 with buffers of 2 one full
buffer, both full, a refill and a rest; `MaxPlays` and `MaxVolumes` only bound
the callers, and when they have stopped the player may rest for good, so deadlock
is not checked there. `VS_CMD_BUF_SZ` is 4 as in the code. One zero chunk stands
for four. In `buttons` the delays are the real ones in polls of 50 ms. Three chunks
use both buffers and one of them twice; a second command meets what the first has
left; two faults meet each other. Three threads give a queue of two behind the
one served, and a time-out in the middle of it. A ring of 7 is not a multiple of the messages' lengths,
so every message is split at its end at some time; 8 owed characters overfill it.
The Woodman's tables have an entry for every branch of the gesture player and
differ in length, so that the longer one's middle lies past the shorter one's end; a sound of 1 tick
ends between two gestures of the monologue, one of 3 ticks after them. `MaxGiven` is 1:
sensors and resets by the handcar have no limit, so a press or command meets every
state that any number of games can leave. The counter of
12 ticks wraps within two periods. In `kernel` two threads of one priority and one
below are what a queue by priority and a queue by arrival can tell apart.

Deadlock is not checked where the system may really stop: when the callers of a bounded
run have finished, when nobody types or prints, or when an assertion of the
kernel has halted it. Where it may not, it is checked.

### Fairness

Weak fairness: the system tick keeps coming; a running thread goes on to its next
blocking call; an interrupt that is pending is taken; a transfer by DMA or over
USB and a file operation end; the decoder asks again after it has used what it
got; an attached host goes on with its transfer until something strikes. Strong
fairness, for threads of one priority that are ready while others come in
between: the ready list is first in, first out, which `kernel` checks
(`ReadyRuns`). In `sd_card` it also says that a card which is asked again and
again does not stay busy for ever, and in `virtual_timers` that the interrupt is
taken although the alarm is moved. Nobody has to press, type, play, print or plug
in. `buttons` needs none.

### What the properties except, and what was seen

Where the code does not keep a promise in every case, the property names the case
exactly, and the model contains it. In the order of the parts:

- *Piano room.* `SongOnCupboard` speaks of players who were playing: a key
  pressed in the 500 ms before the song from another state, as when the
  operator's long press opens the cupboard, does switch the channel.
  `UsbFollowsPower` leaves out a cable that moves again before App has come to the
  first edge: both events are handled in the order of the program (main.cpp:195-214).
  `DefaultState` (Piano.h:81) leaves the lock's timers running, so a code typed
  just before the operator's reset opens the cupboard after it.
- *Sound.* `IPlayNew` clears `IFilename` after `f_open`, which blocks
  (sound.cpp:173): a file that is asked for in that time is forgotten. An edge of DREQ that was
  latched while its gate was closed sends a chunk though DREQ has fallen again
  (l. 62); at the end of a file it leaves zeroes that nothing starts (l. 245, 279),
  which is why `ZeroesEnd` and `RequestTaken` speak of a decoder that uses a chunk at its
  own pace. `VolumeArrives` excepts a command that found the mailbox full
  (l. 205). A file shorter than one buffer leaves in the other what it held before
  (l. 189), so `sound` takes longer files, or empty ones.
- *Buttons.* While App sleeps in another section the queue of one refuses the
  second event of a press (buttons.cpp:200).
- *Woodman.* A handcar that parks, or a press, resets the game in every state (Woodman.cpp:39-44;
  the test of `wsDoorOpened` is commented out) but not what is under way: the sound plays
  on and its end may open the door of the next game without a monologue, an order to speak or to
  signal is still handled (`undue`). When the heart comes back while the time-out of the tunnel is
  pending or in the same mask, the code sets `wsHeartReturned` and then takes that time-out for the
  head's (l. 46-62): the monologue begins at once, against the comment of l. 52.
  `WaitsForHead` excepts exactly that, and says that there is no other way. A reset in
  the middle of a gesture, or a file that ends before its gestures, leaves `poss` in the middle, and the
  next gesture is read from there, in a shorter table perhaps past its end, with a delay that may
  wrap or be zero, which halts the kernel; a thread that sleeps in a gesture (l. 108) makes
  the same of a late entry (`torn`).
- *Mass storage.* An interrupt between the test of `Buzy` and the lock finds no
  thread to wake (usb_f2.cpp:549), and the thread sleeps until the next transfer.
  After a failed write the host's data go on to come as if they were commands
  (MassStorage.cpp:331). `MassStorageReset` resets nothing (l. 32). When the semaphore is late,
  `SDRead` and `SDWrite` return success, and the host gets Good for data that were not
  read or written; `GoodMeansDone` excepts the command whose call that was (`unmoved`), and no other.
- *SD card.* `disk_initialize` makes the semaphore anew under its users
  (fatfs_diskio.c:78); `Reset` readies a thread that waits for the card instead of
  the endpoint (MassStorage.cpp:68); a time-out of the semaphore returns success
  (fatfs_diskio.c:56), so `OkMeansOwnTransfer` speaks of threads that have got it.
- *UART.* `PrintfC` adds to the counter without the lock (uart.cpp:36), a message
  that is longer than the room left is cut and counted as printed (l. 65), and a
  burst of exactly the ring's size between two looks is taken for none (l. 126); `Burst` is
  smaller than the ring.
- *Virtual timers.* After `chVTDoResetI` the base time may be older than the head's
  delay (chvt.c:249), and a delay close to the whole range of the counter skips one
  element only (l. 145). Neither bites in this firmware, because timers are set only while the
  poll of the sensors is armed, which keeps the list short of the range; `Polls`
  is that guard.
- *Kernel.* `SignalEvt` (main.h:29-33) signals without rescheduling. No thread of
  higher priority waits behind it, because those that call it have the priority of
  those they signal. The UART receiver, which is lower, signals inside a lock and
  reschedules by going to sleep in it.

## 4. Proofs

The theorem modules are `*Proofs`. Each has an inductive invariant for a theorem or a
group of them, with a lemma for the initial states, one for a step (one named step per
action) and, where a helper does the work of several actions, a lemma for it. A
hypothesis that a theorem needs beyond the assumptions on the constants is a named
definition, in the model or before the theorem; each one is true of the run's instance,
and TLC evaluates those of `PianoCode` and `VirtualTimers`
(`OverlapAssumption`, `PaceAssumption`).

**`PianoCodeProofs`**, for every set of keys below 16, every code over it and
all timeouts with `SignalTicks < ResetTicks` (`KeysAssumption`, `CodeAssumption`,
`TicksAssumption`): the types (`TypeCorrect`), `OkStemsFromCode`
(`CupboardOnlyForCode`), `PartialCodeWillBeReset` (`PartialCodeIsTimed`) and
`TypedCodeArms` (`TypedCodeIsNotMissed`).
`OkStemsFromCode` is not inductive: it speaks of an event, and the event comes from
the timer, so `ArmedByCode` says that the signal timer runs only after a typed code;
that needs that the register is a suffix of the typed keys
(`RegisterRemembers`), and that a pause which the register survived left its
event pending (`LapseIsPending`). `PartialCodeWillBeReset` holds because the code that
stops the reset timer clears the register in the same step. `TypedCodeArms` is for
codes no end of which is their beginning (`DoesNotOverlap`; 0x1232167, the code of
Piano.cpp, is one): the other half of `RegisterRemembers`, that the register holds *all*
the keys of a code being typed, is kept because between them only a lapse of the
reset timer could clear it (`BegunIsHeld`).

**`PianoRoomProofs`**, for every set of keys and commands, from
`SleepAssumption`, `PowerAssumption` and those of the lock: the types,
`OutputsMatchState`, `KeysSoundOnPiano`, `SongOnCupboard`, their conjunction
`OutputsFollowGame`, and `UsbFollowsPower`. `RoomInv` adds what App's sleeps make
necessary. `SongOnCupboard` speaks of the song that starts after the sleep, so
`SongFollowsGame` says that the state App came from still holds in it: the Sensors
thread may begin a game in that time but not end one. `UsbFollowsPower` speaks of
an App at rest, so `EdgesInOrder` follows the last edge of the pin from the
pending events to the taken ones and to `usbOn`, and `AppInTurn` ties the sleep for
the USB to the taken event. `LockIsSafe` is the refinement `LockBehaves` without its
fairness: every step of the room is one of `PianoCode` or leaves the lock alone, so
what is proved of the lock alone holds in the room (`RoomCodeIsTimed`).

Of the button (`Buttons`), for all delays, every jitter of the polls and every length of
the queue: the types, `OneRowPerPress` (`PressesMakeRows`) and `RefusedInSleep`
(`NoneIsRefused`). `RowInv` ties the row of events to the flags of the press
(`RowOfPress`) and the age of the press to both timers (`TimersAgree`).

**`WoodmanProofs`**, for all tables, lengths of sounds, periods and sleeps, from the assumptions on the
constants alone (`TableAssumption`: each table has an entry not later than the one before, as
the tables of Woodman.h have in their last; `TicksAssumption`, `InputAssumption`): the types,
`DoorNeedsHeart`, which has no exception, `DoorIsEarned`, `WaitsForHead` and `GesturesFollowTable`.
`DoorIsEarned` speaks of the open door, which comes at the end of a chain; `SoundIsOurs` and `SignalIsOurs`
say of each link (the sound, its end in the one or the other mask, the states that follow; the order
to signal, the signal) that it belongs to this game or is in `undue`. `HeadIsUp` does the same for the
order to speak: while it is on its way `TmrWait` does not run and nothing can start it, which
holds because a heart that finds a time-out pending is noted. `GestureInv` says
where the static position may stand (`PlayerInTable`): the entries up to it follow each other in time,
so the last one of the table is not among them, and the player waits for its
next entry, or that is due at this very tick, or a reset has stopped its timer. That no time passes
while an entry is due needs that the thread does not sleep with it in its hands (`PlayerInTurn`),
which is the order of the `if`s.

**`SoundProofs`**, for every mailbox, buffer, set of files and decoder (the types from
`BufferAssumption` and `BoundAssumption`): the types,
`BusyWillWake`, `IdleMeansIdle`, their conjunction `IdleFlagTrue`, and the action
property `NoTransferCut`. The thought is that the transmission has one token
(`TransferToken`): it is held by the running DMA, by `DMA_DONE` until it is handled,
by a sleep of the thread, by the open gate of DREQ's interrupt, by `DREQ_IRQ`
until it is handled, or by nobody, and then `IDmaIdle` is set. With one holder,
nothing can start a second transfer; with at least one, nothing is forgotten.
The token is kept because a rise of DREQ is never lost between the test of the
pin and the opening of the gate (`RiseIsLatched`) and because no event comes twice
(`HandledOnce`). `SendStep` treats `ISendNextData` once for its two callers.
`VolumeArrives` follows the last volume through the mailbox and the command that is being
sent (`VolumeInv`). `ChunksInOrder` needs `LongEnough`: a buffer of two chunks at least
(it has 128) and no file but an empty one shorter than a buffer. `OrderInv` says what each
buffer holds relative to the chunks already sent (`InSequence`), and that a buffer is refilled before
its turn (`FilledInTime`); with buffers of one chunk that fails, and so does the order.

**`MassStorageProofs`**, for every number and size of commands and every sequence of faults:
`GoodMeansDone`, `SleepsForTransfer` and `BuffersTrue`. The main part of
the invariant, `InStep`, says how far thread, endpoints and host are when the
device holds the command that the host has sent last. A fault may leave
anything behind, but never a device that holds the host's command and is
not in step with it, because a command gets into `CmdBlock` only once. So
`GoodMeansDone` survives bus resets, failures of the card and pulled cables. It excepts the
host's recovery, in which `MassStorageReset` resets nothing and the endpoints are cleared under the command, and
each command in which the semaphore was late; that such a command spoils no later one is part of the
invariant (`Clean`, `StaysClean`). `MaxNAssumption` keeps the
length of a command below the range of its counter.

**`SdCardProofs`**, for every set of threads: the types without condition
(`SdCardType`); and, until the volume is mounted under a running transfer or the
cable pulled during one (`disturbed`), that no assertion of the driver fails
(`DriverNeverHalts`), that the semaphore's count and queue tell where the threads are
(`SemaphoreStaysTrue`), that driver, interrupt mask and thread agree
(`CardStaysTrue`), and that every step is one of `SdService` or a stutter
(`CardImplementsService`: one thread at a time, in the order of coming, those that time
out excepted). The refinement maps the threads inside to served clients, the ones that
sleep at the semaphore to waiting ones and its queue to the line; `OneHolder` says that
one is inside at most. Wait, signal and time-out of the semaphore have lemmas of their own.
The condition is needed: the run reaches the halt without it. `OkMeansOwnTransfer`
(`OkMeansOwnTransferHolds`) holds without it, also after a disturbance: a thread that has got the
semaphore and returns OK has seen the end of the transfer that it started itself. A flag that
another transfer has left, or a wakeup from elsewhere, does not pass for it, because the
driver looks at its own state on the way in and so lets in one thread at a time, even when the
semaphore has let in two (`DriverAlone`), and the flags are clear when its transfer starts
(`StatusIsOwn`).

**`UartProofs`**, for every ring, all messages and every width of the counter: `DmaInside`, for
which the pointers' types are not enough. `Inv` says that the running transfer starts at `PRead`, has
`ITransSize` characters up to the end of the ring at most, that the counter is never
below what is being sent, and that the value which `PrintfC` has read and not yet written is not
below the counter. That last part is why the lost decrement of `PrintfC`
(uart.cpp:36) does no worse than send old characters again. `RingTrue` adds what the
slots hold: until `upset`, they are the messages still owed, in their order
(`Exact`, `Counted`), with at most `MaxOwed` of them, below the counter's range
(`OwedAssumption`). `CutsRight` speaks of `kl_vsprintf` as a fold over the pieces of a
format and needs induction on them, which is done by the least piece for which it fails
(`NaturalsInduction` gives the well-founded order, no theorem with an operator parameter).
`LineTrue` of `UartRx` is proved for bursts shorter than the ring, as in the run: the bytes that have come since
the last look replay to what was typed and not yet handled (`Replays`).

**`KernelProofs`**, for every finite set of threads, all priorities above the idle thread's, every set
of events and every number of tokens (`ThreadsAssumption`, `PrioAssumption`,
`IdleAssumption`, and `QuietAssumption`: who is signalled without rescheduling has no
higher priority than anybody): `KernelTrue`, `NothingLost`, `TimerDiesWithCall`. In `IInv` the
sleeping threads are those outside the ready list; the semaphore's queue, the
reference and the event masks each name exactly the sleepers of their kind, and the
tokens given are those free plus those that woken threads carry. Its parts take
the set of the ready threads as a parameter, so that they can be stated in the
middle of a call (`chSchReadyI`, `chSchGoSleepS`, `chSchRescheduleS` each have their lemma).

Of the virtual timers, for every set of timers, all delays, every width `W` of the
counter, `TimeDelta` and `Latency`, under `PollsKeepPace` (there is a poll, and its period,
twice the lateness and one more delay are less than `W`; the code has `W` = 2^32, `TimeDelta` 2
and 1000 ticks a second): `AlarmTrue`, and `TimersKeepTime`, the refinement
`KeepsPromise` without its fairness. Deadlines are sums along the delta list
(`Deadlines`), and the lemmas about them say what `Insert`, `Unlinked` and the loop
of the interrupt do to the deadline of *each* timer (`Due`), which is all that `TimerService`
sees. `TimerInv` needs three things beyond the types: a poll that is due soon keeps
the base of the list so young that the counter never wraps past it (`PollIsNear`, `Room`);
the interrupt is late by no more than the time since the alarm
(`LateAtAlarm`, `LateInCallback`); and the compare register, or the value about to be
written to it, lies ahead of the counter although one tick may have come in between
(`AlarmIsSet`, `WriteIsAhead`). Without a poll `AlarmTrue` is false in the model, for the reason
given in section 3.

Only model-checked: what rests on fairness (`CodeIsOffered`, `CodeOpens`, `ZeroesEnd`,
`RequestTaken`, `Answered`, `CallReturns`, `AllIsSent`, `LinesAreHandled`,
`HeartOpensDoor`, `ReadyRuns`), which is out of the prover's reach; and the fairness in
the abstract sides of `LockBehaves` and `KeepsPromise`, whose safety is proved. Every
other property of the runs is a theorem.

## 5. Plan

Done: the lock, both games, the player, the button, the mass storage, the card,
the UART, the kernel and its timers, with the proofs above. Left, in this order:

1. The composition of `MassStorage` with `SdCard`, over `SdService` in place of the card.
2. The step guarantees on which the fairness rests, as action properties with proofs: that
   no step of another thread disables a step which the fairness of a module speaks of.
3. `PlayRandomFileFromDir` with the count and the last number of `Soundlist.cpp`, and its
   three hazards.

## 6. Not modelled

- *Start-up.* The modules begin when `App_t::ITask` does. The Sensors thread is
  started before `Sound.Init` and `Piano.Init` (main.cpp:67).
- *FatFs* (third-party). `Sound`, `PianoRoom` and `SdCard` model its calls from outside: they
  block, they fail, they mount. Inside, it is not built reentrant (`_FS_REENTRANT`
  0), and App's `f_readdir` and Sound's `f_open` share the sector window (ff.c:719)
  and the buffer for long names (ff.c:493); the player's list and its files come from
  there. What the structures on the card hold is data that no property tells apart.
- *File lists.* `PlayRandomFileFromDir` is, in `PianoRoom`, a search that blocks App and
  may fail. Only one directory is ever asked for (main.cpp:310). The name that is
  overwritten while Sound opens it (Soundlist.cpp:78), the last number that is set
  before the search can fail, and counts that go stale when the host writes have
  no model.
- *LED drivers.* Nothing reads the colours back, and no module has them. The drivers are a
  fixed sequence of two chunks and an encoder table sent by a DMA without an
  interrupt.
- *USB control transfers*, descriptors and enumeration (endpoint 0), `sdcConnect`,
  the line printer `PrintfNow`, the parsing of a command's arguments, the digits
  of numbers (`Vsprintf` has their lengths).
- *Board support*: clocks, pins, registers, the HAL beyond the SD driver, and the
  periphery that `board.h` switches off (I2C, ADC). What a DMA stream, an EXTI
  line or a timer does is an action of the module that uses it.
- The commands `Smile` and `Wink` in the piano room: they signal a thread that was
  never created.
- Of the player: its shutdown, and start positions (`IStartPosition` is always 0 in
  this firmware).
