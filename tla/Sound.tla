-------------------------------- MODULE Sound --------------------------------
(***************************************************************************)
(* The sound player (sound.cpp, sound.h): the Sound thread feeds a VS1011  *)
(* decoder over SPI by DMA, from two buffers that it fills from a file on  *)
(* the SD card.                                                            *)
(*                                                                         *)
(* The other threads call Play, Stop and SetVolume.  They have the Sound   *)
(* thread's priority and there is no time slice, so they run only while it *)
(* blocks: in chEvtWaitAny, in a sleep of 1 ms or in a file operation.     *)
(* Two interrupts only flag events of the Sound thread: the end of a DMA   *)
(* transfer, and DREQ, by which the decoder asks for more.  The DREQ       *)
(* interrupt goes through the EXTI latch, which a rising edge of DREQ or   *)
(* GenerateIrq sets, and which only the handler clears, while EnableIrq    *)
(* and DisableIrq open and close the gate behind it.  An open gate and a   *)
(* set latch run the handler at once.                                      *)
(*                                                                         *)
(* Data is counted in chunks, one per transfer (32 bytes); the volume is   *)
(* the number of the SetVolume call, a file the number of its Play call.   *)
(***************************************************************************)
EXTENDS Integers, Sequences

CONSTANTS
    CmdBufSz,     \* VS_CMD_BUF_SZ
    BufChunks,    \* VS_DATA_BUF_SZ, in chunks
    ZeroChunks,   \* ZERO_SEQ_LEN, in chunks
    FileSizes,    \* sizes that files have, in chunks
    FileErrors,   \* may file operations fail
    Decoders,     \* how DREQ may answer a transfer: "slow", "fast" or "any"
    MaxPlays,     \* bound: calls of Play and Stop
    MaxVolumes    \* bound: calls of SetVolume

ASSUME BufferAssumption ==
    /\ CmdBufSz \in Nat \ {0} /\ BufChunks \in Nat \ {0} /\ ZeroChunks \in Nat \ {0}
    /\ FileSizes \subseteq Nat
    /\ FileErrors \in BOOLEAN
    /\ Decoders \subseteq {"slow", "fast", "any"}
ASSUME BoundAssumption == MaxPlays \in Nat /\ MaxVolumes \in Nat

Events == {"READ_NEXT", "STOP", "COMPLETED", "DMA_DONE", "DREQ_IRQ"}
NULL == 0
Other(b) == 3 - b

VARIABLES
    pc, ret,     \* where the Sound thread is; where ISendNextData returns to
    pend, msk,   \* events pending, and those of EvtMsk
    State, ZeroesCount, IDmaIdle,
    CmdBox,      \* the mailbox of commands for the decoder
    ICmd,        \* the command that is being sent
    IFilename,   \* the file to play next, or NULL
    IAttenuation,
    IFile,       \* [file, size, pos, open]
    Buf, PBuf,   \* the buffers [file, next, sz] and the one being sent
    dma,         \* what the DMA transfers: "off", "cmd", "data" or "zeroes"
    latch, gate, \* the EXTI pending flag and the NVIC enable bit of DREQ
    dreq,        \* the DREQ pin is high
    mayFall,     \* DREQ may fall because of the last transfer
    chipVol,     \* the volume that the decoder has
    decoder,     \* which decoder it is, for good
    plays, vols, \* calls so far
    volLost,     \* history: the last SetVolume found the mailbox full
    forgotten,   \* history: IPlayNew has cleared the last request, made meanwhile
    sent         \* history: chunks of the current file that were sent

threadVars == <<pc, ret, msk>>
evtVars == <<pend, latch, gate>>
sendVars == <<State, ZeroesCount, IDmaIdle, dma>>
cmdVars == <<CmdBox, ICmd>>
chipVars == <<dreq, mayFall, chipVol, decoder>>
fileVars == <<IFile, Buf, PBuf, sent>>
callVars == <<IFilename, IAttenuation, plays, vols, forgotten, volLost>>
vars == <<threadVars, evtVars, sendVars, cmdVars, chipVars, fileVars, callVars>>

Volume(v) == [reg |-> "vol", val |-> v]
Register(r) == [reg |-> r, val |-> 0]
NoFile == [file |-> NULL, size |-> 0, pos |-> 0, open |-> FALSE]
Empty == [file |-> NULL, next |-> 0, sz |-> 0]

\* A slip: a command is posted ahead of those that wait.
PostedAhead(box, cmds) ==
    LET all == cmds \o box
    IN  IF Len(all) > CmdBufSz THEN SubSeq(all, 1, CmdBufSz) ELSE all

\* chMBPostI, for a sequence of commands: what does not fit is dropped.
Posted(box, cmds) ==
    LET all == box \o cmds
    IN  IF Len(all) > CmdBufSz THEN SubSeq(all, 1, CmdBufSz) ELSE all

\* Sound_t::Init, which ends in StartTransmissionIfNotBusy.
Init ==
    /\ pc = "wait" /\ ret = "wait" /\ msk = {}
    /\ decoder \in Decoders
    /\ dreq \in {TRUE, decoder # "any"}
    /\ pend = IF dreq THEN {"DREQ_IRQ"} ELSE {}
    /\ State = "sndStopped" /\ ZeroesCount = 0 /\ IDmaIdle = TRUE
    /\ CmdBox = <<>> /\ ICmd = Register("mode")
    /\ IFilename = NULL /\ IAttenuation = 0
    /\ IFile = NoFile /\ Buf = [b \in 1..2 |-> Empty] /\ PBuf = 1
    /\ dma = "off" /\ latch = FALSE /\ gate = FALSE /\ mayFall = FALSE
    /\ chipVol = 0 /\ plays = 0 /\ vols = 0
    /\ forgotten = FALSE /\ volLost = FALSE /\ sent = 0

Blocked == pc \notin {"loop", "dma", "dreq", "evt"}

-----------------------------------------------------------------------------
(* Operations that several callers share; each gives the next values of the  *)
(* event set and of the interrupt's latch and gate.                          *)

Signal(evts) == pend' = pend \cup evts /\ UNCHANGED <<latch, gate>>

\* A slip: whether the DMA is idle is not asked.
StartTransmissionIfAllowed(evts) ==
    IF dreq THEN /\ pend' = pend \cup evts \cup {"DREQ_IRQ"}
                 /\ latch' = FALSE /\ gate' = FALSE
            ELSE Signal(evts)

\* StartTransmissionIfNotBusy, and the same test in AddCmd, next to signals of
\* the caller: the interrupt it generates runs at chSysUnlock.
StartTransmissionIfNotBusy(evts) ==
    IF IDmaIdle /\ dreq
    THEN /\ pend' = pend \cup evts \cup {"DREQ_IRQ"}
         /\ latch' = FALSE /\ gate' = FALSE
    ELSE Signal(evts)

\* A slip: the latch is cleaned before the gate is opened.
EnableIrqClean == gate' = TRUE /\ latch' = FALSE /\ UNCHANGED pend

\* IDreq.EnableIrq: the handler runs at once when the latch is set.
EnableIrq ==
    IF latch THEN /\ pend' = pend \cup {"DREQ_IRQ"}
                  /\ latch' = FALSE /\ gate' = FALSE
             ELSE /\ gate' = TRUE
                  /\ UNCHANGED <<pend, latch>>

-----------------------------------------------------------------------------
(* Calls by the other threads.                                               *)

Play ==
    /\ Blocked /\ plays < MaxPlays
    /\ plays' = plays + 1
    /\ IFilename' = plays' /\ forgotten' = FALSE
    /\ Signal({"STOP"})
    /\ UNCHANGED <<threadVars, sendVars, cmdVars, chipVars, fileVars,
                   IAttenuation, vols, volLost>>

Stop ==
    /\ Blocked /\ plays < MaxPlays
    /\ plays' = plays + 1
    /\ IFilename' = NULL /\ forgotten' = FALSE
    /\ Signal({"STOP"})
    /\ UNCHANGED <<threadVars, sendVars, cmdVars, chipVars, fileVars,
                   IAttenuation, vols, volLost>>

SetVolume ==
    /\ Blocked /\ vols < MaxVolumes
    /\ vols' = vols + 1
    /\ IAttenuation' = vols'
    /\ CmdBox' = Posted(CmdBox, <<Volume(vols')>>)
    /\ volLost' = (Len(CmdBox) = CmdBufSz)
    /\ StartTransmissionIfNotBusy({})
    /\ UNCHANGED <<threadVars, sendVars, ICmd, chipVars, fileVars, IFilename,
                   plays, forgotten>>

-----------------------------------------------------------------------------
(* The decoder, the DMA and the EXTI (external).                             *)

\* The end of a transfer: SIrqDmaHandler.
DmaDone ==
    /\ dma # "off"
    /\ dma' = "off"
    /\ chipVol' = IF dma = "cmd" /\ ICmd.reg = "vol" THEN ICmd.val ELSE chipVol
    /\ Signal({"DMA_DONE"})
    /\ UNCHANGED <<threadVars, State, ZeroesCount, IDmaIdle, cmdVars, dreq,
                   mayFall, decoder, fileVars, callVars>>

\* The decoder takes what a transfer brought, and DREQ is low for a while: it
\* falls within the transfer, or at any later time.
DreqFalls ==
    /\ dreq /\ mayFall
    /\ dma # "off" \/ decoder = "any"
    /\ dreq' = FALSE /\ mayFall' = FALSE
    /\ UNCHANGED <<threadVars, evtVars, sendVars, cmdVars, chipVol, decoder, fileVars,
                   callVars>>

\* DREQ rises; VS_IRQ_HANDLER runs if the gate is open.  A slow decoder has use
\* for a chunk until the Sound thread waits for DREQ.
DreqRises ==
    /\ ~dreq
    /\ gate \/ decoder # "slow"
    /\ dreq' = TRUE
    /\ latch' = ~gate /\ gate' = FALSE
    /\ pend' = IF gate THEN pend \cup {"DREQ_IRQ"} ELSE pend
    /\ UNCHANGED <<threadVars, sendVars, cmdVars, mayFall, chipVol, decoder, fileVars,
                   callVars>>

-----------------------------------------------------------------------------
(* Sound_t::ISendNextData, which goes on at r.                               *)

NoCommand == CmdBox = <<>>

\* A command was fetched; its transfer starts later.
Fetched == dma' = "off" /\ gate' = FALSE /\ IDmaIdle' = FALSE

Rests == dma' = "off" /\ gate' = FALSE /\ IDmaIdle' = TRUE

Transfer(what) ==
    /\ dma' = what /\ IDmaIdle' = FALSE /\ mayFall' = TRUE
    /\ gate' = FALSE /\ UNCHANGED <<latch, dreq>>

\* A command waits: it is fetched, and sent after a sleep of 1 ms.
SendCommand(r) ==
    /\ CmdBox # <<>>
    /\ ICmd' = Head(CmdBox) /\ CmdBox' = Tail(CmdBox)
    /\ pc' = "cmdSleep" /\ ret' = r
    /\ Fetched
    /\ UNCHANGED <<pend, latch, State, ZeroesCount, chipVars, fileVars>>

\* While playing: the next chunk of the buffer, if there is one; an emptied
\* buffer asks for data and gives way to the other one.
SendData(r) ==
    /\ NoCommand /\ State = "sndPlaying"
    /\ LET b == Buf[PBuf]
           left == IF b.sz = 0 THEN 0 ELSE b.sz - 1
       IN  /\ IF b.sz # 0
              THEN /\ Transfer("data")
                   /\ Buf' = [Buf EXCEPT ![PBuf].sz = left, ![PBuf].next = @ + 1]
                   /\ sent' = sent + 1
              ELSE /\ Rests
                   /\ UNCHANGED <<latch, dreq, mayFall, Buf, sent>>
           /\ PBuf' = IF left = 0 THEN Other(PBuf) ELSE PBuf
           /\ pend' = IF left = 0 THEN pend \cup {"READ_NEXT"} ELSE pend
    /\ pc' = r
    /\ UNCHANGED <<ret, State, ZeroesCount, cmdVars, chipVol, decoder, IFile>>

\* After a file: zeroes, and the end of them.
SendZeroes(r) ==
    /\ NoCommand /\ State = "sndWritingZeroes"
    /\ IF ZeroesCount = 0
       THEN /\ State' = "sndStopped" /\ Rests
            /\ pend' = pend \cup {"COMPLETED"}
            /\ UNCHANGED <<latch, ZeroesCount, dreq, mayFall>>
       ELSE /\ Transfer("zeroes")
            /\ ZeroesCount' = ZeroesCount - 1
            /\ UNCHANGED <<pend, State>>
    /\ pc' = r
    /\ UNCHANGED <<ret, cmdVars, chipVol, decoder, fileVars>>

\* Nothing to send.
SendNothing(r) ==
    /\ NoCommand /\ State = "sndStopped"
    /\ IF dreq THEN Rests /\ UNCHANGED <<pend, latch>>
               ELSE dma' = "off" /\ IDmaIdle' = FALSE /\ EnableIrq
    /\ pc' = r
    /\ UNCHANGED <<ret, State, ZeroesCount, cmdVars, chipVars, fileVars>>

ISendNextData(r) ==
    /\ SendCommand(r) \/ SendData(r) \/ SendZeroes(r) \/ SendNothing(r)
    /\ UNCHANGED <<msk, callVars>>

\* The command goes out when the sleep is over.
CmdStarts ==
    /\ pc = "cmdSleep"
    /\ dma' = "cmd" /\ mayFall' = TRUE
    /\ pc' = ret
    /\ UNCHANGED <<ret, msk, evtVars, State, ZeroesCount, IDmaIdle, cmdVars,
                   dreq, chipVol, decoder, fileVars, callVars>>

-----------------------------------------------------------------------------
(* Sound_t::ITask.                                                           *)

Goto(where) ==
    /\ pc' = where
    /\ UNCHANGED <<ret, msk, evtVars, sendVars, cmdVars, chipVars, fileVars,
                   callVars>>

\* chEvtWaitAny(ALL_EVENTS) blocks if no event is pending ...
Waits == pc = "loop" /\ pend = {} /\ Goto("wait")

\* ... and returns with all that are, at once or when the thread is resumed.
Wakes ==
    /\ pc \in {"loop", "wait"} /\ pend # {}
    /\ msk' = pend /\ pend' = {}
    /\ pc' = "dma"
    /\ UNCHANGED <<ret, latch, gate, sendVars, cmdVars, chipVars, fileVars,
                   callVars>>

\* VS_EVT_DMA_DONE: more data at once, or after DREQ.
DmaSection ==
    /\ pc = "dma"
    /\ \/ "DMA_DONE" \notin msk /\ Goto("dreq")
       \/ "DMA_DONE" \in msk /\ dreq /\ ISendNextData("dreq")
       \/ "DMA_DONE" \in msk /\ ~dreq /\ Goto("dmaSleep")

DmaSleepEnds ==
    /\ pc = "dmaSleep"
    /\ EnableIrq
    /\ pc' = "dreq"
    /\ UNCHANGED <<ret, msk, sendVars, cmdVars, chipVars, fileVars, callVars>>

\* VS_EVT_DREQ_IRQ.
DreqSection ==
    /\ pc = "dreq"
    /\ IF "DREQ_IRQ" \in msk THEN ISendNextData("evt") ELSE Goto("evt")

\* A slip: nothing starts the zeroes.
PrepareToStopQuietly ==
    /\ State' = "sndWritingZeroes" /\ ZeroesCount' = ZeroChunks
    /\ IFile' = [IFile EXCEPT !.open = FALSE]
    /\ UNCHANGED <<evtVars>>
    /\ pc' = "loop"

\* PrepareToStop, which also closes the file.
PrepareToStop ==
    /\ State' = "sndWritingZeroes" /\ ZeroesCount' = ZeroChunks
    /\ IFile' = [IFile EXCEPT !.open = FALSE]
    /\ StartTransmissionIfNotBusy({})
    /\ pc' = "loop"

\* VS_EVT_COMPLETED with a file to play: the soft reset, the commands of
\* IPlayNew, and f_open, which blocks.
PlayNew ==
    /\ pc = "evt" /\ "COMPLETED" \in msk
    /\ IFilename # NULL
    /\ CmdBox' = Posted(CmdBox, <<Register("reset"), Register("mode"),
                                  Register("clockf"), Volume(IAttenuation)>>)
    /\ StartTransmissionIfNotBusy({})
    /\ volLost' = (volLost /\ Len(CmdBox) + 4 > CmdBufSz)
    /\ IFile' = [IFile EXCEPT !.file = IFilename, !.open = FALSE]
    /\ pc' = "opening"
    /\ UNCHANGED <<ret, msk, sendVars, ICmd, chipVars, Buf, PBuf, sent,
                   IFilename, IAttenuation, plays, vols, forgotten>>

\* VS_EVT_COMPLETED with nothing to play: EvtEnd is signalled to the App thread.
PlayEnds ==
    /\ pc = "evt" /\ "COMPLETED" \in msk
    /\ IFilename = NULL
    /\ CmdBox' = Posted(CmdBox, <<Register("reset")>>)
    /\ StartTransmissionIfNotBusy({})
    /\ pc' = "loop"
    /\ UNCHANGED <<ret, msk, sendVars, ICmd, chipVars, fileVars, IFilename,
                   IAttenuation, plays, vols, forgotten, volLost>>

\* A slip: the stop that makes way for a file forgets it.
StopSectionForgets ==
    /\ pc = "evt" /\ "COMPLETED" \notin msk /\ "STOP" \in msk
    /\ PrepareToStop
    /\ IFilename' = NULL
    /\ UNCHANGED <<ret, msk, IDmaIdle, dma, cmdVars, chipVars, Buf, PBuf, sent,
                   IAttenuation, plays, vols, forgotten, volLost>>

\* VS_EVT_STOP.
StopSection ==
    /\ pc = "evt" /\ "COMPLETED" \notin msk /\ "STOP" \in msk
    /\ PrepareToStop
    /\ UNCHANGED <<ret, msk, IDmaIdle, dma, cmdVars, chipVars, Buf, PBuf, sent,
                   callVars>>

\* VS_EVT_READ_NEXT: a buffer to fill is filled by f_read, which blocks;
\* f_read refuses a closed file at once.
ReadsNext == pc = "evt" /\ msk \cap {"COMPLETED", "STOP"} = {} /\ "READ_NEXT" \in msk
AtEof == IFile.pos = IFile.size
SomeEmpty == \E b \in 1..2 : Buf[b].sz = 0
BothEmpty == \A b \in 1..2 : Buf[b].sz = 0

ReadSection ==
    /\ ReadsNext
    /\ ~AtEof /\ SomeEmpty /\ IFile.open
    /\ Goto("reading")

ReadFailsOrEnds ==
    /\ ReadsNext
    /\ \/ ~AtEof /\ SomeEmpty /\ ~IFile.open
       \/ AtEof /\ IDmaIdle /\ BothEmpty
    /\ PrepareToStop
    /\ UNCHANGED <<ret, msk, IDmaIdle, dma, cmdVars, chipVars, Buf, PBuf, sent,
                   callVars>>

ReadNothing ==
    /\ ReadsNext
    /\ IF AtEof THEN ~(IDmaIdle /\ BothEmpty) ELSE ~SomeEmpty
    /\ StartTransmissionIfNotBusy({})
    /\ pc' = "loop"
    /\ UNCHANGED <<ret, msk, sendVars, cmdVars, chipVars, fileVars, callVars>>

NoSection == pc = "evt" /\ msk \cap {"COMPLETED", "STOP", "READ_NEXT"} = {} /\ Goto("loop")

-----------------------------------------------------------------------------
(* The ends of the file operations.                                          *)

\* VsBuf_t::ReadFromFile puts n chunks into buffer b.
ReadInto(b, n) ==
    Buf' = [Buf EXCEPT ![b] = [file |-> IFile.file, next |-> IFile.pos, sz |-> n]]

\* f_read succeeds: the buffer is full, or the file is at its end.
Filled(b) ==
    \E n \in 0..BufChunks :
        /\ n = BufChunks \/ IFile.pos + n = IFile.size
        /\ IFile.pos + n <= IFile.size
        /\ ReadInto(b, n)
        /\ IFile' = [IFile EXCEPT !.pos = @ + n]

\* f_read fails midway, and refuses the file from then on.
NotFilled(b) ==
    /\ FileErrors
    /\ \E n \in 0..(BufChunks - 1) :
           /\ IFile.pos + n < IFile.size
           /\ ReadInto(b, n)
           /\ IFile' = [IFile EXCEPT !.pos = @ + n, !.open = FALSE]

ToFill == IF Buf[1].sz = 0 THEN 1 ELSE 2

ReadDone ==
    /\ pc = "reading"
    /\ Filled(ToFill)
    /\ StartTransmissionIfNotBusy({})
    /\ pc' = "loop"
    /\ UNCHANGED <<ret, msk, sendVars, cmdVars, chipVars, PBuf, sent,
                   callVars>>

ReadFailed ==
    /\ pc = "reading"
    /\ NotFilled(ToFill)
    /\ State' = "sndWritingZeroes" /\ ZeroesCount' = ZeroChunks
    /\ StartTransmissionIfNotBusy({})
    /\ pc' = "loop"
    /\ UNCHANGED <<ret, msk, IDmaIdle, dma, cmdVars, chipVars, PBuf, sent,
                   callVars>>

\* f_open succeeded on a file that is not empty. The request is cleared, whichever it
\* is by now.
Opened ==
    /\ pc = "opening"
    /\ \E n \in FileSizes \ {0} :
           IFile' = [IFile EXCEPT !.size = n, !.pos = 0, !.open = TRUE]
    /\ IFilename' = NULL
    /\ forgotten' = (forgotten \/ IFilename \notin {NULL, IFile.file})
    /\ sent' = 0
    /\ pc' = "fill1"
    /\ UNCHANGED <<ret, msk, evtVars, sendVars, cmdVars, chipVars, Buf, PBuf,
                   IAttenuation, plays, vols, volLost>>

\* f_open failed, or the file is empty: Stop().
NotOpened ==
    /\ pc = "opening"
    /\ FileErrors \/ 0 \in FileSizes
    /\ IFilename' = NULL
    /\ forgotten' = (forgotten \/ IFilename \notin {NULL, IFile.file})
    /\ Signal({"STOP"})
    /\ pc' = "loop"
    /\ UNCHANGED <<ret, msk, sendVars, cmdVars, chipVars, fileVars,
                   IAttenuation, plays, vols, volLost>>

\* A slip: PBuf is not set to the buffer that is read first.
StartPlayingAnywhere ==
    /\ State' = "sndPlaying" /\ UNCHANGED PBuf
    /\ StartTransmissionIfNotBusy({})
    /\ pc' = "loop"

StartPlaying ==
    /\ State' = "sndPlaying" /\ PBuf' = 1
    /\ StartTransmissionIfNotBusy({})
    /\ pc' = "loop"

\* The first buffer is read, and the second one if the first is full.
Fill1 ==
    /\ pc = "fill1"
    /\ Filled(1)
    /\ IF Buf'[1].sz = BufChunks
       THEN pc' = "fill2" /\ UNCHANGED <<evtVars, State, PBuf>>
       ELSE StartPlaying
    /\ UNCHANGED <<ret, msk, ZeroesCount, IDmaIdle, dma, cmdVars, chipVars,
                   sent, callVars>>

Fill1Failed ==
    /\ pc = "fill1"
    /\ NotFilled(1)
    /\ IFilename' = NULL
    /\ forgotten' = (forgotten \/ IFilename \notin {NULL, IFile.file})
    /\ Signal({"STOP"})
    /\ pc' = "loop"
    /\ UNCHANGED <<ret, msk, sendVars, cmdVars, chipVars, PBuf, sent,
                   IAttenuation, plays, vols, volLost>>

Fill2 ==
    /\ pc = "fill2"
    /\ Filled(2) \/ NotFilled(2)
    /\ StartPlaying
    /\ UNCHANGED <<ret, msk, ZeroesCount, IDmaIdle, dma, cmdVars, chipVars,
                   sent, callVars>>

-----------------------------------------------------------------------------
Callers == Play \/ Stop \/ SetVolume
Hardware == DmaDone \/ DreqFalls \/ DreqRises
ITask ==
    \/ Waits \/ Wakes \/ DmaSection \/ DmaSleepEnds \/ DreqSection \/ CmdStarts
    \/ PlayNew \/ PlayEnds \/ StopSection
    \/ ReadSection \/ ReadFailsOrEnds \/ ReadNothing \/ NoSection
FileOps ==
    ReadDone \/ ReadFailed \/ Opened \/ NotOpened \/ Fill1 \/ Fill1Failed \/ Fill2

Next == Callers \/ Hardware \/ ITask \/ FileOps

\* The Sound thread goes on, transfers and file operations end, and the decoder
\* asks for more once it has used what it got.
Fairness == WF_vars(ITask) /\ WF_vars(FileOps) /\ WF_vars(DmaDone) /\ WF_vars(DreqRises)

Spec == Init /\ [][Next]_vars /\ Fairness

-----------------------------------------------------------------------------
\* The types of the player's variables (sound.h, l. 119-131).
DecoderCmds == [reg : {"vol", "reset", "mode", "clockf"}, val : 0..MaxVolumes]
TypeOK ==
    /\ pc \in {"loop", "wait", "dma", "dmaSleep", "cmdSleep", "dreq", "evt",
               "opening", "fill1", "fill2", "reading"}
    /\ ret \in {"wait", "dreq", "evt"}
    /\ pend \subseteq Events /\ msk \subseteq Events
    /\ State \in {"sndStopped", "sndPlaying", "sndWritingZeroes"}
    /\ ZeroesCount \in 0..ZeroChunks
    /\ CmdBox \in Seq(DecoderCmds) /\ Len(CmdBox) <= CmdBufSz /\ ICmd \in DecoderCmds
    /\ IFilename \in 0..MaxPlays /\ plays \in 0..MaxPlays
    /\ IAttenuation \in 0..MaxVolumes /\ vols \in 0..MaxVolumes /\ chipVol \in 0..MaxVolumes
    /\ IFile \in [file : 0..MaxPlays, size : Nat, pos : Nat, open : BOOLEAN]
    /\ IFile.pos <= IFile.size
    /\ Buf \in [1..2 -> [file : 0..MaxPlays, next : Nat, sz : 0..BufChunks]]
    /\ PBuf \in 1..2
    /\ dma \in {"off", "cmd", "data", "zeroes"}
    /\ IDmaIdle \in BOOLEAN /\ latch \in BOOLEAN /\ gate \in BOOLEAN
    /\ dreq \in BOOLEAN /\ mayFall \in BOOLEAN

\* The Sound thread never sleeps while it counts as busy and nothing is left to
\* wake it: a transfer runs, or the gate is open for a DREQ that is still to
\* rise.  So no order of interrupts, sleeps and calls loses the wakeup
\* (ISendNextData, ITask).
BusyWillWake ==
    pc = "wait" /\ pend = {} /\ ~IDmaIdle => dma # "off" \/ (gate /\ ~dreq)

\* IDmaIdle, which the callers of AddCmd test under the lock to see whether they
\* must start the transmission, never says idle while a transfer runs or a
\* command that was fetched waits for its own (AddCmd, ISendNextData).
IdleMeansIdle == IDmaIdle => dma = "off" /\ pc # "cmdSleep"

\* The idle flag tells the truth both ways: a player that is busy gets on, and one
\* that counts as idle may be started by anybody.
IdleFlagTrue == TypeOK /\ BusyWillWake /\ IdleMeansIdle

\* dmaStreamDisable in ISendNextData never cuts a running transfer: the events
\* DMA_DONE and DREQ_IRQ never both send within one transfer.
NoTransferCut == [][dma # "off" => dma' = dma \/ DmaDone]_vars

\* The decoder gets the chunks of one file in their order, without a gap or one
\* twice, whichever buffer they are in, provided the file fills a buffer (a
\* shorter one leaves the other buffer as it was, IPlayNew l. 187-189).
ChunksInOrder ==
    [][sent' = sent + 1 => Buf[PBuf].next = sent /\ Buf[PBuf].file = IFile.file]_vars

\* Unless the mailbox was full at the last SetVolume, the decoder has the volume
\* that was asked for, or the command is on its way (AddCmd, IPlayNew).
CommandsToSend ==
    {CmdBox[i] : i \in DOMAIN CmdBox} \cup
        (IF pc = "cmdSleep" \/ dma = "cmd" THEN {ICmd} ELSE {})
VolumeArrives ==
    volLost \/ chipVol = IAttenuation \/ Volume(IAttenuation) \in CommandsToSend

\* After a file or a stop, the zeroes are written to the end ("After file end,
\* send several zeroes", sound.cpp l. 15), with a slow decoder.
ZeroesEnd == State = "sndWritingZeroes" /\ decoder = "slow" ~> State = "sndStopped"

\* A file that is asked for is opened, or at least f_open is tried on it, whatever the
\* player was doing, unless another call takes its place (Play, ITask, IPlayNew); with a
\* slow decoder. One request is excepted: IPlayNew clears IFilename when f_open returns
\* and when the first buffer cannot be read, so a file that was asked for in between is
\* forgotten.
RequestTaken ==
    \A f \in 1..MaxPlays :
        IFilename = f /\ decoder = "slow" ~> IFile.file = f \/ plays > f \/ forgotten
=============================================================================
