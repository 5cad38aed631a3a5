----------------------------- MODULE SoundProofs -----------------------------
(***************************************************************************)
(* What the player promises, for every size of mailbox, buffers and files, *)
(* every number of calls and every decoder.                                *)
(***************************************************************************)
EXTENDS Sound, TLAPS

\* The end of a transfer that the Sound thread has not handled yet.
DoneOut == "DMA_DONE" \in pend \/ (pc = "dma" /\ "DMA_DONE" \in msk)

\* A request to send that the Sound thread has not handled yet.
DreqOut ==
    \/ "DREQ_IRQ" \in pend
    \/ /\ "DREQ_IRQ" \in msk
       /\ pc \in {"dma", "dmaSleep", "dreq"} \/ (pc = "cmdSleep" /\ ret = "dreq")

Sleeping == pc \in {"dmaSleep", "cmdSleep"}

\* There is one token for the transmission: a running transfer holds it, or the
\* end of one, a sleep of the Sound thread, the open gate, a request to send, or
\* nobody when the DMA is idle.  A request may come to an idle DMA only.
TransferToken ==
    /\ dma # "off" => ~(IDmaIdle \/ DoneOut \/ Sleeping \/ gate \/ DreqOut)
    /\ DoneOut => ~(IDmaIdle \/ Sleeping \/ gate \/ DreqOut)
    /\ Sleeping => ~(IDmaIdle \/ gate \/ DreqOut)
    /\ gate => ~(IDmaIdle \/ DreqOut)
    /\ IDmaIdle \/ dma # "off" \/ DoneOut \/ Sleeping \/ gate \/ DreqOut

\* No rise of DREQ is lost: whoever waits for one has not had it.
RiseIsLatched ==
    /\ gate => ~dreq /\ ~latch
    /\ pc = "dmaSleep" => latch \/ ~dreq

\* The types that the token needs.
TokenTypes ==
    /\ pc \in {"loop", "wait", "dma", "dmaSleep", "cmdSleep", "dreq", "evt",
               "opening", "fill1", "fill2", "reading"}
    /\ ret \in {"wait", "dreq", "evt"}
    /\ IDmaIdle \in BOOLEAN /\ gate \in BOOLEAN /\ latch \in BOOLEAN
    /\ dreq \in BOOLEAN

\* An event that the thread is about to handle is not pending a second time.
HandledOnce ==
    /\ pc \in {"dma", "dreq"} /\ "DREQ_IRQ" \in msk => "DREQ_IRQ" \notin pend
    /\ pc = "dma" /\ "DMA_DONE" \in msk => "DMA_DONE" \notin pend

\* The inductive invariant.
TokenInv == TokenTypes /\ TransferToken /\ RiseIsLatched /\ HandledOnce

LEMMA TokenInit == Init => TokenInv
  BY DEF Init, TokenInv, TokenTypes, TransferToken, RiseIsLatched, HandledOnce,
     DoneOut, DreqOut, Sleeping

\* ISendNextData keeps the token if it is called for the end of a transfer or for
\* a request, and holds it then.
LEMMA SendStep ==
    ASSUME TokenInv, NEW r \in {"dreq", "evt"}, ISendNextData(r),
           dma = "off", ~Sleeping, ~gate,
           pend \cap {"DMA_DONE", "DREQ_IRQ"} = {},
           r = "dreq" => "DREQ_IRQ" \notin msk
    PROVE  TokenInv'
<1> USE DEF TokenInv, TokenTypes, TransferToken, RiseIsLatched, HandledOnce,
        DoneOut, DreqOut, Sleeping, ISendNextData
<1>1. CASE SendCommand(r)
  BY <1>1 DEF SendCommand, Fetched, chipVars
<1>2. CASE SendData(r)
  BY <1>2 DEF SendData, Transfer, Rests
<1>3. CASE SendZeroes(r)
  BY <1>3 DEF SendZeroes, Transfer, Rests
<1>4. CASE SendNothing(r)
  <2> USE <1>4 DEF SendNothing, chipVars
  <2>1. CASE dreq
    BY <2>1 DEF Rests
  <2>2. CASE ~dreq /\ latch
    <3>1. /\ pend' = pend \cup {"DREQ_IRQ"} /\ latch' = FALSE /\ gate' = FALSE
          /\ dma' = "off" /\ IDmaIdle' = FALSE /\ pc' = r
          /\ UNCHANGED <<ret, msk, dreq>>
      BY <2>2 DEF EnableIrq
    <3>2. TokenTypes' /\ RiseIsLatched' /\ HandledOnce'
      BY <3>1
    <3>3. TransferToken'
      BY <3>1
    <3> QED
      BY <3>2, <3>3
  <2>3. CASE ~dreq /\ ~latch
    BY <2>3 DEF EnableIrq
  <2> QED
    BY <2>1, <2>2, <2>3
<1> QED
  BY <1>1, <1>2, <1>3, <1>4

\* A step outside ISendNextData that moves on within the parts of the loop that
\* do not send, with StartTransmissionIfNotBusy or without it.
LEMMA OtherStep ==
    ASSUME TokenInv,
           pc \notin {"dma", "dreq", "dmaSleep", "cmdSleep"},
           pc' \in {"loop", "wait", "evt", "opening", "fill1", "fill2", "reading"},
           NEW evts \in SUBSET {"READ_NEXT", "STOP", "COMPLETED"},
           StartTransmissionIfNotBusy(evts) \/ Signal(evts),
           UNCHANGED <<ret, msk, IDmaIdle, dma, dreq>>
    PROVE  TokenInv'
<1> USE DEF TokenInv, TokenTypes, TransferToken, RiseIsLatched, HandledOnce,
        DoneOut, DreqOut, Sleeping
<1>1. CASE Signal(evts)
  BY <1>1 DEF Signal
<1>2. CASE IDmaIdle /\ dreq /\ StartTransmissionIfNotBusy(evts)
  <2>1. /\ pend' = pend \cup evts \cup {"DREQ_IRQ"}
        /\ latch' = FALSE /\ gate' = FALSE
    BY <1>2 DEF StartTransmissionIfNotBusy
  <2> QED
    BY <1>2, <2>1
<1> QED
  BY <1>1, <1>2 DEF StartTransmissionIfNotBusy

LEMMA TokenStep == TokenInv /\ [Next]_vars => TokenInv'
<1> SUFFICES ASSUME TokenInv, [Next]_vars PROVE TokenInv'
  OBVIOUS
<1> USE DEF threadVars, evtVars, sendVars, cmdVars, chipVars, fileVars, callVars
<1>1. CASE Play \/ Stop
  BY <1>1 DEF Play, Stop, Signal, Blocked, TokenInv, TokenTypes, TransferToken,
     RiseIsLatched, HandledOnce, DoneOut, DreqOut, Sleeping
<1>2. CASE SetVolume
  <2>1. Blocked /\ StartTransmissionIfNotBusy({})
        /\ UNCHANGED <<pc, ret, msk, IDmaIdle, dma, dreq>>
    BY <1>2 DEF SetVolume
  <2>2. CASE IDmaIdle /\ dreq
    <3>1. /\ pend' = pend \cup {"DREQ_IRQ"} /\ latch' = FALSE /\ gate' = FALSE
      BY <2>1, <2>2 DEF StartTransmissionIfNotBusy
    <3> QED
      BY <2>1, <2>2, <3>1 DEF Blocked, TokenInv, TokenTypes, TransferToken,
         RiseIsLatched, HandledOnce, DoneOut, DreqOut, Sleeping
  <2>3. CASE ~(IDmaIdle /\ dreq)
    <3>1. UNCHANGED <<pend, latch, gate>>
      BY <2>1, <2>3 DEF StartTransmissionIfNotBusy, Signal
    <3> QED
      BY <2>1, <3>1 DEF TokenInv, TokenTypes, TransferToken, RiseIsLatched,
         HandledOnce, DoneOut, DreqOut, Sleeping
  <2> QED
    BY <2>2, <2>3
<1>3. CASE DmaDone
  BY <1>3 DEF DmaDone, Signal, TokenInv, TokenTypes, TransferToken, RiseIsLatched,
     HandledOnce, DoneOut, DreqOut, Sleeping
<1>4. CASE DreqFalls
  BY <1>4 DEF DreqFalls, TokenInv, TokenTypes, TransferToken, RiseIsLatched,
     HandledOnce, DoneOut, DreqOut, Sleeping
<1>5. CASE DreqRises
  BY <1>5 DEF DreqRises, TokenInv, TokenTypes, TransferToken, RiseIsLatched,
     HandledOnce, DoneOut, DreqOut, Sleeping
<1>6. CASE Waits \/ NoSection \/ ReadSection
  BY <1>6 DEF Waits, NoSection, ReadSection, ReadsNext, Goto, TokenInv, TokenTypes,
     TransferToken, RiseIsLatched, HandledOnce, DoneOut, DreqOut, Sleeping
<1>7. CASE Wakes
  BY <1>7 DEF Wakes, TokenInv, TokenTypes, TransferToken, RiseIsLatched,
     HandledOnce, DoneOut, DreqOut, Sleeping
<1>8. CASE DmaSection
  <2>1. CASE "DMA_DONE" \notin msk /\ Goto("dreq")
    BY <1>8, <2>1 DEF DmaSection, Goto, TokenInv, TokenTypes, TransferToken,
       RiseIsLatched, HandledOnce, DoneOut, DreqOut, Sleeping
  <2>2. CASE "DMA_DONE" \in msk /\ dreq /\ ISendNextData("dreq")
    <3>1. /\ dma = "off" /\ ~Sleeping /\ ~gate
          /\ pend \cap {"DMA_DONE", "DREQ_IRQ"} = {} /\ "DREQ_IRQ" \notin msk
      BY <1>8, <2>2 DEF DmaSection, TokenInv, TransferToken, HandledOnce, DoneOut,
         DreqOut, Sleeping
    <3> QED
      BY <2>2, <3>1, SendStep
  <2>3. CASE "DMA_DONE" \in msk /\ ~dreq /\ Goto("dmaSleep")
    BY <1>8, <2>3 DEF DmaSection, Goto, TokenInv, TokenTypes, TransferToken,
       RiseIsLatched, HandledOnce, DoneOut, DreqOut, Sleeping
  <2> QED
    BY <1>8, <2>1, <2>2, <2>3 DEF DmaSection
<1>9. CASE DmaSleepEnds
  <2>1. CASE latch
    <3>1. /\ pend' = pend \cup {"DREQ_IRQ"} /\ latch' = FALSE /\ gate' = FALSE
          /\ pc = "dmaSleep" /\ pc' = "dreq"
          /\ UNCHANGED <<ret, msk, IDmaIdle, dma, dreq>>
      BY <1>9, <2>1 DEF DmaSleepEnds, EnableIrq
    <3>2. TransferToken'
      BY <3>1 DEF TokenInv, TokenTypes, TransferToken, DoneOut, DreqOut, Sleeping
    <3>3. TokenTypes' /\ RiseIsLatched' /\ HandledOnce'
      BY <3>1 DEF TokenInv, TokenTypes, TransferToken, RiseIsLatched, HandledOnce,
         DreqOut, Sleeping
    <3> QED
      BY <3>2, <3>3 DEF TokenInv
  <2>2. CASE ~latch
    BY <1>9, <2>2 DEF DmaSleepEnds, EnableIrq, TokenInv, TokenTypes, TransferToken,
       RiseIsLatched, HandledOnce, DoneOut, DreqOut, Sleeping
  <2> QED
    BY <2>1, <2>2
<1>10. CASE DreqSection
  <2>1. CASE "DREQ_IRQ" \in msk
    <3>1. /\ ISendNextData("evt")
          /\ dma = "off" /\ ~Sleeping /\ ~gate
          /\ pend \cap {"DMA_DONE", "DREQ_IRQ"} = {}
      BY <1>10, <2>1 DEF DreqSection, TokenInv, TransferToken, HandledOnce, DoneOut,
         DreqOut, Sleeping
    <3> QED
      BY <3>1, SendStep
  <2>2. CASE "DREQ_IRQ" \notin msk
    BY <1>10, <2>2 DEF DreqSection, Goto, TokenInv, TokenTypes, TransferToken,
       RiseIsLatched, HandledOnce, DoneOut, DreqOut, Sleeping
  <2> QED
    BY <2>1, <2>2
<1>11. CASE CmdStarts
  BY <1>11 DEF CmdStarts, TokenInv, TokenTypes, TransferToken, RiseIsLatched,
     HandledOnce, DoneOut, DreqOut, Sleeping
<1>12. CASE PlayNew \/ PlayEnds
  BY <1>12, OtherStep DEF PlayNew, PlayEnds
<1>13. CASE StopSection \/ ReadFailsOrEnds
  BY <1>13, OtherStep DEF StopSection, ReadFailsOrEnds, ReadsNext, PrepareToStop
<1>14. CASE ReadNothing
  BY <1>14, OtherStep DEF ReadNothing, ReadsNext
<1>15. CASE ReadDone \/ ReadFailed
  BY <1>15, OtherStep DEF ReadDone, ReadFailed
<1>16. CASE Opened
  BY <1>16 DEF Opened, TokenInv, TokenTypes, TransferToken, RiseIsLatched,
     HandledOnce, DoneOut, DreqOut, Sleeping
<1>17. CASE NotOpened \/ Fill1Failed
  BY <1>17, OtherStep DEF NotOpened, Fill1Failed
<1>18. CASE Fill1
  <2>1. CASE StartPlaying
    BY <1>18, <2>1, OtherStep DEF Fill1, StartPlaying
  <2>2. CASE pc' = "fill2" /\ UNCHANGED <<evtVars, State, PBuf>>
    BY <1>18, <2>2 DEF Fill1, TokenInv, TokenTypes, TransferToken, RiseIsLatched,
       HandledOnce, DoneOut, DreqOut, Sleeping
  <2> QED
    BY <1>18, <2>1, <2>2 DEF Fill1
<1>19. CASE Fill2
  BY <1>19, OtherStep DEF Fill2, StartPlaying
<1>20. CASE UNCHANGED vars
  BY <1>20 DEF vars, TokenInv, TokenTypes, TransferToken, RiseIsLatched,
     HandledOnce, DoneOut, DreqOut, Sleeping
<1> QED
  BY <1>1, <1>2, <1>3, <1>4, <1>5, <1>6, <1>7, <1>8, <1>9, <1>10, <1>11, <1>12,
     <1>13, <1>14, <1>15, <1>16, <1>17, <1>18, <1>19, <1>20
     DEF Next, Callers, Hardware, ITask, FileOps

\* While the player counts as busy something will wake the Sound thread
\* (ISendNextData, Sound_t::ITask, the two interrupts).
THEOREM NoLostWakeup == Spec => []BusyWillWake
<1>1. TokenInv => BusyWillWake
  BY DEF TokenInv, TokenTypes, TransferToken, RiseIsLatched, DoneOut, DreqOut,
     Sleeping, BusyWillWake
<1> QED
  BY TokenInit, TokenStep, <1>1, PTL DEF Spec

\* The idle flag is never set while a transfer runs or is prepared (AddCmd,
\* ISendNextData).
THEOREM IdleIsIdle == Spec => []IdleMeansIdle
<1>1. TokenInv => IdleMeansIdle
  BY DEF TokenInv, TransferToken, Sleeping, IdleMeansIdle
<1> QED
  BY TokenInit, TokenStep, <1>1, PTL DEF Spec

\* No running transfer is cut (ISendNextData).
THEOREM TransfersAreWhole == Spec => NoTransferCut
<1>1. TokenInv /\ [Next]_vars => [dma # "off" => dma' = dma \/ DmaDone]_vars
  <2> SUFFICES ASSUME TokenInv, Next, dma # "off", ~DmaDone PROVE dma' = dma
    BY DEF vars, sendVars
  <2>1. /\ pc # "cmdSleep"
        /\ pc = "dma" => "DMA_DONE" \notin msk
        /\ pc = "dreq" => "DREQ_IRQ" \notin msk
    BY DEF TokenInv, TransferToken, DoneOut, DreqOut, Sleeping
  <2> USE <2>1 DEF sendVars
  <2>2. CASE Callers
    BY <2>2 DEF Callers, Play, Stop, SetVolume
  <2>3. CASE Hardware
    BY <2>3 DEF Hardware, DreqFalls, DreqRises
  <2>4. CASE ITask
    BY <2>4 DEF ITask, Waits, Wakes, DmaSection, DmaSleepEnds, DreqSection,
       CmdStarts, PlayNew, PlayEnds, StopSection, ReadSection, ReadFailsOrEnds,
       ReadNothing, NoSection, Goto
  <2>5. CASE FileOps
    BY <2>5 DEF FileOps, ReadDone, ReadFailed, Opened, NotOpened, Fill1,
       Fill1Failed, Fill2
  <2> QED
    BY <2>2, <2>3, <2>4, <2>5 DEF Next
<1> QED
  BY TokenInit, TokenStep, <1>1, PTL DEF Spec, NoTransferCut

-----------------------------------------------------------------------------
(* Types.                                                                    *)

\* The parts of TypeOK, by who changes them.
ThreadTypes ==
    /\ pc \in {"loop", "wait", "dma", "dmaSleep", "cmdSleep", "dreq", "evt",
               "opening", "fill1", "fill2", "reading"}
    /\ ret \in {"wait", "dreq", "evt"} /\ msk \subseteq Events
EventTypes == pend \subseteq Events /\ latch \in BOOLEAN /\ gate \in BOOLEAN
SendTypes ==
    /\ State \in {"sndStopped", "sndPlaying", "sndWritingZeroes"}
    /\ ZeroesCount \in 0..ZeroChunks /\ IDmaIdle \in BOOLEAN
    /\ dma \in {"off", "cmd", "data", "zeroes"}
CmdTypes ==
    CmdBox \in Seq(DecoderCmds) /\ Len(CmdBox) <= CmdBufSz /\ ICmd \in DecoderCmds
ChipTypes == dreq \in BOOLEAN /\ mayFall \in BOOLEAN /\ chipVol \in 0..MaxVolumes
FileTypes ==
    /\ IFile \in [file : 0..MaxPlays, size : Nat, pos : Nat, open : BOOLEAN]
    /\ IFile.pos <= IFile.size
    /\ Buf \in [1..2 -> [file : 0..MaxPlays, next : Nat, sz : 0..BufChunks]]
    /\ PBuf \in 1..2
CallTypes ==
    /\ IFilename \in 0..MaxPlays /\ plays \in 0..MaxPlays
    /\ IAttenuation \in 0..MaxVolumes /\ vols \in 0..MaxVolumes
Types ==
    /\ ThreadTypes /\ EventTypes /\ SendTypes /\ CmdTypes
    /\ ChipTypes /\ FileTypes /\ CallTypes

LEMMA TypesAreTypeOK == Types <=> TypeOK
  BY DEF Types, TypeOK, ThreadTypes, EventTypes, SendTypes, CmdTypes, ChipTypes,
     FileTypes, CallTypes

LEMMA PostedType ==
    ASSUME NEW box \in Seq(DecoderCmds), NEW cmds \in Seq(DecoderCmds)
    PROVE  /\ Posted(box, cmds) \in Seq(DecoderCmds)
           /\ Len(Posted(box, cmds)) <= CmdBufSz
<1> DEFINE all == box \o cmds
<1>1. all \in Seq(DecoderCmds) /\ Len(all) \in Nat
  OBVIOUS
<1>2. CmdBufSz \in Nat
  BY BufferAssumption
<1> HIDE DEF all
<1>3. CASE Len(all) > CmdBufSz
  <2>1. SubSeq(all, 1, CmdBufSz) \in Seq(DecoderCmds)
        /\ Len(SubSeq(all, 1, CmdBufSz)) = CmdBufSz
    BY <1>1, <1>2, <1>3
  <2> QED
    BY <1>2, <1>3, <2>1 DEF Posted, all
<1>4. CASE ~(Len(all) > CmdBufSz)
  BY <1>1, <1>2, <1>4 DEF Posted, all
<1> QED
  BY <1>3, <1>4

\* StartTransmissionIfNotBusy, Signal and EnableIrq only add events.
LEMMA EventStep ==
    ASSUME EventTypes, NEW evts \in SUBSET Events,
           StartTransmissionIfNotBusy(evts) \/ Signal(evts) \/ EnableIrq
    PROVE  EventTypes'
<1>1. CASE Signal(evts)
  BY <1>1 DEF Signal, EventTypes
<1>2. CASE EnableIrq
  BY <1>2 DEF EnableIrq, EventTypes, Events
<1>3. CASE StartTransmissionIfNotBusy(evts)
  BY <1>1, <1>3 DEF StartTransmissionIfNotBusy, EventTypes, Events
<1> QED
  BY <1>1, <1>2, <1>3

LEMMA TypesInit == Init => Types
<1> SUFFICES ASSUME Init PROVE Types
  OBVIOUS
<1> USE BufferAssumption, BoundAssumption DEF Init
<1>1. ThreadTypes /\ SendTypes /\ CallTypes
  BY DEF ThreadTypes, SendTypes, CallTypes, NULL
<1>2. EventTypes
  BY DEF EventTypes, Events
<1>3. CmdTypes
  <2>1. ICmd \in DecoderCmds
    BY DEF Register, DecoderCmds
  <2> QED
    BY <2>1 DEF CmdTypes
<1>4. ChipTypes
  <2>1. dreq \in BOOLEAN /\ mayFall \in BOOLEAN
    OBVIOUS
  <2>2. chipVol \in 0..MaxVolumes
    OBVIOUS
  <2> QED
    BY <2>1, <2>2 DEF ChipTypes
<1>5. FileTypes
  BY DEF FileTypes, NoFile, Empty, NULL
<1> QED
  BY <1>1, <1>2, <1>3, <1>4, <1>5 DEF Types

LEMMA SendTypesStep ==
    ASSUME Types, NEW r \in {"dreq", "evt"}, ISendNextData(r)
    PROVE  Types'
<1>1. ThreadTypes /\ EventTypes /\ SendTypes /\ CmdTypes /\ ChipTypes /\ FileTypes /\ CallTypes
  BY DEF Types
<1>2. CallTypes' /\ msk' = msk
  BY <1>1 DEF ISendNextData, CallTypes, callVars
<1> USE DEF cmdVars, chipVars, fileVars
<1>3. CASE SendCommand(r)
  <2>1. CmdTypes'
    <3>1. CmdBox \in Seq(DecoderCmds) /\ CmdBox # <<>> /\ Len(CmdBox) <= CmdBufSz
      BY <1>1, <1>3 DEF SendCommand, CmdTypes
    <3>2. Head(CmdBox) \in DecoderCmds /\ Tail(CmdBox) \in Seq(DecoderCmds)
          /\ Len(Tail(CmdBox)) <= CmdBufSz
      BY <3>1, BufferAssumption
    <3> QED
      BY <1>3, <3>2 DEF SendCommand, CmdTypes
  <2>2. ThreadTypes' /\ EventTypes' /\ SendTypes' /\ ChipTypes'
    BY <1>1, <1>2, <1>3 DEF SendCommand, Fetched, ThreadTypes, EventTypes, SendTypes, ChipTypes
  <2>3. FileTypes'
    BY <1>1, <1>3 DEF SendCommand, FileTypes
  <2> QED
    BY <1>2, <2>1, <2>2, <2>3 DEF Types
<1>4. CASE SendData(r)
  <2>1. CmdTypes'
    BY <1>1, <1>4 DEF SendData, CmdTypes
  <2>2. ThreadTypes' /\ SendTypes' /\ ChipTypes'
    BY <1>1, <1>2, <1>4 DEF SendData, Transfer, Rests, ThreadTypes, SendTypes, ChipTypes
  <2>3. EventTypes'
    BY <1>1, <1>4 DEF SendData, Transfer, Rests, EventTypes, Events
  <2>4. FileTypes'
    <3>1. PBuf' \in 1..2
      BY <1>1, <1>4 DEF SendData, FileTypes, Other
    <3>2. CASE Buf[PBuf].sz # 0
      <4>1. Buf' = [Buf EXCEPT ![PBuf].sz = Buf[PBuf].sz - 1, ![PBuf].next = @ + 1]
        BY <1>4, <3>2 DEF SendData
      <4>2. Buf[PBuf].sz - 1 \in 0..BufChunks /\ Buf[PBuf].next + 1 \in Nat
        BY <1>1, <3>2, BufferAssumption DEF FileTypes
      <4>3. Buf' \in [1..2 -> [file : 0..MaxPlays, next : Nat, sz : 0..BufChunks]]
        BY <1>1, <4>1, <4>2 DEF FileTypes
      <4> QED
        BY <1>1, <1>4, <3>1, <4>3 DEF SendData, FileTypes
    <3>3. CASE Buf[PBuf].sz = 0
      BY <1>1, <1>4, <3>1, <3>3 DEF SendData, FileTypes
    <3> QED
      BY <3>2, <3>3
  <2> QED
    BY <1>2, <2>1, <2>2, <2>3, <2>4 DEF Types
<1>5. CASE SendZeroes(r)
  <2>1. CmdTypes'
    BY <1>1, <1>5 DEF SendZeroes, CmdTypes
  <2>2. ThreadTypes' /\ ChipTypes'
    BY <1>1, <1>2, <1>5 DEF SendZeroes, Transfer, Rests, ThreadTypes, ChipTypes
  <2>3. SendTypes'
    <3>1. CASE ZeroesCount = 0
      BY <1>1, <1>5, <3>1 DEF SendZeroes, Rests, SendTypes
    <3>2. CASE ZeroesCount # 0
      <4>1. ZeroesCount - 1 \in 0..ZeroChunks
        BY <1>1, <3>2, BufferAssumption DEF SendTypes
      <4> QED
        BY <1>1, <1>5, <3>2, <4>1 DEF SendZeroes, Transfer, SendTypes
    <3> QED
      BY <3>1, <3>2
  <2>4. EventTypes'
    BY <1>1, <1>5 DEF SendZeroes, Transfer, Rests, EventTypes, Events
  <2>5. FileTypes'
    BY <1>1, <1>5 DEF SendZeroes, FileTypes
  <2> QED
    BY <1>2, <2>1, <2>2, <2>3, <2>4, <2>5 DEF Types
<1>6. CASE SendNothing(r)
  <2>1. CmdTypes'
    BY <1>1, <1>6 DEF SendNothing, CmdTypes
  <2>2. ThreadTypes' /\ SendTypes' /\ ChipTypes'
    BY <1>1, <1>2, <1>6 DEF SendNothing, Rests, ThreadTypes, SendTypes, ChipTypes
  <2>3. EventTypes'
    <3>1. CASE EnableIrq
      BY <1>1, <3>1, EventStep
    <3>2. CASE Rests /\ UNCHANGED <<pend, latch>>
      BY <1>1, <3>2 DEF Rests, EventTypes
    <3> QED
      BY <1>6, <3>1, <3>2 DEF SendNothing
  <2>4. FileTypes'
    BY <1>1, <1>6 DEF SendNothing, FileTypes
  <2> QED
    BY <1>2, <2>1, <2>2, <2>3, <2>4 DEF Types
<1> QED
  BY <1>3, <1>4, <1>5, <1>6 DEF ISendNextData

\* What a read leaves in a buffer, and where it leaves the file.
LEMMA ReadTypes ==
    ASSUME FileTypes, NEW b \in 1..2, Filled(b) \/ NotFilled(b), PBuf' \in 1..2
    PROVE  FileTypes'
<1>1. PICK n \in 0..BufChunks, o \in BOOLEAN :
          /\ IFile.pos + n <= IFile.size
          /\ ReadInto(b, n)
          /\ IFile' = [IFile EXCEPT !.pos = @ + n, !.open = o]
  <2>1. CASE Filled(b)
    <3>1. PICK n \in 0..BufChunks : /\ IFile.pos + n <= IFile.size
                                    /\ ReadInto(b, n)
                                    /\ IFile' = [IFile EXCEPT !.pos = @ + n]
      BY <2>1 DEF Filled
    <3>2. IFile' = [IFile EXCEPT !.pos = @ + n, !.open = IFile.open] /\ IFile.open \in BOOLEAN
      BY <3>1 DEF FileTypes
    <3> QED
      BY <3>1, <3>2
  <2>2. CASE NotFilled(b)
    <3>1. PICK n \in 0..(BufChunks - 1) :
              /\ IFile.pos + n < IFile.size
              /\ ReadInto(b, n)
              /\ IFile' = [IFile EXCEPT !.pos = @ + n, !.open = FALSE]
      BY <2>2 DEF NotFilled
    <3>2. n \in 0..BufChunks /\ IFile.pos + n <= IFile.size
      BY <3>1, BufferAssumption DEF FileTypes
    <3> QED
      BY <3>1, <3>2
  <2> QED
    BY <2>1, <2>2
<1>2. /\ IFile' \in [file : 0..MaxPlays, size : Nat, pos : Nat, open : BOOLEAN]
      /\ IFile'.pos <= IFile'.size
  <2>1. IFile.pos + n \in Nat
    BY BufferAssumption DEF FileTypes
  <2>2. /\ IFile'.pos = IFile.pos + n /\ IFile'.size = IFile.size
        /\ IFile' \in [file : 0..MaxPlays, size : Nat, pos : Nat, open : BOOLEAN]
    BY <1>1, <2>1 DEF FileTypes
  <2> QED
    BY <1>1, <2>2
<1>3. Buf' \in [1..2 -> [file : 0..MaxPlays, next : Nat, sz : 0..BufChunks]]
  BY <1>1 DEF FileTypes, ReadInto
<1> QED
  BY <1>2, <1>3 DEF FileTypes

LEMMA TypesStep == Types /\ [Next]_vars => Types'
<1> SUFFICES ASSUME Types, [Next]_vars PROVE Types'
  OBVIOUS
<1>0. ThreadTypes /\ EventTypes /\ SendTypes /\ CmdTypes /\ ChipTypes /\ FileTypes /\ CallTypes
  BY DEF Types
<1>1. /\ UNCHANGED threadVars => ThreadTypes'
      /\ UNCHANGED evtVars => EventTypes'
      /\ UNCHANGED sendVars => SendTypes'
      /\ UNCHANGED cmdVars => CmdTypes'
      /\ UNCHANGED <<dreq, mayFall, chipVol>> => ChipTypes'
      /\ UNCHANGED <<IFile, Buf, PBuf>> => FileTypes'
      /\ UNCHANGED <<IFilename, IAttenuation, plays, vols>> => CallTypes'
  BY <1>0 DEF ThreadTypes, EventTypes, SendTypes, CmdTypes, ChipTypes, FileTypes,
     CallTypes, threadVars, evtVars, sendVars, cmdVars
<1> USE DEF chipVars, fileVars, callVars, Types
<1>2. CASE Play \/ Stop
  <2>1. EventTypes'
    BY <1>0, <1>2, EventStep DEF Play, Stop, Events
  <2>2. CallTypes'
    BY <1>0, <1>2, BoundAssumption DEF Play, Stop, CallTypes, NULL
  <2> QED
    BY <1>1, <1>2, <2>1, <2>2 DEF Play, Stop
<1>3. CASE SetVolume
  <2>1. EventTypes'
    BY <1>0, <1>3, EventStep DEF SetVolume
  <2>2. vols' \in 0..MaxVolumes /\ CallTypes'
    BY <1>0, <1>3, BoundAssumption DEF SetVolume, CallTypes
  <2>3. <<Volume(vols')>> \in Seq(DecoderCmds)
    BY <2>2 DEF Volume, DecoderCmds
  <2>4. CmdTypes'
    BY <1>0, <1>3, <2>3, PostedType DEF SetVolume, CmdTypes
  <2> QED
    BY <1>1, <1>3, <2>1, <2>2, <2>4 DEF SetVolume
<1>4. CASE DmaDone
  <2>1. EventTypes'
    BY <1>0, <1>4, EventStep DEF DmaDone, Events
  <2>2. SendTypes'
    BY <1>0, <1>4 DEF DmaDone, SendTypes
  <2>3. ChipTypes'
    BY <1>0, <1>4 DEF DmaDone, ChipTypes, CmdTypes, DecoderCmds
  <2> QED
    BY <1>1, <1>4, <2>1, <2>2, <2>3 DEF DmaDone
<1>5. CASE DreqFalls \/ DreqRises
  <2>1. EventTypes'
    BY <1>0, <1>5 DEF DreqFalls, DreqRises, EventTypes, Events, evtVars
  <2>2. ChipTypes'
    BY <1>0, <1>5 DEF DreqFalls, DreqRises, ChipTypes
  <2> QED
    BY <1>1, <1>5, <2>1, <2>2 DEF DreqFalls, DreqRises
<1>6. ASSUME NEW where \in {"loop", "wait", "dreq", "evt", "dmaSleep", "reading"}, Goto(where)
      PROVE  Types'
  <2>1. ThreadTypes'
    BY <1>0, <1>6 DEF Goto, ThreadTypes
  <2> QED
    BY <1>1, <1>6, <2>1 DEF Goto
<1>7. CASE Waits \/ NoSection \/ ReadSection
  BY <1>6, <1>7 DEF Waits, NoSection, ReadSection
<1>8. CASE Wakes
  <2>1. ThreadTypes' /\ EventTypes'
    BY <1>0, <1>8 DEF Wakes, ThreadTypes, EventTypes
  <2> QED
    BY <1>1, <1>8, <2>1 DEF Wakes
<1>9. CASE DmaSection \/ DreqSection
  BY <1>6, <1>9, SendTypesStep DEF DmaSection, DreqSection
<1>10. CASE DmaSleepEnds
  <2>1. ThreadTypes' /\ EventTypes'
    BY <1>0, <1>10, EventStep DEF DmaSleepEnds, ThreadTypes
  <2> QED
    BY <1>1, <1>10, <2>1 DEF DmaSleepEnds
<1>11. CASE CmdStarts
  <2>1. ThreadTypes' /\ SendTypes' /\ ChipTypes'
    BY <1>0, <1>11 DEF CmdStarts, ThreadTypes, SendTypes, ChipTypes
  <2> QED
    BY <1>1, <1>11, <2>1 DEF CmdStarts
<1>12. CASE PlayNew
  <2>1. <<Register("reset"), Register("mode"), Register("clockf"), Volume(IAttenuation)>>
            \in Seq(DecoderCmds)
    BY <1>0, BoundAssumption DEF Register, Volume, DecoderCmds, CallTypes
  <2>2. CmdTypes'
    BY <1>0, <1>12, <2>1, PostedType DEF PlayNew, CmdTypes
  <2>3. ThreadTypes' /\ EventTypes'
    BY <1>0, <1>12, EventStep DEF PlayNew, ThreadTypes
  <2>4. FileTypes'
    BY <1>0, <1>12 DEF PlayNew, FileTypes, CallTypes
  <2> QED
    BY <1>1, <1>12, <2>2, <2>3, <2>4 DEF PlayNew
<1>13. CASE PlayEnds
  <2>1. <<Register("reset")>> \in Seq(DecoderCmds)
    BY BoundAssumption DEF Register, DecoderCmds
  <2>2. CmdTypes'
    BY <1>0, <1>13, <2>1, PostedType DEF PlayEnds, CmdTypes
  <2>3. ThreadTypes' /\ EventTypes'
    BY <1>0, <1>13, EventStep DEF PlayEnds, ThreadTypes
  <2> QED
    BY <1>1, <1>13, <2>2, <2>3 DEF PlayEnds
<1>14. CASE StopSection \/ ReadFailsOrEnds
  <2>1. PrepareToStop /\ UNCHANGED <<ret, msk, IDmaIdle, dma, cmdVars, chipVars, Buf, PBuf, callVars>>
    BY <1>14 DEF StopSection, ReadFailsOrEnds
  <2>2. ThreadTypes' /\ EventTypes'
    BY <1>0, <2>1, EventStep DEF PrepareToStop, ThreadTypes
  <2>3. SendTypes'
    BY <1>0, <2>1, BufferAssumption DEF PrepareToStop, SendTypes
  <2>4. FileTypes'
    BY <1>0, <2>1 DEF PrepareToStop, FileTypes
  <2> QED
    BY <1>1, <2>1, <2>2, <2>3, <2>4
<1>15. CASE ReadNothing
  <2>1. ThreadTypes' /\ EventTypes'
    BY <1>0, <1>15, EventStep DEF ReadNothing, ThreadTypes
  <2> QED
    BY <1>1, <1>15, <2>1 DEF ReadNothing
<1>16. CASE ReadDone \/ ReadFailed
  <2>1. ThreadTypes' /\ EventTypes'
    BY <1>0, <1>16, EventStep DEF ReadDone, ReadFailed, ThreadTypes
  <2>2. SendTypes'
    BY <1>0, <1>16, BufferAssumption DEF ReadDone, ReadFailed, SendTypes, sendVars
  <2>3. FileTypes'
    BY <1>0, <1>16, ReadTypes DEF ReadDone, ReadFailed, ToFill, FileTypes
  <2> QED
    BY <1>1, <1>16, <2>1, <2>2, <2>3 DEF ReadDone, ReadFailed
<1>17. CASE Opened
  <2>1. ThreadTypes' /\ CallTypes'
    BY <1>0, <1>17, BoundAssumption DEF Opened, ThreadTypes, CallTypes, NULL
  <2>2. FileTypes'
    <3>1. PICK n \in FileSizes \ {0} : IFile' = [IFile EXCEPT !.size = n, !.pos = 0, !.open = TRUE]
      BY <1>17 DEF Opened
    <3> QED
      <4>1. n \in Nat
        BY BufferAssumption
      <4>2. /\ IFile' \in [file : 0..MaxPlays, size : Nat, pos : Nat, open : BOOLEAN]
            /\ IFile'.pos = 0 /\ IFile'.size = n
        BY <1>0, <3>1, <4>1 DEF FileTypes
      <4>3. IFile'.pos <= IFile'.size
        BY <4>1, <4>2
      <4> QED
        BY <1>0, <1>17, <4>2, <4>3 DEF Opened, FileTypes
  <2> QED
    BY <1>1, <1>17, <2>1, <2>2 DEF Opened
<1>18. CASE NotOpened \/ Fill1Failed
  <2>1. ThreadTypes' /\ CallTypes'
    BY <1>0, <1>18, BoundAssumption DEF NotOpened, Fill1Failed, ThreadTypes, CallTypes, NULL
  <2>2. EventTypes'
    BY <1>0, <1>18, EventStep DEF NotOpened, Fill1Failed, Events
  <2>3. FileTypes'
    BY <1>0, <1>1, <1>18, ReadTypes DEF NotOpened, Fill1Failed, FileTypes
  <2> QED
    BY <1>1, <1>18, <2>1, <2>2, <2>3 DEF NotOpened, Fill1Failed
<1>19. CASE Fill1 \/ Fill2
  <2>1. ThreadTypes' /\ EventTypes' /\ PBuf' \in 1..2
    BY <1>0, <1>1, <1>19, EventStep DEF Fill1, Fill2, StartPlaying, ThreadTypes, FileTypes
  <2>2. SendTypes'
    BY <1>0, <1>19 DEF Fill1, Fill2, StartPlaying, SendTypes
  <2>3. FileTypes'
    BY <1>0, <1>19, <2>1, ReadTypes DEF Fill1, Fill2
  <2> QED
    BY <1>1, <1>19, <2>1, <2>2, <2>3 DEF Fill1, Fill2
<1>20. CASE UNCHANGED vars
  BY <1>1, <1>20 DEF vars
<1> QED
  BY <1>2, <1>3, <1>4, <1>5, <1>7, <1>8, <1>9, <1>10, <1>11, <1>12, <1>13, <1>14,
     <1>15, <1>16, <1>17, <1>18, <1>19, <1>20
     DEF Next, Callers, Hardware, ITask, FileOps

\* The player's variables keep their types (sound.h, l. 119-131): the mailbox
\* never overflows and the buffers never hold more than they can.
THEOREM PlayerTypeCorrect == Spec => []TypeOK
<1> QED
  BY TypesInit, TypesStep, TypesAreTypeOK, PTL DEF Spec

\* The idle flag tells the truth both ways (AddCmd, ISendNextData).
THEOREM IdleFlagIsTrue == Spec => []IdleFlagTrue
<1>1. TypeOK /\ BusyWillWake /\ IdleMeansIdle => IdleFlagTrue
  BY DEF IdleFlagTrue
<1> QED
  BY <1>1, PlayerTypeCorrect, NoLostWakeup, IdleIsIdle, PTL

-----------------------------------------------------------------------------
(* The volume.                                                               *)

\* A command was fetched and the decoder has not got it yet.
OnItsWay == pc = "cmdSleep" \/ dma = "cmd"

\* The last command for the volume, of those that wait in box.
LastVolume(box, v) ==
    \E i \in DOMAIN box :
        box[i] = Volume(v) /\ \A j \in DOMAIN box : j > i => box[j].reg # "vol"
NoVolume(box) == \A i \in DOMAIN box : box[i].reg # "vol"

\* What the decoder will have when the commands on their way have arrived is the
\* volume that was asked for.
VolumeInv ==
    \/ volLost
    \/ LastVolume(CmdBox, IAttenuation)
    \/ NoVolume(CmdBox) /\ OnItsWay /\ ICmd = Volume(IAttenuation)
    \/ NoVolume(CmdBox) /\ ~(OnItsWay /\ ICmd.reg = "vol") /\ chipVol = IAttenuation


\* What chMBPostI leaves of the mailbox: all that waited, and what fits.
LEMMA PostedIs ==
    ASSUME NEW box \in Seq(DecoderCmds), NEW cmds \in Seq(DecoderCmds),
           Len(box) <= CmdBufSz
    PROVE  LET p == Posted(box, cmds)
           IN  /\ p \in Seq(DecoderCmds) /\ Len(p) >= Len(box)
               /\ Len(p) = IF Len(box) + Len(cmds) > CmdBufSz THEN CmdBufSz
                                                             ELSE Len(box) + Len(cmds)
               /\ \A i \in 1..Len(box) : p[i] = box[i]
               /\ \A i \in (Len(box) + 1)..Len(p) :
                      i - Len(box) \in 1..Len(cmds) /\ p[i] = cmds[i - Len(box)]
<1> DEFINE all == box \o cmds
           p == Posted(box, cmds)
<1>1. CmdBufSz \in Nat
  BY BufferAssumption
<1>2. all \in Seq(DecoderCmds) /\ Len(all) = Len(box) + Len(cmds)
  OBVIOUS
<1>3. \A i \in 1..Len(all) : all[i] = IF i <= Len(box) THEN box[i] ELSE cmds[i - Len(box)]
  OBVIOUS
<1>4. p = IF Len(all) > CmdBufSz THEN SubSeq(all, 1, CmdBufSz) ELSE all
  BY DEF Posted
<1> HIDE DEF all, p
<1>5. p \in Seq(DecoderCmds) /\ Len(p) = IF Len(all) > CmdBufSz THEN CmdBufSz ELSE Len(all)
  BY <1>1, <1>2, <1>4
<1>6. \A i \in 1..Len(p) : i \in 1..Len(all) /\ p[i] = all[i]
  BY <1>1, <1>2, <1>4, <1>5
<1>7. Len(box) \in Nat /\ Len(cmds) \in Nat
  OBVIOUS
<1>8. Len(p) >= Len(box)
  BY <1>1, <1>2, <1>5, <1>7
<1>9. \A i \in 1..Len(box) : p[i] = box[i]
  <2> TAKE i \in 1..Len(box)
  <2>1. i \in 1..Len(p) /\ i <= Len(box)
    BY <1>5, <1>7, <1>8
  <2> QED
    BY <2>1, <1>3, <1>6
<1>10. \A i \in (Len(box) + 1)..Len(p) :
           i - Len(box) \in 1..Len(cmds) /\ p[i] = cmds[i - Len(box)]
  <2> TAKE i \in (Len(box) + 1)..Len(p)
  <2>1. i \in 1..Len(all) /\ p[i] = all[i]
    BY <1>6, <1>7, <1>5
  <2>2. i \in Nat /\ i <= Len(box) + Len(cmds) /\ ~(i <= Len(box))
    BY <2>1, <1>2, <1>7
  <2>3. p[i] = cmds[i - Len(box)]
    BY <2>1, <2>2, <1>3
  <2>4. i - Len(box) \in 1..Len(cmds)
    BY <2>2, <1>7
  <2> QED
    BY <2>3, <2>4
<1> QED
  BY <1>2, <1>5, <1>8, <1>9, <1>10 DEF p

\* A command for the volume that fits is the last one.
LEMMA VolumePosted ==
    ASSUME NEW box \in Seq(DecoderCmds), NEW cmds \in Seq(DecoderCmds), NEW v,
           cmds # <<>>, cmds[Len(cmds)] = Volume(v), Len(box) + Len(cmds) <= CmdBufSz
    PROVE  LastVolume(Posted(box, cmds), v)
<1> DEFINE p == Posted(box, cmds)
           n == Len(box) + Len(cmds)
<1>1. CmdBufSz \in Nat /\ Len(box) \in Nat /\ Len(cmds) \in Nat /\ Len(cmds) >= 1
  BY BufferAssumption
<1>2. Len(box) <= CmdBufSz
  BY <1>1
<1>3. p \in Seq(DecoderCmds) /\ Len(p) = n
      /\ \A i \in (Len(box) + 1)..Len(p) : p[i] = cmds[i - Len(box)]
  BY <1>1, <1>2, PostedIs
<1> HIDE DEF p
<1>4. n \in (Len(box) + 1)..Len(p) /\ n - Len(box) = Len(cmds)
  BY <1>1, <1>3
<1>5. p[n] = Volume(v) /\ n \in DOMAIN p
  BY <1>1, <1>3, <1>4
<1>6. \A j \in DOMAIN p : ~(j > n)
  BY <1>1, <1>3
<1> QED
  BY <1>5, <1>6 DEF LastVolume, p

\* Other commands, and those that do not fit, change nothing.
LEMMA OthersPosted ==
    ASSUME NEW box \in Seq(DecoderCmds), NEW cmds \in Seq(DecoderCmds), NEW v,
           Len(box) <= CmdBufSz,
           \A k \in 1..Len(cmds) : Len(box) + k <= CmdBufSz => cmds[k].reg # "vol"
    PROVE  /\ LastVolume(box, v) => LastVolume(Posted(box, cmds), v)
           /\ NoVolume(box) => NoVolume(Posted(box, cmds))
<1> DEFINE p == Posted(box, cmds)
<1>1. CmdBufSz \in Nat /\ Len(box) \in Nat /\ Len(cmds) \in Nat
  BY BufferAssumption
<1>2. /\ p \in Seq(DecoderCmds) /\ Len(p) \in Nat /\ Len(p) >= Len(box) /\ Len(p) <= CmdBufSz
      /\ \A i \in 1..Len(box) : p[i] = box[i]
      /\ \A i \in (Len(box) + 1)..Len(p) :
             i - Len(box) \in 1..Len(cmds) /\ p[i] = cmds[i - Len(box)]
  BY <1>1, PostedIs
<1> HIDE DEF p
<1>3. \A i \in DOMAIN p : i > Len(box) => p[i].reg # "vol"
  <2> SUFFICES ASSUME NEW i \in 1..Len(p), i > Len(box) PROVE p[i].reg # "vol"
    BY <1>2
  <2>1. i - Len(box) \in 1..Len(cmds) /\ p[i] = cmds[i - Len(box)]
    BY <1>1, <1>2
  <2>2. Len(box) + (i - Len(box)) <= CmdBufSz
    BY <1>1, <1>2
  <2> QED
    BY <2>1, <2>2
<1>4. ASSUME LastVolume(box, v) PROVE LastVolume(p, v)
  <2>1. PICK i \in 1..Len(box) :
            box[i] = Volume(v) /\ \A j \in 1..Len(box) : j > i => box[j].reg # "vol"
    BY <1>4 DEF LastVolume
  <2>2. i \in DOMAIN p /\ p[i] = Volume(v)
    BY <1>1, <1>2, <2>1
  <2>3. ASSUME NEW j \in DOMAIN p, j > i PROVE p[j].reg # "vol"
    <3>1. CASE j > Len(box)
      BY <3>1, <1>3
    <3>2. CASE ~(j > Len(box))
      <4>1. j \in 1..Len(box) /\ p[j] = box[j]
        BY <3>2, <1>1, <1>2
      <4> QED
        BY <4>1, <2>1, <2>3
    <3> QED
      BY <3>1, <3>2
  <2> QED
    BY <2>2, <2>3 DEF LastVolume
<1>5. ASSUME NoVolume(box) PROVE NoVolume(p)
  <2>1. \A i \in 1..Len(box) : p[i].reg # "vol"
    BY <1>2, <1>5 DEF NoVolume
  <2>2. ASSUME NEW i \in DOMAIN p PROVE p[i].reg # "vol"
    <3>1. i \in 1..Len(box) \/ i > Len(box)
      BY <1>1, <1>2
    <3> QED
      BY <2>1, <1>3, <3>1
  <2> QED
    BY <2>2 DEF NoVolume
<1> QED
  BY <1>4, <1>5 DEF p

\* Fetching the first command.
LEMMA VolumeFetched ==
    ASSUME NEW box \in Seq(DecoderCmds), NEW v, box # <<>>
    PROVE  /\ LastVolume(box, v) =>
                  \/ LastVolume(Tail(box), v)
                  \/ Head(box) = Volume(v) /\ NoVolume(Tail(box))
           /\ NoVolume(box) => NoVolume(Tail(box)) /\ Head(box).reg # "vol"
<1> DEFINE t == Tail(box)
<1>1. Len(box) \in Nat /\ Len(box) >= 1 /\ Head(box) = box[1]
  OBVIOUS
<1>2. t \in Seq(DecoderCmds) /\ Len(t) = Len(box) - 1
      /\ \A i \in 1..Len(t) : i + 1 \in 1..Len(box) /\ t[i] = box[i + 1]
  BY <1>1
<1> HIDE DEF t
<1>3. ASSUME LastVolume(box, v)
      PROVE  LastVolume(t, v) \/ (Head(box) = Volume(v) /\ NoVolume(t))
  <2>1. PICK i \in 1..Len(box) :
            box[i] = Volume(v) /\ \A j \in 1..Len(box) : j > i => box[j].reg # "vol"
    BY <1>3 DEF LastVolume
  <2>2. CASE i = 1
    <3>1. \A j \in DOMAIN t : t[j].reg # "vol"
      BY <1>1, <1>2, <2>1, <2>2
    <3> QED
      BY <3>1, <2>1, <2>2, <1>1 DEF NoVolume
  <2>3. CASE i # 1
    <3>1. i - 1 \in DOMAIN t /\ t[i - 1] = Volume(v)
      BY <1>1, <1>2, <2>1, <2>3
    <3>2. \A j \in DOMAIN t : j > i - 1 => t[j].reg # "vol"
      BY <1>1, <1>2, <2>1
    <3> QED
      BY <3>1, <3>2 DEF LastVolume
  <2> QED
    BY <2>2, <2>3
<1>4. ASSUME NoVolume(box) PROVE NoVolume(t) /\ Head(box).reg # "vol"
  <2>1. \A i \in 1..Len(box) : box[i].reg # "vol"
    BY <1>4 DEF NoVolume
  <2>2. \A i \in DOMAIN t : t[i].reg # "vol"
    BY <2>1, <1>2
  <2>3. 1 \in 1..Len(box)
    BY <1>1
  <2> QED
    BY <1>1, <2>1, <2>2, <2>3 DEF NoVolume
<1> QED
  BY <1>3, <1>4 DEF t

LEMMA VolumeInit == Init => VolumeInv
<1> SUFFICES ASSUME Init PROVE VolumeInv
  OBVIOUS
<1>1. NoVolume(CmdBox)
  BY DEF Init, NoVolume
<1>2. ~OnItsWay /\ chipVol = IAttenuation
  BY DEF Init, OnItsWay
<1> QED
  BY <1>1, <1>2 DEF VolumeInv

\* A step that neither posts nor moves a command.
LEMMA VolumeKept ==
    ASSUME VolumeInv, OnItsWay' <=> OnItsWay,
           UNCHANGED <<CmdBox, ICmd, chipVol, IAttenuation, volLost>>
    PROVE  VolumeInv'
  BY DEF VolumeInv

\* ISendNextData, when no command is on its way.
LEMMA VolumeSend ==
    ASSUME Types, VolumeInv, ~OnItsWay, NEW r \in {"dreq", "evt"}, ISendNextData(r)
    PROVE  VolumeInv'
<1> USE DEF cmdVars, chipVars
<1>1. UNCHANGED <<IAttenuation, volLost>>
  BY DEF ISendNextData, callVars
<1>2. CASE SendCommand(r)
  <2>1. /\ CmdBox # <<>> /\ CmdBox' = Tail(CmdBox) /\ ICmd' = Head(CmdBox)
        /\ pc' = "cmdSleep" /\ chipVol' = chipVol
    BY <1>2 DEF SendCommand
  <2>2. CmdBox \in Seq(DecoderCmds)
    BY DEF Types, CmdTypes
  <2>3. OnItsWay'
    BY <2>1 DEF OnItsWay
  <2>4. CASE LastVolume(CmdBox, IAttenuation)
    <3>1. \/ LastVolume(CmdBox', IAttenuation)
          \/ ICmd' = Volume(IAttenuation) /\ NoVolume(CmdBox')
      BY <2>1, <2>2, <2>4, VolumeFetched
    <3> QED
      BY <3>1, <2>3, <1>1 DEF VolumeInv, NoVolume, LastVolume
  <2>5. CASE NoVolume(CmdBox) /\ chipVol = IAttenuation
    <3>1. NoVolume(CmdBox') /\ ICmd'.reg # "vol"
      BY <2>1, <2>2, <2>5, VolumeFetched
    <3> QED
      BY <3>1, <2>1, <2>5, <1>1 DEF VolumeInv, NoVolume
  <2> QED
    BY <2>4, <2>5, <1>1 DEF VolumeInv
<1>3. CASE SendData(r) \/ SendZeroes(r) \/ SendNothing(r)
  <2>1. /\ UNCHANGED <<CmdBox, ICmd, chipVol>>
        /\ pc' = r /\ dma' # "cmd"
    BY <1>3 DEF SendData, SendZeroes, SendNothing, Transfer, Rests
  <2>2. ~OnItsWay'
    BY <2>1 DEF OnItsWay
  <2> QED
    BY <1>1, <2>1, <2>2, VolumeKept
<1> QED
  BY <1>2, <1>3 DEF ISendNextData

LEMMA VolumeStep == Types /\ TokenInv /\ VolumeInv /\ [Next]_vars => VolumeInv'
<1> SUFFICES ASSUME Types, TokenInv, VolumeInv, [Next]_vars PROVE VolumeInv'
  OBVIOUS
<1>0. /\ CmdBox \in Seq(DecoderCmds) /\ Len(CmdBox) <= CmdBufSz /\ Len(CmdBox) \in Nat
      /\ CmdBufSz \in Nat
  BY BufferAssumption DEF Types, CmdTypes
<1>t. /\ dma # "off" => pc # "cmdSleep"
      /\ pc = "dma" /\ "DMA_DONE" \in msk => dma = "off"
      /\ pc = "dreq" /\ "DREQ_IRQ" \in msk => dma = "off"
  BY DEF TokenInv, TransferToken, DoneOut, DreqOut, Sleeping
<1> USE DEF threadVars, sendVars, cmdVars, chipVars, callVars
<1>1. CASE Play \/ Stop \/ DreqFalls \/ DreqRises
  BY <1>1, VolumeKept DEF Play, Stop, DreqFalls, DreqRises, OnItsWay
<1>2. CASE SetVolume
  <2>1. /\ IAttenuation' = vols' /\ vols' \in 0..MaxVolumes
        /\ CmdBox' = Posted(CmdBox, <<Volume(vols')>>)
        /\ volLost' = (Len(CmdBox) = CmdBufSz)
    BY <1>2, BoundAssumption DEF SetVolume, Types, CallTypes
  <2>2. CASE Len(CmdBox) = CmdBufSz
    BY <2>1, <2>2 DEF VolumeInv
  <2>3. CASE Len(CmdBox) # CmdBufSz
    <3> DEFINE cmds == <<Volume(vols')>>
    <3>1. Volume(vols') \in DecoderCmds
      BY <2>1 DEF Volume, DecoderCmds
    <3>2. cmds \in Seq(DecoderCmds) /\ cmds # <<>> /\ Len(cmds) = 1
          /\ cmds[Len(cmds)] = Volume(vols')
      BY <3>1
    <3>3. Len(CmdBox) + Len(cmds) <= CmdBufSz
      BY <1>0, <2>3, <3>2
    <3> HIDE DEF cmds
    <3>4. LastVolume(Posted(CmdBox, cmds), vols')
      BY <1>0, <3>2, <3>3, VolumePosted
    <3>5. LastVolume(CmdBox', IAttenuation')
      BY <2>1, <3>4 DEF cmds
    <3> QED
      BY <3>5 DEF VolumeInv, LastVolume
  <2> QED
    BY <2>2, <2>3
<1>3. CASE DmaDone
  <2>1. /\ UNCHANGED <<pc, CmdBox, ICmd, IAttenuation, volLost>>
        /\ dma # "off" /\ dma' = "off"
        /\ chipVol' = IF dma = "cmd" /\ ICmd.reg = "vol" THEN ICmd.val ELSE chipVol
    BY <1>3 DEF DmaDone
  <2>2. ~OnItsWay' /\ (OnItsWay <=> dma = "cmd")
    BY <1>t, <2>1 DEF OnItsWay
  <2>3. ICmd = Volume(IAttenuation) => ICmd.reg = "vol" /\ ICmd.val = IAttenuation
    BY DEF Volume
  <2> QED
    BY <2>1, <2>2, <2>3 DEF VolumeInv, NoVolume, LastVolume
<1>4. CASE DmaSection
  <2>1. CASE "DMA_DONE" \in msk /\ ISendNextData("dreq")
    <3>1. ~OnItsWay
      BY <1>4, <2>1, <1>t DEF DmaSection, OnItsWay
    <3> QED
      BY <2>1, <3>1, VolumeSend
  <2>2. CASE pc = "dma" /\ (Goto("dreq") \/ Goto("dmaSleep"))
    BY <2>2, VolumeKept DEF Goto, OnItsWay
  <2> QED
    BY <1>4, <2>1, <2>2 DEF DmaSection
<1>5. CASE DreqSection
  <2>1. CASE "DREQ_IRQ" \in msk
    <3>1. ~OnItsWay
      BY <1>5, <2>1, <1>t DEF DreqSection, OnItsWay
    <3> QED
      BY <1>5, <2>1, <3>1, VolumeSend DEF DreqSection
  <2>2. CASE "DREQ_IRQ" \notin msk
    BY <1>5, <2>2, VolumeKept DEF DreqSection, Goto, OnItsWay
  <2> QED
    BY <2>1, <2>2
<1>6. CASE CmdStarts
  <2>1. OnItsWay /\ OnItsWay'
    BY <1>6 DEF CmdStarts, OnItsWay
  <2> QED
    BY <1>6, <2>1, VolumeKept DEF CmdStarts
<1>7. CASE Waits \/ Wakes \/ DmaSleepEnds \/ ReadSection \/ NoSection
  BY <1>7, VolumeKept DEF Waits, Wakes, DmaSleepEnds, ReadSection, ReadsNext,
     NoSection, Goto, OnItsWay
<1>8. CASE StopSection \/ ReadFailsOrEnds \/ ReadNothing
  BY <1>8, VolumeKept DEF StopSection, ReadFailsOrEnds, ReadNothing, ReadsNext,
     PrepareToStop, OnItsWay
<1>9. CASE ReadDone \/ ReadFailed \/ Opened \/ NotOpened \/ Fill1Failed
  BY <1>9, VolumeKept DEF ReadDone, ReadFailed, Opened, NotOpened, Fill1Failed, OnItsWay
<1>10. CASE Fill1 \/ Fill2
  BY <1>10, VolumeKept DEF Fill1, Fill2, StartPlaying, OnItsWay
<1>11. CASE PlayNew
  <2> DEFINE cmds == <<Register("reset"), Register("mode"), Register("clockf"),
                       Volume(IAttenuation)>>
  <2>1. /\ CmdBox' = Posted(CmdBox, cmds)
        /\ volLost' = (volLost /\ Len(CmdBox) + 4 > CmdBufSz)
        /\ UNCHANGED <<ICmd, chipVol, IAttenuation, dma>>
        /\ pc = "evt" /\ pc' = "opening"
    BY <1>11 DEF PlayNew
  <2>2. cmds \in Seq(DecoderCmds)
    BY BoundAssumption DEF Register, Volume, DecoderCmds, Types, CallTypes
  <2>3. /\ cmds # <<>> /\ Len(cmds) = 4 /\ cmds[4] = Volume(IAttenuation)
        /\ \A k \in 1..3 : cmds[k].reg # "vol"
    BY DEF Register
  <2>4. OnItsWay' <=> OnItsWay
    BY <2>1 DEF OnItsWay
  <2> HIDE DEF cmds
  <2>5. CASE Len(CmdBox) + 4 <= CmdBufSz
    <3>1. LastVolume(Posted(CmdBox, cmds), IAttenuation)
      BY <1>0, <2>2, <2>3, <2>5, VolumePosted
    <3> QED
      BY <2>1, <3>1 DEF VolumeInv, LastVolume
  <2>6. CASE ~(Len(CmdBox) + 4 <= CmdBufSz)
    <3>1. \A k \in 1..Len(cmds) : Len(CmdBox) + k <= CmdBufSz => cmds[k].reg # "vol"
      BY <1>0, <2>3, <2>6
    <3>2. /\ LastVolume(CmdBox, IAttenuation) => LastVolume(CmdBox', IAttenuation)
          /\ NoVolume(CmdBox) => NoVolume(CmdBox')
      BY <1>0, <2>1, <2>2, <3>1, OthersPosted
    <3>3. volLost => volLost'
      <4>1. Len(CmdBox) + 4 > CmdBufSz
        BY <1>0, <2>6
      <4> QED
        BY <4>1, <2>1, Zenon
    <3> QED
      BY <2>1, <2>4, <3>2, <3>3 DEF VolumeInv, LastVolume, NoVolume
  <2> QED
    BY <2>5, <2>6
<1>12. CASE PlayEnds
  <2> DEFINE cmds == <<Register("reset")>>
  <2>1. /\ CmdBox' = Posted(CmdBox, cmds)
        /\ UNCHANGED <<ICmd, chipVol, IAttenuation, volLost, dma>>
        /\ pc = "evt" /\ pc' = "loop"
    BY <1>12 DEF PlayEnds
  <2>2. cmds \in Seq(DecoderCmds) /\ \A k \in 1..Len(cmds) : cmds[k].reg # "vol"
    BY BoundAssumption DEF Register, DecoderCmds
  <2>3. OnItsWay' <=> OnItsWay
    BY <2>1 DEF OnItsWay
  <2> HIDE DEF cmds
  <2>4. /\ LastVolume(CmdBox, IAttenuation) => LastVolume(CmdBox', IAttenuation)
        /\ NoVolume(CmdBox) => NoVolume(CmdBox')
    BY <1>0, <2>1, <2>2, OthersPosted
  <2> QED
    BY <2>1, <2>3, <2>4 DEF VolumeInv, LastVolume, NoVolume
<1>13. CASE UNCHANGED vars
  BY <1>13, VolumeKept DEF vars, OnItsWay
<1> QED
  BY <1>1, <1>2, <1>3, <1>4, <1>5, <1>6, <1>7, <1>8, <1>9, <1>10, <1>11, <1>12, <1>13
     DEF Next, Callers, Hardware, ITask, FileOps

\* The volume that was asked for last is in the decoder or on its way, unless its
\* command found the mailbox full (AddCmd, IPlayNew).
THEOREM VolumeArrivesHolds == Spec => []VolumeArrives
<1>1. VolumeInv => VolumeArrives
  BY DEF VolumeInv, VolumeArrives, LastVolume, CommandsToSend, OnItsWay
<1> QED
  BY TypesInit, TypesStep, TokenInit, TokenStep, VolumeInit, VolumeStep, <1>1, PTL DEF Spec

-----------------------------------------------------------------------------
(* The order of the chunks.                                                  *)

Sections == {"dma", "dmaSleep", "cmdSleep", "dreq", "evt"}

\* ISendNextData may still be called in this turn of the loop.
MaySend ==
    \/ pc = "dma" /\ "DMA_DONE" \in msk
    \/ /\ "DREQ_IRQ" \in msk
       /\ pc \in {"dma", "dmaSleep", "dreq"} \/ (pc = "cmdSleep" /\ ret = "dreq")

\* The zeroes are over, or not all of them were written.
NotEnding == State = "sndStopped" \/ (State = "sndWritingZeroes" /\ ZeroesCount > 0)

\* A player that completed does not play, nor complete again, until it has
\* opened the next file.
CompletedOnce ==
    /\ "COMPLETED" \in pend => NotEnding /\ ~MaySend /\ pc \notin {"opening", "fill1", "fill2"}
    /\ "COMPLETED" \in msk /\ pc \in Sections =>
           /\ State # "sndPlaying" /\ "COMPLETED" \notin pend
           /\ MaySend => NotEnding
    /\ pc \in {"opening", "fill1", "fill2"} => State # "sndPlaying"

Holds(b, n) == Buf[b].next = n /\ Buf[b].file = IFile.file

\* The buffers hold what follows the chunks that were sent.
InSequence ==
    /\ Buf[PBuf].sz # 0 => Holds(PBuf, sent)
    /\ Buf[Other(PBuf)].sz # 0 =>
           Buf[PBuf].sz # 0 /\ Holds(Other(PBuf), sent + Buf[PBuf].sz)
    /\ IFile.pos = sent + Buf[PBuf].sz + Buf[Other(PBuf)].sz

\* While the file goes on, the other buffer is full, or it will be filled before
\* the one that is sent is empty.
FilledInTime ==
    IFile.open /\ ~AtEof =>
        /\ Buf[PBuf].sz # 0
        /\ \/ Buf[Other(PBuf)].sz = BufChunks
           \/ /\ Buf[Other(PBuf)].sz = 0
              /\ \/ "READ_NEXT" \in pend /\ ~MaySend /\ Buf[PBuf].sz = BufChunks
                 \/ "READ_NEXT" \in msk /\ pc \in Sections /\ (MaySend => Buf[PBuf].sz > 1)
                 \/ pc = "reading"

\* The first buffers of a file.
Opening ==
    /\ pc \in {"fill1", "fill2"} =>
           IFile.open /\ sent = 0 /\ IFile.size >= BufChunks
    /\ pc = "fill1" => IFile.pos = 0
    /\ pc = "fill2" => /\ Buf[1].sz = BufChunks /\ Holds(1, 0)
                       /\ IFile.pos = BufChunks
    /\ pc = "reading" => IFile.open /\ ~AtEof /\ SomeEmpty

\* ISendNextData goes on in the section that called it.
Returns == pc = "cmdSleep" => ret \in {"dreq", "evt"}

OrderInv ==
    /\ CompletedOnce /\ Opening /\ Returns
    /\ sent \in Nat /\ (State = "sndPlaying" => InSequence /\ FilledInTime)

\* A buffer holds more than one chunk (128 of them, VS_DATA_BUF_SZ), and a file that
\* is not empty fills one.
LongEnough == BufChunks > 1 /\ \A n \in FileSizes : n = 0 \/ n >= BufChunks

\* Who calls ISendNextData: the section for the end of a transfer, or that for DREQ.
Called(r) ==
    \/ r = "dreq" /\ pc = "dma" /\ "DMA_DONE" \in msk
    \/ r = "evt" /\ pc = "dreq" /\ "DREQ_IRQ" \in msk

LEMMA SectionsCall ==
    /\ DmaSection =>
           \/ Called("dreq") /\ ISendNextData("dreq")
           \/ pc = "dma" /\ (Goto("dreq") \/ Goto("dmaSleep"))
    /\ DreqSection =>
           \/ Called("evt") /\ ISendNextData("evt")
           \/ pc = "dreq" /\ "DREQ_IRQ" \notin msk /\ Goto("evt")
  BY DEF DmaSection, DreqSection, Called

\* After a call of ISendNextData there is no other one in the same turn.
LEMMA SendsOnce ==
    ASSUME TokenInv, NEW r \in {"dreq", "evt"}, Called(r), ISendNextData(r)
    PROVE  MaySend /\ ~MaySend' /\ pc' \in {"cmdSleep", "dreq", "evt"}
<1>1. /\ pc' = r \/ (pc' = "cmdSleep" /\ ret' = r)
      /\ msk' = msk
  BY DEF ISendNextData, SendCommand, SendData, SendZeroes, SendNothing
<1>2. r = "dreq" => "DREQ_IRQ" \notin msk
  BY DEF Called, TokenInv, TransferToken, DoneOut, DreqOut
<1> QED
  BY <1>1, <1>2 DEF MaySend, Called

LEMMA OnceInit == Init => CompletedOnce
  BY DEF Init, CompletedOnce, MaySend, Sections

LEMMA OnceSend ==
    ASSUME TokenInv, CompletedOnce, NEW r \in {"dreq", "evt"}, Called(r), ISendNextData(r)
    PROVE  CompletedOnce'
<1>1. MaySend /\ ~MaySend' /\ pc' \in {"cmdSleep", "dreq", "evt"} /\ pc \in {"dma", "dreq"}
  BY SendsOnce DEF Called
<1>2. "COMPLETED" \notin pend /\ msk' = msk
  BY <1>1 DEF CompletedOnce, ISendNextData
<1>3. CASE SendZeroes(r)
  <2>1. CASE ZeroesCount = 0
    <3>1. State = "sndWritingZeroes" /\ State' = "sndStopped"
      BY <1>3, <2>1 DEF SendZeroes
    <3>2. "COMPLETED" \notin msk
      BY <1>1, <2>1, <3>1 DEF CompletedOnce, NotEnding, Sections
    <3> QED
      BY <1>1, <1>2, <3>1, <3>2 DEF CompletedOnce, NotEnding
  <2>2. CASE ZeroesCount # 0
    <3>1. UNCHANGED <<pend, State>>
      BY <1>3, <2>2 DEF SendZeroes
    <3> QED
      BY <1>1, <1>2, <3>1 DEF CompletedOnce, Sections
  <2> QED
    BY <2>1, <2>2
<1>4. CASE SendCommand(r) \/ SendData(r) \/ SendNothing(r)
  <2>1. State' = State /\ "COMPLETED" \notin pend'
    BY <1>2, <1>4 DEF SendCommand, SendData, SendNothing, Rests, Transfer, EnableIrq
  <2> QED
    BY <1>1, <1>2, <2>1 DEF CompletedOnce, Sections
<1> QED
  BY <1>3, <1>4 DEF ISendNextData

\* What StartTransmissionIfNotBusy, Signal and EnableIrq signal.
LEMMA Signals ==
    ASSUME NEW evts,
           StartTransmissionIfNotBusy(evts) \/ Signal(evts) \/ (EnableIrq /\ evts = {})
    PROVE  pend \subseteq pend' /\ pend' \subseteq pend \cup evts \cup {"DREQ_IRQ"}
  BY DEF StartTransmissionIfNotBusy, Signal, EnableIrq

\* A step by which the thread does not come nearer to a send.
LEMMA OnceKept ==
    ASSUME CompletedOnce, UNCHANGED <<msk, State, ZeroesCount>>,
           "COMPLETED" \in pend' => "COMPLETED" \in pend,
           MaySend' => MaySend,
           pc' \in Sections => pc \in Sections,
           pc' \in {"opening", "fill1", "fill2"} => pc \in {"opening", "fill1", "fill2"}
    PROVE  CompletedOnce'
  BY DEF CompletedOnce, NotEnding

LEMMA OnceStep == Types /\ TokenInv /\ CompletedOnce /\ [Next]_vars => CompletedOnce'
<1> SUFFICES ASSUME Types, TokenInv, CompletedOnce, [Next]_vars PROVE CompletedOnce'
  OBVIOUS
<1> USE DEF threadVars, sendVars
<1>1. CASE Callers \/ Hardware
  <2>1. /\ UNCHANGED <<pc, ret, msk, State, ZeroesCount>>
        /\ "COMPLETED" \in pend' => "COMPLETED" \in pend
    BY <1>1, Signals DEF Callers, Play, Stop, SetVolume, Hardware, DmaDone, DreqFalls,
       DreqRises, evtVars
  <2>2. MaySend' <=> MaySend
    BY <2>1 DEF MaySend
  <2> QED
    BY <2>1, <2>2, OnceKept
<1>2. CASE Wakes
  <2>1. /\ msk' = pend /\ pend' = {} /\ pc' = "dma" /\ UNCHANGED <<State, ZeroesCount>>
    BY <1>2 DEF Wakes
  <2> QED
    BY <2>1 DEF CompletedOnce, NotEnding
<1>3. CASE Waits \/ NoSection \/ ReadSection
  <2>1. /\ UNCHANGED <<pend, msk, State, ZeroesCount>>
        /\ pc' \in {"wait", "loop", "reading"}
    BY <1>3 DEF Waits, NoSection, ReadSection, Goto, evtVars
  <2>2. ~MaySend'
    BY <2>1 DEF MaySend
  <2> QED
    BY <2>1, <2>2, OnceKept DEF Sections
<1>4. CASE DmaSection \/ DreqSection
  <2>1. ASSUME pc = "dma" /\ (Goto("dreq") \/ Goto("dmaSleep")) PROVE CompletedOnce'
    <3>1. MaySend' => MaySend
      BY <2>1 DEF Goto, MaySend
    <3> QED
      BY <2>1, <3>1, OnceKept DEF Goto, Sections, evtVars
  <2>2. ASSUME pc = "dreq" /\ Goto("evt") PROVE CompletedOnce'
    <3>1. ~MaySend'
      BY <2>2 DEF Goto, MaySend
    <3> QED
      BY <2>2, <3>1, OnceKept DEF Goto, Sections, evtVars
  <2> QED
    BY <1>4, <2>1, <2>2, OnceSend, SectionsCall
<1>5. CASE DmaSleepEnds
  <2>1. /\ pc = "dmaSleep" /\ pc' = "dreq" /\ UNCHANGED <<msk, State, ZeroesCount>>
        /\ "COMPLETED" \in pend' => "COMPLETED" \in pend
    BY <1>5 DEF DmaSleepEnds, EnableIrq
  <2>2. MaySend' => MaySend
    BY <2>1 DEF MaySend
  <2> QED
    BY <2>1, <2>2, OnceKept DEF Sections
<1>6. CASE CmdStarts
  <2>1. /\ pc = "cmdSleep" /\ pc' = ret /\ UNCHANGED <<ret, msk, pend, State, ZeroesCount>>
        /\ ret \in {"wait", "dreq", "evt"}
    BY <1>6 DEF CmdStarts, evtVars, TokenInv, TokenTypes
  <2>2. MaySend' => MaySend
    BY <2>1 DEF MaySend
  <2> QED
    BY <2>1, <2>2, OnceKept DEF Sections
<1>7. CASE PlayNew \/ PlayEnds
  <2>1. /\ UNCHANGED <<msk, State>> /\ pc = "evt" /\ pc' \in {"opening", "loop"}
        /\ "COMPLETED" \in msk /\ ("COMPLETED" \in pend' => "COMPLETED" \in pend)
    BY <1>7, Signals DEF PlayNew, PlayEnds
  <2>2. ~MaySend'
    BY <2>1 DEF MaySend
  <2> QED
    BY <2>1, <2>2 DEF CompletedOnce, Sections
<1>8. CASE StopSection \/ ReadFailsOrEnds \/ ReadFailed
  <2>1. /\ State' = "sndWritingZeroes" /\ ZeroesCount' = ZeroChunks /\ pc' = "loop"
    BY <1>8 DEF StopSection, ReadFailsOrEnds, PrepareToStop, ReadFailed
  <2>2. ZeroesCount' > 0
    BY <2>1, BufferAssumption
  <2>3. ~MaySend'
    BY <2>1 DEF MaySend
  <2> QED
    BY <2>1, <2>2, <2>3 DEF CompletedOnce, NotEnding, Sections
<1>9. CASE ReadNothing \/ ReadDone \/ NotOpened \/ Fill1Failed
  <2>1. /\ UNCHANGED <<msk, State, ZeroesCount>> /\ pc' = "loop"
        /\ "COMPLETED" \in pend' => "COMPLETED" \in pend
    BY <1>9, Signals DEF ReadNothing, ReadDone, NotOpened, Fill1Failed
  <2>2. ~MaySend'
    BY <2>1 DEF MaySend
  <2> QED
    BY <2>1, <2>2, OnceKept DEF Sections
<1>10. CASE Opened \/ (Fill1 /\ pc' = "fill2")
  <2>1. /\ UNCHANGED <<pend, msk, State, ZeroesCount>>
        /\ pc \in {"opening", "fill1"} /\ pc' \in {"fill1", "fill2"}
    BY <1>10 DEF Opened, Fill1, StartPlaying, evtVars
  <2>2. ~MaySend'
    BY <2>1 DEF MaySend
  <2> QED
    BY <2>1, <2>2, OnceKept DEF Sections
<1>11. CASE (Fill1 \/ Fill2) /\ pc' # "fill2"
  <2>1. /\ pc \in {"fill1", "fill2"} /\ pc' = "loop"
        /\ "COMPLETED" \in pend' => "COMPLETED" \in pend
    BY <1>11, Signals DEF Fill1, Fill2, StartPlaying
  <2> QED
    BY <2>1 DEF CompletedOnce, Sections
<1>12. CASE UNCHANGED vars
  BY <1>12, OnceKept DEF vars, evtVars, MaySend
<1>13. Fill2 => pc' # "fill2"
  BY DEF Fill2, StartPlaying
<1> QED
  BY <1>1, <1>2, <1>3, <1>4, <1>5, <1>6, <1>7, <1>8, <1>9, <1>10, <1>11, <1>12, <1>13
     DEF Next, ITask, FileOps

-----------------------------------------------------------------------------
(* The files and the buffers.                                                *)

LEMMA OpeningInit == Init => Opening /\ sent \in Nat
  BY DEF Init, Opening

\* A step that leaves the file and the buffers alone and reads nothing.
LEMMA OpeningKept ==
    ASSUME Opening, UNCHANGED <<IFile, Buf, sent>>,
           pc' = pc \/ pc' \notin {"fill1", "fill2", "reading"}
    PROVE  Opening'
  BY DEF Opening, Holds, AtEof, SomeEmpty

LEMMA OpeningStep ==
    ASSUME Types, Opening, sent \in Nat, LongEnough, [Next]_vars
    PROVE  Opening' /\ sent' \in Nat
<1> USE DEF threadVars, fileVars
<1>0. ret \notin {"fill1", "fill2", "reading"}
  BY DEF Types, ThreadTypes
<1>1. CASE Callers \/ Hardware
  BY <1>1, OpeningKept DEF Callers, Play, Stop, SetVolume, Hardware, DmaDone, DreqFalls,
     DreqRises
<1>2. ASSUME NEW r \in {"dreq", "evt"}, ISendNextData(r)
      PROVE  Opening' /\ sent' \in Nat
  <2>1. pc' \notin {"fill1", "fill2", "reading"}
    BY <1>2 DEF ISendNextData, SendCommand, SendData, SendZeroes, SendNothing
  <2>2. sent' \in Nat
    BY <1>2 DEF ISendNextData, SendCommand, SendData, SendZeroes, SendNothing
  <2> QED
    BY <2>1, <2>2 DEF Opening
<1>3. CASE Waits \/ Wakes \/ DmaSleepEnds \/ CmdStarts \/ NoSection
  BY <1>0, <1>3, OpeningKept DEF Waits, Wakes, DmaSleepEnds, CmdStarts, NoSection, Goto
<1>4. CASE DmaSection \/ DreqSection
  <2>1. CASE Goto("dreq") \/ Goto("dmaSleep") \/ Goto("evt")
    BY <2>1, OpeningKept DEF Goto
  <2> QED
    BY <1>2, <1>4, <2>1 DEF DmaSection, DreqSection
<1>5. CASE PlayNew \/ PlayEnds \/ StopSection \/ ReadFailsOrEnds \/ ReadNothing
           \/ ReadDone \/ ReadFailed \/ NotOpened \/ Fill1Failed \/ Fill2
  <2>1. pc' \notin {"fill1", "fill2", "reading"} /\ sent' = sent
    BY <1>5 DEF PlayNew, PlayEnds, StopSection, ReadFailsOrEnds, ReadNothing, ReadDone,
       ReadFailed, NotOpened, Fill1Failed, Fill2, PrepareToStop, StartPlaying
  <2> QED
    BY <2>1 DEF Opening
<1>6. CASE ReadSection
  BY <1>6 DEF ReadSection, Goto, Opening, AtEof, SomeEmpty
<1>7. CASE Opened
  <2>1. PICK n \in FileSizes \ {0} :
            IFile' = [IFile EXCEPT !.size = n, !.pos = 0, !.open = TRUE]
    BY <1>7 DEF Opened
  <2>2. IFile'.size = n /\ IFile'.pos = 0 /\ IFile'.open /\ n >= BufChunks
    BY <2>1 DEF Types, FileTypes, LongEnough
  <2> QED
    BY <1>7, <2>2 DEF Opened, Opening
<1>8. CASE Fill1
  <2>1. PICK n \in 0..BufChunks : /\ ReadInto(1, n)
                                  /\ IFile' = [IFile EXCEPT !.pos = @ + n]
    BY <1>8 DEF Fill1, Filled
  <2>2. /\ Buf'[1] = [file |-> IFile.file, next |-> IFile.pos, sz |-> n]
        /\ IFile'.file = IFile.file /\ IFile'.size = IFile.size /\ IFile'.open = IFile.open
        /\ IFile'.pos = IFile.pos + n
    BY <2>1 DEF ReadInto, Types, FileTypes
  <2>3. pc' = "loop" \/ (pc' = "fill2" /\ n = BufChunks)
    BY <1>8, <2>2 DEF Fill1, StartPlaying
  <2>4. IFile.open /\ sent = 0 /\ IFile.size >= BufChunks /\ IFile.pos = 0 /\ sent' = sent
    BY <1>8 DEF Fill1, Opening
  <2>5. CASE pc' = "fill2"
    BY <2>2, <2>3, <2>4, <2>5, BufferAssumption DEF Opening, Holds
  <2> QED
    BY <2>3, <2>4, <2>5 DEF Opening
<1>9. CASE UNCHANGED vars
  BY <1>9, OpeningKept DEF vars
<1> QED
  BY <1>1, <1>3, <1>4, <1>5, <1>6, <1>7, <1>8, <1>9 DEF Next, ITask, FileOps

LEMMA ReturnsStep == Returns /\ [Next]_vars => Returns'
<1> SUFFICES ASSUME Returns, [Next]_vars PROVE Returns'
  OBVIOUS
<1> USE DEF threadVars
<1>1. CASE Callers \/ Hardware \/ UNCHANGED vars
  BY <1>1 DEF Callers, Play, Stop, SetVolume, Hardware, DmaDone, DreqFalls, DreqRises,
     Returns, vars
<1>2. ASSUME NEW r \in {"dreq", "evt"}, ISendNextData(r) PROVE Returns'
  BY <1>2 DEF ISendNextData, SendCommand, SendData, SendZeroes, SendNothing, Returns
<1>3. CASE DmaSection \/ DreqSection
  BY <1>2, <1>3 DEF DmaSection, DreqSection, Goto, Returns
<1>4. ASSUME Next, ~(Callers \/ Hardware), ~(DmaSection \/ DreqSection) PROVE Returns'
  <2>1. CASE FileOps
    BY <2>1 DEF FileOps, ReadDone, ReadFailed, Opened, NotOpened, Fill1, Fill1Failed,
       Fill2, StartPlaying, Returns
  <2>2. CASE CmdStarts
    BY <2>2 DEF CmdStarts, Returns
  <2>3. CASE ITask /\ ~CmdStarts
    BY <2>3, <1>4 DEF ITask, Waits, Wakes, DmaSleepEnds, PlayNew, PlayEnds,
       StopSection, PrepareToStop, ReadSection, ReadFailsOrEnds, ReadNothing, NoSection, Goto,
       Returns
  <2> QED
    BY <1>4, <2>1, <2>2, <2>3 DEF Next
<1> QED
  BY <1>1, <1>3, <1>4

\* What InSequence and FilledInTime are about.
DataOK == State = "sndPlaying" => InSequence /\ FilledInTime

\* A step that leaves the file and the buffers alone, in which no request to read is
\* lost and no call of ISendNextData comes nearer.
LEMMA DataKept ==
    ASSUME DataOK, UNCHANGED <<IFile, Buf, PBuf, sent>>,
           State' = "sndPlaying" => State = "sndPlaying",
           MaySend' => MaySend,
           "READ_NEXT" \in pend => "READ_NEXT" \in pend',
           "READ_NEXT" \in msk /\ pc \in Sections =>
               "READ_NEXT" \in msk' /\ pc' \in Sections,
           pc = "reading" => pc' = "reading"
    PROVE  DataOK'
<1> SUFFICES ASSUME State' = "sndPlaying" PROVE InSequence' /\ FilledInTime'
  BY DEF DataOK
<1>1. InSequence /\ FilledInTime
  BY DEF DataOK
<1>2. InSequence'
  BY <1>1 DEF InSequence, Holds, Other
<1>3. FilledInTime'
  BY <1>1 DEF FilledInTime, AtEof, Other
<1> QED
  BY <1>2, <1>3

\* ISendNextData sends the next chunk and gives way to a buffer that is full.
LEMMA DataSend ==
    ASSUME FileTypes, sent \in Nat, LongEnough, TokenInv, DataOK,
           NEW r \in {"dreq", "evt"}, Called(r), ISendNextData(r)
    PROVE  DataOK'
<1>1. MaySend /\ ~MaySend' /\ pc' \in Sections /\ pc \in Sections /\ msk' = msk
  BY SendsOnce DEF Called, Sections, ISendNextData
<1>2. CASE SendCommand(r) \/ SendZeroes(r) \/ SendNothing(r)
  <2>1. /\ UNCHANGED <<IFile, Buf, PBuf, sent>>
        /\ State' = "sndPlaying" => State = "sndPlaying"
        /\ pend \subseteq pend'
    BY <1>2 DEF SendCommand, SendZeroes, SendNothing, Transfer, Rests, EnableIrq, fileVars
  <2> QED
    BY <1>1, <2>1, DataKept DEF Sections
<1>3. CASE SendData(r)
  <2> DEFINE c == PBuf
             o == Other(PBuf)
             left == IF Buf[c].sz = 0 THEN 0 ELSE Buf[c].sz - 1
  <2>1. /\ State = "sndPlaying" /\ IFile' = IFile
        /\ IF Buf[c].sz # 0
           THEN /\ Buf' = [Buf EXCEPT ![c].sz = left, ![c].next = @ + 1]
                /\ sent' = sent + 1
           ELSE Buf' = Buf /\ sent' = sent
        /\ PBuf' = IF left = 0 THEN o ELSE c
        /\ pend' = IF left = 0 THEN pend \cup {"READ_NEXT"} ELSE pend
    BY <1>3 DEF SendData, Rests
  <2>2. InSequence /\ FilledInTime
    BY <2>1 DEF DataOK
  <2>3. /\ c \in 1..2 /\ o \in 1..2 /\ c # o /\ Other(o) = c
        /\ Buf \in [1..2 -> [file : 0..MaxPlays, next : Nat, sz : 0..BufChunks]]
        /\ BufChunks \in Nat /\ BufChunks > 1
    BY BufferAssumption DEF FileTypes, Other, LongEnough
  <2>4. /\ Buf[c].sz # 0 => Buf[c].next = sent /\ Buf[c].file = IFile.file
        /\ Buf[o].sz # 0 =>
               Buf[c].sz # 0 /\ Buf[o].next = sent + Buf[c].sz /\ Buf[o].file = IFile.file
        /\ IFile.pos = sent + Buf[c].sz + Buf[o].sz
    BY <2>2 DEF InSequence, Holds
  <2>5. IFile.open /\ ~AtEof =>
            /\ Buf[c].sz # 0
            /\ Buf[o].sz # BufChunks => Buf[o].sz = 0 /\ Buf[c].sz > 1
    BY <1>1, <2>2 DEF FilledInTime, Sections
  <2> HIDE DEF c, o
  <2>6. CASE Buf[c].sz = 0
    <3>1. Buf' = Buf /\ sent' = sent /\ PBuf' = o /\ Buf[o].sz = 0
      BY <2>1, <2>4, <2>6
    <3>2. InSequence'
      BY <3>1, <2>1, <2>3, <2>4, <2>6 DEF InSequence, Holds
    <3>3. FilledInTime'
      BY <3>1, <2>1, <2>5, <2>6 DEF FilledInTime, AtEof
    <3> QED
      BY <3>2, <3>3 DEF DataOK
  <2>7. CASE Buf[c].sz > 1
    <3>1. /\ left = Buf[c].sz - 1 /\ left \in Nat \ {0}
          /\ Buf'[c].sz = left /\ Buf'[c].next = Buf[c].next + 1 /\ Buf'[c].file = Buf[c].file
          /\ Buf'[o] = Buf[o] /\ PBuf' = c /\ Other(PBuf') = o
          /\ sent' = sent + 1 /\ IFile' = IFile /\ pend' = pend
      BY <2>1, <2>3, <2>7 DEF c, o
    <3>2. Buf[c].sz \in Nat /\ Buf[o].sz \in Nat
      BY <2>3
    <3> HIDE DEF left
    <3>3. InSequence'
      BY <3>1, <3>2, <2>4, <2>7 DEF InSequence, Holds
    <3>4. FilledInTime'
      <4>1. IFile.open /\ ~AtEof /\ Buf[o].sz # BufChunks => Buf[o].sz = 0 /\ "READ_NEXT" \in msk
        BY <1>1, <2>2, <2>5 DEF FilledInTime, Sections, o
      <4>2. AtEof' <=> AtEof
        BY <3>1 DEF AtEof
      <4> QED
        BY <4>1, <4>2, <3>1, <1>1 DEF FilledInTime
    <3> QED
      BY <3>3, <3>4 DEF DataOK
  <2>8. CASE Buf[c].sz = 1
    <3>1. /\ left = 0
          /\ Buf'[c].sz = 0 /\ Buf'[o] = Buf[o] /\ PBuf' = o /\ Other(PBuf') = c
          /\ sent' = sent + 1 /\ IFile' = IFile /\ "READ_NEXT" \in pend'
      BY <2>1, <2>3, <2>8 DEF c, o
    <3>2. Buf[c].sz \in Nat /\ Buf[o].sz \in Nat
      BY <2>3
    <3> HIDE DEF left
    <3>3. InSequence'
      BY <3>1, <3>2, <2>4, <2>8 DEF InSequence, Holds
    <3>4. FilledInTime'
      <4>1. IFile.open /\ ~AtEof => Buf[o].sz = BufChunks
        BY <2>5, <2>8
      <4>2. AtEof' <=> AtEof
        BY <3>1 DEF AtEof
      <4> QED
        BY <4>1, <4>2, <3>1, <2>3, <1>1 DEF FilledInTime
    <3> QED
      BY <3>3, <3>4 DEF DataOK
  <2>9. Buf[c].sz \in Nat
    BY <2>3
  <2> QED
    BY <2>6, <2>7, <2>8, <2>9
<1> QED
  BY <1>2, <1>3 DEF ISendNextData

\* A read fills the buffer that is not sent, with what follows the other one.
LEMMA DataRead ==
    ASSUME FileTypes, sent \in Nat, LongEnough, Opening, DataOK, ReadDone
    PROVE  DataOK'
<1> SUFFICES ASSUME State' = "sndPlaying" PROVE InSequence' /\ FilledInTime'
  BY DEF DataOK
<1> DEFINE c == PBuf
           o == Other(PBuf)
<1>1. /\ State = "sndPlaying" /\ pc = "reading" /\ UNCHANGED <<PBuf, sent>>
      /\ Filled(ToFill)
  BY DEF ReadDone, sendVars
<1>2. InSequence /\ FilledInTime
  BY <1>1 DEF DataOK
<1>3. IFile.open /\ ~AtEof /\ SomeEmpty
  BY <1>1 DEF Opening
<1>4. /\ c \in 1..2 /\ o \in 1..2 /\ c # o /\ {c, o} = 1..2
      /\ Buf \in [1..2 -> [file : 0..MaxPlays, next : Nat, sz : 0..BufChunks]]
      /\ IFile \in [file : 0..MaxPlays, size : Nat, pos : Nat, open : BOOLEAN]
      /\ BufChunks \in Nat /\ BufChunks > 1
  BY BufferAssumption DEF FileTypes, Other, LongEnough
<1>5. /\ Buf[c].sz # 0 /\ Buf[c].next = sent /\ Buf[c].file = IFile.file
      /\ IFile.pos = sent + Buf[c].sz + Buf[o].sz
  BY <1>2, <1>3 DEF InSequence, FilledInTime, Holds
<1> HIDE DEF c, o
<1>6. Buf[o].sz = 0 /\ ToFill = o
  <2>1. Buf[o].sz = 0
    BY <1>3, <1>4, <1>5 DEF SomeEmpty
  <2> QED
    BY <2>1, <1>4, <1>5 DEF ToFill
<1>7. PICK n \in 0..BufChunks :
          /\ n = BufChunks \/ IFile.pos + n = IFile.size
          /\ ReadInto(o, n)
          /\ IFile' = [IFile EXCEPT !.pos = @ + n]
  BY <1>1, <1>6 DEF Filled
<1>8. /\ Buf'[o].file = IFile.file /\ Buf'[o].next = IFile.pos /\ Buf'[o].sz = n
      /\ Buf'[c] = Buf[c]
      /\ IFile'.pos = IFile.pos + n /\ IFile'.file = IFile.file /\ IFile'.size = IFile.size
      /\ PBuf' = c /\ Other(PBuf') = o /\ sent' = sent
  BY <1>1, <1>4, <1>7 DEF ReadInto, c, o
<1>9. Buf[c].sz \in Nat /\ n \in Nat
  BY <1>4
<1>10. InSequence'
  BY <1>5, <1>6, <1>8, <1>9 DEF InSequence, Holds
<1>11. FilledInTime'
  BY <1>4, <1>5, <1>7, <1>8 DEF FilledInTime, AtEof
<1> QED
  BY <1>10, <1>11

\* Playing begins with both buffers full, or with the whole file in them.
LEMMA DataStart ==
    ASSUME FileTypes, LongEnough, Opening, Fill2
    PROVE  DataOK'
<1> SUFFICES InSequence' /\ FilledInTime'
  BY DEF DataOK
<1>1. /\ sent = 0 /\ IFile.open /\ Buf[1].sz = BufChunks /\ Buf[1].next = 0
      /\ Buf[1].file = IFile.file /\ IFile.pos = BufChunks
  BY DEF Fill2, Opening, Holds
<1>2. PBuf' = 1 /\ Other(PBuf') = 2 /\ sent' = sent
  BY DEF Fill2, StartPlaying, Other
<1>3. /\ Buf \in [1..2 -> [file : 0..MaxPlays, next : Nat, sz : 0..BufChunks]]
      /\ IFile \in [file : 0..MaxPlays, size : Nat, pos : Nat, open : BOOLEAN]
      /\ BufChunks \in Nat /\ BufChunks > 1
  BY BufferAssumption DEF FileTypes, LongEnough
<1>4. PICK n \in 0..BufChunks :
          /\ ReadInto(2, n) /\ IFile'.pos = IFile.pos + n
          /\ IFile'.file = IFile.file /\ IFile'.size = IFile.size
          /\ n = BufChunks \/ IFile.pos + n = IFile.size \/ ~IFile'.open
  <2>1. CASE Filled(2)
    <3>1. PICK n \in 0..BufChunks :
              /\ n = BufChunks \/ IFile.pos + n = IFile.size
              /\ ReadInto(2, n) /\ IFile' = [IFile EXCEPT !.pos = @ + n]
      BY <2>1 DEF Filled
    <3> QED
      BY <3>1, <1>3
  <2>2. CASE NotFilled(2)
    <3>1. PICK n \in 0..(BufChunks - 1) :
              ReadInto(2, n) /\ IFile' = [IFile EXCEPT !.pos = @ + n, !.open = FALSE]
      BY <2>2 DEF NotFilled
    <3>2. n \in 0..BufChunks
      BY <1>3
    <3> QED
      BY <3>1, <3>2, <1>3
  <2> QED
    BY <2>1, <2>2 DEF Fill2
<1>5. /\ Buf'[1] = Buf[1] /\ Buf'[2].file = IFile.file /\ Buf'[2].next = IFile.pos
      /\ Buf'[2].sz = n /\ n \in Nat
  BY <1>3, <1>4 DEF ReadInto
<1>6. InSequence'
  BY <1>1, <1>2, <1>3, <1>4, <1>5 DEF InSequence, Holds
<1>7. FilledInTime'
  BY <1>1, <1>2, <1>3, <1>4, <1>5 DEF FilledInTime, AtEof
<1> QED
  BY <1>6, <1>7

LEMMA DataStep ==
    ASSUME Types, sent \in Nat, LongEnough, TokenInv, CompletedOnce, Opening, Returns,
           DataOK, [Next]_vars
    PROVE  DataOK'
<1>0. FileTypes
  BY DEF Types
<1> USE DEF threadVars, sendVars, fileVars
<1>1. CASE Callers \/ Hardware
  <2>1. /\ UNCHANGED <<pc, ret, msk, State, IFile, Buf, PBuf, sent>>
        /\ pend \subseteq pend'
    BY <1>1, Signals DEF Callers, Play, Stop, SetVolume, Hardware, DmaDone, DreqFalls,
       DreqRises, evtVars
  <2>2. MaySend' <=> MaySend
    BY <2>1 DEF MaySend
  <2> QED
    BY <2>1, <2>2, DataKept
<1>2. CASE Wakes
  <2>1. /\ msk' = pend /\ pc' = "dma" /\ pc \in {"loop", "wait"}
        /\ UNCHANGED <<State, IFile, Buf, PBuf, sent>>
    BY <1>2 DEF Wakes
  <2>2. ASSUME State = "sndPlaying" PROVE InSequence' /\ FilledInTime'
    <3>1. InSequence'
      BY <2>1, <2>2 DEF DataOK, InSequence, Holds, Other
    <3>2. FilledInTime'
      BY <2>1, <2>2 DEF DataOK, FilledInTime, AtEof, Other, Sections, LongEnough
    <3> QED
      BY <3>1, <3>2
  <2> QED
    BY <2>1, <2>2 DEF DataOK
<1>3. CASE Waits \/ Opened
  <2>1. State' # "sndPlaying" \/ Waits
    BY <1>3 DEF CompletedOnce, Opened
  <2>2. CASE Waits
    <3>1. ~MaySend' /\ pc = "loop"
      BY <2>2 DEF Waits, Goto, MaySend
    <3> QED
      BY <2>2, <3>1, DataKept DEF Waits, Goto, Sections, evtVars
  <2> QED
    BY <2>1, <2>2 DEF DataOK
<1>4. CASE DmaSection \/ DreqSection
  <2>1. ASSUME pc = "dma" /\ (Goto("dreq") \/ Goto("dmaSleep")) PROVE DataOK'
    <3>1. MaySend' => MaySend
      BY <2>1 DEF Goto, MaySend
    <3> QED
      BY <2>1, <3>1, DataKept DEF Goto, Sections, evtVars
  <2>2. ASSUME pc = "dreq" /\ Goto("evt") PROVE DataOK'
    <3>1. ~MaySend'
      BY <2>2 DEF Goto, MaySend
    <3> QED
      BY <2>2, <3>1, DataKept DEF Goto, Sections, evtVars
  <2> QED
    BY <1>0, <1>4, <2>1, <2>2, DataSend, SectionsCall
<1>5. CASE DmaSleepEnds
  <2>1. /\ pc = "dmaSleep" /\ pc' = "dreq" /\ pend \subseteq pend'
        /\ UNCHANGED <<msk, State, IFile, Buf, PBuf, sent>>
    BY <1>5 DEF DmaSleepEnds, EnableIrq
  <2>2. MaySend' => MaySend
    BY <2>1 DEF MaySend
  <2> QED
    BY <2>1, <2>2, DataKept DEF Sections
<1>6. CASE CmdStarts
  <2>1. /\ pc = "cmdSleep" /\ pc' = ret
        /\ UNCHANGED <<ret, msk, pend, State, IFile, Buf, PBuf, sent>>
        /\ ret \in {"wait", "dreq", "evt"}
    BY <1>6 DEF CmdStarts, evtVars, TokenInv, TokenTypes
  <2>2. MaySend' => MaySend
    BY <2>1 DEF MaySend
  <2>3. ret \in {"dreq", "evt"}
    BY <2>1 DEF Returns
  <2> QED
    BY <2>1, <2>2, <2>3, DataKept DEF Sections
<1>7. CASE PlayNew \/ PlayEnds
  <2>1. State' # "sndPlaying"
    BY <1>7 DEF PlayNew, PlayEnds, CompletedOnce, Sections
  <2> QED
    BY <2>1 DEF DataOK
<1>8. CASE StopSection \/ ReadFailsOrEnds \/ ReadFailed
  <2>1. State' = "sndWritingZeroes"
    BY <1>8 DEF StopSection, ReadFailsOrEnds, PrepareToStop, ReadFailed
  <2> QED
    BY <2>1 DEF DataOK
<1>9. CASE NoSection \/ ReadSection
  <2>1. /\ pc = "evt" /\ UNCHANGED <<pend, msk, State, IFile, Buf, PBuf, sent>>
        /\ (pc' = "reading" \/ (pc' = "loop" /\ "READ_NEXT" \notin msk))
    <3>1. CASE NoSection
      BY <3>1 DEF NoSection, Goto, evtVars
    <3>2. CASE ReadSection
      BY <3>2 DEF ReadSection, ReadsNext, Goto, evtVars
    <3> QED
      BY <1>9, <3>1, <3>2
  <2>2. ~MaySend'
    BY <2>1 DEF MaySend
  <2>3. ASSUME State = "sndPlaying" PROVE InSequence' /\ FilledInTime'
    <3>1. InSequence'
      BY <2>1, <2>3 DEF DataOK, InSequence, Holds, Other
    <3>2. FilledInTime'
      BY <2>1, <2>2, <2>3 DEF DataOK, FilledInTime, AtEof, Other
    <3> QED
      BY <3>1, <3>2
  <2> QED
    BY <2>1, <2>3 DEF DataOK
<1>10. CASE ReadNothing
  <2>1. /\ UNCHANGED <<State, IFile, Buf, PBuf, sent>> /\ pc' = "loop"
        /\ AtEof \/ ~SomeEmpty
    BY <1>10 DEF ReadNothing
  <2>2. ASSUME State = "sndPlaying" PROVE InSequence' /\ FilledInTime'
    <3>1. InSequence'
      BY <2>1, <2>2 DEF DataOK, InSequence, Holds, Other
    <3>2. Other(PBuf) \in 1..2
      BY <1>0 DEF FileTypes, Other
    <3>3. FilledInTime'
      BY <2>1, <2>2, <3>2 DEF DataOK, FilledInTime, AtEof, Other, SomeEmpty
    <3> QED
      BY <3>1, <3>3
  <2> QED
    BY <2>1, <2>2 DEF DataOK
<1>11. CASE NotOpened \/ Fill1Failed
  <2>1. State' # "sndPlaying"
    BY <1>11 DEF NotOpened, Fill1Failed, CompletedOnce
  <2> QED
    BY <2>1 DEF DataOK
<1>12. CASE Fill1
  <2>1. PICK n \in 0..BufChunks : /\ n = BufChunks \/ IFile.pos + n = IFile.size
                                  /\ ReadInto(1, n)
    BY <1>12 DEF Fill1, Filled
  <2>2. Buf'[1].sz = n
    BY <1>0, <2>1 DEF ReadInto, FileTypes
  <2>3. IFile.pos = 0 /\ IFile.size >= BufChunks /\ State # "sndPlaying"
    BY <1>12 DEF Fill1, Opening, CompletedOnce
  <2>4. n = BufChunks
    BY <2>1, <2>3, BufferAssumption
  <2>5. State' # "sndPlaying"
    BY <1>12, <2>2, <2>3, <2>4 DEF Fill1
  <2> QED
    BY <2>5 DEF DataOK
<1>13. CASE UNCHANGED vars
  BY <1>13, DataKept DEF vars, evtVars, MaySend
<1> QED
  BY <1>0, <1>1, <1>2, <1>3, <1>4, <1>5, <1>6, <1>7, <1>8, <1>9, <1>10, <1>11, <1>12, <1>13,
     DataRead, DataStart DEF Next, ITask, FileOps

\* The chunks of a file leave in their order (ISendNextData, ITask, IPlayNew).
THEOREM ChunksInOrderHolds ==
    ASSUME LongEnough
    PROVE  Spec => ChunksInOrder
<1> DEFINE Inv == Types /\ TokenInv /\ OrderInv
<1>1. Init => Inv
  <2>1. Init => Returns /\ (State = "sndPlaying" => InSequence /\ FilledInTime)
    BY DEF Init, Returns
  <2> QED
    BY <2>1, TypesInit, TokenInit, OnceInit, OpeningInit DEF OrderInv
<1>2. Inv /\ [Next]_vars => Inv'
  <2> SUFFICES ASSUME Inv, [Next]_vars PROVE Inv'
    OBVIOUS
  <2>1. Types' /\ TokenInv' /\ CompletedOnce' /\ Returns'
    BY TypesStep, TokenStep, OnceStep, ReturnsStep DEF OrderInv
  <2>2. Opening' /\ sent' \in Nat
    BY OpeningStep DEF OrderInv
  <2>3. DataOK'
    BY DataStep DEF OrderInv, DataOK
  <2> QED
    BY <2>1, <2>2, <2>3 DEF OrderInv, DataOK
<1>3. Inv /\ [Next]_vars =>
          [sent' = sent + 1 => Buf[PBuf].next = sent /\ Buf[PBuf].file = IFile.file]_vars
  <2> SUFFICES ASSUME Inv, Next, sent' = sent + 1
               PROVE  Buf[PBuf].next = sent /\ Buf[PBuf].file = IFile.file
    BY DEF vars, fileVars
  <2>1. sent' # sent /\ sent' # 0
    BY DEF OrderInv
  <2>2. \E r \in {"dreq", "evt"} : ISendNextData(r)
    <3>1. CASE DmaSection \/ DreqSection
      BY <2>1, <3>1 DEF DmaSection, DreqSection, Goto, fileVars
    <3>2. CASE ~(DmaSection \/ DreqSection)
      <4>1. sent' = sent \/ sent' = 0
        BY <3>2 DEF Next, Callers, Play, Stop, SetVolume, Hardware, DmaDone, DreqFalls,
           DreqRises, ITask, Waits, Wakes, DmaSleepEnds, CmdStarts, PlayNew, PlayEnds,
           StopSection, ReadSection, ReadFailsOrEnds, ReadNothing, NoSection, Goto, FileOps,
           ReadDone, ReadFailed, Opened, NotOpened, Fill1, Fill1Failed, Fill2, fileVars
      <4> QED
        BY <2>1, <4>1
    <3> QED
      BY <3>1, <3>2
  <2>3. PICK r \in {"dreq", "evt"} : SendData(r)
    BY <2>1, <2>2 DEF ISendNextData, SendCommand, SendZeroes, SendNothing, fileVars
  <2>4. State = "sndPlaying" /\ Buf[PBuf].sz # 0
    BY <2>1, <2>3 DEF SendData
  <2> QED
    BY <2>4 DEF OrderInv, InSequence, Holds
<1> QED
  BY <1>1, <1>2, <1>3, PTL DEF Spec, ChunksInOrder
=============================================================================
