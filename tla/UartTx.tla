------------------------------- MODULE UartTx -------------------------------
(***************************************************************************)
(* The transmit side of Uart_t (kl_lib/uart.cpp): messages are formatted   *)
(* into the ring TXBuf, a DMA stream sends it piece by piece, and its      *)
(* interrupt frees what is sent and starts the next piece.                 *)
(*                                                                         *)
(* Printf holds the kernel's lock, so it is one step.  PrintfC does not:   *)
(* the DMA and its interrupt come between its steps.  No second thread     *)
(* does, since all threads that print have the same priority and PrintfC   *)
(* does not block.                                                         *)
(*                                                                         *)
(* A character is one of three tags, given in turn, so that a byte that is *)
(* sent twice, skipped or overwritten shows.                               *)
(***************************************************************************)
EXTENDS Vsprintf

CONSTANTS
    Size,          \* UART_TXBUF_SZ
    Formats,       \* the messages
    FormatsC,      \* the messages that PrintfC prints
    MaxOwed        \* bound: printed and not yet sent, counted and true

ASSUME SizeAssumption == Size \in Nat \ {0} /\ Word > Size
ASSUME FormatsAssumption == Formats \cup FormatsC \subseteq Seq(Pieces)

ASSUME OwedAssumption == MaxOwed \in Nat /\ MaxOwed < Word

VARIABLES
    TXBuf, PRead, PWrite,            \* the ring
    IFullSlotsCount, ITransSize, IDmaIsIdle,
    dmaAt, dmaLeft,                  \* the stream: next address, bytes left
    pc, printed, loaded,             \* PrintfC: where it is, its values
    tag,                             \* the next character's tag
    owed,                            \* history: printed and not yet sent
    garbled,                         \* history: a wrong byte has been sent
    upset                            \* history: the counter was not what the code
                                     \* took it for

ringVars == <<TXBuf, PRead, PWrite>>
countVars == <<IFullSlotsCount, ITransSize, IDmaIsIdle>>
dmaVars == <<dmaAt, dmaLeft>>
cVars == <<pc, printed, loaded>>
vars == <<ringVars, countVars, dmaVars, cVars, tag, owed, garbled, upset>>

Slots == 0 .. Size - 1
Tags == 0 .. 2

Init ==
    /\ TXBuf = [i \in Slots |-> 0] /\ PRead = 0 /\ PWrite = 0
    /\ IFullSlotsCount = 0 /\ ITransSize = 0 /\ IDmaIsIdle = TRUE
    /\ dmaAt = 0 /\ dmaLeft = 0
    /\ pc = "none" /\ printed = 0 /\ loaded = 0
    /\ tag = 0 /\ owed = <<>> /\ garbled = FALSE /\ upset = FALSE

-----------------------------------------------------------------------------
\* IPutChar n times: the last character written to a slot stays there.
PutChars(n) ==
    /\ TXBuf' = [i \in Slots |->
           LET first == (i - PWrite) % Size
           IN IF first >= n THEN TXBuf[i]
              ELSE (tag + first + Size * ((n - 1 - first) \div Size)) % 3]
    /\ PWrite' = (PWrite + n) % Size
    /\ tag' = (tag + n) % 3
    /\ owed' = owed \o [i \in 1 .. n |-> (tag + i - 1) % 3]

\* A slip: the piece goes on over the end of the ring.
SendOverTheEnd(read, full) ==
    /\ ITransSize' = full
    /\ IF full # 0 THEN IDmaIsIdle' = FALSE /\ dmaAt' = read /\ dmaLeft' = full
       ELSE UNCHANGED <<IDmaIsIdle, dmaVars>>

\* The next piece: as far as the end of the ring.
ISendViaDMA(read, full) ==
    LET PartSz == Size - read
        size == Least(full, PartSz)
    IN /\ ITransSize' = size
       /\ IF size # 0 THEN IDmaIsIdle' = FALSE /\ dmaAt' = read /\ dmaLeft' = size
          ELSE UNCHANGED <<IDmaIsIdle, dmaVars>>

\* A slip: the transmission is started although one is going on.
SendAlways(full) == ISendViaDMA(PRead, full)

\* if(IDmaIsIdle) ISendViaDMA()
SendIfIdle(full) ==
    IF IDmaIsIdle THEN ISendViaDMA(PRead, full)
    ELSE UNCHANGED <<ITransSize, IDmaIsIdle, dmaVars>>

MaxLength == (Size - IFullSlotsCount) % Word
Fits(fmt) == LengthOf(fmt) <= Size - IFullSlotsCount
MayPrint(fmt) ==
    /\ pc = "none"
    /\ Len(owed) + LengthOf(fmt) <= MaxOwed /\ IFullSlotsCount <= MaxOwed

Printf ==
    \E fmt \in Formats :
        LET r == kl_vsprintf(MaxLength, fmt)
        IN /\ MayPrint(fmt)
           /\ PutChars(r.put)
           /\ upset' = (upset \/ ~Fits(fmt))
           /\ IFullSlotsCount' = IFullSlotsCount + r.count
           /\ SendIfIdle(IFullSlotsCount')
           /\ UNCHANGED <<PRead, cVars, garbled>>

-----------------------------------------------------------------------------
(* PrintfC: the call of kl_vsprintf, the sum, the start.                     *)

PrintfC ==
    \E fmt \in FormatsC :
        LET r == kl_vsprintf(MaxLength, fmt)
        IN /\ MayPrint(fmt)
           /\ PutChars(r.put)
           /\ upset' = (upset \/ ~Fits(fmt))
           /\ pc' = "load" /\ printed' = r.count
           /\ UNCHANGED <<PRead, countVars, dmaVars, loaded, garbled>>

LoadCount ==
    /\ pc = "load" /\ pc' = "store"
    /\ loaded' = IFullSlotsCount
    /\ UNCHANGED <<ringVars, countVars, dmaVars, printed, tag, owed, garbled, upset>>

StoreCount ==
    /\ pc = "store" /\ pc' = "start"
    /\ IFullSlotsCount' = loaded + printed
    /\ upset' = (upset \/ loaded # IFullSlotsCount)
    /\ UNCHANGED <<ringVars, ITransSize, IDmaIsIdle, dmaVars, printed, loaded, tag, owed,
                   garbled>>

StartC ==
    /\ pc = "start" /\ pc' = "none"
    /\ SendIfIdle(IFullSlotsCount)
    /\ printed' = 0 /\ loaded' = 0
    /\ UNCHANGED <<ringVars, IFullSlotsCount, tag, owed, garbled, upset>>

-----------------------------------------------------------------------------
\* The stream sends a byte.  With nothing owed the byte is not worth a record.
DmaSends ==
    /\ dmaLeft > 0
    /\ garbled' = (garbled \/ owed = <<>> \/ dmaAt \notin Slots \/ TXBuf[dmaAt] # owed[1])
    /\ owed' = IF owed = <<>> THEN owed ELSE Tail(owed)
    /\ dmaAt' = dmaAt + 1 /\ dmaLeft' = dmaLeft - 1
    /\ UNCHANGED <<ringVars, countVars, cVars, tag, upset>>

\* A slip: the interrupt does not look for more.
IRQDmaTxStops ==
    /\ dmaLeft = 0 /\ ~IDmaIsIdle
    /\ IFullSlotsCount' = IFullSlotsCount - ITransSize
    /\ PRead' = (PRead + ITransSize) % Size
    /\ IDmaIsIdle' = TRUE
    /\ UNCHANGED <<TXBuf, PWrite, ITransSize, dmaVars, cVars, tag, owed, garbled, upset>>

\* The interrupt of a transmission that is complete.
IRQDmaTxHandler ==
    /\ dmaLeft = 0 /\ ~IDmaIsIdle
    /\ IFullSlotsCount' = IFullSlotsCount - ITransSize
    /\ PRead' = IF PRead + ITransSize >= Size THEN 0 ELSE PRead + ITransSize
    /\ IF IFullSlotsCount' = 0
       THEN IDmaIsIdle' = TRUE /\ UNCHANGED <<ITransSize, dmaVars>>
       ELSE ISendViaDMA(PRead', IFullSlotsCount')
    /\ UNCHANGED <<TXBuf, PWrite, cVars, tag, owed, garbled, upset>>

Next == Printf \/ PrintfC \/ LoadCount \/ StoreCount \/ StartC \/ DmaSends \/ IRQDmaTxHandler

Spec == Init /\ [][Next]_vars

\* The hardware sends and its interrupt comes; a thread in PrintfC goes on.
FairSpec ==
    /\ Spec
    /\ WF_vars(DmaSends) /\ WF_vars(IRQDmaTxHandler)
    /\ WF_vars(LoadCount \/ StoreCount \/ StartC)

-----------------------------------------------------------------------------
\* Every variable keeps to the values that its type in the code has.
TypeOK ==
    /\ TXBuf \in [Slots -> Tags] /\ PRead \in Slots /\ PWrite \in Slots
    /\ IFullSlotsCount \in Nat /\ ITransSize \in 0 .. Size /\ IDmaIsIdle \in BOOLEAN
    /\ dmaAt \in 0 .. Size /\ dmaLeft \in 0 .. Size
    /\ pc \in {"none", "load", "store", "start"} /\ printed \in Nat /\ loaded \in Nat
    /\ tag \in Tags /\ owed \in Seq(Tags) /\ garbled \in BOOLEAN /\ upset \in BOOLEAN

\* What is sent is what was printed, in the order in which it was printed, unless a
\* message came for which the ring had no room, or the interrupt hit the sum of
\* PrintfC.
SentAsPrinted == garbled => upset

\* Nothing is forgotten in the ring: an idle transmitter owes nothing, except
\* while PrintfC is about to start it; not even when the counter is upset.
NothingForgotten == IDmaIsIdle /\ pc = "none" => owed = <<>>

\* The stream never reads beside the ring, however full it is and whoever prints.
DmaInside == dmaAt + dmaLeft <= Size

\* The counter tells what lies in the ring: what is printed and not yet freed.
CountIsTrue ==
    pc = "none" /\ ~upset => IFullSlotsCount = Len(owed) + (IF IDmaIsIdle THEN 0 ELSE ITransSize - dmaLeft)

\* The ring, its counter and the stream agree on what is still to be sent.
RingTrue == TypeOK /\ SentAsPrinted /\ NothingForgotten /\ CountIsTrue

\* Whatever waits in the ring is taken up by the stream in the end.
AllIsSent == owed # <<>> ~> dmaLeft > 0

\* A message that fits is put whole and counted true, whatever it is made of.
FitsWhole ==
    \A fmt \in Formats \cup FormatsC :
        LET r == kl_vsprintf(MaxLength, fmt)
        IN Fits(fmt) => r.put = LengthOf(fmt) /\ r.count = r.put

\* A message that is cut loses nothing that there was room for.
CutsLate ==
    \A fmt \in Formats \cup FormatsC :
        kl_vsprintf(MaxLength, fmt).put >= Least(LengthOf(fmt), MaxLength)

\* The limit of the ring's room cuts a message where it must and nowhere else.
CutsRight == FitsWhole /\ CutsLate
=============================================================================
