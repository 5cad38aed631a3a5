------------------------------- MODULE UartRx -------------------------------
(***************************************************************************)
(* The receive side of Uart_t (kl_lib/uart.cpp) and the line that it fills *)
(* (Cmd_t, kl_lib/shell.h): a DMA stream writes bytes into a ring without  *)
(* end, a thread looks 10 times a second how far it has come, and App is   *)
(* told of each complete line, which the thread leaves alone until App has *)
(* handled it. Its names are not those of UartTx, the other side.          *)
(***************************************************************************)
EXTENDS Integers, Sequences

CONSTANTS
    RxSize,      \* UART_RXBUF_SZ
    LineSize,    \* CMD_BUF_SZ, with the zero at the end
    Chars,       \* characters that a command is made of
    Burst        \* the most bytes that come between two looks

ASSUME RxSizeAssumption == RxSize \in Nat \ {0, 1}
ASSUME LineAssumption == LineSize \in Nat \ {0, 1}
ASSUME CharsAssumption == "eol" \notin Chars /\ "bs" \notin Chars
ASSUME BurstAssumption == Burst \in 0 .. RxSize

VARIABLES
    IRxBuf, NDTR,              \* the ring and the stream's counter
    SzOld, RIndx, toDo,        \* the thread: bytes of this look still to read
    rxPc,                      \* "sleeps" | "reads" | "suspended"
    IString, Completed,        \* Cmd_t
    newCmd,                    \* EVT_UART_NEW_CMD is pending at App
    recent,                    \* bytes since the thread's last look, not yet read
    line, due                  \* history: the line as typed, the lines App is owed

streamVars == <<IRxBuf, NDTR>>
readVars == <<SzOld, RIndx, toDo>>
cmdVars == <<IString, Completed>>
rxVars == <<streamVars, readVars, rxPc, cmdVars, newCmd, recent, line, due>>

RxSlots == 0 .. RxSize - 1
Bytes == Chars \cup {"eol", "bs"}

RxInit ==
    /\ IRxBuf = [i \in RxSlots |-> "eol"] /\ NDTR = RxSize
    /\ SzOld = 0 /\ RIndx = 0 /\ toDo = 0 /\ rxPc = "sleeps"
    /\ IString = <<>> /\ Completed = FALSE
    /\ newCmd = FALSE /\ recent = 0 /\ line = <<>> /\ due = <<>>

-----------------------------------------------------------------------------
\* What a byte makes of a line.
Edited(s, c) ==
    CASE c = "bs" -> IF s = <<>> THEN s ELSE SubSeq(s, 1, Len(s) - 1)
      [] c \in Chars -> IF Len(s) < LineSize - 1 THEN Append(s, c) ELSE s
      [] OTHER -> s

\* A byte comes; what its sender means by it is kept beside.
Receive ==
    \E c \in Bytes :
        /\ recent < Burst
        /\ recent' = recent + 1
        /\ IRxBuf' = [IRxBuf EXCEPT ![RxSize - NDTR] = c]
        /\ NDTR' = IF NDTR = 1 THEN RxSize ELSE NDTR - 1
        /\ line' = IF c = "eol" THEN <<>> ELSE Edited(line, c)
        /\ due' = IF c = "eol" /\ line # <<>> THEN Append(due, line) ELSE due
        /\ UNCHANGED <<readVars, rxPc, cmdVars, newCmd>>

\* IRxTask after its sleep.
Look ==
    /\ rxPc = "sleeps"
    /\ LET Sz == RxSize - NDTR
       IN /\ toDo' = (Sz - SzOld) % RxSize
          /\ rxPc' = IF Sz # SzOld THEN "reads" ELSE "sleeps"
          /\ SzOld' = Sz
    /\ UNCHANGED <<streamVars, RIndx, cmdVars, newCmd, recent, line, due>>

\* Cmd_t::PutChar: the line is begun anew after a command.
Line == IF Completed THEN <<>> ELSE IString
EndsCmd(c) == c = "eol" /\ Line # <<>>

PutChar(c) == IString' = Edited(Line, c) /\ Completed' = EndsCmd(c)

\* A slip: the thread reads on while App handles the command.
ReadOn ==
    LET c == IRxBuf[RIndx]
    IN /\ rxPc = "reads" /\ toDo > 0
       /\ PutChar(c)
       /\ RIndx' = (RIndx + 1) % RxSize
       /\ toDo' = toDo - 1 /\ recent' = recent - 1
       /\ rxPc' = IF toDo = 1 THEN "sleeps" ELSE "reads"
       /\ newCmd' = (newCmd \/ EndsCmd(c))
       /\ UNCHANGED <<streamVars, SzOld, line, due>>

\* One turn of IRxTask's inner loop.
ReadByte ==
    LET c == IRxBuf[RIndx]
    IN /\ rxPc = "reads" /\ toDo > 0
       /\ PutChar(c)
       /\ RIndx' = IF RIndx + 1 >= RxSize THEN 0 ELSE RIndx + 1
       /\ toDo' = toDo - 1 /\ recent' = recent - 1
       /\ rxPc' = CASE EndsCmd(c) -> "suspended"
                  [] ~EndsCmd(c) /\ toDo = 1 -> "sleeps"
                  [] OTHER -> "reads"
       /\ newCmd' = (newCmd \/ EndsCmd(c))
       /\ UNCHANGED <<streamVars, SzOld, line, due>>

\* A slip: App does not tell the thread when the command is handled.
OnCmdSilent ==
    /\ newCmd /\ newCmd' = FALSE
    /\ due' = IF due = <<>> THEN due ELSE Tail(due)
    /\ UNCHANGED <<rxPc, streamVars, readVars, cmdVars, recent, line>>

\* App handles the command and, with SignalCmdProcessed, readies the thread.
OnCmd ==
    /\ newCmd /\ newCmd' = FALSE
    /\ due' = IF due = <<>> THEN due ELSE Tail(due)
    /\ rxPc' = CASE rxPc = "suspended" /\ toDo > 0 -> "reads"
               [] rxPc = "suspended" /\ toDo = 0 -> "sleeps"
               [] OTHER -> rxPc
    /\ UNCHANGED <<streamVars, readVars, cmdVars, recent, line>>

RxNext == Receive \/ Look \/ ReadByte \/ OnCmd

RxSpec == RxInit /\ [][RxNext]_rxVars

\* The thread's sleep ends and App comes to its events.
RxFairSpec == RxSpec /\ WF_rxVars(Look) /\ WF_rxVars(ReadByte) /\ WF_rxVars(OnCmd)

-----------------------------------------------------------------------------
\* Every variable keeps to the values that its type in the code has.
RxTypeOK ==
    /\ IRxBuf \in [RxSlots -> Bytes] /\ NDTR \in 1 .. RxSize
    /\ SzOld \in RxSlots /\ RIndx \in RxSlots /\ toDo \in RxSlots
    /\ rxPc \in {"sleeps", "reads", "suspended"}
    /\ IString \in Seq(Chars) /\ Len(IString) < LineSize /\ Completed \in BOOLEAN
    /\ newCmd \in BOOLEAN /\ recent \in 0 .. RxSize
    /\ line \in Seq(Chars) /\ due \in Seq(Seq(Chars))

\* The command that App handles is the line that was typed, the oldest that it
\* has not had; the thread has not changed it since, whatever has come.
CommandAsTyped == newCmd => due # <<>> /\ IString = Head(due)

\* A thread that sleeps has read what had come when it looked, and the bytes
\* that it will find are those that have come since.
NothingOverlooked == rxPc = "sleeps" => (RxSize - NDTR - SzOld) % RxSize = recent

\* From the stream's counter to the line that App handles no byte is lost, read
\* twice or changed.
LineTrue == RxTypeOK /\ CommandAsTyped /\ NothingOverlooked

\* A line that was ended comes to App in the end.
LinesAreHandled == due # <<>> ~> newCmd
=============================================================================
