----------------------------- MODULE MassStorage -----------------------------
(***************************************************************************)
(* The USB mass storage: the UsbOut thread (usb/MassStorage.cpp), the bulk *)
(* endpoints and requests of the USB device (usb/usb_f2.cpp), and a host.  *)
(*                                                                         *)
(* The unit of data is what one buffer takes (MS_DATABUF_SZ, 8 blocks): a  *)
(* chunk.  A command reads or writes n chunks from address 1 on; a chunk   *)
(* read is named by its address, a chunk written by command and address.   *)
(* Interrupts come between any two steps of the thread.  What the card     *)
(* does is in SdCard: here SDRead and SDWrite end well, or fail, or do not *)
(* get the semaphore in time and return as if all were well.               *)
(*                                                                         *)
(* The host is not under src/: it sends a command, moves the data and      *)
(* reads the status (Bulk-Only Transport).  Faults names what else it, the *)
(* card or the operator do, each once in a session:                        *)
(*   "sd"       SDRead or SDWrite fails                                    *)
(*   "late"     SDRead or SDWrite waits too long for semSDRW               *)
(*   "reset"    the host resets the bus when it has waited long enough     *)
(*   "recover"  it sends MassStorageReset and clears both endpoints        *)
(*   "unplug"   the cable is pulled and plugged in again                   *)
(*   "gap"      an interrupt hits the gap in WaitUntilReady                *)
(***************************************************************************)
EXTENDS Integers, FiniteSets

CONSTANTS
    Ops,       \* the commands: "read", "write", "info", "none", "bad"
    MaxN,      \* chunks of a command
    MaxCmds,   \* a bound: the commands of the host
    Faults,    \* those that may strike
    MaxFaults  \* a bound: how many of them in one session

\* DataTransferLen is 32 bits of bytes, in chunks of 4096 (2^20); it can say how long a
\* command is.
DtlMod == 1048576

ASSUME OpsAssumption == Ops \subseteq {"read", "write", "info", "none", "bad"}
ASSUME MaxNAssumption == MaxN \in 1..(DtlMod - 1)
ASSUME MaxCmdsAssumption == MaxCmds \in Nat \ {0}
ASSUME FaultsAssumption == Faults \subseteq {"sd", "late", "reset", "recover", "unplug", "gap"}
ASSUME MaxFaultsAssumption == MaxFaults \in Nat

Tags == 0..MaxCmds               \* the commands' tags, in turn
NoTag == MaxCmds + 1             \* not one of these: data taken for a command

\* DataTransferLen less a chunk.
Less(dtl) == (dtl - 1) % DtlMod

SdEnds == {"ok", "sd", "late"}   \* how SDRead and SDWrite end
Eps == {"out", "in"}             \* PEpBulkOut, PEpBulkIn
Buffers == {"Buf1", "Buf2"}
Other(b) == IF b = "Buf1" THEN "Buf2" ELSE "Buf1"

\* What a buffer may hold: a chunk of a write command, a chunk of the card, or
\* something else.
Chunk(tag, k) == [tag |-> tag, k |-> k]
OnCard(k) == Chunk(MaxCmds + 2, k)
Nothing == Chunk(MaxCmds + 3, 0)
Chunks == [tag : 0..(MaxCmds + 3), k : 0..MaxN]

VARIABLES
    IsReady,   \* Usb.IsReady: configured
    usbReady,  \* EVT_USB_READY is pending
    buzy,      \* Ep_t::Buzy
    waiter,    \* Ep_t::PThread is not null
    armed,     \* the endpoint is enabled and does not NAK
    stall,     \* STALL of the IN endpoint
    PtrOut,    \* where the reception goes
    PtrIn,     \* what is transmitted
    pc,        \* place of the thread
    ep, next,  \* WaitUntilReady: the endpoint, and the place after it
    rslt,      \* what it returned
    rdymsg,    \* the message that readied the thread last
    CmdBlock,  \* tag, op, n, and dtl: DataTransferLen in chunks
    left, at,  \* TotalBlocks and BlockAddress, in chunks
    cur,       \* the buffer in turn
    Buf,       \* content of the buffers
    CmdStatus, \* tag and Status
    card,      \* content of the card at the addresses
    hpc,       \* the host: "off", "bus", "idle", "cbw", "data", "csw", "lost"
    hcmd,      \* its command: tag, op, n
    moved,     \* chunks moved so far
    right,     \* they were the right ones
    verdict,   \* of its last command: "none", "good", "failed"
    strayed,   \* history: a command went into a data buffer, or data into CmdBlock
    struck,    \* history: the faults so far
    unmoved    \* history: the tags of commands with an SDRead or SDWrite that was late

usbVars == <<IsReady, usbReady, buzy, waiter, armed, stall, PtrOut, PtrIn>>
callVars == <<pc, ep, next, rslt, rdymsg>>
cmdVars == <<CmdBlock, left, at, cur, Buf, CmdStatus, card>>
hostState == <<hpc, hcmd, moved, right, verdict, strayed>>
hostVars == <<hostState, struck, unmoved>>
vars == <<usbVars, callVars, cmdVars, hostVars>>

Init ==
    /\ IsReady = FALSE /\ usbReady = FALSE
    /\ buzy = [e \in Eps |-> FALSE] /\ waiter = [e \in Eps |-> FALSE]
    /\ armed = [e \in Eps |-> FALSE] /\ stall = FALSE
    /\ PtrOut = "CmdBlock" /\ PtrIn = "CmdStatus"
    /\ pc = "loop" /\ ep = "out" /\ next = "loop" /\ rslt = "ok" /\ rdymsg = "ok"
    /\ CmdBlock = [tag |-> 0, op |-> "none", n |-> 1, dtl |-> 0]
    /\ left = 0 /\ at = 1 /\ cur = "Buf1"
    /\ Buf = [b \in Buffers |-> Nothing]
    /\ CmdStatus = [tag |-> 0, ok |-> TRUE]
    /\ card = [k \in 1..MaxN |-> OnCard(k)]
    /\ hpc = "off" /\ hcmd = [tag |-> 0, op |-> "none", n |-> 1]
    /\ moved = 0 /\ right = TRUE /\ verdict = "none" /\ strayed = FALSE
    /\ struck = {} /\ unmoved = {}

-----------------------------------------------------------------------------
(* The faults.                                                               *)

\* The faults fs strike, none of them for the second time.
Strike(fs) ==
    /\ fs \subseteq Faults \ struck
    /\ struck' = struck \cup fs
    /\ Cardinality(struck') <= MaxFaults

\* What strikes when SDRead or SDWrite ends; a late one has moved no block.
SdStrikes(end) ==
    /\ IF end = "late" \/ (end = "sd" /\ hpc # "off") THEN Strike({end}) ELSE UNCHANGED struck
    /\ unmoved' = IF end = "late" THEN unmoved \cup {CmdBlock.tag} ELSE unmoved
    /\ rdymsg' \in IF end = "late" THEN {"fail"} ELSE {"ok", "fail"}

\* An interrupt comes, with the faults fs: one that hits the gap is a fault too.
Interrupt(fs) ==
    Strike(fs \cup IF pc = "gap" THEN {"gap"} ELSE {}) /\ UNCHANGED unmoved

-----------------------------------------------------------------------------
(* The endpoints (usb_f2.cpp).                                               *)

\* A slip: nobody is resumed.
ResumeNobody(es, msg) ==
    buzy' = [e \in Eps |-> buzy[e] /\ e \notin es] /\ UNCHANGED <<waiter, callVars>>

\* A slip: a reset does not ready the thread.
ResumeOnOk(es, msg) ==
    /\ buzy' = [e \in Eps |-> buzy[e] /\ e \notin es]
    /\ waiter' = [e \in Eps |-> waiter[e] /\ e \notin es]
    /\ IF pc = "asleep" /\ msg = "ok" /\ \E e \in es : waiter[e]
       THEN pc' = "woken" /\ rdymsg' = msg
       ELSE UNCHANGED <<pc, rdymsg>>
    /\ UNCHANGED <<ep, next, rslt>>

\* ResumeWaitingThd(msg) of the endpoints es.
Resume(es, msg) ==
    /\ buzy' = [e \in Eps |-> buzy[e] /\ e \notin es]
    /\ waiter' = [e \in Eps |-> waiter[e] /\ e \notin es]
    /\ IF pc = "asleep" /\ \E e \in es : waiter[e]
       THEN pc' = "woken" /\ rdymsg' = msg
       ELSE UNCHANGED <<pc, rdymsg>>
    /\ UNCHANGED <<ep, next, rslt>>

\* StartReceiveToBuf and StartTransmitBuf.
StartReceiveToBuf(dst) ==
    /\ PtrOut' = dst
    /\ buzy' = [buzy EXCEPT !["out"] = TRUE]
    /\ armed' = [armed EXCEPT !["out"] = TRUE]
    /\ UNCHANGED <<IsReady, usbReady, waiter, stall, PtrIn>>

StartTransmitBuf(src) ==
    /\ PtrIn' = src
    /\ buzy' = [buzy EXCEPT !["in"] = TRUE]
    /\ armed' = [armed EXCEPT !["in"] = TRUE]
    /\ UNCHANGED <<IsReady, usbReady, waiter, stall, PtrOut>>

\* The thread goes to place p.
Goto(p) == pc' = p /\ UNCHANGED <<ep, next, rslt, rdymsg>>

\* It calls WaitUntilReady of e and goes on at p.
Await(e, p) == pc' = "test" /\ ep' = e /\ next' = p /\ UNCHANGED <<rslt, rdymsg>>

\* WaitUntilReady: the test, without a lock.
Test ==
    /\ pc = "test"
    /\ IF buzy[ep]
       THEN pc' = "gap" /\ UNCHANGED rslt
       ELSE pc' = next /\ rslt' = "ok"
    /\ UNCHANGED <<ep, next, rdymsg, usbVars, cmdVars, hostVars>>

\* WaitUntilReady: the thread names itself and sleeps.
Suspend ==
    /\ pc = "gap"
    /\ waiter' = [waiter EXCEPT ![ep] = TRUE]
    /\ Goto("asleep")
    /\ UNCHANGED <<IsReady, usbReady, buzy, armed, stall, PtrOut, PtrIn, cmdVars, hostVars>>

\* WaitUntilReady: the thread goes on.
Wake ==
    /\ pc = "woken"
    /\ waiter' = [waiter EXCEPT ![ep] = FALSE]
    /\ rslt' = rdymsg /\ pc' = next
    /\ UNCHANGED <<IsReady, usbReady, buzy, armed, stall, PtrOut, PtrIn, ep, next,
                   rdymsg, cmdVars, hostVars>>

-----------------------------------------------------------------------------
(* The UsbOut thread (MassStorage.cpp).                                      *)

\* UsbOutTask: chEvtWaitAny when the device is not configured.
Loop ==
    /\ pc = "loop"
    /\ Goto(IF IsReady THEN "receive" ELSE "evt")
    /\ UNCHANGED <<usbVars, cmdVars, hostVars>>

\* A thread that slept for the event was readied with MSG_OK.
Configured ==
    /\ pc = "evt" /\ usbReady
    /\ usbReady' = FALSE
    /\ pc' = "receive" /\ rdymsg' \in {rdymsg, "ok"}
    /\ UNCHANGED <<IsReady, buzy, waiter, armed, stall, PtrOut, PtrIn, ep, next, rslt,
                   cmdVars, hostVars>>

Receive ==
    /\ pc = "receive"
    /\ StartReceiveToBuf("CmdBlock")
    /\ Await("out", "received")
    /\ UNCHANGED <<cmdVars, hostVars>>

Received ==
    /\ pc = "received"
    /\ Goto(IF rslt = "ok" THEN "handle" ELSE "loop")
    /\ UNCHANGED <<usbVars, cmdVars, hostVars>>

Status(ok) == CmdStatus' = [tag |-> CmdBlock.tag, ok |-> ok]

\* Commands that just succeed, or fail.
HandleNone ==
    /\ pc = "handle" /\ CmdBlock.op \in {"none", "bad"}
    /\ Status(CmdBlock.op = "none") /\ Goto("status")
    /\ CmdBlock' = IF CmdBlock.op = "none" THEN [CmdBlock EXCEPT !.dtl = 0] ELSE CmdBlock
    /\ UNCHANGED <<usbVars, left, at, cur, Buf, card, hostVars>>

\* CmdInquiry and its like: the data, and success.
HandleInfo ==
    /\ pc = "handle" /\ CmdBlock.op = "info"
    /\ StartTransmitBuf("info") /\ Await("in", "infoSent")
    /\ UNCHANGED <<cmdVars, hostVars>>

InfoSent ==
    /\ pc = "infoSent"
    /\ Status(TRUE) /\ Goto("status")
    /\ UNCHANGED <<usbVars, CmdBlock, left, at, cur, Buf, card, hostVars>>

\* ReadWriteCommon refuses a command whose lengths differ.
Refuse ==
    /\ pc = "handle" /\ CmdBlock.op \in {"read", "write"} /\ CmdBlock.dtl # CmdBlock.n
    /\ Status(FALSE) /\ Goto("status")
    /\ UNCHANGED <<usbVars, CmdBlock, left, at, cur, Buf, card, hostVars>>

Transfer == left' = CmdBlock.n /\ at' = 1 /\ cur' = "Buf1"

HandleRead ==
    /\ pc = "handle" /\ CmdBlock.op = "read" /\ CmdBlock.dtl = CmdBlock.n
    /\ Transfer /\ Goto("sdRead")
    /\ UNCHANGED <<usbVars, CmdBlock, Buf, CmdStatus, card, hostVars>>

\* The end of SDRead.  Afterwards rdymsg is what the card's driver, or the
\* semaphore, left.
SdReadEnds(end) ==
    /\ pc = "sdRead"
    /\ SdStrikes(end) /\ UNCHANGED rslt
    /\ IF end = "sd"
       THEN Status(FALSE) /\ pc' = "status" /\ UNCHANGED <<Buf, ep, next>>
       ELSE /\ Buf' = IF end = "late" THEN Buf ELSE [Buf EXCEPT ![cur] = OnCard(at)]
            /\ pc' = "test" /\ ep' = "in" /\ next' = "send"
            /\ UNCHANGED CmdStatus
    /\ UNCHANGED <<usbVars, CmdBlock, left, at, cur, card, hostState>>

\* A slip: the next block is read before the buffer's turn has changed.
SendSameBuffer ==
    /\ pc = "send"
    /\ StartTransmitBuf(cur)
    /\ CmdBlock' = [CmdBlock EXCEPT !.dtl = Less(@)]
    /\ left' = left - 1 /\ at' = at + 1 /\ UNCHANGED cur
    /\ IF left = 1 THEN Await("in", "sent") ELSE Goto("sdRead")
    /\ UNCHANGED <<Buf, CmdStatus, card, hostVars>>

\* The buffer goes out while the other one is filled.
Send ==
    /\ pc = "send"
    /\ StartTransmitBuf(cur)
    /\ CmdBlock' = [CmdBlock EXCEPT !.dtl = Less(@)]
    /\ left' = left - 1 /\ at' = at + 1 /\ cur' = Other(cur)
    /\ IF left = 1 THEN Await("in", "sent") ELSE Goto("sdRead")
    /\ UNCHANGED <<Buf, CmdStatus, card, hostVars>>

Sent ==
    /\ pc = "sent"
    /\ Status(TRUE) /\ Goto("status")
    /\ UNCHANGED <<usbVars, CmdBlock, left, at, cur, Buf, card, hostVars>>

HandleWrite ==
    /\ pc = "handle" /\ CmdBlock.op = "write" /\ CmdBlock.dtl = CmdBlock.n
    /\ Transfer
    /\ StartReceiveToBuf("Buf1") /\ Await("out", "full")
    /\ UNCHANGED <<CmdBlock, Buf, CmdStatus, card, hostVars>>

\* "Buf1 is full, start receiving to Buf2", or the reception has failed.
Full ==
    /\ pc = "full" /\ rslt = "ok"
    /\ left' = left - 1
    /\ IF left > 1 THEN StartReceiveToBuf(Other(cur)) ELSE UNCHANGED usbVars
    /\ Goto("sdWrite")
    /\ UNCHANGED <<CmdBlock, at, cur, Buf, CmdStatus, card, hostVars>>

ReceptionFails ==
    /\ pc = "full" /\ rslt = "fail"
    /\ Status(FALSE) /\ Goto("status")
    /\ UNCHANGED <<usbVars, CmdBlock, left, at, cur, Buf, card, hostVars>>

\* A slip: the last SDWrite's failure is not looked at.
SdWriteForgets(end) ==
    /\ pc = "sdWrite"
    /\ SdStrikes(end) /\ UNCHANGED rslt
    /\ card' = IF end = "ok" THEN [card EXCEPT ![at] = Buf[cur]] ELSE card
    /\ CmdBlock' = [CmdBlock EXCEPT !.dtl = Less(@)]
    /\ IF left = 0
       THEN Status(TRUE) /\ pc' = "status" /\ UNCHANGED <<at, cur, ep, next>>
       ELSE /\ at' = at + 1 /\ cur' = Other(cur)
            /\ pc' = "test" /\ ep' = "out" /\ next' = "full"
            /\ UNCHANGED CmdStatus
    /\ UNCHANGED <<usbVars, left, Buf, hostState>>

\* The end of SDWrite.
SdWriteEnds(end) ==
    /\ pc = "sdWrite"
    /\ SdStrikes(end) /\ UNCHANGED rslt
    /\ IF end = "sd"
       THEN /\ Status(FALSE) /\ pc' = "status"
            /\ UNCHANGED <<card, CmdBlock, at, cur, ep, next>>
       ELSE /\ card' = IF end = "late" THEN card ELSE [card EXCEPT ![at] = Buf[cur]]
            /\ CmdBlock' = [CmdBlock EXCEPT !.dtl = Less(@)]
            /\ IF left = 0
               THEN Status(TRUE) /\ pc' = "status" /\ UNCHANGED <<at, cur, ep, next>>
               ELSE /\ at' = at + 1 /\ cur' = Other(cur)
                    /\ pc' = "test" /\ ep' = "out" /\ next' = "full"
                    /\ UNCHANGED CmdStatus
    /\ UNCHANGED <<usbVars, left, Buf, hostState>>

\* The end of SCSICmdHandler: a failed command stalls the IN endpoint first.
SendStatus ==
    /\ pc = "status"
    /\ IF CmdStatus.ok
       THEN Goto("csw") /\ UNCHANGED stall
       ELSE stall' = TRUE /\ Await("in", "stalled")
    /\ UNCHANGED <<IsReady, usbReady, buzy, waiter, armed, PtrOut, PtrIn, cmdVars, hostVars>>

Stalled ==
    /\ pc = "stalled"
    /\ Goto(IF rslt = "ok" THEN "csw" ELSE "loop")
    /\ UNCHANGED <<usbVars, cmdVars, hostVars>>

Csw ==
    /\ pc = "csw"
    /\ StartTransmitBuf("CmdStatus") /\ Goto("loop")
    /\ UNCHANGED <<cmdVars, hostVars>>

-----------------------------------------------------------------------------
(* The host, and the interrupts that its packets raise.                      *)

\* The host's next command.
HostCommand(o, k) ==
    /\ hpc = "idle" /\ hcmd.tag < MaxCmds
    /\ o \in {"read", "write"} \/ k = 1
    /\ hcmd' = [tag |-> hcmd.tag + 1, op |-> o, n |-> k]
    /\ hpc' = "cbw" /\ moved' = 0 /\ right' = TRUE /\ verdict' = "none"
    /\ UNCHANGED <<usbVars, callVars, cmdVars, strayed, struck, unmoved>>

AfterCbw(o) ==
    CASE o \in {"read", "info", "write"} -> "data"
      [] OTHER -> "csw"

\* The CBW arrives.  In CmdBlock it completes the reception; in a data buffer,
\* after some other command, it is a piece of data.
HostSendsCbw ==
    /\ Interrupt({})
    /\ hpc = "cbw" /\ armed["out"]
    /\ hpc' = AfterCbw(hcmd.op)
    /\ IF PtrOut = "CmdBlock"
       THEN /\ CmdBlock' = [tag |-> hcmd.tag, op |-> hcmd.op, n |-> hcmd.n, dtl |-> hcmd.n]
            /\ armed' = [armed EXCEPT !["out"] = FALSE]
            /\ Resume({"out"}, "ok")
            /\ UNCHANGED <<Buf, strayed>>
       ELSE /\ Buf' = [Buf EXCEPT ![PtrOut] = Nothing]
            /\ strayed' = TRUE
            /\ UNCHANGED <<CmdBlock, armed, buzy, waiter, callVars>>
    /\ UNCHANGED <<IsReady, usbReady, stall, PtrOut, PtrIn, left, at, cur, CmdStatus,
                   card, hcmd, moved, right, verdict>>

\* A chunk arrives.  Its first packet in CmdBlock makes a command of whatever
\* it holds (the signature is not looked at), though with no tag of the host's.
HostSendsChunk ==
    /\ Interrupt({})
    /\ hpc = "data" /\ hcmd.op = "write" /\ armed["out"]
    /\ moved' = moved + 1
    /\ hpc' = IF moved + 1 = hcmd.n THEN "csw" ELSE "data"
    /\ IF PtrOut = "CmdBlock"
       THEN /\ \E o \in Ops, k \in 1..MaxN :
                   CmdBlock' = [tag |-> NoTag, op |-> o, n |-> k, dtl |-> k]
            /\ strayed' = TRUE
            /\ UNCHANGED Buf
       ELSE /\ Buf' = [Buf EXCEPT ![PtrOut] = Chunk(hcmd.tag, moved + 1)]
            /\ UNCHANGED <<CmdBlock, strayed>>
    /\ armed' = [armed EXCEPT !["out"] = FALSE]
    /\ Resume({"out"}, "ok")
    /\ UNCHANGED <<IsReady, usbReady, stall, PtrOut, PtrIn, left, at, cur, CmdStatus,
                   card, hcmd, right, verdict>>

\* What a complete transmission means for the host's data phase.
TakeData ==
    /\ moved' = moved + 1
    /\ right' = (right /\ CASE PtrIn = "info" -> hcmd.op = "info"
                            [] PtrIn = "CmdStatus" -> FALSE
                            [] OTHER -> hcmd.op = "read" /\ Buf[PtrIn] = OnCard(moved + 1))
    /\ hpc' = IF PtrIn = "CmdStatus" \/ hcmd.op = "info" \/ moved + 1 = hcmd.n
              THEN "csw" ELSE "data"
    /\ UNCHANGED verdict

\* What it means when the host reads the status: data instead of it, or the
\* status of another command, and the host gives the device up.
TakeStatus ==
    /\ IF PtrIn = "CmdStatus" /\ CmdStatus.tag = hcmd.tag
       THEN hpc' = "idle" /\ verdict' = IF CmdStatus.ok THEN "good" ELSE "failed"
       ELSE hpc' = "lost" /\ UNCHANGED verdict
    /\ UNCHANGED <<moved, right>>

\* The host reads what the IN endpoint transmits; the interrupt reports its end.
HostReads ==
    /\ Interrupt({})
    /\ armed["in"] /\ ~stall
    /\ \/ hpc = "data" /\ hcmd.op \in {"read", "info"} /\ TakeData
       \/ hpc = "csw" /\ TakeStatus
    /\ armed' = [armed EXCEPT !["in"] = FALSE]
    /\ Resume({"in"}, "ok")
    /\ UNCHANGED <<IsReady, usbReady, stall, PtrOut, PtrIn, cmdVars, hcmd, strayed>>

\* The host meets a stall: CLEAR_FEATURE, and the status is next.
HostClearsStall ==
    /\ Interrupt({})
    /\ stall
    /\ hpc = "csw" \/ (hpc = "data" /\ hcmd.op \in {"read", "info"})
    /\ stall' = FALSE
    /\ Resume({"in"}, "ok")
    /\ hpc' = "csw"
    /\ UNCHANGED <<IsReady, usbReady, armed, PtrOut, PtrIn, cmdVars, hcmd, moved, right,
                   verdict, strayed>>

\* IDeviceReset.
DeviceReset ==
    /\ IsReady' = FALSE
    /\ armed' = [e \in Eps |-> FALSE] /\ stall' = FALSE
    /\ Resume(Eps, "fail")
    /\ UNCHANGED <<usbReady, PtrOut, PtrIn>>

\* The host waits, has lost step, or has read the status of a failed command:
\* the code's 2 (MS_SCSI_Status_Check_Condition) asks the host for a recovery.
HostWorries ==
    \/ hpc \in {"cbw", "data", "csw", "lost"}
    \/ hpc = "idle" /\ verdict = "failed"

\* The host has waited long enough.
HostResets ==
    /\ Interrupt({"reset"})
    /\ HostWorries
    /\ DeviceReset
    /\ hpc' = "bus" /\ verdict' = "none"
    /\ UNCHANGED <<cmdVars, hcmd, moved, right, strayed>>

\* SET_CONFIGURATION: IEndpointsInit sets NAK on the OUT endpoint; a transmission
\* that was started before may stay enabled.
HostConfigures ==
    /\ Interrupt({})
    /\ hpc = "bus"
    /\ hpc' = "idle"
    /\ IsReady' = TRUE /\ usbReady' = TRUE
    /\ \E a \in {FALSE, armed["in"]} : armed' = [e \in Eps |-> e = "in" /\ a]
    /\ stall' = FALSE
    /\ UNCHANGED <<buzy, waiter, PtrOut, PtrIn, callVars, cmdVars, hcmd, moved, right,
                   verdict, strayed>>

\* The host's recovery: MassStorageReset, which only acknowledges, and
\* CLEAR_FEATURE of both endpoints.
HostRecovers ==
    /\ Interrupt({"recover"})
    /\ HostWorries /\ hpc # "cbw"
    /\ stall' = FALSE
    /\ Resume(Eps, "ok")
    /\ hpc' = "idle" /\ verdict' = "none"
    /\ UNCHANGED <<IsReady, usbReady, armed, PtrOut, PtrIn, cmdVars, hcmd, moved, right,
                   strayed>>

\* App handles the unplugged cable: Usb.Shutdown and MassStorage.Reset, which
\* readies a suspended thread without a message.
Unplug ==
    /\ Strike({"unplug"}) /\ UNCHANGED unmoved
    /\ hpc # "off"
    /\ hpc' = "off"
    /\ IsReady' = FALSE /\ armed' = [e \in Eps |-> FALSE] /\ stall' = FALSE
    /\ pc' = IF pc = "asleep" THEN "woken" ELSE pc
    /\ UNCHANGED <<usbReady, buzy, waiter, PtrOut, PtrIn, ep, next, rslt, rdymsg, cmdVars,
                   hcmd, moved, right, verdict, strayed>>

\* The cable is plugged in: Usb.Init, a sleep of 540 ms, during which the thread runs
\* until it sleeps too, Usb.Connect; and the host resets the bus.
Plug ==
    /\ Interrupt({})
    /\ hpc = "off"
    /\ pc \in {"asleep", "evt", "sdRead", "sdWrite"}
    /\ DeviceReset
    /\ hpc' = "bus"
    /\ UNCHANGED <<cmdVars, hcmd, moved, right, verdict, strayed>>

-----------------------------------------------------------------------------
Thread ==
    \/ Test \/ Suspend \/ Wake
    \/ Loop \/ Configured \/ Receive \/ Received
    \/ HandleNone \/ HandleInfo \/ InfoSent \/ Refuse
    \/ HandleRead \/ Send \/ Sent
    \/ HandleWrite \/ Full \/ ReceptionFails
    \/ \E end \in SdEnds : SdReadEnds(end) \/ SdWriteEnds(end)
    \/ SendStatus \/ Stalled \/ Csw

\* What the host does by itself while it is served.
HostGoesOn ==
    \/ HostSendsCbw \/ HostSendsChunk \/ HostReads \/ HostClearsStall
    \/ HostConfigures \/ Plug

Next ==
    \/ Thread \/ HostGoesOn
    \/ \E o \in Ops, k \in 1..MaxN : HostCommand(o, k)
    \/ HostResets \/ HostRecovers \/ Unplug

Spec == Init /\ [][Next]_vars
\* The thread runs when it is ready, the card ends its work (SdCard, CallReturns),
\* and the host polls the endpoints.
FairSpec == Spec /\ WF_vars(Thread) /\ WF_vars(HostGoesOn)

-----------------------------------------------------------------------------
(* Properties.                                                               *)

Commands == [tag : Tags, op : Ops \cup {"none"}, n : 1..MaxN]

TypeOK ==
    /\ IsReady \in BOOLEAN /\ usbReady \in BOOLEAN /\ stall \in BOOLEAN
    /\ buzy \in [Eps -> BOOLEAN] /\ waiter \in [Eps -> BOOLEAN]
    /\ armed \in [Eps -> BOOLEAN]
    /\ PtrOut \in Buffers \cup {"CmdBlock"}
    /\ PtrIn \in Buffers \cup {"CmdStatus", "info"}
    /\ ep \in Eps /\ rslt \in {"ok", "fail"} /\ rdymsg \in {"ok", "fail"}
    /\ CmdBlock \in [tag : Tags \cup {NoTag}, op : Ops \cup {"none"}, n : 1..MaxN, dtl : 0..(DtlMod - 1)]
    /\ left \in 0..MaxN /\ at \in 1..(MaxN + 1) /\ cur \in Buffers
    /\ Buf \in [Buffers -> Chunks] /\ card \in [1..MaxN -> Chunks]
    /\ hcmd \in Commands /\ moved \in 0..MaxN
    /\ verdict \in {"none", "good", "failed"} /\ struck \subseteq Faults
    /\ unmoved \subseteq Tags \cup {NoTag}

\* The card, the semaphore, the host or the operator has struck, not only an interrupt's timing.
Disturbed == struck \ {"gap"} # {}

\* When the host is told that its command succeeded, the host has got, or the
\* card holds, every chunk of it at its place: after a reset, a failing card and a
\* pulled cable too.  MassStorageReset, which resets nothing, can spoil it; and a
\* command is told to have succeeded whose SDRead or SDWrite has not got semSDRW in
\* time (fatfs_diskio.c:54-57, 67): the host has then read as many chunks, not the
\* right ones.  The next command is not spoilt.
GoodMeansDone ==
    verdict = "good" /\ "recover" \notin struck =>
        /\ hcmd.op = "info" => right
        /\ hcmd.op = "read" => moved = hcmd.n
        /\ hcmd.tag \notin unmoved =>
               /\ hcmd.op = "read" => right
               /\ hcmd.op = "write" => \A k \in 1..hcmd.n : card[k] = Chunk(hcmd.tag, k)

\* A buffer that the host still reads is not filled anew, and one that is written
\* to the card is not received into (the double buffering of CmdRead10 and
\* CmdWrite10), until a MassStorageReset pretends that a transfer is over.
BuffersApart == "recover" \notin struck =>
    /\ pc = "sdRead" /\ armed["in"] => PtrIn # cur
    /\ pc = "sdWrite" /\ armed["out"] => PtrOut # cur

\* The thread sleeps only while the transfer that it waits for is going on ("Wait
\* end of reception1", MassStorage.cpp:315), unless an interrupt has hit the gap.
SleepsForTransfer == pc = "asleep" => buzy[ep] \/ "gap" \in struck

\* Until a fault strikes a command goes to CmdBlock, and nothing else does ("Command
\* block signature, must be MS_CBW_SIGNATURE to indicate a valid Command Block",
\* MassStorage.h:38).
CommandsAreCommands == strayed => Disturbed

\* "Buf1 is full" (MassStorage.cpp:320), "Buf2 is full" (l. 342): until a fault
\* strikes, what goes to the card is the chunk that the host has sent for that address.
BufferIsFull == pc = "sdWrite" /\ ~Disturbed => Buf[cur] = Chunk(CmdBlock.tag, at)

\* Host, endpoints and card use the two buffers and the command block in turn: none
\* is filled while another still reads it, and what is passed on is whole.
BuffersTrue == TypeOK /\ BuffersApart /\ CommandsAreCommands /\ BufferIsFull

\* Every command comes to an end with its status, if no fault strikes: the wakeup of
\* the thread by the last interrupt of a transfer is not lost.
Answered == hpc = "cbw" ~> hpc \in {"idle", "bus", "off"} \/ struck # {}
=============================================================================
