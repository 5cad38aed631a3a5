------------------------- MODULE MassStorageProofs -------------------------
(***************************************************************************)
(* What the mass storage promises, for every number and size of commands   *)
(* and every sequence of faults: Good means done, the buffers and the      *)
(* command block are used in turn, and the thread sleeps for a transfer.   *)
(*                                                                         *)
(* The thread's place is where it is or, in WaitUntilReady, where it goes  *)
(* on (Doing).  The main part of the invariant, InStep, says how far       *)
(* thread, endpoints and host are when the device holds the command that   *)
(* the host has sent last.  A fault may leave anything behind, but never a *)
(* device that holds the host's command and is not in step with it: a      *)
(* command gets into CmdBlock only once, when all is as it says.           *)
(***************************************************************************)
EXTENDS MassStorage, TLAPS

LEMMA DtlModType == DtlMod \in Nat \ {0}
  BY SMT DEF DtlMod

InWait == {"test", "gap", "asleep", "woken"}
OutWaits == {"received", "full"}
InWaits == {"infoSent", "send", "sent", "stalled"}
Places == {"loop", "evt", "receive", "handle", "sdRead", "sdWrite", "status", "csw"}
              \cup InWait \cup OutWaits \cup InWaits

Doing(p) == pc = p \/ (pc \in InWait /\ next = p)
DoingOf(ps) == pc \in ps \/ (pc \in InWait /\ next \in ps)

-----------------------------------------------------------------------------
(* The parts of the invariant.                                               *)

\* The types of the endpoints, of the calls, of the commands, of the numbers and
\* of the contents, and where thread and host can be.
EpTypes ==
    /\ buzy \in [Eps -> BOOLEAN] /\ waiter \in [Eps -> BOOLEAN]
    /\ armed \in [Eps -> BOOLEAN] /\ stall \in BOOLEAN
    /\ PtrOut \in Buffers \cup {"CmdBlock"}
    /\ PtrIn \in Buffers \cup {"CmdStatus", "info"}
    /\ IsReady \in BOOLEAN /\ usbReady \in BOOLEAN

CallTypes ==
    ep \in Eps /\ cur \in Buffers /\ rslt \in {"ok", "fail"} /\ rdymsg \in {"ok", "fail"}

Blocks == [tag : Tags \cup {NoTag}, op : Ops \cup {"none"}, n : 1..MaxN, dtl : 0..(DtlMod - 1)]

CmdTypes ==
    /\ CmdBlock \in Blocks /\ hcmd \in Commands
    /\ CmdStatus \in [tag : Tags \cup {NoTag}, ok : BOOLEAN]

CountTypes == left \in 0..MaxN /\ at \in 1..(MaxN + 1) /\ moved \in 0..MaxN

DataTypes == Buf \in [Buffers -> Chunks] /\ card \in [1..MaxN -> Chunks]

PlacesOK ==
    /\ pc \in Places /\ next \in OutWaits \cup InWaits \cup {"loop"}
    /\ pc \in InWait => \/ ep = "out" /\ next \in OutWaits
                        \/ ep = "in" /\ next \in InWaits
    /\ hpc \in {"off", "bus", "idle", "cbw", "data", "csw", "lost"}
    /\ verdict \in {"none", "good", "failed"} /\ struck \subseteq Faults
    /\ unmoved \subseteq Tags \cup {NoTag}
    /\ right \in BOOLEAN /\ strayed \in BOOLEAN

Types == EpTypes /\ CallTypes /\ CmdTypes /\ CountTypes /\ DataTypes /\ PlacesOK

\* The transfer stays inside the command, and the host's data phase too.
CountsInside ==
    /\ DoingOf({"sdRead", "send", "full"}) => left >= 1 /\ at + left <= MaxN + 1
    /\ pc = "sdWrite" => at + left <= MaxN
    /\ hpc = "cbw" => moved = 0 /\ right
    /\ hpc = "data" => moved < hcmd.n

\* The thread that sleeps is named at its endpoint, and nobody else is.
SleeperNamed ==
    /\ pc \in {"gap", "asleep"} => buzy[ep] \/ "gap" \in struck
    /\ pc = "asleep" => waiter[ep]
    /\ \A e \in Eps : waiter[e] => e = ep /\ pc \in {"asleep", "woken"}

\* No MassStorageReset has pretended that a transfer is over.
NotRecovered == "recover" \notin struck

\* The OUT endpoint receives what the thread's place says, and nothing while
\* the thread looks at what it has received.
OutTrue ==
    /\ armed["out"] => buzy["out"]
    /\ DoingOf(OutWaits) /\ pc \notin {"test", "gap", "asleep"} => ~armed["out"]
    /\ pc = "handle" => ~armed["out"]
    /\ Doing("received") => PtrOut = "CmdBlock"
    /\ Doing("full") /\ armed["out"] => PtrOut = cur
    /\ pc = "sdWrite" /\ armed["out"] => PtrOut = Other(cur)
    /\ armed["out"] /\ PtrOut = "CmdBlock" =>
           pc \in {"test", "gap", "asleep"} /\ next = "received"

\* The IN endpoint transmits data only until the status is sent.  A stall
\* waits for the thread, or for a status that has been started.
InTrue ==
    /\ armed["in"] /\ hpc # "csw" => buzy["in"]
    /\ armed["in"] /\ PtrIn # "CmdStatus" =>
           DoingOf({"sdRead", "send", "sent", "infoSent", "status", "stalled", "csw"})
    /\ armed["in"] /\ DoingOf({"sdRead", "send"}) => PtrIn # cur
    /\ Doing("infoSent") => PtrIn = "info"
    /\ stall => \/ Doing("stalled") \/ pc = "csw"
                \/ armed["in"] /\ buzy["in"]
    /\ (pc = "woken" /\ ep = "in") \/ pc = "send" => ~stall
    /\ (pc = "woken" /\ next = "stalled" /\ rdymsg = "fail")
          \/ (pc = "stalled" /\ rslt = "fail")
       => ~armed["in"] /\ ~stall

\* The host's next tag is new to the device.
TagsOK ==
    /\ CmdBlock.tag \in 0..hcmd.tag \cup {NoTag}
    /\ CmdStatus.tag \in 0..hcmd.tag \cup {NoTag}
    /\ hpc = "cbw" => hcmd.tag \notin {CmdBlock.tag, CmdStatus.tag}
    /\ verdict # "none" => hpc \in {"idle", "bus", "off"}

Answering == CmdStatus.tag = hcmd.tag
InCommand == hpc \in {"data", "csw", "lost"} /\ CmdBlock.tag = hcmd.tag

\* The device has answered: it waits for the next command, which cannot come
\* before the host has read the answer.
AfterAnswer ==
    /\ DoingOf({"status", "stalled", "csw", "loop", "evt", "receive", "received"})
    /\ Doing("received") => pc \in {"test", "gap", "asleep"} /\ (pc = "test" => buzy["out"])

\* The device has got the command and not begun with it.
Begins ==
    /\ Doing("received") \/ pc = "handle"
    /\ ~armed["out"] /\ CmdBlock.dtl = CmdBlock.n
    /\ hpc = "data" => right /\ moved = 0

\* Chunk k is in buffer b, or on its way there.
Arrives(b, k) ==
    \/ armed["out"] /\ PtrOut = b /\ moved = k - 1
    \/ ~armed["out"] /\ moved = k /\ Buf[b] = Chunk(hcmd.tag, k)

\* No SDRead or SDWrite of the command was late.
Clean == hcmd.tag \notin unmoved

Written(k) == Clean => card[k] = Chunk(hcmd.tag, k)

\* CmdWrite10: what the card holds, and what is in the buffers.
Writes ==
    /\ Doing("full") \/ pc = "sdWrite"
    /\ CmdBlock.dtl = hcmd.n - at + 1 /\ at <= hcmd.n
    /\ \A k \in 1..(at - 1) : Written(k)
    /\ Doing("full") => left = hcmd.n - at + 1 /\ Arrives(cur, at)
    /\ pc = "sdWrite" =>
           /\ left = hcmd.n - at
           /\ Buf[cur] = Chunk(hcmd.tag, at)
           /\ left = 0 => moved = at /\ ~armed["out"]
           /\ left > 0 => Arrives(Other(cur), at + 1)

\* The chunk before address k is sent, or has arrived.
Leaves(k) ==
    \/ /\ armed["in"] /\ buzy["in"] /\ PtrIn = Other(cur)
       /\ Clean => Buf[Other(cur)] = OnCard(k - 1)
       /\ moved = k - 2
       /\ DoingOf({"send", "sent"}) => pc \in {"test", "gap", "asleep"}
    \/ ~armed["in"] /\ moved = k - 1

\* The host takes a chunk for the status, and then nothing more.
Doomed ==
    /\ armed["in"] /\ buzy["in"] /\ PtrIn = Other(cur)
    /\ pc \in {"sdRead", "test", "gap", "asleep"}

\* CmdRead10: how far the chunks are that the host has got and the one under way.
Reads ==
    /\ DoingOf({"sdRead", "send", "sent"}) /\ ~armed["out"]
    /\ at + left = hcmd.n + 1 /\ (left = 0 <=> Doing("sent"))
    /\ Doing("send") /\ Clean => Buf[cur] = OnCard(at)
    /\ at = 1 /\ hpc = "data" => right /\ moved = 0
    /\ at = 1 /\ armed["in"] => PtrIn = "CmdStatus"
    /\ at > 1 => ~stall
    /\ at > 1 /\ hpc = "data" => (Clean => right) /\ Leaves(at)
    /\ at > 1 /\ hpc = "csw" => Doomed \/ (left = 0 /\ (Clean => right) /\ moved = hcmd.n)

\* CmdInquiry and its like.
Informs ==
    /\ Doing("infoSent") /\ ~armed["out"]
    /\ hpc = "data" => right
    /\ hpc = "data" \/ (hpc = "csw" /\ ~right) =>
           armed["in"] /\ buzy["in"] /\ pc \in {"test", "gap", "asleep"}
    /\ hpc = "csw" /\ ~right => ~stall

\* Device and host are in step when the device holds the host's command: in
\* general, after the answer, and before it for each kind of command.
Together ==
    InCommand =>
        /\ CmdBlock.op = hcmd.op /\ CmdBlock.n = hcmd.n
        /\ pc = "woken" => rdymsg = "ok"
        /\ pc \in {"received", "full"} => rslt = "ok"
        /\ hcmd.op = "write" => (hpc = "data" <=> moved < hcmd.n)
        /\ hcmd.op \in {"none", "bad"} => hpc # "data"

Answers == InCommand /\ Answering => AfterAnswer
InWork(ops) == InCommand /\ ~Answering /\ hcmd.op \in ops
WriteWorks == InWork({"write"}) => (Begins /\ moved = 0) \/ Writes
ReadWorks == InWork({"read"}) => Begins \/ Reads
InfoWorks == InWork({"info"}) => /\ Begins \/ Informs
                                 /\ hpc = "csw" /\ ~right => ~stall
NoneWorks == InWork({"none", "bad"}) => Begins

InStep == Together /\ Answers /\ WriteWorks /\ ReadWorks /\ InfoWorks /\ NoneWorks

\* The host has been told, or will be, that its command has succeeded.
SaysGood ==
    verdict = "good" \/ (hpc \in {"data", "csw"} /\ Answering /\ CmdStatus.ok)

\* Then it has, and the device has nothing left to do with it: CmdBlock is spent,
\* should a pulled cable make the thread handle it again.
Done ==
    SaysGood =>
        /\ hpc # "data"
        /\ hcmd.op = "info" \/ (hcmd.op = "read" /\ Clean) => right
        /\ hcmd.op = "read" => moved = hcmd.n
        /\ hcmd.op = "write" =>
               /\ \A k \in 1..hcmd.n : Written(k)
               /\ CmdBlock.tag = hcmd.tag /\ CmdBlock.op = "write"
               /\ CmdBlock.dtl # CmdBlock.n
               /\ DoingOf({"status", "stalled", "csw", "loop", "evt", "receive",
                           "received", "handle"})

\* Until a fault strikes the device holds the host's command whenever there is
\* one, and waits for the next one otherwise.
Idle ==
    /\ DoingOf({"loop", "evt", "receive", "received"})
    /\ Doing("received") => pc \in {"test", "gap", "asleep"} /\ (pc = "test" => buzy["out"])
    /\ ~Doing("received") => ~armed["out"]
    /\ ~armed["in"] /\ ~stall

InOrder ==
    ~Disturbed =>
        /\ ~strayed
        /\ hpc \in {"off", "bus"} =>
               Idle /\ pc \in {"loop", "evt"} /\ ~IsReady /\ ~usbReady
        /\ hpc \in {"idle", "cbw"} => Idle
        /\ hpc \in {"data", "csw", "lost"} =>
               /\ CmdBlock.tag = hcmd.tag
               /\ armed["in"] /\ PtrIn = "CmdStatus" =>
                      Answering /\ DoingOf({"loop", "evt", "receive", "received"})
               /\ Answering /\ hcmd.op = "write" => hpc # "data"
               /\ Answering /\ ~Doing("received") => ~armed["out"]

IInv ==
    /\ Types /\ CountsInside /\ SleeperNamed
    /\ NotRecovered => OutTrue /\ InTrue /\ TagsOK /\ InStep /\ Done /\ InOrder

-----------------------------------------------------------------------------
(* Types.                                                                    *)

USE DEF usbVars, callVars, cmdVars, hostState, hostVars

LEMMA ChunkTypes ==
    /\ Nothing \in Chunks
    /\ \A k \in 1..MaxN : OnCard(k) \in Chunks
    /\ \A t \in Tags, k \in 0..MaxN : Chunk(t, k) \in Chunks
  BY MaxNAssumption, MaxCmdsAssumption, DtlModType DEF Nothing, OnCard, Chunk,
     Chunks, Tags

LEMMA LessIsLess == \A d \in 1..(DtlMod - 1) : Less(d) = d - 1
  BY DtlModType DEF Less

LEMMA EpTypesStep ==
    ASSUME EpTypes, CallTypes, Next
    PROVE  EpTypes'
<1> USE DEF EpTypes, CallTypes, Eps, Buffers
<1> USE DEF StartReceiveToBuf, StartTransmitBuf, Other, Resume, DeviceReset
<1>1. CASE Test \/ Suspend \/ Wake \/ Loop \/ Configured \/ Receive \/ Received
  BY <1>1 DEF Test, Suspend, Wake, Loop, Configured, Receive, Received
<1>2. CASE HandleNone \/ HandleInfo \/ InfoSent \/ Refuse \/ SendStatus
            \/ Stalled \/ Csw
  BY <1>2 DEF HandleNone, HandleInfo, InfoSent, Refuse, SendStatus, Stalled, Csw
<1>3. CASE HandleRead \/ (\E end \in SdEnds : SdReadEnds(end)) \/ Send \/ Sent
  BY <1>3 DEF HandleRead, SdReadEnds, Send, Sent
<1>4. CASE HandleWrite \/ Full \/ ReceptionFails
            \/ (\E end \in SdEnds : SdWriteEnds(end))
  BY <1>4 DEF HandleWrite, Full, ReceptionFails, SdWriteEnds
<1>5. CASE HostSendsCbw \/ HostSendsChunk \/ HostReads \/ HostClearsStall
  BY <1>5 DEF HostSendsCbw, HostSendsChunk, HostReads, HostClearsStall
<1>6. CASE (\E o \in Ops, k \in 1..MaxN : HostCommand(o, k)) \/ HostConfigures
            \/ Plug \/ HostResets \/ HostRecovers \/ Unplug
  BY <1>6 DEF HostCommand, HostConfigures, Plug, HostResets, HostRecovers, Unplug
<1> QED
  BY <1>1, <1>2, <1>3, <1>4, <1>5, <1>6 DEF Next, Thread, HostGoesOn

LEMMA CallTypesStep ==
    ASSUME CallTypes, Next
    PROVE  CallTypes'
<1> USE DEF CallTypes, Eps, Buffers
<1> USE DEF Goto, Await, Transfer, SdStrikes, Other, Resume, DeviceReset
<1>1. CASE Test \/ Suspend \/ Wake \/ Loop \/ Configured \/ Receive \/ Received
  BY <1>1 DEF Test, Suspend, Wake, Loop, Configured, Receive, Received
<1>2. CASE HandleNone \/ HandleInfo \/ InfoSent \/ Refuse \/ SendStatus
            \/ Stalled \/ Csw
  BY <1>2 DEF HandleNone, HandleInfo, InfoSent, Refuse, SendStatus, Stalled, Csw
<1>3. CASE HandleRead \/ (\E end \in SdEnds : SdReadEnds(end)) \/ Send \/ Sent
  BY <1>3 DEF HandleRead, SdReadEnds, Send, Sent
<1>4. CASE HandleWrite \/ Full \/ ReceptionFails
            \/ (\E end \in SdEnds : SdWriteEnds(end))
  BY <1>4 DEF HandleWrite, Full, ReceptionFails, SdWriteEnds
<1>5. CASE HostSendsCbw \/ HostSendsChunk \/ HostReads \/ HostClearsStall
  BY <1>5 DEF HostSendsCbw, HostSendsChunk, HostReads, HostClearsStall
<1>6. CASE (\E o \in Ops, k \in 1..MaxN : HostCommand(o, k)) \/ HostConfigures
            \/ Plug \/ HostResets \/ HostRecovers \/ Unplug
  BY <1>6 DEF HostCommand, HostConfigures, Plug, HostResets, HostRecovers, Unplug
<1> QED
  BY <1>1, <1>2, <1>3, <1>4, <1>5, <1>6 DEF Next, Thread, HostGoesOn

LEMMA CmdTypesStep ==
    ASSUME CmdTypes, Next
    PROVE  CmdTypes'
<1> USE MaxNAssumption, MaxCmdsAssumption, DtlModType
<1> USE DEF CmdTypes, Blocks, Commands
<1>1. \A ok \in BOOLEAN : Status(ok) =>
            CmdStatus' \in [tag : Tags \cup {NoTag}, ok : BOOLEAN]
  BY DEF Status
<1> USE DEF Transfer
<1>2. CASE Test \/ Suspend \/ Wake \/ Loop \/ Configured \/ Receive \/ Received
  BY <1>2, <1>1 DEF Test, Suspend, Wake, Loop, Configured, Receive, Received
<1>3. CASE HandleInfo \/ InfoSent \/ Refuse \/ SendStatus \/ Stalled \/ Csw
  BY <1>3, <1>1 DEF HandleInfo, InfoSent, Refuse, SendStatus, Stalled, Csw
<1>4. CASE HandleNone
  <2>1. CmdBlock' \in Blocks
    BY <1>4 DEF HandleNone
  <2>2. CmdStatus' \in [tag : Tags \cup {NoTag}, ok : BOOLEAN] /\ hcmd' = hcmd
    BY <1>4, <1>1 DEF HandleNone
  <2> QED
    BY <2>1, <2>2
<1>5. CASE HandleRead \/ (\E end \in SdEnds : SdReadEnds(end)) \/ Sent
  BY <1>5, <1>1 DEF HandleRead, SdReadEnds, Sent
<1>6. CASE Send
  <2>1. Less(CmdBlock.dtl) \in 0..(DtlMod - 1)
    BY DEF Less
  <2> QED
    BY <1>6, <2>1 DEF Send
<1>7. CASE HandleWrite \/ Full \/ ReceptionFails
  BY <1>7, <1>1 DEF HandleWrite, Full, ReceptionFails
<1>8. CASE \E end \in SdEnds : SdWriteEnds(end)
  <2>1. Less(CmdBlock.dtl) \in 0..(DtlMod - 1)
    BY DEF Less
  <2>2. CmdBlock' \in Blocks
    BY <1>8, <2>1 DEF SdWriteEnds
  <2>3. CmdStatus' \in [tag : Tags \cup {NoTag}, ok : BOOLEAN] /\ hcmd' = hcmd
    BY <1>8, <1>1 DEF SdWriteEnds
  <2> QED
    BY <2>2, <2>3
<1>9. CASE HostReads \/ HostClearsStall
  BY <1>9, <1>1 DEF HostReads, HostClearsStall
<1>10. CASE HostSendsCbw
  <2>1. hcmd.tag \in Tags /\ hcmd.op \in Ops \cup {"none"} /\ hcmd.n \in 0..(DtlMod - 1)
    BY DEF Tags
  <2> QED
    BY <1>10, <2>1 DEF HostSendsCbw
<1>11. CASE HostSendsChunk
  <2> QED
    BY <1>11 DEF HostSendsChunk, NoTag
<1>12. CASE HostConfigures \/ Plug \/ HostResets \/ HostRecovers \/ Unplug
  BY <1>12, <1>1 DEF HostConfigures, Plug, HostResets, HostRecovers, Unplug
<1>13. CASE \E o \in Ops, k \in 1..MaxN : HostCommand(o, k)
  <2> QED
    BY <1>13 DEF HostCommand, Tags
<1> QED
  BY <1>2, <1>3, <1>4, <1>5, <1>6, <1>7, <1>8, <1>9, <1>10, <1>11, <1>12, <1>13
     DEF Next, Thread, HostGoesOn

\* The counts stay inside the command, for the thread and for the host.
LEMMA CountTypesStep ==
    ASSUME CmdTypes, CountTypes, PlacesOK, CountsInside, Next
    PROVE  CountTypes' /\ CountsInside'
<1> USE MaxNAssumption
<1> USE DEF CmdTypes, Blocks, Commands, CountTypes, CountsInside, PlacesOK, Places,
   InWait, OutWaits, InWaits, Doing, DoingOf
<1> USE DEF Goto, StartReceiveToBuf, Await, Status, StartTransmitBuf, Transfer, Strike,
   SdStrikes,
   Less, Other, Interrupt, AfterCbw, Resume, TakeData, TakeStatus, DeviceReset
<1>1. CASE Test \/ Suspend \/ Wake \/ Loop \/ Configured \/ Receive \/ Received
  BY <1>1 DEF Test, Suspend, Wake, Loop, Configured, Receive, Received
<1>2. CASE HandleNone \/ HandleInfo \/ InfoSent \/ Refuse \/ SendStatus
            \/ Stalled \/ Csw
  BY <1>2 DEF HandleNone, HandleInfo, InfoSent, Refuse, SendStatus, Stalled, Csw
<1>3. CASE HandleRead \/ (\E end \in SdEnds : SdReadEnds(end)) \/ Send \/ Sent
  BY <1>3 DEF HandleRead, SdReadEnds, Send, Sent
<1>4. CASE HandleWrite \/ Full \/ ReceptionFails
            \/ (\E end \in SdEnds : SdWriteEnds(end))
  BY <1>4 DEF HandleWrite, Full, ReceptionFails, SdWriteEnds
<1>5. CASE HostSendsCbw \/ HostSendsChunk \/ HostReads \/ HostClearsStall
  BY <1>5 DEF HostSendsCbw, HostSendsChunk, HostReads, HostClearsStall
<1>6. CASE (\E o \in Ops, k \in 1..MaxN : HostCommand(o, k)) \/ HostConfigures
            \/ Plug \/ HostResets \/ HostRecovers \/ Unplug
  BY <1>6 DEF HostCommand, HostConfigures, Plug, HostResets, HostRecovers, Unplug
<1> QED
  BY <1>1, <1>2, <1>3, <1>4, <1>5, <1>6 DEF Next, Thread, HostGoesOn

\* Buffers and card hold chunks.
LEMMA DataTypesStep ==
    ASSUME CmdTypes, CountTypes, PlacesOK, CountsInside, DataTypes, cur \in
           Buffers, PtrOut \in Buffers \cup {"CmdBlock"}, Next
    PROVE  DataTypes'
<1> USE MaxNAssumption, MaxCmdsAssumption
<1> USE DEF DataTypes
<1>1. CASE Test \/ Suspend \/ Wake \/ Loop \/ Configured \/ Receive \/ Received
  BY <1>1 DEF Test, Suspend, Wake, Loop, Configured, Receive, Received
<1>2. CASE HandleNone \/ HandleInfo \/ InfoSent \/ Refuse \/ SendStatus
            \/ Stalled \/ Csw
  BY <1>2 DEF HandleNone, HandleInfo, InfoSent, Refuse, SendStatus, Stalled, Csw
<1>3. CASE HandleRead \/ Send \/ Sent
  BY <1>3 DEF HandleRead, Send, Sent
<1>4. CASE \E end \in SdEnds : SdReadEnds(end)
  <2>1. pc = "sdRead" => OnCard(at) \in Chunks
    BY ChunkTypes DEF CountTypes, CountsInside, Doing, DoingOf
  <2> QED
    BY <1>4, <2>1 DEF SdReadEnds
<1>5. CASE HandleWrite \/ Full \/ ReceptionFails
  BY <1>5 DEF HandleWrite, Full, ReceptionFails
<1>6. CASE \E end \in SdEnds : SdWriteEnds(end)
  <2> QED
    BY <1>6 DEF SdWriteEnds
<1>7. CASE HostReads \/ HostClearsStall
  BY <1>7 DEF HostReads, HostClearsStall
<1>8. CASE HostSendsCbw
  <2> QED
    BY <1>8, ChunkTypes DEF HostSendsCbw
<1>9. CASE HostSendsChunk
  <2>1. hpc = "data" => Chunk(hcmd.tag, moved + 1) \in Chunks
    BY ChunkTypes DEF CmdTypes, Commands, CountTypes, CountsInside
  <2> QED
    BY <1>9, <2>1 DEF HostSendsChunk
<1>10. CASE (\E o \in Ops, k \in 1..MaxN : HostCommand(o, k)) \/ HostConfigures
            \/ Plug \/ HostResets \/ HostRecovers \/ Unplug
  BY <1>10 DEF HostCommand, HostConfigures, Plug, HostResets, HostRecovers, Unplug
<1> QED
  BY <1>1, <1>2, <1>3, <1>4, <1>5, <1>6, <1>7, <1>8, <1>9, <1>10 DEF Next, Thread,
     HostGoesOn

\* Thread and host stay at their places.
LEMMA PlacesStep ==
    ASSUME PlacesOK, CmdBlock.tag \in Tags \cup {NoTag}, Next
    PROVE  PlacesOK'
<1> USE DEF PlacesOK, Places, InWait, OutWaits, InWaits
<1> USE DEF Goto, StartReceiveToBuf, Await, Status, StartTransmitBuf, Transfer, Strike,
   SdStrikes,
   Less, Other, Interrupt, Resume, TakeData, TakeStatus, DeviceReset
<1>1. CASE Test \/ Suspend \/ Wake \/ Loop \/ Configured \/ Receive \/ Received
  BY <1>1 DEF Test, Suspend, Wake, Loop, Configured, Receive, Received
<1>2. CASE HandleNone \/ HandleInfo \/ InfoSent \/ Refuse \/ SendStatus
            \/ Stalled \/ Csw
  BY <1>2 DEF HandleNone, HandleInfo, InfoSent, Refuse, SendStatus, Stalled, Csw
<1>3. CASE HandleRead \/ (\E end \in SdEnds : SdReadEnds(end)) \/ Send \/ Sent
  BY <1>3 DEF HandleRead, SdReadEnds, Send, Sent
<1>4. CASE HandleWrite \/ Full \/ ReceptionFails
            \/ (\E end \in SdEnds : SdWriteEnds(end))
  BY <1>4 DEF HandleWrite, Full, ReceptionFails, SdWriteEnds
<1>5. CASE HostClearsStall
  BY <1>5 DEF HostClearsStall
<1>6. CASE HostSendsCbw
  <2>1. AfterCbw(hcmd.op) \in {"data", "csw"}
    BY DEF AfterCbw
  <2> QED
    BY <1>6, <2>1 DEF HostSendsCbw
<1>7. CASE HostSendsChunk
  BY <1>7 DEF HostSendsChunk
<1>8. CASE HostReads
  <2>1. right' \in BOOLEAN
    BY <1>8 DEF HostReads
  <2>2. struck' \subseteq Faults /\ unmoved' = unmoved
    BY <1>8 DEF HostReads
  <2>3. /\ hpc' \in {"data", "csw", "idle", "lost"}
        /\ verdict' \in {"none", "good", "failed"}
        /\ pc' \in {pc, "woken"} /\ (pc' # pc => pc = "asleep")
        /\ UNCHANGED <<ep, next, strayed>>
    BY <1>8 DEF HostReads
  <2> QED
    BY <2>1, <2>2, <2>3
<1>9. CASE HostConfigures \/ Plug \/ HostResets \/ HostRecovers \/ Unplug
  BY <1>9 DEF HostConfigures, Plug, HostResets, HostRecovers, Unplug
<1>10. CASE \E o \in Ops, k \in 1..MaxN : HostCommand(o, k)
  BY <1>10 DEF HostCommand
<1> QED
  BY <1>1, <1>2, <1>3, <1>4, <1>5, <1>6, <1>7, <1>8, <1>9, <1>10 DEF Next, Thread,
     HostGoesOn

\* The types of all, and the type invariant of the module.
LEMMA TypesStep ==
    ASSUME Types, CountsInside, Next
    PROVE  Types' /\ CountsInside'
<1> USE DEF Types
<1>1. cur \in Buffers /\ PtrOut \in Buffers \cup {"CmdBlock"}
  BY DEF CallTypes, EpTypes
<1>2. CmdBlock.tag \in Tags \cup {NoTag}
  BY DEF CmdTypes, Blocks
<1> QED
  BY <1>1, <1>2, EpTypesStep, CallTypesStep, CmdTypesStep, CountTypesStep, DataTypesStep,
     PlacesStep

LEMMA TypesMean == Types => TypeOK
  BY DEF Types, EpTypes, CallTypes, CmdTypes, CountTypes, DataTypes, PlacesOK, Blocks,
     TypeOK

-----------------------------------------------------------------------------
(* Sleep and endpoints.                                                      *)

\* WaitUntilReady tests Buzy before it sleeps, and an interrupt in between is a fault.
LEMMA SleeperStep ==
    ASSUME EpTypes, CallTypes, PlacesOK, SleeperNamed, Next
    PROVE  SleeperNamed'
<1> USE DEF EpTypes, CallTypes, SleeperNamed, Eps, PlacesOK, Places, InWait, OutWaits,
   InWaits
<1> USE DEF Goto, StartReceiveToBuf, Await, StartTransmitBuf, Strike, Other, Interrupt,
   Resume, DeviceReset
<1>1. CASE Test \/ Suspend \/ Wake \/ Loop \/ Configured \/ Receive \/ Received
  BY <1>1 DEF Test, Suspend, Wake, Loop, Configured, Receive, Received
<1>2. CASE HandleNone \/ HandleInfo \/ InfoSent \/ Refuse \/ SendStatus
            \/ Stalled \/ Csw
  BY <1>2 DEF HandleNone, HandleInfo, InfoSent, Refuse, SendStatus, Stalled, Csw
<1>3. CASE HandleRead \/ (\E end \in SdEnds : SdReadEnds(end)) \/ Send \/ Sent
  BY <1>3 DEF HandleRead, SdReadEnds, Send, Sent
<1>4. CASE HandleWrite \/ Full \/ ReceptionFails
            \/ (\E end \in SdEnds : SdWriteEnds(end))
  BY <1>4 DEF HandleWrite, Full, ReceptionFails, SdWriteEnds
<1>5. CASE HostSendsCbw \/ HostSendsChunk \/ HostReads \/ HostClearsStall
  BY <1>5 DEF HostSendsCbw, HostSendsChunk, HostReads, HostClearsStall
<1>6. CASE (\E o \in Ops, k \in 1..MaxN : HostCommand(o, k)) \/ HostConfigures
            \/ Plug \/ HostResets \/ HostRecovers \/ Unplug
  BY <1>6 DEF HostCommand, HostConfigures, Plug, HostResets, HostRecovers, Unplug
<1> QED
  BY <1>1, <1>2, <1>3, <1>4, <1>5, <1>6 DEF Next, Thread, HostGoesOn

\* The OUT endpoint follows the thread's place.
LEMMA OutStep ==
    ASSUME EpTypes, CallTypes, PlacesOK, SleeperNamed, NotRecovered, OutTrue,
           Next
    PROVE  NotRecovered' => OutTrue'
<1> USE DEF EpTypes, CallTypes, SleeperNamed, OutTrue, NotRecovered, Eps, Buffers,
   PlacesOK, Places, InWait, OutWaits, InWaits, Doing, DoingOf
<1> USE DEF Goto, StartReceiveToBuf, Await, StartTransmitBuf, Transfer, Strike, SdStrikes, Other,
   Interrupt, Resume, DeviceReset
<1>1. CASE Test \/ Suspend \/ Wake \/ Loop \/ Configured \/ Receive \/ Received
  BY <1>1 DEF Test, Suspend, Wake, Loop, Configured, Receive, Received
<1>2. CASE HandleNone \/ HandleInfo \/ InfoSent \/ Refuse \/ SendStatus
            \/ Stalled \/ Csw
  BY <1>2 DEF HandleNone, HandleInfo, InfoSent, Refuse, SendStatus, Stalled, Csw
<1>3. CASE HandleRead \/ (\E end \in SdEnds : SdReadEnds(end)) \/ Send \/ Sent
  BY <1>3 DEF HandleRead, SdReadEnds, Send, Sent
<1>4. CASE HandleWrite \/ Full \/ ReceptionFails
            \/ (\E end \in SdEnds : SdWriteEnds(end))
  BY <1>4 DEF HandleWrite, Full, ReceptionFails, SdWriteEnds
<1>5. CASE HostSendsCbw \/ HostSendsChunk \/ HostReads \/ HostClearsStall
  BY <1>5 DEF HostSendsCbw, HostSendsChunk, HostReads, HostClearsStall
<1>6. CASE (\E o \in Ops, k \in 1..MaxN : HostCommand(o, k)) \/ HostConfigures
            \/ Plug \/ HostResets \/ HostRecovers \/ Unplug
  BY <1>6 DEF HostCommand, HostConfigures, Plug, HostResets, HostRecovers, Unplug
<1> QED
  BY <1>1, <1>2, <1>3, <1>4, <1>5, <1>6 DEF Next, Thread, HostGoesOn

\* The IN endpoint follows the thread's place, as long as nobody pretends.
LEMMA InTrueStep ==
    ASSUME EpTypes, CallTypes, PlacesOK, SleeperNamed, NotRecovered, InTrue,
           Next
    PROVE  NotRecovered' => InTrue'
<1> USE DEF EpTypes, CallTypes, SleeperNamed, InTrue, NotRecovered, Eps, Buffers,
   PlacesOK, Places, InWait, OutWaits, InWaits, Doing, DoingOf
<1> USE DEF Goto, StartReceiveToBuf, Await, StartTransmitBuf, Transfer, Strike, SdStrikes, Other,
   Interrupt, AfterCbw, Resume, TakeData, TakeStatus, DeviceReset
<1>1. CASE Test \/ Suspend \/ Wake \/ Loop \/ Configured \/ Receive \/ Received
  BY <1>1 DEF Test, Suspend, Wake, Loop, Configured, Receive, Received
<1>2. CASE HandleNone \/ HandleInfo \/ InfoSent \/ Refuse \/ SendStatus
            \/ Stalled \/ Csw
  BY <1>2 DEF HandleNone, HandleInfo, InfoSent, Refuse, SendStatus, Stalled, Csw
<1>3. CASE HandleRead \/ (\E end \in SdEnds : SdReadEnds(end)) \/ Send \/ Sent
  BY <1>3 DEF HandleRead, SdReadEnds, Send, Sent
<1>4. CASE HandleWrite \/ Full \/ ReceptionFails
            \/ (\E end \in SdEnds : SdWriteEnds(end))
  BY <1>4 DEF HandleWrite, Full, ReceptionFails, SdWriteEnds
<1>5. CASE HostSendsCbw \/ HostSendsChunk \/ HostReads \/ HostClearsStall
  BY <1>5 DEF HostSendsCbw, HostSendsChunk, HostReads, HostClearsStall
<1>6. CASE (\E o \in Ops, k \in 1..MaxN : HostCommand(o, k)) \/ HostConfigures
            \/ Plug \/ HostResets \/ HostRecovers \/ Unplug
  BY <1>6 DEF HostCommand, HostConfigures, Plug, HostResets, HostRecovers, Unplug
<1> QED
  BY <1>1, <1>2, <1>3, <1>4, <1>5, <1>6 DEF Next, Thread, HostGoesOn

\* A tag is new until its command arrives.
LEMMA TagsStep ==
    ASSUME CmdTypes, PlacesOK, TagsOK, Next
    PROVE  TagsOK'
<1> USE MaxCmdsAssumption
<1> USE DEF CmdTypes, Blocks, Commands, PlacesOK, TagsOK, Tags, NoTag, HostWorries
<1> USE DEF Status, Transfer, AfterCbw, TakeData, TakeStatus
<1>1. CASE Test \/ Suspend \/ Wake \/ Loop \/ Configured \/ Receive \/ Received
  BY <1>1 DEF Test, Suspend, Wake, Loop, Configured, Receive, Received
<1>2. CASE HandleNone \/ HandleInfo \/ InfoSent \/ Refuse \/ SendStatus
            \/ Stalled \/ Csw
  BY <1>2 DEF HandleNone, HandleInfo, InfoSent, Refuse, SendStatus, Stalled, Csw
<1>3. CASE HandleRead \/ (\E end \in SdEnds : SdReadEnds(end)) \/ Send \/ Sent
  BY <1>3 DEF HandleRead, SdReadEnds, Send, Sent
<1>4. CASE HandleWrite \/ Full \/ ReceptionFails
            \/ (\E end \in SdEnds : SdWriteEnds(end))
  BY <1>4 DEF HandleWrite, Full, ReceptionFails, SdWriteEnds
<1>5. CASE HostSendsCbw \/ HostSendsChunk \/ HostReads \/ HostClearsStall
  BY <1>5 DEF HostSendsCbw, HostSendsChunk, HostReads, HostClearsStall
<1>6. CASE (\E o \in Ops, k \in 1..MaxN : HostCommand(o, k)) \/ HostConfigures
            \/ Plug \/ HostResets \/ HostRecovers \/ Unplug
  BY <1>6 DEF HostCommand, HostConfigures, Plug, HostResets, HostRecovers, Unplug
<1> QED
  BY <1>1, <1>2, <1>3, <1>4, <1>5, <1>6 DEF Next, Thread, HostGoesOn

-----------------------------------------------------------------------------
(* Device and host in step.                                                  *)

\* What holds for every kind of command.
LEMMA TogetherStep ==
    ASSUME EpTypes, CallTypes, CmdTypes, CountTypes, PlacesOK, CountsInside,
           SleeperNamed, NotRecovered, OutTrue, InTrue, TagsOK, InStep, Next
    PROVE  NotRecovered' => Together'
<1> USE MaxNAssumption, MaxCmdsAssumption
<1> USE DEF EpTypes, CallTypes, CmdTypes, CountTypes, Blocks, Commands, Eps, Buffers,
   CountsInside, SleeperNamed, NotRecovered, OutTrue, InTrue, TagsOK, Tags,
   NoTag, PlacesOK, Places, InWait, OutWaits, InWaits, Doing, DoingOf,
   InCommand, Answering, Together, InStep, WriteWorks, Begins, Writes, Arrives,
   InWork
<1> USE DEF Goto, StartReceiveToBuf, Await, Status, StartTransmitBuf, Transfer, Strike,
   SdStrikes,
   Less, Other, Interrupt, AfterCbw, Resume, TakeData, TakeStatus, DeviceReset
<1>1. CASE Test \/ Suspend \/ Wake \/ Loop \/ Configured \/ Receive \/ Received
  BY <1>1 DEF Test, Suspend, Wake, Loop, Configured, Receive, Received
<1>2. CASE HandleNone \/ HandleInfo \/ InfoSent \/ Refuse \/ SendStatus
            \/ Stalled \/ Csw
  BY <1>2 DEF HandleNone, HandleInfo, InfoSent, Refuse, SendStatus, Stalled, Csw
<1>3. CASE HandleRead \/ (\E end \in SdEnds : SdReadEnds(end)) \/ Send \/ Sent
  BY <1>3 DEF HandleRead, SdReadEnds, Send, Sent
<1>4. CASE HandleWrite \/ Full \/ ReceptionFails
            \/ (\E end \in SdEnds : SdWriteEnds(end))
  BY <1>4 DEF HandleWrite, Full, ReceptionFails, SdWriteEnds
<1>5. CASE HostSendsCbw \/ HostSendsChunk \/ HostReads \/ HostClearsStall
  BY <1>5 DEF HostSendsCbw, HostSendsChunk, HostReads, HostClearsStall
<1>6. CASE (\E o \in Ops, k \in 1..MaxN : HostCommand(o, k)) \/ HostConfigures
            \/ Plug \/ HostResets \/ HostRecovers \/ Unplug
  BY <1>6 DEF HostCommand, HostConfigures, Plug, HostResets, HostRecovers, Unplug
<1> QED
  BY <1>1, <1>2, <1>3, <1>4, <1>5, <1>6 DEF Next, Thread, HostGoesOn

\* The thread that has answered waits for the next command.
LEMMA AnswersStep ==
    ASSUME EpTypes, CallTypes, CmdTypes, CountTypes, PlacesOK, CountsInside,
           SleeperNamed, NotRecovered, OutTrue, InTrue, TagsOK, InStep, Next
    PROVE  NotRecovered' => Answers'
<1> USE MaxNAssumption, MaxCmdsAssumption
<1> USE DEF EpTypes, CallTypes, CmdTypes, CountTypes, Blocks, Commands, Eps, Buffers,
   CountsInside, SleeperNamed, NotRecovered, OutTrue, InTrue, TagsOK, Tags,
   NoTag, PlacesOK, Places, InWait, OutWaits, InWaits, Doing, DoingOf,
   InCommand, Answering, Together, InStep, Answers, AfterAnswer
<1> USE DEF Goto, StartReceiveToBuf, Await, Status, StartTransmitBuf, Transfer, Strike,
   SdStrikes,
   Less, Other, Interrupt, AfterCbw, Resume, TakeData, TakeStatus, DeviceReset
<1>1. CASE Test \/ Suspend \/ Wake \/ Loop \/ Configured \/ Receive \/ Received
  BY <1>1 DEF Test, Suspend, Wake, Loop, Configured, Receive, Received
<1>2. CASE HandleNone \/ HandleInfo \/ InfoSent \/ Refuse \/ SendStatus
            \/ Stalled \/ Csw
  BY <1>2 DEF HandleNone, HandleInfo, InfoSent, Refuse, SendStatus, Stalled, Csw
<1>3. CASE HandleRead \/ (\E end \in SdEnds : SdReadEnds(end)) \/ Send \/ Sent
  BY <1>3 DEF HandleRead, SdReadEnds, Send, Sent
<1>4. CASE HandleWrite \/ Full \/ ReceptionFails
            \/ (\E end \in SdEnds : SdWriteEnds(end))
  BY <1>4 DEF HandleWrite, Full, ReceptionFails, SdWriteEnds
<1>5. CASE HostSendsCbw \/ HostSendsChunk \/ HostReads \/ HostClearsStall
  BY <1>5 DEF HostSendsCbw, HostSendsChunk, HostReads, HostClearsStall
<1>6. CASE (\E o \in Ops, k \in 1..MaxN : HostCommand(o, k)) \/ HostConfigures
            \/ Plug \/ HostResets \/ HostRecovers \/ Unplug
  BY <1>6 DEF HostCommand, HostConfigures, Plug, HostResets, HostRecovers, Unplug
<1> QED
  BY <1>1, <1>2, <1>3, <1>4, <1>5, <1>6 DEF Next, Thread, HostGoesOn

\* A command without data is answered at once.
LEMMA NoneStep ==
    ASSUME EpTypes, CallTypes, CmdTypes, CountTypes, PlacesOK, CountsInside,
           SleeperNamed, NotRecovered, OutTrue, InTrue, TagsOK, InStep, Next
    PROVE  NotRecovered' => NoneWorks'
<1> USE MaxNAssumption, MaxCmdsAssumption
<1> USE DEF EpTypes, CallTypes, CmdTypes, CountTypes, Blocks, Commands, Eps, Buffers,
   CountsInside, SleeperNamed, NotRecovered, OutTrue, InTrue, TagsOK, Tags,
   NoTag, PlacesOK, Places, InWait, OutWaits, InWaits, Doing, DoingOf,
   InCommand, Answering, Together, InStep, NoneWorks, InWork, Begins
<1> USE DEF Goto, StartReceiveToBuf, Await, Status, StartTransmitBuf, Transfer, Strike,
   SdStrikes,
   Less, Other, Interrupt, AfterCbw, Resume, TakeData, TakeStatus, DeviceReset
<1>1. CASE Test \/ Suspend \/ Wake \/ Loop \/ Configured \/ Receive \/ Received
  BY <1>1 DEF Test, Suspend, Wake, Loop, Configured, Receive, Received
<1>2. CASE HandleNone \/ HandleInfo \/ InfoSent \/ Refuse \/ SendStatus
            \/ Stalled \/ Csw
  BY <1>2 DEF HandleNone, HandleInfo, InfoSent, Refuse, SendStatus, Stalled, Csw
<1>3. CASE HandleRead \/ (\E end \in SdEnds : SdReadEnds(end)) \/ Send \/ Sent
  BY <1>3 DEF HandleRead, SdReadEnds, Send, Sent
<1>4. CASE HandleWrite \/ Full \/ ReceptionFails
            \/ (\E end \in SdEnds : SdWriteEnds(end))
  BY <1>4 DEF HandleWrite, Full, ReceptionFails, SdWriteEnds
<1>5. CASE HostSendsCbw \/ HostSendsChunk \/ HostReads \/ HostClearsStall
  BY <1>5 DEF HostSendsCbw, HostSendsChunk, HostReads, HostClearsStall
<1>6. CASE (\E o \in Ops, k \in 1..MaxN : HostCommand(o, k)) \/ HostConfigures
            \/ Plug \/ HostResets \/ HostRecovers \/ Unplug
  BY <1>6 DEF HostCommand, HostConfigures, Plug, HostResets, HostRecovers, Unplug
<1> QED
  BY <1>1, <1>2, <1>3, <1>4, <1>5, <1>6 DEF Next, Thread, HostGoesOn

\* The host gets the data of CmdInquiry and its like, or loses step.
LEMMA InfoStep ==
    ASSUME EpTypes, CallTypes, CmdTypes, CountTypes, PlacesOK, CountsInside,
           SleeperNamed, NotRecovered, OutTrue, InTrue, TagsOK, InStep, Next
    PROVE  NotRecovered' => InfoWorks'
<1> USE MaxNAssumption, MaxCmdsAssumption
<1> USE DEF EpTypes, CallTypes, CmdTypes, CountTypes, Blocks, Commands, Eps, Buffers,
   CountsInside, SleeperNamed, NotRecovered, OutTrue, InTrue, TagsOK, Tags,
   NoTag, PlacesOK, Places, InWait, OutWaits, InWaits, Doing, DoingOf,
   InCommand, Answering, Together, InStep, InfoWorks, InWork, Begins, Informs
<1> USE DEF Goto, StartReceiveToBuf, Await, Status, StartTransmitBuf, Transfer, Strike,
   SdStrikes,
   Less, Other, Interrupt, AfterCbw, Resume, TakeData, TakeStatus, DeviceReset
<1>1. CASE Test \/ Suspend \/ Wake \/ Loop \/ Configured \/ Receive \/ Received
  BY <1>1 DEF Test, Suspend, Wake, Loop, Configured, Receive, Received
<1>2. CASE HandleNone \/ HandleInfo \/ InfoSent \/ Refuse \/ SendStatus
            \/ Stalled \/ Csw
  BY <1>2 DEF HandleNone, HandleInfo, InfoSent, Refuse, SendStatus, Stalled, Csw
<1>3. CASE HandleRead \/ (\E end \in SdEnds : SdReadEnds(end)) \/ Send \/ Sent
  BY <1>3 DEF HandleRead, SdReadEnds, Send, Sent
<1>4. CASE HandleWrite \/ Full \/ ReceptionFails
            \/ (\E end \in SdEnds : SdWriteEnds(end))
  BY <1>4 DEF HandleWrite, Full, ReceptionFails, SdWriteEnds
<1>5. CASE HostClearsStall
  BY <1>5 DEF HostClearsStall
<1>6. CASE HostSendsCbw
  BY <1>6 DEF HostSendsCbw
<1>7. CASE HostSendsChunk
  BY <1>7 DEF HostSendsChunk
<1>8. CASE HostReads
  BY <1>8 DEF HostReads
<1>9. CASE (\E o \in Ops, k \in 1..MaxN : HostCommand(o, k)) \/ HostConfigures
            \/ Plug \/ HostResets \/ HostRecovers \/ Unplug
  BY <1>9 DEF HostCommand, HostConfigures, Plug, HostResets, HostRecovers, Unplug
<1> QED
  BY <1>1, <1>2, <1>3, <1>4, <1>5, <1>6, <1>7, <1>8, <1>9 DEF Next, Thread, HostGoesOn

\* What was late is not forgotten.
LEMMA StaysClean == Next => (hcmd' = hcmd /\ Clean' => Clean)
<1>1. Next => unmoved \subseteq unmoved'
  BY DEF Next, Thread, HostGoesOn, Test, Suspend, Wake, Loop, Configured, Receive,
     Received, HandleNone, HandleInfo, InfoSent, Refuse, HandleRead,
     SdReadEnds, SdStrikes, Send, Sent, HandleWrite, Full, ReceptionFails,
     SdWriteEnds, SendStatus, Stalled, Csw, HostSendsCbw, Interrupt,
     HostSendsChunk, HostReads, HostClearsStall, HostConfigures, Plug,
     HostCommand, HostResets, HostRecovers, Unplug
<1> QED
  BY <1>1 DEF Clean

\* CmdRead10: a chunk that the host gets is the next one, from a buffer that is
\* not filled meanwhile.
LEMMA ReadStep ==
    ASSUME EpTypes, CallTypes, CmdTypes, CountTypes, PlacesOK, CountsInside,
           SleeperNamed, NotRecovered, OutTrue, InTrue, TagsOK, DataTypes,
           InStep, Next
    PROVE  NotRecovered' => ReadWorks'
<1> USE MaxNAssumption, MaxCmdsAssumption
<1> USE DEF EpTypes, CallTypes, CmdTypes, CountTypes, Blocks, Commands, Eps, Buffers,
   CountsInside, SleeperNamed, NotRecovered, OutTrue, InTrue, TagsOK, Tags,
   NoTag, PlacesOK, Places, InWait, OutWaits, InWaits, Doing, DoingOf,
   InCommand, Answering, Together, DataTypes, InStep, ReadWorks, InWork,
   Begins, Reads, Leaves, Doomed, Other
<1> USE DEF Goto, StartReceiveToBuf, Await, Status, StartTransmitBuf, Transfer, Strike,
   SdStrikes,
   Interrupt, AfterCbw, Resume, TakeData, TakeStatus, DeviceReset
<1>0. hcmd' = hcmd /\ Clean' => Clean
  BY StaysClean
<1> USE <1>0
<1>1. CASE Suspend \/ Wake \/ Loop \/ Configured \/ Receive \/ Received
  BY <1>1 DEF Suspend, Wake, Loop, Configured, Receive, Received
<1>2. CASE Test
  BY <1>2 DEF Test
<1>3. CASE HandleNone \/ HandleInfo \/ InfoSent \/ Refuse \/ SendStatus
            \/ Stalled \/ Csw
  BY <1>3 DEF HandleNone, HandleInfo, InfoSent, Refuse, SendStatus, Stalled, Csw
<1>4. CASE HandleRead \/ Sent
  BY <1>4 DEF HandleRead, Sent
<1>5. CASE \E end \in SdEnds : SdReadEnds(end)
  BY <1>5 DEF SdReadEnds, Clean
<1>6. CASE Send
  <2> SUFFICES ASSUME InWork({"read"})', NotRecovered' PROVE Reads'
    OBVIOUS
  <2>1. /\ CmdBlock'.tag = CmdBlock.tag /\ UNCHANGED <<CmdStatus, hcmd>>
        /\ UNCHANGED <<Buf, hpc, moved, right, stall, rdymsg, unmoved>>
        /\ left' = left - 1 /\ at' = at + 1 /\ cur' = Other(cur) /\ PtrIn' = cur
        /\ armed'["in"] /\ buzy'["in"] /\ armed'["out"] = armed["out"]
        /\ left = 1 => pc' = "test" /\ next' = "sent"
        /\ left # 1 => pc' = "sdRead"
        /\ pc = "send"
    BY <1>6 DEF Send
  <2>2. InWork({"read"}) /\ ~stall
    BY <2>1
  <2>3. Reads
    BY <2>1, <2>2
  <2>4. hcmd.n \in Nat
    BY <2>1
  <2>5. at > 1 /\ hpc = "data" =>
            (Clean => right) /\ ~armed["in"] /\ moved = at - 1
    BY <2>1, <2>2, <2>3
  <2> QED
    BY <2>1, <2>2, <2>5, <2>3, <2>4
<1>7. CASE HandleWrite \/ Full \/ ReceptionFails
            \/ (\E end \in SdEnds : SdWriteEnds(end))
  BY <1>7 DEF HandleWrite, Full, ReceptionFails, SdWriteEnds
<1>8. CASE HostSendsCbw
  BY <1>8 DEF HostSendsCbw
<1>9. CASE HostSendsChunk
  BY <1>9 DEF HostSendsChunk
<1>10. CASE HostReads
  <2> SUFFICES ASSUME InWork({"read"})', NotRecovered' PROVE (Begins \/ Reads)'
    OBVIOUS
  <2>1. /\ armed["in"] /\ ~stall /\ hpc \in {"data", "csw"}
        /\ ~armed'["in"] /\ armed'["out"] = armed["out"]
        /\ UNCHANGED <<stall, PtrIn, CmdBlock, CmdStatus, Buf, left, at, cur, hcmd, next>>
        /\ UNCHANGED unmoved
        /\ \/ pc' = pc
           \/ pc = "asleep" /\ pc' = "woken" /\ ep = "in" /\ rdymsg' = "ok"
    BY <1>10 DEF HostReads
  <2>2. hpc = "csw" => hpc' = "lost"
    BY <1>10, <2>1 DEF HostReads
  <2>3. CASE hpc = "csw"
    BY <2>1, <2>2, <2>3
  <2>4. CASE hpc = "data" /\ PtrIn = "CmdStatus"
    <3>1. hpc' = "csw"
      BY <1>10, <2>1, <2>4 DEF HostReads
    <3> QED
      BY <2>1, <2>4, <3>1
  <2>5. CASE hpc = "data" /\ PtrIn # "CmdStatus"
    <3>1. /\ Reads /\ at > 1 /\ PtrIn = Other(cur) /\ moved = at - 2
          /\ Clean => right /\ Buf[Other(cur)] = OnCard(at - 1)
      BY <2>1, <2>5
    <3>2. hcmd.op = "read" /\ (Clean => right') /\ moved' = at - 1
      BY <1>10, <2>1, <2>5, <3>1 DEF HostReads
    <3>3. hpc' = IF at - 1 = hcmd.n THEN "csw" ELSE "data"
      BY <1>10, <2>1, <2>5, <3>1, <3>2 DEF HostReads
    <3> QED
      BY <2>1, <2>5, <3>1, <3>2, <3>3
  <2> QED
    BY <2>1, <2>3, <2>4, <2>5
<1>11. CASE HostClearsStall
  BY <1>11 DEF HostClearsStall
<1>12. CASE (\E o \in Ops, k \in 1..MaxN : HostCommand(o, k)) \/ HostConfigures
            \/ Plug \/ HostResets \/ HostRecovers \/ Unplug
  BY <1>12 DEF HostCommand, HostConfigures, Plug, HostResets, HostRecovers, Unplug
<1> QED
  BY <1>1, <1>2, <1>3, <1>4, <1>5, <1>6, <1>7, <1>8, <1>9, <1>10, <1>11, <1>12
     DEF Next, Thread, HostGoesOn

\* CmdWrite10: chunk by chunk, buffer by buffer, from the host to the card.
LEMMA WriteStep ==
    ASSUME EpTypes, CallTypes, CmdTypes, CountTypes, PlacesOK, CountsInside,
           SleeperNamed, NotRecovered, OutTrue, InTrue, TagsOK, DataTypes,
           InStep, Next
    PROVE  NotRecovered' => WriteWorks'
<1> USE MaxNAssumption, MaxCmdsAssumption
<1> USE DEF EpTypes, CallTypes, CmdTypes, CountTypes, Blocks, Commands, Eps, Buffers,
   CountsInside, SleeperNamed, NotRecovered, OutTrue, InTrue, TagsOK, Tags,
   NoTag, PlacesOK, Places, InWait, OutWaits, InWaits, Doing, DoingOf,
   InCommand, Answering, Together, DataTypes, InStep, WriteWorks, InWork,
   Begins, Writes, Arrives, Written, Other
<1> USE DEF Goto, StartReceiveToBuf, Await, Status, StartTransmitBuf, Transfer, Strike,
   SdStrikes,
   Interrupt, AfterCbw, Resume, TakeData, TakeStatus, DeviceReset
<1>0. hcmd' = hcmd /\ Clean' => Clean
  BY StaysClean
<1> USE <1>0
<1>1. CASE Suspend \/ Wake \/ Loop \/ Configured \/ Receive \/ Received
  BY <1>1 DEF Suspend, Wake, Loop, Configured, Receive, Received
<1>2. CASE Test
  BY <1>2 DEF Test
<1>3. CASE HandleNone \/ HandleInfo \/ InfoSent \/ Refuse \/ SendStatus
            \/ Stalled \/ Csw
  BY <1>3 DEF HandleNone, HandleInfo, InfoSent, Refuse, SendStatus, Stalled, Csw
<1>4. CASE HandleRead \/ (\E end \in SdEnds : SdReadEnds(end)) \/ Send \/ Sent
  BY <1>4 DEF HandleRead, SdReadEnds, Send, Sent
<1>5. CASE ReceptionFails
  BY <1>5 DEF ReceptionFails
<1>6. CASE HandleWrite
  BY <1>6 DEF HandleWrite
<1>7. CASE Full
  BY <1>7 DEF Full
<1>8. CASE \E end \in SdEnds : SdWriteEnds(end)
  <2> SUFFICES ASSUME InWork({"write"})', NotRecovered' PROVE Writes'
    OBVIOUS
  <2>1. /\ pc = "sdWrite"
        /\ CmdBlock'.tag = CmdBlock.tag
        /\ UNCHANGED <<armed, buzy, PtrOut, left, Buf, hcmd, hpc, moved>>
    BY <1>8 DEF SdWriteEnds
  <2>2. PICK end \in SdEnds : SdWriteEnds(end)
    BY <1>8
  <2>3. end # "sd" /\ left # 0
    <3>1. end = "sd" \/ left = 0 => CmdStatus'.tag = CmdBlock.tag
      BY <2>2 DEF SdWriteEnds
    <3> QED
      BY <2>1, <3>1
  <2>4. /\ at' = at + 1 /\ cur' = Other(cur) /\ pc' = "test" /\ next' = "full"
        /\ Clean' => Clean /\ card' = [card EXCEPT ![at] = Buf[cur]]
        /\ CmdBlock' = [CmdBlock EXCEPT !.dtl = Less(CmdBlock.dtl)]
        /\ CmdStatus' = CmdStatus
    BY <2>1, <2>2, <2>3 DEF SdWriteEnds, Clean
  <2>5. InWork({"write"})
    BY <2>1, <2>4
  <2>6. Writes
    BY <2>1, <2>5
  <2>7. CmdBlock.dtl \in 1..(DtlMod - 1) /\ CmdBlock'.dtl = CmdBlock.dtl - 1
    BY <2>1, <2>3, <2>4, <2>6, LessIsLess, DtlModType
  <2>8. \A k \in 1..(at' - 1) : Written(k)'
    <3>1. at \in 1..MaxN /\ at' - 1 = at /\ hcmd' = hcmd
      BY <2>1, <2>4, <2>6
    <3>2. ASSUME Clean', NEW k \in 1..at
          PROVE  card'[k] = Chunk(hcmd.tag, k)
      <4>1. Clean /\ card' = [card EXCEPT ![at] = Buf[cur]]
        BY <2>1, <2>4, <3>2
      <4>2. Buf[cur] = Chunk(hcmd.tag, at)
        BY <2>1, <2>6
      <4>3. k # at => card[k] = Chunk(hcmd.tag, k)
        BY <2>6, <4>1, <3>1, <3>2
      <4> QED
        BY <3>1, <3>2, <4>1, <4>2, <4>3
    <3> QED
      BY <3>1, <3>2
  <2>9. Arrives(cur, at)'
    <3>1. left > 0 /\ Arrives(Other(cur), at + 1)
      BY <2>1, <2>3, <2>6
    <3>2. at' - 1 = at
      BY <2>4
    <3> QED
      BY <2>1, <2>4, <3>1, <3>2
  <2>10. left' = hcmd'.n - at' + 1 /\ at' <= hcmd'.n
    BY <2>1, <2>3, <2>4, <2>6
  <2>11. CmdBlock'.dtl = hcmd'.n - at' + 1
    BY <2>1, <2>4, <2>7, <2>6
  <2> QED
    BY <2>4, <2>8, <2>9, <2>10, <2>11
<1>9. CASE HostSendsCbw
  BY <1>9 DEF HostSendsCbw
<1>10. CASE HostSendsChunk
  <2> SUFFICES ASSUME InWork({"write"})', NotRecovered' PROVE Writes'
    OBVIOUS
  <2>1. /\ hpc = "data" /\ armed["out"] /\ ~armed'["out"]
        /\ moved' = moved + 1
        /\ UNCHANGED <<PtrOut, CmdStatus, card, hcmd, left, at, cur, next>>
        /\ \/ pc' = pc
           \/ pc = "asleep" /\ pc' = "woken" /\ ep = "out"
    BY <1>10 DEF HostSendsChunk
  <2>2. PtrOut # "CmdBlock" /\ CmdBlock' = CmdBlock
    BY <1>10, <2>1 DEF HostSendsChunk
  <2>3. Buf' = [Buf EXCEPT ![PtrOut] = Chunk(hcmd.tag, moved + 1)]
    BY <1>10, <2>2 DEF HostSendsChunk
  <2>4. Writes
    BY <2>1, <2>2
  <2>5. /\ pc # "sdWrite" => PtrOut = cur /\ moved = at - 1
        /\ pc = "sdWrite" => left > 0 /\ PtrOut = Other(cur) /\ moved = at
    BY <2>1, <2>4
  <2> QED
    BY <2>1, <2>2, <2>3, <2>4, <2>5
<1>11. CASE HostReads
  BY <1>11 DEF HostReads
<1>12. CASE HostClearsStall
  BY <1>12 DEF HostClearsStall
<1>13. CASE (\E o \in Ops, k \in 1..MaxN : HostCommand(o, k)) \/ HostConfigures
            \/ Plug \/ HostResets \/ HostRecovers \/ Unplug
  BY <1>13 DEF HostCommand, HostConfigures, Plug, HostResets, HostRecovers, Unplug
<1> QED
  BY <1>1, <1>2, <1>3, <1>4, <1>5, <1>6, <1>7, <1>8, <1>9, <1>10, <1>11, <1>12,
     <1>13 DEF Next, Thread, HostGoesOn

\* Nothing that comes after the status undoes what it says.
LEMMA DoneStep ==
    ASSUME EpTypes, CallTypes, CmdTypes, CountTypes, PlacesOK, CountsInside,
           SleeperNamed, NotRecovered, OutTrue, InTrue, TagsOK, DataTypes,
           InStep, Done, Next
    PROVE  NotRecovered' => Done'
<1> USE MaxNAssumption, MaxCmdsAssumption
<1> USE DEF EpTypes, CallTypes, CmdTypes, CountTypes, Blocks, Commands, Eps, Buffers,
   CountsInside, SleeperNamed, NotRecovered, OutTrue, InTrue, TagsOK, Tags,
   NoTag, PlacesOK, Places, InWait, OutWaits, InWaits, Doing, DoingOf,
   InCommand, Answering, Together, DataTypes, Done, SaysGood, Written
<1> USE DEF Goto, StartReceiveToBuf, Await, Status, StartTransmitBuf, Transfer, Strike,
   SdStrikes,
   Less, Other, Interrupt, AfterCbw, Resume, TakeData, TakeStatus, DeviceReset
<1>0. hcmd' = hcmd /\ Clean' => Clean
  BY StaysClean
<1> USE <1>0
<1>1. CASE Test \/ Suspend \/ Wake \/ Loop \/ Configured \/ Receive \/ Received
  BY <1>1 DEF Test, Suspend, Wake, Loop, Configured, Receive, Received
<1>2. CASE HandleInfo \/ SendStatus \/ Stalled \/ Csw
  BY <1>2 DEF HandleInfo, SendStatus, Stalled, Csw
<1>3. CASE HandleNone
  <2>1. /\ pc = "handle" /\ pc' = "status" /\ CmdBlock.op \in {"none", "bad"}
        /\ CmdStatus' = [tag |-> CmdBlock.tag, ok |-> CmdBlock.op = "none"]
        /\ CmdBlock'.tag = CmdBlock.tag /\ CmdBlock'.op = CmdBlock.op
        /\ UNCHANGED <<card, hpc, hcmd, moved, right, verdict>>
    BY <1>3 DEF HandleNone
  <2>2. CASE verdict = "good"
    BY <2>1, <2>2
  <2>3. CASE hpc \in {"data", "csw"} /\ CmdBlock.tag = hcmd.tag
    BY <2>1, <2>3 DEF InStep
  <2> QED
    BY <2>1, <2>2, <2>3
<1>4. CASE InfoSent
  <2>1. /\ pc = "infoSent" /\ CmdStatus' = [tag |-> CmdBlock.tag, ok |-> TRUE]
        /\ UNCHANGED <<CmdBlock, card, hpc, hcmd, moved, right, verdict>>
        /\ pc' = "status"
    BY <1>4 DEF InfoSent
  <2>2. CASE verdict = "good"
    BY <2>1, <2>2 DEF InStep
  <2>3. CASE hpc \in {"data", "csw"} /\ CmdBlock.tag = hcmd.tag
    <3>1. InCommand /\ ~Answering
      BY <2>1, <2>3 DEF InStep, Answers, AfterAnswer
    <3>2. hcmd.op = "info" /\ Informs
      BY <2>1, <3>1, OpsAssumption DEF InStep, WriteWorks, ReadWorks, InfoWorks,
         NoneWorks, InWork, Begins,
         Writes, Reads
    <3> QED
      BY <2>1, <3>2 DEF Informs
  <2> QED
    BY <2>1, <2>2, <2>3
<1>5. CASE Refuse
  BY <1>5 DEF Refuse
<1>6. CASE HandleRead \/ Send
  BY <1>6 DEF HandleRead, Send
<1>7. CASE \E end \in SdEnds : SdReadEnds(end)
  BY <1>7 DEF SdReadEnds
<1>8. CASE Sent
  <2>1. /\ pc = "sent" /\ CmdStatus' = [tag |-> CmdBlock.tag, ok |-> TRUE]
        /\ UNCHANGED <<CmdBlock, card, hpc, hcmd, moved, right, verdict>>
        /\ pc' = "status"
    BY <1>8 DEF Sent
  <2>2. CASE verdict = "good"
    BY <2>1, <2>2 DEF InStep
  <2>3. CASE hpc \in {"data", "csw"} /\ CmdBlock.tag = hcmd.tag
    <3>1. InCommand /\ ~Answering
      BY <2>1, <2>3 DEF InStep, Answers, AfterAnswer
    <3>2. hcmd.op = "read" /\ Reads
      BY <2>1, <3>1, OpsAssumption DEF InStep, WriteWorks, ReadWorks, InfoWorks,
         NoneWorks, InWork, Begins,
         Writes, Informs
    <3> QED
      BY <2>1, <2>3, <3>2 DEF Reads, Leaves, Doomed
  <2> QED
    BY <2>1, <2>2, <2>3
<1>9. CASE HandleWrite \/ Full \/ ReceptionFails
  BY <1>9 DEF HandleWrite, Full, ReceptionFails
<1>10. CASE \E end \in SdEnds : SdWriteEnds(end)
  <2>1. PICK end \in SdEnds : SdWriteEnds(end)
    BY <1>10
  <2>2. pc = "sdWrite" /\ UNCHANGED <<hpc, hcmd, moved, right, verdict>>
        /\ unmoved \subseteq unmoved'
        /\ CmdBlock'.tag = CmdBlock.tag /\ CmdBlock'.op = CmdBlock.op
    BY <2>1 DEF SdWriteEnds
  <2>3. CASE end # "sd" /\ left # 0
    <3>1. CmdStatus' = CmdStatus
      BY <2>1, <2>3 DEF SdWriteEnds
    <3> QED
      BY <2>2, <3>1
  <2>4. CASE end = "sd" \/ left = 0
    <3>1. CmdStatus' = [tag |-> CmdBlock.tag, ok |-> end # "sd"]
      BY <2>1, <2>4 DEF SdWriteEnds
    <3>2. CASE verdict = "good"
      BY <2>2, <3>2
    <3>3. CASE ~(hpc \in {"data", "csw"} /\ CmdBlock.tag = hcmd.tag) \/ end = "sd"
      BY <2>2, <3>1, <3>3
    <3>4. CASE hpc \in {"data", "csw"} /\ CmdBlock.tag = hcmd.tag /\ end # "sd"
      <4>1. InCommand /\ ~Answering
        BY <2>2, <3>4 DEF InStep, Answers, AfterAnswer
      <4>2. hcmd.op = "write" /\ Writes
        BY <2>2, <4>1, OpsAssumption DEF InStep, WriteWorks, ReadWorks, InfoWorks,
           NoneWorks, InWork, Begins,
         Reads, Informs
      <4>3. /\ at = hcmd.n /\ moved = hcmd.n /\ CmdBlock.dtl = 1
            /\ Buf[cur] = Chunk(hcmd.tag, at)
            /\ \A k \in 1..(at - 1) : Clean => card[k] = Chunk(hcmd.tag, k)
        BY <2>2, <2>4, <3>4, <4>2 DEF Writes
      <4>4. /\ Clean' => Clean /\ card' = [card EXCEPT ![at] = Buf[cur]]
            /\ pc' = "status"
            /\ CmdBlock' = [CmdBlock EXCEPT !.dtl = Less(CmdBlock.dtl)]
        BY <2>1, <2>2, <2>4, <3>4 DEF SdWriteEnds, Clean
      <4>5. Clean' => \A k \in 1..hcmd.n : card'[k] = Chunk(hcmd.tag, k)
        BY <4>3, <4>4
      <4>6. CmdBlock'.dtl = 0 /\ CmdBlock'.n = CmdBlock.n /\ CmdBlock.n # 0
        <5>1. Less(1) = 0
          BY LessIsLess, DtlModType
        <5> QED
          BY <4>3, <4>4, <5>1
      <4>7. CmdBlock.op = "write" /\ hpc # "data"
        BY <4>1, <4>2, <4>3 DEF InStep
      <4> QED
        BY <2>2, <3>4, <4>1, <4>2, <4>4, <4>5, <4>6, <4>7
    <3> QED
      BY <3>2, <3>3, <3>4
  <2> QED
    BY <2>3, <2>4
<1>11. CASE HostSendsCbw
  BY <1>11 DEF HostSendsCbw
<1>12. CASE HostSendsChunk
  BY <1>12 DEF HostSendsChunk
<1>13. CASE HostReads
  BY <1>13 DEF HostReads
<1>14. CASE HostClearsStall
  BY <1>14 DEF HostClearsStall
<1>15. CASE (\E o \in Ops, k \in 1..MaxN : HostCommand(o, k)) \/ HostConfigures
            \/ Plug \/ HostResets \/ HostRecovers \/ Unplug
  BY <1>15 DEF HostCommand, HostConfigures, Plug, HostResets, HostRecovers, Unplug
<1> QED
  BY <1>1, <1>2, <1>3, <1>4, <1>5, <1>6, <1>7, <1>8, <1>9, <1>10, <1>11, <1>12,
     <1>13, <1>14, <1>15 DEF Next, Thread, HostGoesOn

\* Where the thread is says, until a fault strikes, how far the command is.
LEMMA AtWork ==
    ASSUME CmdTypes, PlacesOK, InStep, InOrder, ~Disturbed
    PROVE  /\ pc = "received" => rslt = "ok"
           /\ pc \in {"received", "handle"} => InCommand /\ ~Answering /\ Begins
           /\ Doing("infoSent") =>
                  InCommand /\ ~Answering /\ hcmd.op = "info" /\ Informs
           /\ DoingOf({"sdRead", "send", "sent"}) =>
                  InCommand /\ ~Answering /\ hcmd.op = "read" /\ Reads
           /\ Doing("full") \/ pc = "sdWrite" =>
                  InCommand /\ ~Answering /\ hcmd.op = "write" /\ Writes
           /\ DoingOf({"status", "stalled", "csw"}) => InCommand /\ Answering
<1> USE DEF PlacesOK, Places, InWait, OutWaits, InWaits, Doing, DoingOf
<1>1. pc = "received" \/ ~DoingOf({"loop", "evt", "receive", "received"}) => InCommand
  BY DEF InOrder, Idle, InCommand
<1>2. InCommand /\ Answering => AfterAnswer
  BY DEF InStep, Answers
<1>3. InCommand /\ ~Answering =>
          \/ Begins
          \/ hcmd.op = "write" /\ Writes
          \/ hcmd.op = "read" /\ Reads
          \/ hcmd.op = "info" /\ Informs
  BY OpsAssumption DEF CmdTypes, Commands, InStep, WriteWorks, ReadWorks, InfoWorks,
     NoneWorks, InWork
<1>4. InCommand /\ pc = "received" => rslt = "ok"
  BY DEF InStep, Together
<1> QED
  BY <1>1, <1>2, <1>3, <1>4 DEF AfterAnswer, Begins, Writes, Reads, Informs

\* Faults are not forgotten.
LEMMA StruckGrows == Next => struck \subseteq struck'
  BY DEF Next, Thread, HostGoesOn, Test, Suspend, Wake, Loop, Configured, Receive,
     Received, HandleNone, HandleInfo, InfoSent, Refuse, HandleRead,
     SdReadEnds, SdStrikes, Strike, Send, Sent, HandleWrite, Full, ReceptionFails,
     SdWriteEnds, SendStatus, Stalled, Csw, HostSendsCbw, Interrupt,
     HostSendsChunk, HostReads, HostClearsStall, HostConfigures, Plug,
     HostCommand, HostResets, HostRecovers, Unplug

\* Until a fault strikes everything goes as it should.
LEMMA OrderStep ==
    ASSUME EpTypes, CallTypes, CmdTypes, CountTypes, PlacesOK, CountsInside,
           SleeperNamed, NotRecovered, OutTrue, InTrue, TagsOK, InStep, Done,
           InOrder, Next
    PROVE  NotRecovered' => InOrder'
<1> USE MaxNAssumption, MaxCmdsAssumption
<1> USE DEF EpTypes, CallTypes, CmdTypes, CountTypes, Blocks, Commands, Eps, Buffers,
   CountsInside, SleeperNamed, NotRecovered, OutTrue, InTrue, TagsOK, Tags,
   NoTag, PlacesOK, Places, InWait, OutWaits, InWaits, Doing, DoingOf,
   InCommand, Answering, InOrder, Idle, Disturbed
<1> SUFFICES ASSUME ~Disturbed, ~Disturbed', NotRecovered' PROVE InOrder'
  BY StruckGrows
<1> USE DEF Goto, StartReceiveToBuf, Await, StartTransmitBuf, Transfer, Strike, SdStrikes, Status,
   Other, Interrupt, AfterCbw, Resume, TakeData, TakeStatus, DeviceReset
<1>1. CASE Test \/ Suspend \/ Wake \/ Loop \/ Configured \/ Receive
  BY <1>1 DEF Test, Suspend, Wake, Loop, Configured, Receive
<1>2. CASE Received
  BY <1>2, AtWork DEF Received
<1>3. CASE HandleInfo \/ SendStatus \/ Stalled
  BY <1>3 DEF HandleInfo, SendStatus, Stalled
<1>4. CASE HandleNone
  <2>1. InCommand /\ ~Answering /\ ~armed["out"]
    BY <1>4, AtWork DEF HandleNone, Begins
  <2>2. hpc # "data" \/ hcmd.op # "write"
    BY <1>4, <2>1 DEF HandleNone, InStep, Together
  <2> QED
    BY <1>4, <2>1, <2>2 DEF HandleNone
<1>5. CASE InfoSent
  <2>1. InCommand /\ ~Answering /\ ~armed["out"] /\ hcmd.op = "info"
    BY <1>5, AtWork DEF InfoSent, Informs
  <2> QED
    BY <1>5, <2>1 DEF InfoSent
<1>6. CASE Refuse
  BY <1>6, AtWork DEF Refuse, Begins
<1>7. CASE Csw
  BY <1>7, AtWork DEF Csw
<1>8. CASE HandleRead
  BY <1>8 DEF HandleRead
<1>9. CASE \E end \in SdEnds : SdReadEnds(end)
  BY <1>9 DEF SdReadEnds
<1>10. CASE Send
  BY <1>10 DEF Send, Less
<1>11. CASE Sent
  <2>1. InCommand /\ ~Answering /\ ~armed["out"] /\ hcmd.op = "read"
    BY <1>11, AtWork DEF Sent, Reads
  <2> QED
    BY <1>11, <2>1 DEF Sent
<1>12. CASE HandleWrite
  BY <1>12, AtWork DEF HandleWrite
<1>13. CASE Full
  BY <1>13, AtWork DEF Full
<1>14. CASE ReceptionFails
  <2>1. InCommand
    BY <1>14, AtWork DEF ReceptionFails
  <2> QED
    BY <1>14, <2>1 DEF ReceptionFails, InStep, Together
<1>15. CASE \E end \in SdEnds : SdWriteEnds(end)
  <2>1. PICK end \in SdEnds : SdWriteEnds(end)
    BY <1>15
  <2>2. InCommand /\ ~Answering /\ hcmd.op = "write" /\ Writes
    BY <2>1, AtWork DEF SdWriteEnds
  <2>3. end = "ok"
    BY <2>1, <2>2 DEF SdWriteEnds, SdEnds
  <2>4. left = 0 => hpc # "data" /\ ~armed["out"]
    BY <2>1, <2>2 DEF SdWriteEnds, Writes
  <2>5. /\ pc' \in {"test", "status"} /\ (pc' = "test" => next' = "full")
        /\ left # 0 => CmdStatus' = CmdStatus
        /\ left = 0 => pc' = "status" /\ CmdStatus' = [tag |-> CmdBlock.tag, ok |-> TRUE]
        /\ CmdBlock'.tag = CmdBlock.tag
        /\ UNCHANGED <<strayed, hpc, hcmd, armed, PtrIn>>
    BY <2>1, <2>3 DEF SdWriteEnds
  <2> QED
    BY <2>1, <2>2, <2>4, <2>5 DEF SdWriteEnds
<1>16. CASE HostSendsCbw
  BY <1>16 DEF HostSendsCbw
<1>17. CASE HostSendsChunk
  <2>1. /\ hpc = "data" /\ hcmd.op = "write" /\ armed["out"] /\ ~armed'["out"]
        /\ hpc' \in {"data", "csw"} /\ armed'["in"] = armed["in"]
        /\ UNCHANGED <<PtrIn, CmdStatus, hcmd, next>>
        /\ pc' = pc \/ (pc = "asleep" /\ pc' = "woken")
    BY <1>17 DEF HostSendsChunk
  <2>2. InCommand /\ ~Answering
    BY <2>1
  <2>3. PtrOut # "CmdBlock"
    BY <2>1, <2>2 DEF InStep, WriteWorks, InWork, Begins, Writes
  <2>4. CmdBlock' = CmdBlock /\ strayed' = strayed
    BY <1>17, <2>3 DEF HostSendsChunk
  <2> QED
    BY <2>1, <2>2, <2>4
<1>18. CASE HostReads
  <2>1. /\ armed["in"] /\ ~stall /\ hpc \in {"data", "csw"}
        /\ ~armed'["in"] /\ armed'["out"] = armed["out"] /\ buzy'["out"] = buzy["out"]
        /\ UNCHANGED <<stall, PtrIn, CmdBlock, CmdStatus, hcmd, next, strayed>>
        /\ pc' = pc \/ (pc = "asleep" /\ pc' = "woken" /\ ep = "in")
    BY <1>18 DEF HostReads
  <2>2. InCommand
    BY <2>1
  <2>3. hpc' \in {"data", "csw", "idle", "lost"} /\ (hpc' = "data" => hcmd.op # "write")
    BY <1>18, <2>1 DEF HostReads
  <2>4. CASE hpc' # "idle"
    BY <2>1, <2>2, <2>3, <2>4
  <2>5. CASE hpc' = "idle"
    <3>1. Answering /\ DoingOf({"loop", "evt", "receive", "received"})
      BY <1>18, <2>1, <2>5 DEF HostReads
    <3>2. AfterAnswer
      BY <2>2, <3>1 DEF InStep, Answers
    <3> QED
      BY <2>1, <2>5, <3>1, <3>2 DEF AfterAnswer
  <2> QED
    BY <2>4, <2>5
<1>19. CASE HostClearsStall
  BY <1>19 DEF HostClearsStall
<1>20. CASE \E o \in Ops, k \in 1..MaxN : HostCommand(o, k)
  BY <1>20 DEF HostCommand
<1>21. CASE HostConfigures
  BY <1>21 DEF HostConfigures
<1>22. CASE Plug
  BY <1>22 DEF Plug
<1>23. CASE HostResets
  BY <1>23 DEF HostResets
<1>24. CASE HostRecovers
  BY <1>24 DEF HostRecovers
<1>25. CASE Unplug
  BY <1>25 DEF Unplug
<1> QED
  BY <1>1, <1>2, <1>3, <1>4, <1>5, <1>6, <1>7, <1>8, <1>9, <1>10, <1>11, <1>12,
     <1>13, <1>14, <1>15, <1>16, <1>17, <1>18, <1>19, <1>20, <1>21, <1>22,
     <1>23, <1>24, <1>25 DEF Next, Thread, HostGoesOn

-----------------------------------------------------------------------------
(* The invariant and what follows from it.                                   *)

LEMMA InvInit == Init => IInv
<1> SUFFICES ASSUME Init PROVE IInv
  OBVIOUS
<1> USE DEF Init
<1>1. Types
  <2>1. EpTypes /\ CallTypes
    BY DEF EpTypes, CallTypes, Eps, Buffers
  <2>2. CountTypes
    BY MaxNAssumption, DtlModType DEF CountTypes
  <2>3. PlacesOK
    BY DEF PlacesOK, Places, InWait, OutWaits, InWaits
  <2>4. CmdTypes
    BY MaxNAssumption, MaxCmdsAssumption, DtlModType DEF CmdTypes, Blocks, Commands,
       Tags
  <2>5. DataTypes
    BY ChunkTypes DEF DataTypes
  <2> QED
    BY <2>1, <2>4, <2>5, <2>3, <2>2 DEF Types
<1>2. CountsInside /\ SleeperNamed
  BY DEF CountsInside, SleeperNamed, Doing, DoingOf, InWait, Eps
<1>3. OutTrue /\ InTrue
  BY DEF OutTrue, InTrue, Doing, DoingOf, InWait, OutWaits, Eps
<1>4. TagsOK /\ InStep /\ Done
  BY DEF TagsOK, InStep, Together, Answers, WriteWorks, ReadWorks, InfoWorks, NoneWorks,
     InWork, InCommand, Done, SaysGood
<1>5. InOrder
  BY DEF InOrder, Idle, Doing, DoingOf, InWait, Eps
<1> QED
  BY <1>1, <1>2, <1>3, <1>4, <1>5 DEF IInv

LEMMA InvStep == IInv /\ [Next]_vars => IInv'
<1> SUFFICES ASSUME IInv, [Next]_vars PROVE IInv'
  OBVIOUS
<1>1. CASE Next
  <2>1. Types' /\ CountsInside' /\ SleeperNamed'
    BY <1>1, TypesStep, SleeperStep DEF IInv, Types
  <2>2. NotRecovered' => NotRecovered
    BY <1>1, StruckGrows DEF NotRecovered
  <2>3. NotRecovered' => OutTrue' /\ InTrue' /\ TagsOK'
    BY <1>1, <2>2, OutStep, InTrueStep, TagsStep DEF IInv, Types
  <2>4. NotRecovered' => InStep'
    BY <1>1, <2>2, TogetherStep, AnswersStep, WriteStep, ReadStep, InfoStep, NoneStep
       DEF IInv, Types, InStep
  <2>5. NotRecovered' => Done' /\ InOrder'
    BY <1>1, <2>2, DoneStep, OrderStep DEF IInv, Types
  <2> QED
    BY <2>1, <2>3, <2>4, <2>5 DEF IInv
<1>2. CASE UNCHANGED vars
  <2> USE <1>2 DEF vars
  <2>1. Types'
    BY DEF IInv, Types, EpTypes, CallTypes, CmdTypes, CountTypes, DataTypes, PlacesOK
  <2>2. CountsInside' /\ SleeperNamed' /\ (NotRecovered' <=> NotRecovered)
    BY DEF IInv, CountsInside, SleeperNamed, NotRecovered, Doing, DoingOf
  <2>3. NotRecovered => OutTrue' /\ InTrue' /\ TagsOK'
    BY DEF IInv, OutTrue, InTrue, TagsOK, Doing, DoingOf
  <2>4. NotRecovered => InStep'
    BY DEF IInv, InStep, Together, Answers, WriteWorks, ReadWorks, InfoWorks, NoneWorks,
       InWork, InCommand, Answering, AfterAnswer, Begins, Writes, Arrives, Written, Clean, Reads,
       Leaves, Doomed, Informs, Doing, DoingOf
  <2>5. NotRecovered => Done' /\ InOrder'
    BY DEF IInv, Done, SaysGood, Answering, Written, Clean, InOrder, Idle, Disturbed, Doing,
       DoingOf
  <2> QED
    BY <2>1, <2>2, <2>3, <2>4, <2>5 DEF IInv
<1> QED
  BY <1>1, <1>2

LEMMA Invariance == Spec => []IInv
  BY InvInit, InvStep, PTL DEF Spec

\* Good means done: a status that the host has read as good stands for all of the
\* command (SCSICmdHandler, TransmitBuf's CSW), after a reset, a failing card and a
\* pulled cable too, however many chunks and commands there are.
THEOREM GoodMeansDoneHolds == Spec => []GoodMeansDone
<1>1. IInv => GoodMeansDone
  BY DEF IInv, NotRecovered, Done, SaysGood, Written, Clean, GoodMeansDone
<1> QED
  BY <1>1, Invariance, PTL

\* WaitUntilReady sleeps only while its endpoint is busy, but for an interrupt in
\* the gap between the test and the sleep.
THEOREM SleepsForTransferHolds == Spec => []SleepsForTransfer
<1>1. IInv => SleepsForTransfer
  BY DEF IInv, SleeperNamed, SleepsForTransfer
<1> QED
  BY <1>1, Invariance, PTL

\* CmdRead10 and CmdWrite10 never fill a buffer that is still read, only commands
\* get into CmdBlock until a fault strikes, and what SDWrite gets is the chunk of
\* its address.
THEOREM BuffersTrueHolds == Spec => []BuffersTrue
<1>1. IInv => BuffersApart
  <2> SUFFICES ASSUME IInv, NotRecovered PROVE BuffersApart
    BY DEF NotRecovered, BuffersApart
  <2> QED
    BY DEF IInv, Types, CallTypes, Buffers, OutTrue, InTrue, Doing, DoingOf, Other,
       BuffersApart
<1>2. IInv => CommandsAreCommands
  BY DEF IInv, NotRecovered, InOrder, Disturbed, CommandsAreCommands
<1>3. IInv => BufferIsFull
  <2> SUFFICES ASSUME IInv, pc = "sdWrite", ~Disturbed
               PROVE  Buf[cur] = Chunk(CmdBlock.tag, at)
    BY DEF BufferIsFull
  <2>1. NotRecovered
    BY DEF NotRecovered, Disturbed
  <2>2. InCommand /\ Writes
    BY <2>1, AtWork DEF IInv, Types
  <2> QED
    BY <2>2 DEF InCommand, Writes
<1>4. IInv => BuffersTrue
  BY <1>1, <1>2, <1>3, TypesMean DEF IInv, BuffersTrue
<1> QED
  BY <1>4, Invariance, PTL
=============================================================================
