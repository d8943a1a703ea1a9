----------------------------- MODULE MacCommands -----------------------------
(***************************************************************************)
(* The MAC commands: process_mac_commands(), which carries out the         *)
(* network's requests and queues the answers in g_ctx.mac_rsp_buf, and     *)
(* append_uplink_mac_cmds() with the part of lorawan_send() that puts the  *)
(* buffer into a frame and empties it once the frame has been transmitted. *)
(*                                                                         *)
(* A command is a record of its fields.  A field that is only tested       *)
(* against a range of the region is the outcome of that test (valid), and  *)
(* the value a request sets is opaque (value).  An answer is its           *)
(* identifier, its status bits, the number of the request it answers and   *)
(* whether it repeats one of the sticky answers.                           *)
(* Session has the counters, retries and acknowledgements left out here.   *)
(***************************************************************************)
EXTENDS Integers, Sequences, FiniteSets

CONSTANTS
  Regions,       \* records [name, num_channels, max_channels, num_dr]
  Commands,      \* MAC commands as the network sends them, see WellFormed
  Downlinks,     \* records [fopts, port0], sequences of commands
  ChannelMasks,  \* channel sets given to lorawan_set_channels_mask()
  RspSize,       \* sizeof(mac_rsp_buf)
  MaxSends,      \* bound: frames built
  MaxDownlinks   \* bound: downlinks accepted

MaxChannels == 96   \* LORAWAN_MAX_CHANNELS
KeepField   == 15   \* LinkADRReq: leave the data rate or the power alone
FOptsLimit  == 15   \* FCTRL_FOPTSLEN, the largest FOpts field

\* The fields of a command that process_mac_commands() reads, in their widths.
WellFormed(c) ==
  /\ c.cid = "LinkADRReq" =>
       /\ {c.dr, c.power, c.nb_rep} \subseteq 0 .. 15
       /\ c.mask \subseteq 0 .. 15 /\ c.cntl \in 0 .. 7
  /\ c.cid \in {"RXParamSetupReq", "DlChannelReq", "NewChannelReq"} => c.valid \in BOOLEAN
  /\ c.cid = "NewChannelReq" => c.channel \in 0 .. 255

ASSUME MacAssumption ==
  /\ \A r \in Regions : /\ r.num_channels \in 1 .. MaxChannels
                        /\ r.max_channels \in Nat /\ r.num_dr \in 1 .. 15
  /\ \A c \in Commands : WellFormed(c)
  /\ \A d \in Downlinks : d.fopts \in Seq(Commands) /\ d.port0 \in Seq(Commands)
  /\ RspSize \in 0 .. FOptsLimit
  /\ MaxSends \in Nat /\ MaxDownlinks \in Nat

VARIABLES
  region,                                     \* g_ctx.region
  mac_rsp,                                    \* mac_rsp_buf and mac_rsp_len
  link_check_req_pending, device_time_req_pending,
  sticky,                                     \* answers whose _ans_pending is set
  enabled, current_dr, adr_power_index, nb_trans,  \* what LinkADRReq sets
  params,                                     \* what the other requests set
  pc, todo,                                   \* the running handler
  asked, requests, outcome, owed, answered,   \* history
  heard, sends

app      == <<link_check_req_pending, device_time_req_pending>>
adr      == <<enabled, current_dr, adr_power_index, nb_trans>>
handler  == <<pc, todo>>
served   == <<requests, outcome, owed, heard>>
uplinks  == <<asked, answered, sends>>
vars == <<region, mac_rsp, app, sticky, adr, params, handler, served, uplinks>>

AppRequests   == {"LinkCheckReq", "DeviceTimeReq"}
StickyAnswers == {"RXParamSetupAns", "DlChannelAns", "RXTimingSetupAns"}
Answers == AppRequests \cup StickyAnswers \cup
  {"LinkADRAns", "DutyCycleAns", "DevStatusAns", "NewChannelAns", "TxParamSetupAns"}
SizeOf == [cid \in Answers |->
  CASE cid = "DevStatusAns" -> 3
    [] cid \in {"LinkADRAns", "RXParamSetupAns", "NewChannelAns", "DlChannelAns"} -> 2
    [] OTHER -> 1]
\* The status of an answer: all bits set (or none to set), all but one for an
\* RXParamSetupReq that is carried out (0x03 of 0x07), or a request turned down.
Statuses == {"full", "partial", "refused"}
Params == {"max_duty_cycle", "rx2", "rx_timing_delay", "tx_param", "dl_channel", "clock"}
Channels == 0 .. region.num_channels - 1

Init ==
  /\ region \in Regions
  /\ mac_rsp = [buf |-> <<>>, len |-> 0]
  /\ link_check_req_pending = FALSE /\ device_time_req_pending = FALSE
  /\ sticky = {} /\ enabled = 0 .. region.num_channels - 1
  /\ current_dr = 0 /\ adr_power_index = -1 /\ nb_trans = 1
  /\ params = [p \in Params |-> "default"]
  /\ pc = "idle" /\ todo = <<>>
  /\ asked = {} /\ requests = 0 /\ outcome = [cid \in Answers |-> "full"]
  /\ owed = {} /\ answered = <<>> /\ heard = 0 /\ sends = 0
-----------------------------------------------------------------------------
(* The answer buffer *)

Answer(cid, status, n, repeat) ==
  [cid |-> cid, status |-> status, n |-> n, repeat |-> repeat]
FullIf(ok) == IF ok THEN "full" ELSE "refused"

\* Mutant of Fits: one byte too many.
MutFits(rsp, cid) == rsp.len + SizeOf[cid] <= RspSize + 1

Fits(rsp, cid) == rsp.len + SizeOf[cid] <= RspSize

\* Mutant of Queue: every answer is counted as its identifier alone.
MutQueue(rsp, a) ==
  IF Fits(rsp, a.cid)
  THEN [buf |-> Append(rsp.buf, a), len |-> rsp.len + 1]
  ELSE rsp

Queue(rsp, a) ==
  IF Fits(rsp, a.cid)
  THEN [buf |-> Append(rsp.buf, a), len |-> rsp.len + SizeOf[a.cid]]
  ELSE rsp

\* Queue the answer to the request that is being processed, or drop it.
Reply(cid, status) ==
  /\ mac_rsp' = Queue(mac_rsp, Answer(cid, status, requests + 1, FALSE))
  /\ outcome' = [outcome EXCEPT ![cid] = status]
  /\ sticky' = IF cid \in StickyAnswers THEN sticky \cup {cid} ELSE sticky
  /\ owed' = IF cid \in StickyAnswers THEN owed \cup {cid} ELSE owed
-----------------------------------------------------------------------------
(* process_mac_commands(), one request a step *)

\* The command at the head of the frame is dealt with.
MoreCommands == todo # <<>> /\ Head(todo) # <<>>
Command == Head(Head(todo))
Drop == <<Tail(Head(todo))>> \o Tail(todo)
Processing(cid) ==
  /\ pc \in {"process", "window process"} /\ MoreCommands
  /\ Command.cid = cid
  /\ todo' = Drop /\ requests' = requests + 1
  /\ UNCHANGED <<region, app, pc, heard, uplinks>>

SetParam(p, value) == params' = [params EXCEPT ![p] = value]

\* The first pass of LinkADRReq over the channels, by ChMaskCntl.
HasBlocks == region.name \in {"US915", "AU915"}
InBank(ch, cntl) == ch \in 16 * cntl .. 16 * cntl + 15
MaskedOn(ch, mask, cntl) ==
  CASE cntl <= 4 -> IF InBank(ch, cntl) THEN ch - 16 * cntl \in mask ELSE ch \in enabled
    [] cntl = 5 /\ HasBlocks -> IF ch < 64 THEN ch \div 8 \in mask ELSE ch - 64 \in mask
    [] cntl = 5 /\ region.name = "CN470" ->
         IF ch >= 80 THEN ch - 80 \in mask ELSE ch \in enabled
    [] cntl = 6 /\ HasBlocks -> ch < 64 \/ ch - 64 \in mask
    [] OTHER -> TRUE

\* The second pass, for an accepted request only.
SecondPass(chans, mask, cntl) ==
  {ch \in Channels :
     CASE cntl <= 5 /\ InBank(ch, cntl) -> ch - 16 * cntl \in mask
       [] cntl = 6 -> TRUE
       [] OTHER -> ch \in chans}

\* Mutant of MaskOk: a request that leaves no channel is accepted.
MutMaskOk(masked, cntl) == cntl <= 6

MaskOk(masked, cntl) == cntl <= 6 /\ masked # {}

\* The mask and the repetitions are stored even when the request is refused.
LinkADRReq ==
  /\ Processing("LinkADRReq")
  /\ LET c      == Command
         masked == {ch \in Channels : MaskedOn(ch, c.mask, c.cntl)}
         ok     == /\ c.dr = KeepField \/ c.dr < region.num_dr
                   /\ c.power = KeepField \/ c.power <= 7
                   /\ MaskOk(masked, c.cntl)
         chans  == IF ok THEN SecondPass(masked, c.mask, c.cntl) ELSE masked
     IN /\ nb_trans' = IF c.nb_rep = 0 THEN 1 ELSE c.nb_rep
        /\ enabled' = IF c.cntl > 6 THEN enabled ELSE chans \cup (enabled \ Channels)
        /\ current_dr' = IF ok /\ c.dr # KeepField THEN c.dr ELSE current_dr
        /\ adr_power_index' = IF ok /\ c.power # KeepField THEN c.power ELSE adr_power_index
        /\ Reply("LinkADRAns", FullIf(ok))
  /\ UNCHANGED params

DutyCycleReq ==
  /\ Processing("DutyCycleReq")
  /\ SetParam("max_duty_cycle", Command.value) /\ Reply("DutyCycleAns", "full")
  /\ UNCHANGED adr

\* Refused or not, the answer is to be repeated.  The bit for the RX1 offset is
\* never set in the answer itself.
RXParamSetupReq ==
  /\ Processing("RXParamSetupReq")
  /\ IF Command.valid THEN SetParam("rx2", Command.value) ELSE UNCHANGED params
  /\ Reply("RXParamSetupAns", IF Command.valid THEN "partial" ELSE "refused")
  /\ UNCHANGED adr

DevStatusReq ==
  /\ Processing("DevStatusReq")
  /\ Reply("DevStatusAns", "full") /\ UNCHANGED <<adr, params>>

\* A channel beyond num_channels is stored as well and never used.
NewChannelReq ==
  /\ Processing("NewChannelReq")
  /\ LET ok == Command.valid /\ Command.channel < region.max_channels
     IN /\ enabled' = IF ok /\ Command.channel < MaxChannels
                      THEN enabled \cup {Command.channel} ELSE enabled
        /\ Reply("NewChannelAns", FullIf(ok))
  /\ UNCHANGED <<current_dr, adr_power_index, nb_trans, params>>

RXTimingSetupReq ==
  /\ Processing("RXTimingSetupReq")
  /\ SetParam("rx_timing_delay", Command.value) /\ Reply("RXTimingSetupAns", "full")
  /\ UNCHANGED adr

TxParamSetupReq ==
  /\ Processing("TxParamSetupReq")
  /\ SetParam("tx_param", Command.value) /\ Reply("TxParamSetupAns", "full")
  /\ UNCHANGED adr

DlChannelReq ==
  /\ Processing("DlChannelReq")
  /\ IF Command.valid THEN SetParam("dl_channel", Command.value) ELSE UNCHANGED params
  /\ Reply("DlChannelAns", FullIf(Command.valid))
  /\ UNCHANGED adr

\* LinkCheckAns and DeviceTimeAns answer the device and are not answered.
LinkCheckAns ==
  /\ Processing("LinkCheckAns")
  /\ UNCHANGED <<mac_rsp, outcome, sticky, owed, adr, params>>
DeviceTimeAns ==
  /\ Processing("DeviceTimeAns")
  /\ SetParam("clock", Command.value)
  /\ UNCHANGED <<mac_rsp, outcome, sticky, owed, adr>>

\* A command that is cut short or unknown ends its part of the frame.
Abandon ==
  /\ pc \in {"process", "window process"} /\ MoreCommands
  /\ Command.cid = "unknown"
  /\ todo' = Tail(todo)
  /\ UNCHANGED <<region, mac_rsp, app, sticky, adr, params, pc, served, uplinks>>

\* The frame options are done, then the payload of port 0, then the frame.
PartDone ==
  /\ pc \in {"process", "window process"} /\ ~MoreCommands
  /\ todo' = IF todo = <<>> THEN todo ELSE Tail(todo)
  /\ pc' = IF todo # <<>> THEN pc ELSE IF pc = "process" THEN "idle" ELSE "window"
  /\ UNCHANGED <<region, mac_rsp, app, sticky, adr, params, served, uplinks>>

\* process_downlink() once the frame is accepted, in a window or by Class C.
Downlink(d) ==
  /\ pc \in {"idle", "window"} /\ heard < MaxDownlinks
  /\ heard' = heard + 1
  /\ sticky' = {} /\ owed' = {}
  /\ todo' = <<d.fopts, d.port0>>
  /\ pc' = IF pc = "idle" THEN "process" ELSE "window process"
  /\ UNCHANGED <<region, mac_rsp, app, adr, params, requests, outcome, uplinks>>
-----------------------------------------------------------------------------
(* The application and lorawan_send() *)

RequestLinkCheck ==
  /\ pc = "idle"
  /\ link_check_req_pending' = TRUE /\ asked' = asked \cup {"LinkCheckReq"}
  /\ UNCHANGED <<region, mac_rsp, device_time_req_pending, sticky, adr, params,
                 handler, served, answered, sends>>

RequestDeviceTime ==
  /\ pc = "idle"
  /\ device_time_req_pending' = TRUE /\ asked' = asked \cup {"DeviceTimeReq"}
  /\ UNCHANGED <<region, mac_rsp, link_check_req_pending, sticky, adr, params,
                 handler, served, answered, sends>>

SetChannelsMask(mask) ==
  /\ pc = "idle"
  /\ enabled' = {ch \in 0 .. MaxChannels - 1 :
                   IF ch < region.max_channels THEN ch \in mask ELSE ch \in enabled}
  /\ UNCHANGED <<region, mac_rsp, app, sticky, current_dr, adr_power_index, nb_trans,
                 params, handler, served, uplinks>>

\* append_uplink_mac_cmds(): what is wanted and fits, in this order.  A request
\* of the application is no longer pending once it is in the buffer.
Want(rsp, wanted, cid) ==
  IF wanted THEN Queue(rsp, Answer(cid, "full", 0, cid \in StickyAnswers)) ELSE rsp
WithLinkCheck  == Want(mac_rsp, link_check_req_pending, "LinkCheckReq")
WithDeviceTime == Want(WithLinkCheck, device_time_req_pending, "DeviceTimeReq")
WithSticky ==
  LET rx == Want(WithDeviceTime, "RXParamSetupAns" \in sticky, "RXParamSetupAns")
      dl == Want(rx, "DlChannelAns" \in sticky, "DlChannelAns")
  IN Want(dl, "RXTimingSetupAns" \in sticky, "RXTimingSetupAns")

\* Mutants of Appended: a request counts as sent though the buffer is full; a
\* sticky answer is repeated once.
MutAppendedFull ==
  /\ mac_rsp' = WithSticky
  /\ link_check_req_pending' = FALSE /\ device_time_req_pending' = FALSE
  /\ UNCHANGED sticky
MutAppendedOnce ==
  /\ mac_rsp' = WithSticky /\ sticky' = {}
  /\ link_check_req_pending' = (link_check_req_pending /\ ~Fits(mac_rsp, "LinkCheckReq"))
  /\ device_time_req_pending' =
       (device_time_req_pending /\ ~Fits(WithLinkCheck, "DeviceTimeReq"))

Appended ==
  /\ mac_rsp' = WithSticky
  /\ link_check_req_pending' = (link_check_req_pending /\ ~Fits(mac_rsp, "LinkCheckReq"))
  /\ device_time_req_pending' =
       (device_time_req_pending /\ ~Fits(WithLinkCheck, "DeviceTimeReq"))
  /\ UNCHANGED sticky

Send ==
  /\ pc = "idle" /\ sends < MaxSends
  /\ sends' = sends + 1
  /\ Appended /\ pc' = "tx"
  /\ UNCHANGED <<region, adr, params, todo, asked, served, answered>>

\* The frame options are the whole buffer; what they carry is on the air.  The
\* history has the number of the request for each answer.
InBuffer(cid) == \E i \in DOMAIN mac_rsp.buf : mac_rsp.buf[i].cid = cid
Carried ==
  /\ pc = "tx" /\ pc' = "window"
  /\ asked' = {cid \in asked : ~InBuffer(cid)}
  /\ answered' = answered \o [i \in DOMAIN mac_rsp.buf |-> mac_rsp.buf[i].n]
  /\ UNCHANGED <<region, app, sticky, adr, params, todo, served, sends>>

\* Mutant of TxOk: the buffer is kept.
MutTxOk == Carried /\ UNCHANGED mac_rsp

TxOk == Carried /\ mac_rsp' = [buf |-> <<>>, len |-> 0]

TxFail ==
  /\ pc = "tx" /\ pc' = "idle"
  /\ UNCHANGED <<region, mac_rsp, app, sticky, adr, params, todo, served, uplinks>>

SendReturns ==
  /\ pc = "window" /\ pc' = "idle"
  /\ UNCHANGED <<region, mac_rsp, app, sticky, adr, params, todo, served, uplinks>>
-----------------------------------------------------------------------------
Process ==
  \/ LinkADRReq \/ DutyCycleReq \/ RXParamSetupReq \/ DevStatusReq \/ NewChannelReq
  \/ RXTimingSetupReq \/ TxParamSetupReq \/ DlChannelReq
  \/ LinkCheckAns \/ DeviceTimeAns \/ Abandon \/ PartDone

Next ==
  \/ Process \/ \E d \in Downlinks : Downlink(d)
  \/ RequestLinkCheck \/ RequestDeviceTime
  \/ \E mask \in ChannelMasks : SetChannelsMask(mask)
  \/ Send \/ TxOk \/ TxFail \/ SendReturns

Spec == Init /\ [][Next]_vars
-----------------------------------------------------------------------------
(* Properties *)

\* The length the code counts is the length of what it stored.
LengthOf(buf) ==
  LET sum[i \in 0 .. Len(buf)] ==
        IF i = 0 THEN 0 ELSE sum[i - 1] + SizeOf[buf[i].cid]
  IN sum[Len(buf)]

BufferTypeOK ==
  /\ mac_rsp.buf \in Seq([cid : Answers, status : Statuses, n : Nat, repeat : BOOLEAN])
  /\ mac_rsp.len \in 0 .. RspSize
  /\ link_check_req_pending \in BOOLEAN /\ device_time_req_pending \in BOOLEAN
  /\ sticky \subseteq StickyAnswers
SettingsTypeOK ==
  /\ region \in Regions /\ enabled \subseteq 0 .. MaxChannels - 1
  /\ current_dr \in 0 .. region.num_dr - 1
  /\ adr_power_index \in -1 .. 7 /\ nb_trans \in 1 .. 15
HistoryTypeOK ==
  /\ pc \in {"idle", "process", "tx", "window", "window process"}
  /\ todo \in Seq(Seq(Commands))
  /\ asked \subseteq AppRequests /\ requests \in Nat
  /\ outcome \in [Answers -> Statuses] /\ owed \subseteq StickyAnswers
  /\ heard \in 0 .. MaxDownlinks /\ sends \in 0 .. MaxSends
TypeOK == BufferTypeOK /\ SettingsTypeOK /\ HistoryTypeOK

\* The answers never outgrow mac_rsp_buf nor the 4-bit FOptsLen, whatever mix of
\* requests, repetitions and failed transmissions filled the buffer.
FOptsConsistent == mac_rsp.len = LengthOf(mac_rsp.buf) /\ mac_rsp.len <= RspSize

\* A LinkCheckReq or DeviceTimeReq that the application asked for is not lost
\* before it is on the air: not when the buffer is full, nor when TX fails.
RequestNotLost ==
  /\ "LinkCheckReq" \in asked => link_check_req_pending \/ InBuffer("LinkCheckReq")
  /\ "DeviceTimeReq" \in asked => device_time_req_pending \/ InBuffer("DeviceTimeReq")

\* Answers go out in the order of the requests and, apart from the repetition
\* of the sticky ones (number 0, like the device's own requests), once each.
InOrder(numbers) ==
  \A i, j \in DOMAIN numbers :
    i < j /\ numbers[i] > 0 /\ numbers[j] > 0 => numbers[i] < numbers[j]
AnsweredInOrder == InOrder(answered)

\* Until the next downlink every uplink repeats the sticky answers that the last
\* one asked for, as far as the buffer has room.
StickyRepeated ==
  pc = "tx" => \A cid \in owed : InBuffer(cid) \/ ~Fits(mac_rsp, cid)

\* A LinkADRReq that the device says it accepted leaves it a channel to send on,
\* although a second pass rewrites the channels after the test.
AcceptedLeavesChannel ==
  [][requests' > requests /\ Command.cid = "LinkADRReq" /\ outcome'["LinkADRAns"] = "full"
       => enabled' \cap Channels # {}]_vars

\* lorawan_impl.c:508: "Sticky MAC answers: repeat in every uplink until Class A
\* downlink".  What is repeated is the answer that was given.
RepeatsTheAnswer ==
  pc = "tx" => \A i \in DOMAIN mac_rsp.buf :
    LET a == mac_rsp.buf[i] IN a.repeat => a.status = outcome[a.cid]
=============================================================================
