-------------------------- MODULE MacCommandsProofs --------------------------
(***************************************************************************)
(* What the answer buffer and the channels keep to, for every region, every *)
(* sequence of commands and every size of the buffer up to FOpts.          *)
(***************************************************************************)
EXTENDS MacCommands, TLAPS

AnswerSet == [cid : Answers, status : Statuses, n : Nat, repeat : BOOLEAN]
IsBuffer(rsp) == rsp.buf \in Seq(AnswerSet) /\ rsp.len \in 0 .. RspSize
Holds(rsp, cid) == \E i \in DOMAIN rsp.buf : rsp.buf[i].cid = cid

\* Nothing of `from' is lost in `to', and what had no room has none.
Grown(from, to) ==
  /\ IsBuffer(to)
  /\ \A cid \in Answers : /\ Holds(from, cid) => Holds(to, cid)
                          /\ ~Fits(from, cid) => ~Fits(to, cid)
-----------------------------------------------------------------------------
(* Queue and Want *)

\* Answers are one to three bytes long.
LEMMA AnswerSize == \A cid \in Answers : SizeOf[cid] \in 1 .. 3
BY DEF SizeOf

\* Queue adds the answer if it fits and otherwise changes nothing.
LEMMA QueueGrows ==
  ASSUME NEW rsp, IsBuffer(rsp), NEW a \in AnswerSet
  PROVE  /\ Grown(rsp, Queue(rsp, a))
         /\ Fits(rsp, a.cid) => Holds(Queue(rsp, a), a.cid)
<1> USE MacAssumption DEF IsBuffer
<1>1. a.cid \in Answers /\ SizeOf[a.cid] \in 1 .. 3
  BY AnswerSize DEF AnswerSet
<1>2. CASE ~Fits(rsp, a.cid)
  BY <1>2 DEF Queue, Grown
<1>3. CASE Fits(rsp, a.cid)
  <2> DEFINE to == [buf |-> Append(rsp.buf, a), len |-> rsp.len + SizeOf[a.cid]]
  <2>1. Queue(rsp, a) = to
    BY <1>3 DEF Queue
  <2>2. to.buf \in Seq(AnswerSet) /\ to.len \in 0 .. RspSize
    BY <1>1, <1>3 DEF Fits
  <2>3. /\ Len(to.buf) = Len(rsp.buf) + 1
        /\ \A i \in DOMAIN rsp.buf : i \in DOMAIN to.buf /\ to.buf[i] = rsp.buf[i]
        /\ Len(to.buf) \in DOMAIN to.buf /\ to.buf[Len(to.buf)] = a
    OBVIOUS
  <2>4. \A cid \in Answers : ~Fits(rsp, cid) => ~Fits(to, cid)
    <3>1. rsp.len \in Nat /\ to.len \in Nat /\ rsp.len <= to.len /\ RspSize \in Nat
      BY <1>1
    <3>2. \A cid \in Answers : SizeOf[cid] \in Nat
      BY AnswerSize
    <3> HIDE DEF to
    <3> QED
      BY <3>1, <3>2 DEF Fits
  <2> HIDE DEF to
  <2>5. Holds(to, a.cid) /\ \A cid \in Answers : Holds(rsp, cid) => Holds(to, cid)
    BY <2>3 DEF Holds
  <2> QED
    BY <2>1, <2>2, <2>4, <2>5 DEF Grown
<1> QED
  BY <1>2, <1>3

\* What an uplink wants in the buffer is there, or has no room.
LEMMA WantGrows ==
  ASSUME NEW rsp, IsBuffer(rsp), NEW wanted \in BOOLEAN, NEW cid \in Answers
  PROVE  /\ Grown(rsp, Want(rsp, wanted, cid))
         /\ wanted /\ Fits(rsp, cid) => Holds(Want(rsp, wanted, cid), cid)
         /\ wanted => \/ Holds(Want(rsp, wanted, cid), cid)
                      \/ ~Fits(Want(rsp, wanted, cid), cid)
<1> DEFINE a == Answer(cid, "full", 0, cid \in StickyAnswers)
<1>1. a \in AnswerSet /\ a.cid = cid
  BY DEF Answer, AnswerSet, Statuses
<1> HIDE DEF a
<1>2. Grown(rsp, rsp)
  BY DEF Grown
<1>3. CASE wanted
  <2>1. Want(rsp, wanted, cid) = Queue(rsp, a)
    BY <1>3 DEF Want, a
  <2> QED
    BY <1>1, <1>3, <2>1, QueueGrows DEF Grown
<1>4. CASE ~wanted
  BY <1>2, <1>4 DEF Want
<1> QED
  BY <1>3, <1>4

\* Growth is transitive.
LEMMA GrownTwice ==
  ASSUME NEW x, NEW y, NEW z, Grown(x, y), Grown(y, z)
  PROVE  Grown(x, z)
BY DEF Grown

\* The whole of append_uplink_mac_cmds(), seen from the buffer it leaves.
LEMMA AppendedGrows ==
  ASSUME BufferTypeOK
  PROVE  /\ Grown(mac_rsp, WithSticky)
         /\ link_check_req_pending /\ Fits(mac_rsp, "LinkCheckReq")
              => Holds(WithSticky, "LinkCheckReq")
         /\ device_time_req_pending /\ Fits(WithLinkCheck, "DeviceTimeReq")
              => Holds(WithSticky, "DeviceTimeReq")
         /\ \A cid \in sticky : Holds(WithSticky, cid) \/ ~Fits(WithSticky, cid)
<1> DEFINE due(cid) == cid \in sticky
           rx == Want(WithDeviceTime, due("RXParamSetupAns"), "RXParamSetupAns")
           dl == Want(rx, due("DlChannelAns"), "DlChannelAns")
<1>0. /\ {"LinkCheckReq", "DeviceTimeReq"} \cup StickyAnswers \subseteq Answers
      /\ StickyAnswers = {"RXParamSetupAns", "DlChannelAns", "RXTimingSetupAns"}
  BY DEF Answers, AppRequests, StickyAnswers
<1>1. IsBuffer(mac_rsp) /\ link_check_req_pending \in BOOLEAN
      /\ device_time_req_pending \in BOOLEAN /\ sticky \subseteq StickyAnswers
  BY DEF BufferTypeOK, IsBuffer, AnswerSet
<1>a. \A cid \in StickyAnswers : due(cid) \in BOOLEAN /\ (due(cid) <=> cid \in sticky)
  OBVIOUS
<1>b. WithSticky = Want(dl, due("RXTimingSetupAns"), "RXTimingSetupAns")
  BY DEF WithSticky
<1> HIDE DEF due
<1>2. /\ Grown(mac_rsp, WithLinkCheck)
      /\ link_check_req_pending /\ Fits(mac_rsp, "LinkCheckReq")
           => Holds(WithLinkCheck, "LinkCheckReq")
  BY <1>0, <1>1, WantGrows DEF WithLinkCheck
<1>3. /\ Grown(WithLinkCheck, WithDeviceTime)
      /\ device_time_req_pending /\ Fits(WithLinkCheck, "DeviceTimeReq")
           => Holds(WithDeviceTime, "DeviceTimeReq")
  <2>1. IsBuffer(WithLinkCheck)
    BY <1>2 DEF Grown
  <2> QED
    BY <1>0, <1>1, <2>1, WantGrows DEF WithDeviceTime
<1>4. /\ Grown(WithDeviceTime, rx)
      /\ due("RXParamSetupAns") =>
           Holds(rx, "RXParamSetupAns") \/ ~Fits(rx, "RXParamSetupAns")
  BY <1>0, <1>a, <1>3, WantGrows DEF Grown
<1> HIDE DEF rx
<1>5. /\ Grown(rx, dl)
      /\ due("DlChannelAns") => Holds(dl, "DlChannelAns") \/ ~Fits(dl, "DlChannelAns")
  BY <1>0, <1>a, <1>4, WantGrows DEF Grown
<1> HIDE DEF dl
<1>6. /\ Grown(dl, WithSticky)
      /\ due("RXTimingSetupAns") =>
           Holds(WithSticky, "RXTimingSetupAns") \/ ~Fits(WithSticky, "RXTimingSetupAns")
  BY <1>0, <1>a, <1>b, <1>5, WantGrows DEF Grown
<1>7. Grown(WithDeviceTime, WithSticky) /\ Grown(rx, WithSticky)
  BY <1>4, <1>5, <1>6, GrownTwice
<1>8. Grown(mac_rsp, WithSticky) /\ Grown(WithLinkCheck, WithSticky)
  BY <1>2, <1>3, <1>7, GrownTwice
<1> QED
  BY <1>0, <1>1, <1>a, <1>2, <1>3, <1>4, <1>5, <1>6, <1>7, <1>8 DEF Grown
-----------------------------------------------------------------------------
(* Types *)

\* A command read from a well-typed frame is one of the network's.
LEMMA CommandTyped ==
  ASSUME todo \in Seq(Seq(Commands)), MoreCommands
  PROVE  WellFormed(Command) /\ Drop \in Seq(Seq(Commands))
<1>1. Head(todo) \in Seq(Commands) /\ Tail(todo) \in Seq(Seq(Commands))
  BY DEF MoreCommands
<1>2. Head(Head(todo)) \in Commands /\ Tail(Head(todo)) \in Seq(Commands)
  BY <1>1 DEF MoreCommands
<1>3. <<Tail(Head(todo))>> \in Seq(Seq(Commands))
  BY <1>2
<1> QED
  BY <1>1, <1>2, <1>3, MacAssumption DEF Command, Drop

\* Answers are what the buffer holds.
LEMMA AnswerTyped ==
  ASSUME NEW cid \in Answers, NEW status \in Statuses, NEW number \in Nat
  PROVE  Answer(cid, status, number, FALSE) \in AnswerSet
BY DEF Answer, AnswerSet, Statuses

\* A queued answer keeps the buffer and what is remembered of it well typed.
LEMMA ReplyTyped ==
  ASSUME TypeOK, NEW cid \in Answers, NEW status \in Statuses, Reply(cid, status),
         UNCHANGED app
  PROVE  /\ BufferTypeOK' /\ Grown(mac_rsp, mac_rsp')
         /\ outcome' \in [Answers -> Statuses] /\ owed' \subseteq StickyAnswers
<1> DEFINE a == Answer(cid, status, requests + 1, FALSE)
<1>1. a \in AnswerSet
  <2>1. requests \in Nat
    BY Zenon DEF TypeOK, HistoryTypeOK
  <2>2. requests + 1 \in Nat
    BY <2>1
  <2> QED
    BY <2>2, AnswerTyped, Zenon
<1>2. mac_rsp' = Queue(mac_rsp, a)
  BY DEF Reply
<1> HIDE DEF a
<1>3. IsBuffer(mac_rsp)
  BY DEF TypeOK, BufferTypeOK, IsBuffer, AnswerSet
<1>4. Grown(mac_rsp, mac_rsp')
  BY <1>1, <1>2, <1>3, QueueGrows
<1>5. mac_rsp'.buf \in Seq(AnswerSet) /\ mac_rsp'.len \in 0 .. RspSize
  BY <1>4 DEF Grown, IsBuffer
<1>6. sticky' \subseteq StickyAnswers /\ owed' \subseteq StickyAnswers
  BY DEF Reply, TypeOK, BufferTypeOK, HistoryTypeOK
<1>7. outcome' \in [Answers -> Statuses]
  BY DEF Reply, TypeOK, HistoryTypeOK
<1> QED
  BY <1>4, <1>5, <1>6, <1>7 DEF BufferTypeOK, TypeOK, AnswerSet, app

\* Taking a command from the frame leaves the rest of the history well typed.
LEMMA ProcessingTyped ==
  ASSUME TypeOK, NEW cid, Processing(cid),
         outcome' \in [Answers -> Statuses], owed' \subseteq StickyAnswers
  PROVE  /\ HistoryTypeOK' /\ UNCHANGED <<region, app>>
         /\ WellFormed(Command) /\ Command.cid = cid
<1>1. todo \in Seq(Seq(Commands)) /\ requests \in Nat
  BY Zenon DEF TypeOK, HistoryTypeOK
<1>2. MoreCommands /\ Command.cid = cid /\ todo' = Drop /\ requests' = requests + 1
  BY DEF Processing
<1>3. WellFormed(Command) /\ todo' \in Seq(Seq(Commands))
  BY <1>1, <1>2, CommandTyped
<1>4. requests' \in Nat
  BY <1>1, <1>2
<1>5. UNCHANGED <<region, link_check_req_pending, device_time_req_pending, pc, heard,
                  asked, answered, sends>>
  BY DEF Processing, app, uplinks
<1> QED
  BY <1>2, <1>3, <1>4, <1>5, Zenon DEF TypeOK, HistoryTypeOK, app

\* The requests that leave the channels and the data rate alone.
LEMMA SettingsKept ==
  ASSUME SettingsTypeOK, UNCHANGED <<region, adr>>
  PROVE  SettingsTypeOK'
BY DEF SettingsTypeOK, adr

\* The requests that are answered and change at most the channels.
LEMMA AnsweredTyped ==
  ASSUME TypeOK, NEW cid, NEW ans \in Answers, NEW status \in Statuses,
         Processing(cid), Reply(ans, status)
  PROVE  /\ BufferTypeOK' /\ HistoryTypeOK' /\ UNCHANGED <<region, app>>
         /\ WellFormed(Command) /\ Command.cid = cid
<1>1. UNCHANGED app
  BY DEF Processing
<1>2. BufferTypeOK' /\ outcome' \in [Answers -> Statuses] /\ owed' \subseteq StickyAnswers
  BY <1>1, ReplyTyped
<1> QED
  BY <1>2, ProcessingTyped

\* The commands that a frame may hold keep every variable well typed.
LEMMA ProcessTyped == ASSUME TypeOK, Process PROVE TypeOK'
<1>0. /\ {"LinkADRAns", "DutyCycleAns", "RXParamSetupAns", "DevStatusAns", "NewChannelAns",
          "RXTimingSetupAns", "TxParamSetupAns", "DlChannelAns"} \subseteq Answers
      /\ SettingsTypeOK /\ BufferTypeOK /\ HistoryTypeOK
  BY DEF Answers, StickyAnswers, TypeOK
<1>1. CASE LinkADRReq
  <2> DEFINE c == Command
             masked == {ch \in Channels : MaskedOn(ch, c.mask, c.cntl)}
             ok == /\ c.dr = KeepField \/ c.dr < region.num_dr
                   /\ c.power = KeepField \/ c.power <= 7
                   /\ MaskOk(masked, c.cntl)
             chans == IF ok THEN SecondPass(masked, c.mask, c.cntl) ELSE masked
  <2>1. FullIf(ok) \in Statuses /\ Processing("LinkADRReq") /\ Reply("LinkADRAns", FullIf(ok))
    BY <1>1 DEF LinkADRReq, MaskOk, FullIf, Statuses
  <2>2. /\ BufferTypeOK' /\ HistoryTypeOK' /\ region' = region
        /\ WellFormed(c) /\ c.cid = "LinkADRReq"
    <3> HIDE DEF ok
    <3> QED
      BY <1>0, <2>1, AnsweredTyped
  <2>3. /\ nb_trans' = IF c.nb_rep = 0 THEN 1 ELSE c.nb_rep
        /\ enabled' = IF c.cntl > 6 THEN enabled ELSE chans \cup (enabled \ Channels)
        /\ current_dr' = IF ok /\ c.dr # KeepField THEN c.dr ELSE current_dr
        /\ adr_power_index' = IF ok /\ c.power # KeepField THEN c.power ELSE adr_power_index
    BY <1>1 DEF LinkADRReq
  <2>4. {c.dr, c.power, c.nb_rep} \subseteq 0 .. 15
    BY <2>2 DEF WellFormed
  <2>5. region \in Regions /\ region.num_channels \in 1 .. MaxChannels /\ region.num_dr \in 1 .. 15
    BY <1>0, MacAssumption DEF SettingsTypeOK
  <2>6. enabled' \subseteq 0 .. MaxChannels - 1
    <3>1. chans \subseteq Channels
      BY DEF SecondPass
    <3>2. Channels \subseteq 0 .. MaxChannels - 1
      BY <2>5 DEF Channels, MaxChannels
    <3> QED
      BY <1>0, <2>3, <3>1, <3>2 DEF SettingsTypeOK
  <2>7. nb_trans' \in 1 .. 15
    BY <2>3, <2>4
  <2>8. current_dr' \in 0 .. region.num_dr - 1
    <3>1. current_dr' = current_dr \/ (current_dr' = c.dr /\ c.dr < region.num_dr)
      BY <2>3 DEF KeepField
    <3> QED
      BY <1>0, <2>4, <2>5, <3>1 DEF SettingsTypeOK
  <2>9. adr_power_index' \in -1 .. 7
    <3>1. adr_power_index' = adr_power_index \/ (adr_power_index' = c.power /\ c.power <= 7)
      BY <2>3 DEF KeepField
    <3> QED
      BY <1>0, <2>4, <3>1 DEF SettingsTypeOK
  <2> QED
    BY <2>2, <2>5, <2>6, <2>7, <2>8, <2>9 DEF TypeOK, SettingsTypeOK
<1>2. CASE NewChannelReq
  <2> DEFINE c == Command
             ok == c.valid /\ c.channel < region.max_channels
  <2>1. FullIf(ok) \in Statuses /\ Processing("NewChannelReq") /\ Reply("NewChannelAns", FullIf(ok))
    BY <1>2 DEF NewChannelReq, FullIf, Statuses
  <2>2. /\ BufferTypeOK' /\ HistoryTypeOK' /\ region' = region
        /\ WellFormed(c) /\ c.cid = "NewChannelReq"
    <3> HIDE DEF ok
    <3> QED
      BY <1>0, <2>1, AnsweredTyped
  <2>3. c.channel \in 0 .. 255
    BY <2>2 DEF WellFormed
  <2>4. /\ enabled' = enabled \/ (c.channel < MaxChannels /\ enabled' = enabled \cup {c.channel})
        /\ UNCHANGED <<current_dr, adr_power_index, nb_trans>>
    <3>1. /\ enabled' = IF ok /\ c.channel < MaxChannels
                        THEN enabled \cup {c.channel} ELSE enabled
          /\ UNCHANGED <<current_dr, adr_power_index, nb_trans>>
      BY <1>2 DEF NewChannelReq
    <3> HIDE DEF ok, c
    <3> QED
      BY <3>1, Zenon
  <2>5. enabled' \subseteq 0 .. MaxChannels - 1
    <3>1. enabled \subseteq 0 .. MaxChannels - 1
      BY <1>0 DEF SettingsTypeOK
    <3>2. CASE enabled' = enabled
      BY <3>1, <3>2
    <3>3. CASE c.channel < MaxChannels /\ enabled' = enabled \cup {c.channel}
      <4>1. \A ch \in 0 .. 255 : ch < MaxChannels => ch \in 0 .. MaxChannels - 1
        BY DEF MaxChannels
      <4>2. c.channel \in 0 .. MaxChannels - 1
        BY <2>3, <3>3, <4>1, Zenon
      <4> QED
        BY <3>1, <3>3, <4>2, Zenon
    <3> QED
      BY <2>4, <3>2, <3>3, Zenon
  <2> QED
    BY <1>0, <2>2, <2>4, <2>5 DEF TypeOK, SettingsTypeOK
<1>3. CASE RXParamSetupReq \/ DlChannelReq
  <2>1. PICK cid \in {"RXParamSetupReq", "DlChannelReq"},
             ans \in {"RXParamSetupAns", "DlChannelAns"}, status \in Statuses :
               Processing(cid) /\ Reply(ans, status) /\ UNCHANGED adr
    BY <1>3 DEF RXParamSetupReq, DlChannelReq, FullIf, Statuses
  <2>2. BufferTypeOK' /\ HistoryTypeOK' /\ UNCHANGED region
    BY <1>0, <2>1, AnsweredTyped
  <2> QED
    BY <1>0, <2>1, <2>2, SettingsKept DEF TypeOK
<1>4. CASE DutyCycleReq \/ DevStatusReq \/ RXTimingSetupReq \/ TxParamSetupReq
  <2>1. PICK cid \in {"DutyCycleReq", "DevStatusReq", "RXTimingSetupReq", "TxParamSetupReq"},
             ans \in {"DutyCycleAns", "DevStatusAns", "RXTimingSetupAns", "TxParamSetupAns"} :
               Processing(cid) /\ Reply(ans, "full") /\ UNCHANGED adr
    BY <1>4 DEF DutyCycleReq, DevStatusReq, RXTimingSetupReq, TxParamSetupReq
  <2>2. BufferTypeOK' /\ HistoryTypeOK' /\ UNCHANGED region
    BY <1>0, <2>1, AnsweredTyped DEF Statuses
  <2> QED
    BY <1>0, <2>1, <2>2, SettingsKept DEF TypeOK
<1>5. CASE LinkCheckAns \/ DeviceTimeAns
  <2>1. PICK cid : Processing(cid)
    BY <1>5 DEF LinkCheckAns, DeviceTimeAns
  <2>2. UNCHANGED <<mac_rsp, outcome, sticky, owed, adr>>
    BY <1>5 DEF LinkCheckAns, DeviceTimeAns
  <2>3. outcome' \in [Answers -> Statuses] /\ owed' \subseteq StickyAnswers
    BY <1>0, <2>2, Zenon DEF HistoryTypeOK
  <2>4. HistoryTypeOK' /\ UNCHANGED <<region, app>>
    BY <2>1, <2>3, ProcessingTyped
  <2>5. BufferTypeOK'
    BY <1>0, <2>2, <2>4 DEF BufferTypeOK, app
  <2> QED
    BY <1>0, <2>2, <2>4, <2>5, SettingsKept DEF TypeOK
<1>6. CASE Abandon \/ PartDone
  <2>1. UNCHANGED <<region, mac_rsp, app, sticky, adr, served, uplinks>>
    BY <1>6 DEF Abandon, PartDone
  <2>2. todo \in Seq(Seq(Commands))
    BY <1>0, Zenon DEF HistoryTypeOK
  <2>3. todo' \in Seq(Seq(Commands))
    <3>1. todo' = todo \/ (todo # <<>> /\ todo' = Tail(todo))
      <4>1. CASE Abandon
        BY <4>1 DEF Abandon, MoreCommands
      <4>2. CASE PartDone
        BY <4>2 DEF PartDone
      <4> QED
        BY <1>6, <4>1, <4>2
    <3>2. CASE todo' = todo
      BY <2>2, <3>2
    <3>3. CASE todo # <<>> /\ todo' = Tail(todo)
      BY <2>2, <3>3
    <3> QED
      BY <3>1, <3>2, <3>3, Zenon
  <2>4. pc' \in {"idle", "process", "tx", "window", "window process"}
    BY <1>0, <1>6, Zenon DEF Abandon, PartDone, HistoryTypeOK
  <2>5. HistoryTypeOK'
    BY <1>0, <2>1, <2>3, <2>4, Zenon DEF HistoryTypeOK, served, uplinks
  <2>6. BufferTypeOK'
    BY <1>0, <2>1 DEF BufferTypeOK, app
  <2> QED
    BY <1>0, <2>1, <2>5, <2>6, SettingsKept DEF TypeOK
<1> QED
  BY <1>1, <1>2, <1>3, <1>4, <1>5, <1>6 DEF Process

\* Requests and answers take their places in the buffer well typed.
LEMMA AppendedTyped == ASSUME TypeOK, Send PROVE TypeOK' /\ Grown(mac_rsp, mac_rsp')
<1>0. SettingsTypeOK /\ BufferTypeOK /\ HistoryTypeOK
  BY DEF TypeOK
<1>1. /\ mac_rsp' = WithSticky /\ UNCHANGED <<sticky, region, adr, asked, answered, todo, served>>
      /\ link_check_req_pending' \in BOOLEAN /\ device_time_req_pending' \in BOOLEAN
  BY DEF Send, Appended
<1>2. Grown(mac_rsp, mac_rsp')
  BY <1>0, <1>1, AppendedGrows
<1>3. BufferTypeOK'
  BY <1>0, <1>1, <1>2 DEF BufferTypeOK, Grown, IsBuffer, AnswerSet
<1>4. sends' \in 0 .. MaxSends
  <2>1. sends \in 0 .. MaxSends
    BY <1>0, Zenon DEF HistoryTypeOK
  <2>2. sends' = sends + 1 /\ sends < MaxSends
    BY DEF Send
  <2> QED
    BY <2>1, <2>2, MacAssumption
<1>5. pc' = "tx"
  BY DEF Send
<1>6. HistoryTypeOK'
  BY <1>0, <1>1, <1>4, <1>5, Zenon DEF HistoryTypeOK, served
<1> QED
  BY <1>0, <1>1, <1>2, <1>3, <1>6, SettingsKept DEF TypeOK

\* Two elements make a sequence.
LEMMA PairIsSeq == ASSUME NEW S, NEW a \in S, NEW b \in S PROVE <<a, b>> \in Seq(S)
  OBVIOUS

\* A new downlink begins its processing well typed.
LEMMA DownlinkTyped ==
  ASSUME TypeOK, NEW d \in Downlinks, Downlink(d)
  PROVE  TypeOK'
<1>0. SettingsTypeOK /\ BufferTypeOK /\ HistoryTypeOK
  BY DEF TypeOK
<1>1. /\ sticky' = {} /\ owed' = {} /\ todo' = <<d.fopts, d.port0>>
      /\ pc' \in {"process", "window process"}
      /\ UNCHANGED <<region, mac_rsp, app, adr, requests, outcome, uplinks>>
  BY DEF Downlink
<1>2. todo' \in Seq(Seq(Commands))
  <2>1. d.fopts \in Seq(Commands) /\ d.port0 \in Seq(Commands)
    BY MacAssumption, Zenon
  <2> QED
    BY <1>1, <2>1, PairIsSeq, Zenon
<1>3. heard' \in 0 .. MaxDownlinks
  <2>1. heard \in 0 .. MaxDownlinks
    BY <1>0, Zenon DEF HistoryTypeOK
  <2>2. heard' = heard + 1 /\ heard < MaxDownlinks
    BY DEF Downlink
  <2> QED
    BY <2>1, <2>2, MacAssumption
<1>4. HistoryTypeOK'
  BY <1>0, <1>1, <1>2, <1>3, Zenon DEF HistoryTypeOK, uplinks
<1>5. BufferTypeOK'
  BY <1>0, <1>1 DEF BufferTypeOK, app
<1> QED
  BY <1>0, <1>1, <1>4, <1>5, SettingsKept DEF TypeOK

\* Every reachable state is well typed; in particular the answers fit in FOpts.
THEOREM TypeCorrect == Spec => []TypeOK
<1>1. Init => TypeOK
  <2> SUFFICES ASSUME Init PROVE TypeOK
    OBVIOUS
  <2>1. region \in Regions /\ region.num_channels \in 1 .. MaxChannels /\ region.num_dr \in 1 .. 15
    BY MacAssumption DEF Init
  <2>2. SettingsTypeOK
    <3>1. enabled = 0 .. region.num_channels - 1 /\ current_dr = 0
          /\ adr_power_index = -1 /\ nb_trans = 1
      BY DEF Init
    <3> HIDE DEF Init
    <3>2. \A n \in 1 .. MaxChannels : 0 .. n - 1 \subseteq 0 .. MaxChannels - 1
      BY DEF MaxChannels
    <3>3. \A n \in 1 .. 15 : 0 \in 0 .. n - 1
      OBVIOUS
    <3>4. -1 \in -1 .. 7 /\ 1 \in 1 .. 15
      OBVIOUS
    <3> QED
      BY <2>1, <3>1, <3>2, <3>3, <3>4, Zenon DEF SettingsTypeOK
  <2>3. BufferTypeOK
    <3>1. /\ mac_rsp = [buf |-> <<>>, len |-> 0] /\ sticky = {}
          /\ link_check_req_pending = FALSE /\ device_time_req_pending = FALSE
      BY DEF Init
    <3> HIDE DEF Init
    <3>2. mac_rsp.buf = <<>> /\ mac_rsp.len = 0
      BY <3>1
    <3>3. mac_rsp.len \in 0 .. RspSize
      BY <3>2, MacAssumption
    <3>4. mac_rsp.buf \in Seq([cid : Answers, status : Statuses, n : Nat, repeat : BOOLEAN])
      BY <3>2
    <3> QED
      BY <3>1, <3>3, <3>4, Zenon DEF BufferTypeOK
  <2>4. todo \in Seq(Seq(Commands)) /\ requests \in Nat
        /\ heard \in 0 .. MaxDownlinks /\ sends \in 0 .. MaxSends
    <3>1. todo = <<>> /\ requests = 0 /\ heard = 0 /\ sends = 0
      BY DEF Init
    <3> HIDE DEF Init
    <3> QED
      BY <3>1, MacAssumption
  <2>5. outcome \in [Answers -> Statuses] /\ asked \subseteq AppRequests /\ owed \subseteq StickyAnswers
    <3>1. outcome = [cid \in Answers |-> "full"] /\ asked = {} /\ owed = {}
      BY DEF Init
    <3>2. [cid \in Answers |-> "full"] \in [Answers -> Statuses]
      BY DEF Statuses
    <3> QED
      BY <3>1, <3>2, Zenon
  <2>6. HistoryTypeOK
    BY <2>4, <2>5, Zenon DEF Init, HistoryTypeOK
  <2> QED
    BY <2>2, <2>3, <2>6 DEF TypeOK
<1>2. TypeOK /\ [Next]_vars => TypeOK'
  <2> SUFFICES ASSUME TypeOK, [Next]_vars PROVE TypeOK'
    OBVIOUS
  <2>0. SettingsTypeOK /\ BufferTypeOK /\ HistoryTypeOK
    BY DEF TypeOK
  <2>1. CASE UNCHANGED vars
    <3>1. SettingsTypeOK' /\ BufferTypeOK'
      BY <2>0, <2>1, SettingsKept DEF vars, BufferTypeOK, app
    <3>2. HistoryTypeOK'
      BY <2>0, <2>1, Zenon DEF vars, HistoryTypeOK, handler, served, uplinks
    <3> QED
      BY <3>1, <3>2 DEF TypeOK
  <2>2. CASE Process
    BY <2>2, ProcessTyped
  <2>3. CASE \E d \in Downlinks : Downlink(d)
    BY <2>3, DownlinkTyped
  <2>4. CASE Send
    BY <2>4, AppendedTyped
  <2>5. CASE RequestLinkCheck \/ RequestDeviceTime
    <3>1. /\ UNCHANGED <<region, adr, mac_rsp, sticky, handler, served, answered, sends>>
          /\ asked' \subseteq asked \cup {"LinkCheckReq", "DeviceTimeReq"}
      BY <2>5 DEF RequestLinkCheck, RequestDeviceTime
    <3>2. asked' \subseteq AppRequests
      BY <2>0, <3>1 DEF HistoryTypeOK, AppRequests
    <3>3. HistoryTypeOK'
      BY <2>0, <3>1, <3>2, Zenon DEF HistoryTypeOK, handler, served
    <3>4. BufferTypeOK'
      BY <2>0, <2>5 DEF RequestLinkCheck, RequestDeviceTime, BufferTypeOK
    <3> QED
      BY <2>0, <3>1, <3>3, <3>4, SettingsKept DEF TypeOK
  <2>6. ASSUME NEW mask, SetChannelsMask(mask) PROVE TypeOK'
    <3>1. /\ enabled' \subseteq 0 .. MaxChannels - 1
          /\ UNCHANGED <<region, mac_rsp, app, sticky, current_dr, adr_power_index, nb_trans,
                         handler, served, uplinks>>
      BY <2>6 DEF SetChannelsMask
    <3>2. HistoryTypeOK'
      BY <2>0, <3>1, Zenon DEF HistoryTypeOK, handler, served, uplinks
    <3>3. BufferTypeOK' /\ SettingsTypeOK'
      BY <2>0, <3>1 DEF BufferTypeOK, SettingsTypeOK, app
    <3> QED
      BY <3>2, <3>3 DEF TypeOK
  <2>7. CASE TxOk
    <3>1. /\ mac_rsp' = [buf |-> <<>>, len |-> 0] /\ pc' = "window" /\ asked' \subseteq asked
          /\ UNCHANGED <<region, app, sticky, adr, todo, served, sends>>
      BY <2>7 DEF TxOk, Carried
    <3>2. BufferTypeOK'
      BY <2>0, <3>1, MacAssumption DEF BufferTypeOK, app
    <3>3. HistoryTypeOK'
      BY <2>0, <3>1, Zenon DEF HistoryTypeOK, served
    <3> QED
      BY <2>0, <3>1, <3>2, <3>3, SettingsKept DEF TypeOK
  <2>8. CASE TxFail \/ SendReturns
    <3>1. pc' = "idle" /\ UNCHANGED <<region, mac_rsp, app, sticky, adr, todo, served, uplinks>>
      BY <2>8 DEF TxFail, SendReturns
    <3>2. HistoryTypeOK'
      BY <2>0, <3>1, Zenon DEF HistoryTypeOK, served, uplinks
    <3>3. BufferTypeOK'
      BY <2>0, <3>1 DEF BufferTypeOK, app
    <3> QED
      BY <2>0, <3>1, <3>2, <3>3, SettingsKept DEF TypeOK
  <2> QED
    BY <2>1, <2>2, <2>3, <2>4, <2>5, <2>6, <2>7, <2>8 DEF Next
<1> QED
  BY <1>1, <1>2, PTL DEF Spec
-----------------------------------------------------------------------------
(* The application's requests and the sticky answers *)

\* No answer pushes another one out of the buffer.
LEMMA QueueKeeps ==
  ASSUME NEW rsp, rsp.buf \in Seq(AnswerSet), NEW a, NEW cid, Holds(rsp, cid)
  PROVE  Holds(Queue(rsp, a), cid)
<1>1. CASE Fits(rsp, a.cid)
  <2> DEFINE to == [buf |-> Append(rsp.buf, a), len |-> rsp.len + SizeOf[a.cid]]
  <2>1. Queue(rsp, a) = to
    BY <1>1 DEF Queue
  <2>2. \A i \in DOMAIN rsp.buf : i \in DOMAIN to.buf /\ to.buf[i] = rsp.buf[i]
    OBVIOUS
  <2> HIDE DEF to
  <2> QED
    BY <2>1, <2>2 DEF Holds
<1>2. CASE ~Fits(rsp, a.cid)
  BY <1>2 DEF Queue
<1> QED
  BY <1>1, <1>2

\* A command of a frame loses nothing of the buffer and sends nothing, and its
\* answer is owed exactly if it is sticky.
LEMMA ProcessKeeps ==
  ASSUME TypeOK, Process
  PROVE  /\ UNCHANGED <<app, uplinks>> /\ pc # "tx" /\ pc' # "tx"
         /\ \A cid : Holds(mac_rsp, cid) => Holds(mac_rsp, cid)'
         /\ owed = sticky => owed' = sticky'
<1>0. mac_rsp.buf \in Seq(AnswerSet)
  BY DEF TypeOK, BufferTypeOK, AnswerSet
<1>1. UNCHANGED <<app, uplinks>> /\ pc # "tx" /\ pc' # "tx"
  BY DEF Process, LinkADRReq, DutyCycleReq, RXParamSetupReq, DevStatusReq, NewChannelReq,
         RXTimingSetupReq, TxParamSetupReq, DlChannelReq, LinkCheckAns, DeviceTimeAns,
         Processing, Abandon, PartDone
<1>2. \/ UNCHANGED <<mac_rsp, sticky, owed>>
      \/ \E cid, ok : Reply(cid, ok)
  BY DEF Process, LinkADRReq, DutyCycleReq, RXParamSetupReq, DevStatusReq, NewChannelReq,
         RXTimingSetupReq, TxParamSetupReq, DlChannelReq, LinkCheckAns, DeviceTimeAns,
         Abandon, PartDone, served
<1>3. CASE UNCHANGED <<mac_rsp, sticky, owed>>
  BY <1>1, <1>3 DEF Holds
<1>4. ASSUME NEW ans, NEW ok, Reply(ans, ok)
      PROVE  /\ \A cid : Holds(mac_rsp, cid) => Holds(mac_rsp, cid)'
             /\ owed = sticky => owed' = sticky'
  <2>1. /\ mac_rsp' = Queue(mac_rsp, Answer(ans, ok, requests + 1, FALSE))
        /\ owed = sticky => owed' = sticky'
    BY <1>4 DEF Reply
  <2>2. ASSUME NEW cid, Holds(mac_rsp, cid) PROVE Holds(mac_rsp', cid)
    BY <1>0, <2>1, <2>2, QueueKeeps
  <2> QED
    BY <2>1, <2>2 DEF Holds
<1> QED
  BY <1>1, <1>2, <1>3, <1>4

\* A request of the application is pending or in the buffer until an uplink has
\* carried it: append_uplink_mac_cmds() takes the flag away only with the request
\* in the buffer, and only a transmission that succeeded empties the buffer.
THEOREM RequestsKept == Spec => []RequestNotLost
<1>1. Init => RequestNotLost
  BY DEF Init, RequestNotLost
<1>2. TypeOK /\ RequestNotLost /\ [Next]_vars => RequestNotLost'
  <2> SUFFICES ASSUME TypeOK, RequestNotLost, [Next]_vars PROVE RequestNotLost'
    OBVIOUS
  <2> USE DEF RequestNotLost
  <2>1. CASE UNCHANGED vars
    BY <2>1 DEF vars, app, uplinks, InBuffer
  <2>2. CASE Process
    BY <2>2, ProcessKeeps DEF app, uplinks, InBuffer, Holds
  <2>3. CASE \E d \in Downlinks : Downlink(d)
    <3>1. UNCHANGED <<mac_rsp, link_check_req_pending, device_time_req_pending, asked>>
      BY <2>3, Zenon DEF Downlink, app, uplinks
    <3> QED
      BY <3>1 DEF InBuffer
  <2>4. CASE Send
    <3>1. /\ asked' = asked /\ mac_rsp' = WithSticky
          /\ link_check_req_pending' =
               (link_check_req_pending /\ ~Fits(mac_rsp, "LinkCheckReq"))
          /\ device_time_req_pending' =
               (device_time_req_pending /\ ~Fits(WithLinkCheck, "DeviceTimeReq"))
      BY <2>4 DEF Send, Appended
    <3>2. {"LinkCheckReq", "DeviceTimeReq"} \subseteq Answers
      BY DEF Answers, AppRequests
    <3>3. /\ Grown(mac_rsp, mac_rsp')
          /\ link_check_req_pending /\ Fits(mac_rsp, "LinkCheckReq")
               => Holds(mac_rsp', "LinkCheckReq")
          /\ device_time_req_pending /\ Fits(WithLinkCheck, "DeviceTimeReq")
               => Holds(mac_rsp', "DeviceTimeReq")
      BY <3>1, AppendedGrows, Zenon DEF TypeOK
    <3>4. \A cid \in AppRequests : InBuffer(cid) => Holds(mac_rsp', cid)
      BY <3>2, <3>3 DEF Grown, InBuffer, Holds, AppRequests
    <3>5. \A cid : Holds(mac_rsp', cid) => InBuffer(cid)'
      BY DEF InBuffer, Holds
    <3> QED
      BY <3>1, <3>3, <3>4, <3>5, Zenon DEF AppRequests
  <2>5. CASE RequestLinkCheck \/ RequestDeviceTime
    BY <2>5 DEF RequestLinkCheck, RequestDeviceTime, InBuffer
  <2>6. CASE \E mask \in ChannelMasks : SetChannelsMask(mask)
    BY <2>6 DEF SetChannelsMask, app, uplinks, InBuffer
  <2>7. CASE TxOk
    BY <2>7 DEF TxOk, Carried, app
  <2>8. CASE TxFail \/ SendReturns
    BY <2>8 DEF TxFail, SendReturns, app, uplinks, InBuffer
  <2> QED
    BY <2>1, <2>2, <2>3, <2>4, <2>5, <2>6, <2>7, <2>8 DEF Next
<1> QED
  BY <1>1, <1>2, TypeCorrect, PTL DEF Spec

\* Every uplink between two downlinks repeats all the sticky answers the last one
\* asked for, or has no room for them: the flags survive an uplink, and what is
\* appended to the buffer never makes room.
THEOREM StickyKept == Spec => []StickyRepeated
<1> DEFINE StickyInv == owed = sticky /\ StickyRepeated
<1>1. Init => StickyInv
  BY DEF Init, StickyRepeated
<1>2. TypeOK /\ StickyInv /\ [Next]_vars => StickyInv'
  <2> SUFFICES ASSUME TypeOK, StickyInv, [Next]_vars PROVE StickyInv'
    OBVIOUS
  <2>1. CASE UNCHANGED vars
    BY <2>1 DEF vars, handler, served, StickyRepeated, InBuffer, Fits
  <2>2. CASE Process
    BY <2>2, ProcessKeeps DEF StickyRepeated
  <2>3. CASE \E d \in Downlinks : Downlink(d)
    BY <2>3 DEF Downlink, StickyRepeated
  <2>4. CASE Send
    <3>1. owed' = sticky /\ sticky' = sticky /\ mac_rsp' = WithSticky
      BY <2>4 DEF Send, Appended, served
    <3>2. \A cid \in sticky : Holds(mac_rsp', cid) \/ ~Fits(mac_rsp', cid)
      BY <3>1, AppendedGrows DEF TypeOK
    <3>3. \A cid : (Holds(mac_rsp', cid) => InBuffer(cid)') /\ (Fits(mac_rsp', cid) <=> Fits(mac_rsp, cid)')
      BY DEF InBuffer, Holds, Fits
    <3> QED
      BY <3>1, <3>2, <3>3 DEF StickyRepeated
  <2>5. CASE RequestLinkCheck \/ RequestDeviceTime
    BY <2>5 DEF RequestLinkCheck, RequestDeviceTime, handler, served, StickyRepeated
  <2>6. CASE \E mask \in ChannelMasks : SetChannelsMask(mask)
    BY <2>6 DEF SetChannelsMask, handler, served, StickyRepeated
  <2>7. CASE TxOk
    BY <2>7 DEF TxOk, Carried, served, StickyRepeated
  <2>8. CASE TxFail \/ SendReturns
    BY <2>8 DEF TxFail, SendReturns, served, StickyRepeated
  <2> QED
    BY <2>1, <2>2, <2>3, <2>4, <2>5, <2>6, <2>7, <2>8 DEF Next
<1> QED
  BY <1>1, <1>2, TypeCorrect, PTL DEF Spec
-----------------------------------------------------------------------------
(* The channels a LinkADRReq leaves *)

\* The second pass keeps a channel if the first one did: within the bank that the
\* request names both read the same bits, and block masks have 16 bits.
LEMMA SecondPassKeeps ==
  ASSUME region.num_channels \in 1 .. MaxChannels,
         NEW mask \in SUBSET (0 .. 15), NEW cntl \in 0 .. 6,
         {ch \in Channels : MaskedOn(ch, mask, cntl)} # {}
  PROVE  SecondPass({ch \in Channels : MaskedOn(ch, mask, cntl)}, mask, cntl) # {}
<1> DEFINE masked == {ch \in Channels : MaskedOn(ch, mask, cntl)}
<1>1. PICK on \in Channels : MaskedOn(on, mask, cntl)
  OBVIOUS
<1>2. Channels \subseteq 0 .. 95 /\ 0 \in Channels
  BY DEF Channels, MaxChannels
<1>3. CASE cntl <= 4
  <2>1. InBank(on, cntl) => on - 16 * cntl \in mask
    BY <1>1, <1>3 DEF MaskedOn
  <2>2. on \in SecondPass(masked, mask, cntl)
    BY <1>1, <1>3, <2>1 DEF SecondPass
  <2> QED
    BY <2>2
<1>4. CASE cntl = 6
  BY <1>1, <1>4 DEF SecondPass
<1>5. CASE cntl = 5
  <2>0. \A ch \in 0 .. 95 : InBank(ch, cntl) <=> ch >= 80
    BY <1>5 DEF InBank
  <2>1. CASE HasBlocks \/ region.name = "CN470"
    <3>1. InBank(on, cntl) => on - 16 * cntl \in mask
      BY <1>1, <1>2, <1>5, <2>0, <2>1 DEF MaskedOn, HasBlocks
    <3>2. on \in SecondPass(masked, mask, cntl)
      BY <1>1, <1>5, <3>1 DEF SecondPass
    <3> QED
      BY <3>2
  <2>2. CASE ~HasBlocks /\ region.name # "CN470"
    <3>1. ~InBank(0, cntl)
      BY <2>0
    <3>2. MaskedOn(0, mask, cntl)
      BY <1>5, <2>2 DEF MaskedOn
    <3>3. 0 \in SecondPass(masked, mask, cntl)
      BY <1>2, <1>5, <3>1, <3>2 DEF SecondPass
    <3> QED
      BY <3>3
  <2> QED
    BY <2>1, <2>2
<1>6. cntl <= 4 \/ cntl = 5 \/ cntl = 6
  OBVIOUS
<1> QED
  BY <1>3, <1>4, <1>5, <1>6, Zenon

\* A LinkADRReq answered with all its status bits set leaves the device a channel
\* to send on, in every region and for every mask and ChMaskCntl.
THEOREM ChannelLeft == Spec => AcceptedLeavesChannel
<1>1. TypeOK /\ [Next]_vars =>
        [requests' > requests /\ Command.cid = "LinkADRReq" /\ outcome'["LinkADRAns"] = "full"
           => enabled' \cap Channels # {}]_vars
  <2> SUFFICES ASSUME TypeOK, Next, requests' > requests, Command.cid = "LinkADRReq",
                      outcome'["LinkADRAns"] = "full"
               PROVE  enabled' \cap Channels # {}
    OBVIOUS
  <2>0. requests \in Nat /\ todo \in Seq(Seq(Commands)) /\ outcome \in [Answers -> Statuses]
    BY Zenon DEF TypeOK, HistoryTypeOK
  <2>1. Process /\ ~Abandon /\ ~PartDone
    <3>1. requests' # requests
      BY <2>0
    <3> QED
      BY <3>1, Zenon DEF Next, Downlink, RequestLinkCheck, RequestDeviceTime, SetChannelsMask, Send,
             TxOk, Carried, TxFail, SendReturns, Abandon, PartDone, served
  <2>2. LinkADRReq
    BY <2>1 DEF Process, DutyCycleReq, RXParamSetupReq, DevStatusReq, NewChannelReq,
         RXTimingSetupReq, TxParamSetupReq, DlChannelReq, LinkCheckAns, DeviceTimeAns, Processing
  <2> DEFINE c == Command
             masked == {ch \in Channels : MaskedOn(ch, c.mask, c.cntl)}
             ok == /\ c.dr = KeepField \/ c.dr < region.num_dr
                   /\ c.power = KeepField \/ c.power <= 7
                   /\ MaskOk(masked, c.cntl)
             chans == IF ok THEN SecondPass(masked, c.mask, c.cntl) ELSE masked
  <2>3. /\ MoreCommands /\ outcome' = [outcome EXCEPT !["LinkADRAns"] = FullIf(ok)]
        /\ enabled' = IF c.cntl > 6 THEN enabled ELSE chans \cup (enabled \ Channels)
    BY <2>2 DEF LinkADRReq, Processing, Reply
  <2>4. ok
    <3>1. "LinkADRAns" \in Answers
      BY DEF Answers
    <3> HIDE DEF ok
    <3> QED
      BY <2>0, <2>3, <3>1 DEF FullIf
  <2>5. c.cntl <= 6 /\ masked # {}
    BY <2>4 DEF MaskOk
  <2>6. c.mask \subseteq 0 .. 15 /\ c.cntl \in 0 .. 6
    <3>1. WellFormed(c)
      BY <2>0, <2>3, CommandTyped
    <3> QED
      BY <2>5, <3>1 DEF WellFormed
  <2>7. region.num_channels \in 1 .. MaxChannels
    BY MacAssumption DEF TypeOK, SettingsTypeOK
  <2>8. SecondPass(masked, c.mask, c.cntl) # {}
    BY <2>5, <2>6, <2>7, SecondPassKeeps
  <2>9. SecondPass(masked, c.mask, c.cntl) \subseteq Channels
    BY DEF SecondPass
  <2>10. enabled' = SecondPass(masked, c.mask, c.cntl) \cup (enabled \ Channels)
    <3> HIDE DEF ok, masked
    <3> QED
      BY <2>3, <2>4, <2>6
  <2> QED
    BY <2>8, <2>9, <2>10
<1> QED
  BY <1>1, TypeCorrect, PTL DEF Spec, AcceptedLeavesChannel
=============================================================================
