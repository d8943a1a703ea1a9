---------------------------- MODULE HearingProofs ----------------------------
(***************************************************************************)
(* Why the answer of the network is heard: the tables of the ten regions   *)
(* keep every data rate within bounds, the network's view of the settings  *)
(* is the device's whenever it answers, and lorawan_rx() is open where and *)
(* when that view says.                                                    *)
(***************************************************************************)
EXTENDS WindowsProofs, FiniteSetTheorems
-----------------------------------------------------------------------------
(* The regions *)

\* The data rates that Rates125, Rates250 and RatesFixed are for.
LEMMA RatesDiffer == Rates125 # RatesFixed /\ Rates250 # RatesFixed
<1>1. 10 \in DOMAIN RatesFixed /\ 10 \notin DOMAIN Rates125 /\ 10 \notin DOMAIN Rates250
  BY DEF RatesFixed, Rates125, Rates250
<1> QED
  BY <1>1

\* What the proofs need of a region's table.
Sound(r) ==
  /\ NumDr(r) \in 1 .. 14 /\ (r.rates = RatesFixed => NumDr(r) = 14)
  /\ r.join_dr \in 0 .. NumDr(r) - 1 /\ r.rx2_dr \in 0 .. NumDr(r) - 1
  /\ r.max \in 0 .. LORAWAN_MAX_CHANNELS
  /\ \E n \in 0 .. LORAWAN_MAX_CHANNELS : DOMAIN r.uplinks = 0 .. n - 1
  /\ r.cflist.type \in {"A", "B"}
  /\ r.cflist.type = "A" => r.cflist.start \in 0 .. 10 /\ r.cflist.least \in 0 .. LORAWAN_MAX_CHANNELS

\* The seven dynamic channel plans and CN470, with six or seven data rates.
LEMMA ShortTables ==
  ASSUME NEW r \in {EU868, EU433, CN779, IN865, KR920, RU864, AS923, CN470}
  PROVE  Sound(r)
<1> USE DEF Sound, NumDr, TypeA, TypeB, Evenly, LORAWAN_MAX_CHANNELS
<1>1. CASE r = EU868
  BY <1>1, RatesDiffer, SMTT(30) DEF EU868
<1>2. CASE r = EU433
  BY <1>2, RatesDiffer, SMTT(30) DEF EU433
<1>3. CASE r = CN779
  BY <1>3, RatesDiffer, SMTT(30) DEF CN779
<1>4. CASE r = IN865
  BY <1>4, RatesDiffer, SMTT(30) DEF IN865
<1>5. CASE r = KR920
  BY <1>5, RatesDiffer, SMTT(30) DEF KR920
<1>6. CASE r = RU864
  BY <1>6, RatesDiffer, SMTT(30) DEF RU864
<1>7. CASE r = AS923
  BY <1>7, RatesDiffer, SMTT(30) DEF AS923
<1>8. CASE r = CN470
  BY <1>8, RatesDiffer, SMTT(30) DEF CN470
<1> QED
  BY <1>1, <1>2, <1>3, <1>4, <1>5, <1>6, <1>7, <1>8

\* US915 and AU915, with fourteen.
LEMMA LongTables ==
  ASSUME NEW r \in {US915, AU915}
  PROVE  Sound(r)
<1> USE DEF Sound, NumDr, TypeB, LORAWAN_MAX_CHANNELS, PayloadFixed, Uplinks72
<1>1. CASE r = US915
  BY <1>1, SMTT(30) DEF US915
<1>2. CASE r = AU915
  BY <1>2, SMTT(30) DEF AU915
<1> QED
  BY <1>1, <1>2

\* Every region that a build can have has a table without gaps.
LEMMA RegionsSound ==
  ASSUME NEW r \in AllRegions
  PROVE  Sound(r)
BY ShortTables, LongTables DEF AllRegions

\* region_get_rx1_dr() returns a data rate of the table for every uplink data
\* rate and offset, those beyond the table included.
LEMMA Rx1DrInTable ==
  ASSUME NEW r, Sound(r), NEW dr \in Nat, NEW offset \in Nat
  PROVE  Rx1Dr(r, dr, offset) \in 0 .. NumDr(r) - 1
<1> DEFINE n == NumDr(r)
<1>1. n \in 1 .. 14 /\ (r.rates = RatesFixed => n = 14)
  BY DEF Sound
<1> HIDE DEF n
<1> DEFINE d == Least(dr, n - 1)
           o == Least(offset, n - 1)
<1>2. d \in 0 .. n - 1 /\ o \in 0 .. n - 1
  BY <1>1 DEF Least
<1> HIDE DEF d, o
<1>3. Rx1Dr(r, dr, offset) =
        IF r.rates = RatesFixed
        THEN Greatest(8, Least(13, IF d < 8 THEN 10 + d - o ELSE d - o))
        ELSE IF r.raises /\ offset > 5 THEN Least(d + IF offset = 6 THEN 1 ELSE 2, n - 1)
        ELSE Greatest(0, d - o)
  BY DEF Rx1Dr, d, o, n
<1>4. Rx1Dr(r, dr, offset) \in 0 .. n - 1
  <2>1. CASE r.rates = RatesFixed
    BY <1>1, <1>2, <1>3, <2>1 DEF Least, Greatest
  <2>2. CASE r.rates # RatesFixed /\ r.raises /\ offset > 5
    BY <1>1, <1>2, <1>3, <2>2 DEF Least
  <2>3. CASE r.rates # RatesFixed /\ ~(r.raises /\ offset > 5)
    BY <1>1, <1>2, <1>3, <2>3 DEF Greatest
  <2> QED
    BY <2>1, <2>2, <2>3
<1> QED
  BY <1>4 DEF n

\* A channel context within the 96 channels of the array.
ChannelsOK(c) ==
  /\ DOMAIN c = {"num", "max", "written", "on"}
  /\ c.on \subseteq 0 .. LORAWAN_MAX_CHANNELS - 1
  /\ c.num \in 0 .. LORAWAN_MAX_CHANNELS /\ c.max \in 0 .. LORAWAN_MAX_CHANNELS

\* region_init() leaves one.
LEMMA RegionInitOK ==
  ASSUME NEW r, Sound(r)
  PROVE  ChannelsOK(RegionInit(r))
<1>1. PICK n \in 0 .. LORAWAN_MAX_CHANNELS : DOMAIN r.uplinks = 0 .. n - 1
  BY DEF Sound
<1>2. Cardinality(0 .. n - 1) = n
  BY <1>1, FS_Interval DEF LORAWAN_MAX_CHANNELS
<1>3. /\ DOMAIN RegionInit(r) = {"num", "max", "written", "on"}
      /\ RegionInit(r).num = n /\ RegionInit(r).max = r.max
      /\ RegionInit(r).on = 0 .. n - 1
  BY <1>1, <1>2 DEF RegionInit
<1>4. r.max \in 0 .. LORAWAN_MAX_CHANNELS
  BY DEF Sound
<1> QED
  BY <1>1, <1>3, <1>4 DEF ChannelsOK, LORAWAN_MAX_CHANNELS

\* So does a CFList of either type.
LEMMA CFListOK ==
  ASSUME NEW r, Sound(r), NEW c, ChannelsOK(c), NEW list,
         list.type = "B" => list.mask \subseteq Nat
  PROVE  ChannelsOK(ApplyCFList(r, c, list))
<1>1. CASE list.type = r.cflist.type /\ list.type = "A"
  <2> DEFINE start == r.cflist.start
             read == [ch \in start .. start + 4 |-> Reversed(list.freqs[ch - start + 1])]
             taken == {ch \in DOMAIN read : InBand(r, read[ch])}
             new == ApplyTypeA(r, c, list.freqs)
  <2>1. taken \subseteq start .. start + 4
    OBVIOUS
  <2>2. /\ DOMAIN new = {"num", "max", "written", "on"}
        /\ new.num = Greatest(c.num, r.cflist.least)
        /\ new.max = Greatest(c.max, r.cflist.least) /\ new.on = c.on \cup taken
    BY DEF ApplyTypeA
  <2>3. ApplyCFList(r, c, list) = new
    BY <1>1 DEF ApplyCFList
  <2>4. start \in 0 .. 10 /\ r.cflist.least \in 0 .. LORAWAN_MAX_CHANNELS
    BY <1>1 DEF Sound
  <2> HIDE DEF start, read, taken, new
  <2>5. taken \subseteq 0 .. LORAWAN_MAX_CHANNELS - 1
    BY <2>1, <2>4 DEF LORAWAN_MAX_CHANNELS
  <2>6. new.num \in 0 .. LORAWAN_MAX_CHANNELS /\ new.max \in 0 .. LORAWAN_MAX_CHANNELS
    BY <2>2, <2>4 DEF ChannelsOK, Greatest, LORAWAN_MAX_CHANNELS
  <2> QED
    BY <2>2, <2>3, <2>5, <2>6 DEF ChannelsOK
<1>2. CASE list.type = r.cflist.type /\ list.type # "A"
  <2>1. list.type = "B"
    BY <1>2 DEF Sound
  <2> QED
    BY <1>2, <2>1 DEF ApplyCFList, ApplyTypeB, ChannelsOK, LORAWAN_MAX_CHANNELS
<1>3. CASE list.type # r.cflist.type
  BY <1>3 DEF ApplyCFList
<1> QED
  BY <1>1, <1>2, <1>3
-----------------------------------------------------------------------------
(* The types *)

\* The actions one by one, with what the network chooses in its range.
LEMMA Actions ==
  ASSUME Next
  PROVE  \/ Start \/ SetRegion \/ RxcListens \/ JoinAbp
         \/ TxFail \/ JoinFails \/ JoinSucceeds \/ NoDownlink \/ SendReturns
         \/ \E n \in Fills : Downlink(n)
         \/ \E d \in Requests : \E n \in Fills : ClassCDownlink(d, n)
         \/ \E mask \in Masks : SetChannelsMask(mask)
         \/ \E dr \in Rates : SetDatarate(dr)
         \/ \E r : \E own \in Fills : SendBegins(r, own)
         \/ \E r, nonce : JoinBegins(r, nonce)
         \/ \E a \in Accepts : \E f : NetworkJoins(a, f)
         \/ \E d \in Requests : \E f : NetworkHears(d, f)
         \/ \E freq \in Rx1Freqs(call.ch) : TxOk(freq)
         \/ \E ok \in BOOLEAN : Receives(ok) \/ ReceivesForeign(ok) \/ TimesOut(ok)
         \/ \E lower \in BOOLEAN : Repeat(lower)
<1>1. CASE Api
  BY <1>1 DEF Api
<1>2. CASE Network
  BY <1>2 DEF Network
<1>3. CASE Call
  BY <1>3 DEF Call
<1> QED
  BY <1>1, <1>2, <1>3 DEF Next

DataRates == 0 .. NumDr(region) - 1

PlanOK == region \in Builds /\ ChannelsOK(chan)

SessionOK ==
  /\ state \in {"IDLE", "JOINING", "JOINED"}
  /\ current_dr \in DataRates /\ join_dr \in DataRates

\* An override of the RX2 data rate lies in the table.
SettingsOK(s) == s \in Settings /\ (s.rx2_dr = NoDr \/ s.rx2_dr < NumDr(region))

\* What mac_rsp_buf may hold.
Buffers == [full : SUBSET Kinds, part : SUBSET Kinds, len : 0 .. RSP]

MacOK ==
  /\ SettingsOK(rx) /\ net \in Settings /\ wish \in Settings /\ rsp \in Buffers
  /\ sticky \cup asked \cup unanswered \cup applied \subseteq Kinds

CallOK ==
  /\ pc \in {"idle", "tx", "rx1", "rx2", "received", "settle"}
  /\ call.dr \in DataRates /\ call.retry_dr \in DataRates
  /\ DOMAIN call.rx1 = DOMAIN Silence /\ call.rx1.at \in Nat /\ call.rx2.at \in Nat

AirOK ==
  /\ radio.mode \in {"off", "tx", "rx", "rxc"} /\ t \in Nat
  /\ answer.fate \in {"none", "coming", "heard", "missed"}
  /\ answer.at \in Nat /\ answer.toa \in Nat

\* A transmission was counted before it was made.
CountOK ==
  /\ joins \in Nat /\ sends \in Nat /\ joins + sends <= MaxFrames
  /\ call.tx \in Nat /\ call.tx <= joins + sends
  /\ pc = "tx" => call.tx < joins + sends

\* The network's frame holds what it may send to this call.
HoldsOK ==
  answer.fate # "none" =>
    /\ call.kind = "join" =>
         answer.holds \in Accepts /\ answer.holds.rx2_dr < NumDr(region)
    /\ call.kind = "data" => answer.holds \in Requests

TypeInv == PlanOK /\ SessionOK /\ MacOK /\ CallOK /\ AirOK /\ CountOK /\ HoldsOK

\* A Join-Accept and a request have fields of these types.
LEMMA AcceptTypes ==
  ASSUME NEW a \in Accepts
  PROVE  /\ a.offset \in Nat /\ a.rx2_dr \in Nat /\ a.delay \in Nat
         /\ a.cflist.type = "B" => a.cflist.mask \subseteq Nat
<1> DEFINE Lists == [type : {"none"}] \cup [type : {"A"}, freqs : Seq(Nat)]
                      \cup [type : {"B"}, mask : SUBSET Nat]
<1>1. a \in [offset : Nat, rx2_dr : Nat, delay : Nat, cflist : Lists]
  BY WindowsAssumption
<1>2. \A list \in Lists : list.type = "B" => list.mask \subseteq Nat
  OBVIOUS
<1> HIDE DEF Lists
<1> QED
  BY <1>1, <1>2

\* A request of the network carries numbers, whatever its fields are.
LEMMA RequestTypes ==
  ASSUME NEW d \in Requests
  PROVE  /\ d.kind = "rx" => d.offset \in Nat /\ d.freq \in Nat /\ d.dr \in Nat
         /\ d.kind = "delay" => d.delay \in Nat
         /\ d.kind = "dl" => d.freq \in Nat
         /\ d.kind = "adr" => d.dr \in Nat /\ d.mask \subseteq Nat
BY WindowsAssumption

\* The build's table is sound.
LEMMA RegionSound ==
  ASSUME region \in Builds
  PROVE  /\ Sound(region) /\ NumDr(region) \in 1 .. 14
         /\ {0, region.join_dr, region.rx2_dr} \subseteq DataRates
<1>1. Sound(region)
  BY RegionsSound, WindowsAssumption
<1>2. /\ NumDr(region) \in 1 .. 14
      /\ region.join_dr \in 0 .. NumDr(region) - 1 /\ region.rx2_dr \in 0 .. NumDr(region) - 1
  BY <1>1 DEF Sound
<1>3. 0 \in 0 .. NumDr(region) - 1
  BY <1>2
<1> QED
  BY <1>1, <1>2, <1>3 DEF DataRates

\* What a request makes of settings are settings, of the table if it is accepted.
LEMMA ApplyOK ==
  ASSUME NEW d \in Requests, NEW s \in Settings
  PROVE  /\ Apply(s, d) \in Settings
         /\ SettingsOK(s) /\ Valid(d) => SettingsOK(Apply(s, d))
<1> USE DEF SettingsOK, Settings
<1>1. CASE d.kind = "rx"
  BY <1>1, RequestTypes DEF Apply, Valid
<1>2. CASE d.kind = "delay"
  BY <1>2, RequestTypes DEF Apply
<1>3. CASE d.kind = "dl"
  <2>1. Apply(s, d) = [s EXCEPT !.dl[d.ch] = d.freq] /\ d.freq \in Nat
    BY <1>3, RequestTypes DEF Apply
  <2> QED
    BY <2>1
<1>4. CASE d.kind \notin {"rx", "delay", "dl"}
  BY <1>4 DEF Apply
<1> QED
  BY <1>1, <1>2, <1>3, <1>4

\* memset() in lorawan_start() and the DLSettings of a Join-Accept leave settings.
LEMMA FreshOK ==
  /\ SettingsOK(Fresh)
  /\ \A a \in Accepts : AcceptSettings(a) \in Settings
<1>1. SettingsOK(Fresh)
  BY DEF SettingsOK, Settings, Fresh, NoDr
<1>2. ASSUME NEW a \in Accepts PROVE AcceptSettings(a) \in Settings
  <2> DEFINE delay == IF a.delay = 0 THEN 1 ELSE a.delay
  <2>1. AcceptSettings(a) =
          [Fresh EXCEPT !.offset = a.offset, !.rx2_dr = a.rx2_dr, !.delay = delay]
    BY DEF AcceptSettings
  <2>2. delay \in Nat /\ a.offset \in Nat /\ a.rx2_dr \in Nat
    BY AcceptTypes
  <2> HIDE DEF delay
  <2> QED
    BY <2>1, <2>2, <1>1 DEF SettingsOK, Settings
<1> QED
  BY <1>1, <1>2

\* Other answers and requests take room only.
LEMMA FilledOK ==
  ASSUME rsp \in Buffers, NEW n \in Fills, rsp.len + n <= RSP
  PROVE  Filled(n) \in Buffers /\ Filled(n).full = rsp.full /\ Filled(n).part = rsp.part
<1>1. n \in Nat
  BY WindowsAssumption
<1> QED
  BY <1>1 DEF Filled, Buffers, RSP

\* An answer goes into mac_rsp_buf whole or not at all.
LEMMA QueueOK ==
  ASSUME NEW b \in Buffers, NEW kind \in Kinds, NEW full \in BOOLEAN
  PROVE  /\ Queue(b, kind, full) \in Buffers
         /\ Queue(b, kind, full).full \subseteq b.full \cup {kind}
         /\ Queue(b, kind, full).part \subseteq b.part \cup {kind}
<1>1. Bytes(kind) \in 1 .. 2
  BY DEF Bytes
<1> QED
  BY <1>1 DEF Queue, Buffers, RSP

\* The repetitions in a frame are of answers that are to be repeated.
LEMMA RepetitionsOK ==
  ASSUME NEW b \in Buffers, sticky \subseteq Kinds
  PROVE  /\ Repetitions(b) \in Buffers
         /\ Repetitions(b).full \subseteq b.full \cup sticky
<1> DEFINE again(c, kind) == IF kind \in sticky THEN Queue(c, kind, TRUE) ELSE c
<1>1. ASSUME NEW c \in Buffers, NEW kind \in Kinds
      PROVE  again(c, kind) \in Buffers /\ again(c, kind).full \subseteq c.full \cup sticky
  <2>1. TRUE \in BOOLEAN
    OBVIOUS
  <2>2. Queue(c, kind, TRUE) \in Buffers /\ Queue(c, kind, TRUE).full \subseteq c.full \cup {kind}
    BY <2>1, QueueOK
  <2> QED
    BY <2>2
<1>2. Repetitions(b) = again(again(again(b, "rx"), "dl"), "delay")
  BY DEF Repetitions
<1>3. {"rx", "dl", "delay"} \subseteq Kinds
  BY DEF Kinds
<1> HIDE DEF again
<1> QED
  BY <1>1, <1>2, <1>3

\* What a downlink does keeps to the tables and to the room there is.
LEMMA ProcessTypes ==
  ASSUME TypeInv, NEW d \in Requests, NEW n \in Fills, Processes(d, n)
  PROVE  /\ ChannelsOK(chan') /\ current_dr' \in DataRates
         /\ SettingsOK(rx') /\ rsp' \in Buffers
         /\ sticky' \subseteq Kinds /\ applied' \subseteq applied \cup sticky'
         /\ rsp'.full \subseteq rsp.full \cup Moves(d)
         /\ rsp'.part \subseteq rsp.part \cup Moves(d)
<1>1. NumDr(region) \in Nat
  BY RegionSound DEF TypeInv, PlanOK
<1>2. ChannelsOK(chan')
  <2>1. chan' = IF d.kind = "adr" THEN [chan EXCEPT !.on = Masked(d.mask)] ELSE chan
    BY DEF Processes
  <2>2. d.kind = "adr" => d.mask \subseteq Nat
    BY RequestTypes
  <2> QED
    BY <2>1, <2>2 DEF TypeInv, PlanOK, ChannelsOK, Masked, LORAWAN_MAX_CHANNELS
<1>3. current_dr' \in DataRates
  <2>1. d.kind = "adr" /\ Valid(d) => d.dr \in DataRates
    BY <1>1, RequestTypes DEF Valid, DataRates
  <2> QED
    BY <2>1 DEF Processes, TypeInv, SessionOK
<1>4. SettingsOK(rx')
  BY ApplyOK DEF Processes, TypeInv, MacOK, SettingsOK
<1>5. Moves(d) \subseteq Kinds /\ sticky' = Moves(d)
        /\ (applied' = applied \/ applied' = applied \cup Moves(d))
  BY DEF Processes, Moves
<1>6. /\ rsp' \in Buffers
      /\ rsp'.full \subseteq rsp.full \cup Moves(d)
      /\ rsp'.part \subseteq rsp.part \cup Moves(d)
  <2> DEFINE b == Filled(n)
  <2>1. b \in Buffers /\ b.full = rsp.full /\ b.part = rsp.part
    BY FilledOK DEF Processes, TypeInv, MacOK
  <2>2. rsp' = IF d.kind \in Kinds THEN Queue(b, d.kind, d.kind # "rx" /\ Valid(d)) ELSE b
    BY DEF Processes
  <2> HIDE DEF b
  <2>3. CASE d.kind \in Kinds
    <3>1. (d.kind # "rx" /\ Valid(d)) \in BOOLEAN
      BY DEF Valid
    <3> DEFINE full == d.kind # "rx" /\ Valid(d)
    <3>2. rsp' = Queue(b, d.kind, full) /\ full \in BOOLEAN /\ Moves(d) = {d.kind}
      BY <2>2, <2>3, <3>1 DEF Moves
    <3> HIDE DEF full
    <3> QED
      BY <2>1, <2>3, <3>2, QueueOK
  <2>4. CASE d.kind \notin Kinds
    BY <2>1, <2>2, <2>4
  <2> QED
    BY <2>3, <2>4
<1> QED
  BY <1>2, <1>3, <1>4, <1>5, <1>6

\* The frame that a running call has heard is one of the network's.
LEMMA DownlinkProcesses ==
  ASSUME TypeInv, NEW n \in Fills, Downlink(n)
  PROVE  answer.holds \in Requests /\ Processes(answer.holds, n)
BY DEF TypeInv, Downlink, Heard, HoldsOK

\* The build is the same for good, and with it what is called a data rate.
LEMMA SameRegion ==
  ASSUME [Next]_vars
  PROVE  UNCHANGED region
<1>1. CASE Next
  BY <1>1, Actions DEF Start, SetRegion, RxcListens, JoinAbp, TxFail, JoinFails,
     JoinSucceeds, Downlink, ClassCDownlink, NoDownlink, SendReturns, SetChannelsMask,
     SetDatarate, SendBegins, JoinBegins, Begin, NetworkJoins, NetworkHears, TxOk, Receives,
     ReceivesForeign, TimesOut, Receiving, Repeat, plan
<1> QED
  BY <1>1 DEF vars, plan

\* The channel context stays within its array.
LEMMA PlanStep ==
  ASSUME SessionInv, TypeInv, [Next]_vars
  PROVE  PlanOK'
<1>1. Sound(region)
  BY RegionSound DEF TypeInv, PlanOK
<1>2. UNCHANGED region
  BY SameRegion
<1>3. ChannelsOK(chan')
  <2> USE DEF TypeInv, PlanOK
  <2>1. CASE SetRegion
    BY <2>1, <1>1, RegionInitOK DEF SetRegion
  <2>2. ASSUME NEW mask \in Masks, SetChannelsMask(mask) PROVE ChannelsOK(chan')
    <3>1. chan' = [chan EXCEPT !.on = {ch \in mask : ch < chan.max}
                                         \cup {ch \in @ : ch >= chan.max}]
      BY <2>2 DEF SetChannelsMask
    <3>2. mask \subseteq Nat
      BY WindowsAssumption
    <3> QED
      BY <3>1, <3>2 DEF ChannelsOK, LORAWAN_MAX_CHANNELS
  <2>3. CASE JoinSucceeds
    <3>1. answer.holds \in Accepts /\ chan' = ApplyCFList(region, chan, answer.holds.cflist)
      BY <2>3 DEF JoinSucceeds, Heard, HoldsOK
    <3> QED
      BY <3>1, <1>1, CFListOK, AcceptTypes
  <2>4. CASE \/ \E n \in Fills : Downlink(n)
            \/ \E d \in Requests : \E n \in Fills : ClassCDownlink(d, n)
    BY <2>4, DownlinkProcesses, ProcessTypes DEF ClassCDownlink
  <2>5. CASE UNCHANGED vars
    BY <2>5 DEF vars, plan
  <2> QED
    BY Actions, <2>1, <2>2, <2>3, <2>4, <2>5 DEF Start, RxcListens, JoinAbp, TxFail,
       JoinFails, NoDownlink, SendReturns, SetDatarate, SendBegins, JoinBegins, Begin,
       NetworkJoins, NetworkHears, TxOk, Receives, ReceivesForeign, TimesOut, Receiving,
       Repeat, plan
<1> QED
  BY <1>2, <1>3 DEF TypeInv, PlanOK

\* A data rate that is set lies in the table.
LEMMA SessionTypes ==
  ASSUME TypeInv, [Next]_vars
  PROVE  SessionOK'
<1>1. UNCHANGED DataRates /\ 0 \in DataRates /\ region.join_dr \in DataRates
  BY RegionSound, SameRegion DEF TypeInv, PlanOK, DataRates
<1>2. NumDr(region) \in Nat /\ \A dr \in Nat : dr < NumDr(region) => dr \in DataRates
  BY RegionSound DEF TypeInv, PlanOK, DataRates
<1>3. UNCHANGED session \/ SessionOK'
  <2> USE <1>1 DEF TypeInv, SessionOK
  <2>1. CASE Start
    BY <2>1 DEF Start
  <2>2. CASE JoinAbp
    BY <2>2 DEF JoinAbp
  <2>3. CASE JoinSucceeds
    BY <2>3 DEF JoinSucceeds
  <2>4. CASE \/ \E n \in Fills : Downlink(n)
            \/ \E d \in Requests : \E n \in Fills : ClassCDownlink(d, n)
    <3>1. current_dr' \in DataRates
      BY <2>4, DownlinkProcesses, ProcessTypes DEF ClassCDownlink
    <3>2. UNCHANGED <<state, join_dr>>
      BY <2>4 DEF Downlink, ClassCDownlink
    <3> QED
      BY <3>1, <3>2
  <2>5. ASSUME NEW dr \in Rates, SetDatarate(dr) PROVE SessionOK'
    <3>1. dr \in DataRates
      BY <1>2, <2>5, WindowsAssumption DEF SetDatarate
    <3> QED
      BY <2>5, <3>1 DEF SetDatarate
  <2>6. ASSUME NEW nonce, NEW r, JoinBegins(r, nonce) PROVE SessionOK'
    BY <2>6 DEF JoinBegins
  <2>7. CASE UNCHANGED vars
    BY <2>7 DEF vars
  <2> QED
    BY Actions, <2>1, <2>2, <2>3, <2>4, <2>5, <2>6, <2>7 DEF SetRegion, RxcListens, TxFail,
       JoinFails, NoDownlink, SendReturns, SetChannelsMask, SendBegins, NetworkJoins,
       NetworkHears, TxOk, Receives, ReceivesForeign, TimesOut, Receiving, Repeat
<1> QED
  BY <1>1, <1>3 DEF TypeInv, SessionOK, session

\* What the network asks for are settings.
LEMMA AsksTypes ==
  ASSUME TypeInv, NEW d \in Requests, Asks(d)
  PROVE  wish' \in Settings /\ asked' \subseteq Kinds
<1>1. wish \in Settings /\ asked \subseteq Kinds
  BY DEF TypeInv, MacOK
<1>2. CASE d.kind \in Kinds
  BY <1>1, <1>2, ApplyOK DEF Asks
<1>3. CASE d.kind \notin Kinds
  BY <1>1, <1>3 DEF Asks
<1> QED
  BY <1>2, <1>3

\* Settings are overwritten by checked requests, Join-Accepts and what was asked.
LEMMA MacTypes ==
  ASSUME TypeInv, [Next]_vars
  PROVE  MacOK'
<1>0. NoRsp \in Buffers /\ TypeInv /\ MacOK
  BY DEF NoRsp, Buffers, RSP, TypeInv
<1> USE DEF MacOK
<1>1. /\ SettingsOK(rx') /\ net' \in Settings /\ wish' \in Settings /\ rsp' \in Buffers
      /\ (sticky \cup asked \cup unanswered \cup applied)' \subseteq Kinds
  <2> USE <1>0
  <2>1. CASE Start
    BY <2>1, FreshOK DEF Start, network
  <2>2. CASE JoinAbp
    BY <2>2, FreshOK DEF JoinAbp, mac, SettingsOK
  <2>3. CASE JoinSucceeds
    <3> DEFINE a == answer.holds
               delay == IF a.delay = 0 THEN 1 ELSE a.delay
               dr == IF a.rx2_dr < NumDr(region) THEN a.rx2_dr ELSE rx.rx2_dr
    <3>1. a \in Accepts
      BY <2>3 DEF JoinSucceeds, Heard, HoldsOK, TypeInv
    <3>2. delay \in Nat /\ a.offset \in Nat /\ a.rx2_dr \in Nat
      BY <3>1, AcceptTypes
    <3>3. rx' = [rx EXCEPT !.offset = a.offset, !.rx2_dr = dr, !.delay = delay]
      BY <2>3 DEF JoinSucceeds
    <3>4. dr \in Nat /\ (dr = NoDr \/ dr < NumDr(region))
      BY <3>2 DEF SettingsOK, Settings
    <3>5. UNCHANGED <<rsp, sticky, network, applied>>
      BY <2>3 DEF JoinSucceeds
    <3> HIDE DEF a, delay, dr
    <3>6. SettingsOK(rx')
      BY <3>2, <3>3, <3>4 DEF SettingsOK, Settings
    <3> QED
      BY <3>5, <3>6 DEF network
  <2>4. ASSUME NEW n \in Fills, Downlink(n)
        PROVE  /\ SettingsOK(rx') /\ rsp' \in Buffers /\ sticky' \subseteq Kinds
               /\ applied' \subseteq applied \cup sticky' /\ UNCHANGED network
    BY <2>4, DownlinkProcesses, ProcessTypes DEF Downlink
  <2>5. ASSUME NEW d \in Requests, NEW n \in Fills, ClassCDownlink(d, n)
        PROVE  /\ SettingsOK(rx') /\ rsp' \in Buffers /\ sticky' \subseteq Kinds
               /\ applied' \subseteq applied \cup sticky' /\ net' = net
               /\ wish' \in Settings /\ asked' \subseteq Kinds /\ unanswered' \subseteq Kinds
    BY <2>5, ProcessTypes, AsksTypes DEF ClassCDownlink
  <2>6. ASSUME NEW r, NEW own \in Fills, SendBegins(r, own)
        PROVE  rsp' \in Buffers /\ UNCHANGED <<rx, sticky, network, applied>>
    <3>1. Filled(own) \in Buffers
      BY <2>6, FilledOK DEF SendBegins
    <3> QED
      BY <2>6, <3>1, RepetitionsOK DEF SendBegins, Begin
  <2>7. ASSUME NEW freq, TxOk(freq)
        PROVE  rsp' \in Buffers /\ UNCHANGED <<rx, sticky, network, applied>>
    BY <2>7 DEF TxOk, history
  <2>8. ASSUME NEW a \in Accepts, NEW f, NetworkJoins(a, f)
        PROVE  /\ UNCHANGED mac /\ applied' = {} /\ asked' = {} /\ unanswered' = {}
               /\ net' \in Settings /\ wish' = net'
    BY <2>8, FreshOK DEF NetworkJoins
  <2>9. ASSUME NEW d \in Requests, NEW f, NetworkHears(d, f)
        PROVE  /\ UNCHANGED <<mac, applied>> /\ net' \in Settings /\ wish' \in Settings
               /\ asked' \cup unanswered' \subseteq Kinds
    <3>1. UNCHANGED <<mac, applied>> /\ net' = Learn(call.tells \cap unanswered)
      BY <2>9 DEF NetworkHears
    <3>2. net' \in Settings
      BY <3>1 DEF Settings, Learn
    <3>3. \/ wish' = wish /\ asked' = asked /\ unanswered' \subseteq unanswered
          \/ Asks(d) /\ unanswered' \subseteq unanswered \cup Kinds
      BY <2>9 DEF NetworkHears
    <3>4. wish' \in Settings /\ asked' \cup unanswered' \subseteq Kinds
      BY <3>3, AsksTypes
    <3> QED
      BY <3>1, <3>2, <3>4
  <2>10. \/ Start \/ JoinAbp \/ JoinSucceeds \/ \E n \in Fills : Downlink(n)
         \/ \E d \in Requests : \E n \in Fills : ClassCDownlink(d, n)
         \/ \E r : \E own \in Fills : SendBegins(r, own)
         \/ \E freq : TxOk(freq)
         \/ \E a \in Accepts : \E f : NetworkJoins(a, f)
         \/ \E d \in Requests : \E f : NetworkHears(d, f)
         \/ UNCHANGED <<mac, network, applied>>
    <3>1. CASE UNCHANGED vars
      BY <3>1 DEF vars, history
    <3> QED
      BY <3>1, Actions DEF SetRegion, RxcListens, TxFail, JoinFails, NoDownlink,
         SendReturns, SetChannelsMask, SetDatarate, JoinBegins, Begin, Receives,
         ReceivesForeign, TimesOut, Receiving, Repeat, history
  <2>11. CASE UNCHANGED <<mac, network, applied>>
    BY <2>11 DEF mac, network
  <2>12. CASE \/ \E r : \E own \in Fills : SendBegins(r, own)
              \/ \E freq : TxOk(freq)
    <3>1. rsp' \in Buffers /\ UNCHANGED <<rx, sticky, network, applied>>
      BY <2>6, <2>7, <2>12
    <3> QED
      BY <3>1 DEF network
  <2>13. CASE \E a \in Accepts : \E f : NetworkJoins(a, f)
    BY <2>8, <2>13 DEF mac
  <2>14. CASE \E d \in Requests : \E f : NetworkHears(d, f)
    BY <2>9, <2>14 DEF mac
  <2>15. CASE \E n \in Fills : Downlink(n)
    BY <2>4, <2>15 DEF network
  <2>16. CASE \E d \in Requests : \E n \in Fills : ClassCDownlink(d, n)
    BY <2>5, <2>16
  <2> QED
    BY <2>1, <2>2, <2>3, <2>10, <2>11, <2>12, <2>13, <2>14, <2>15, <2>16
<1>2. ASSUME NEW s, SettingsOK(s) PROVE s \in Settings /\ (s.rx2_dr = NoDr \/ s.rx2_dr < NumDr(region'))
  BY <1>2, SameRegion DEF SettingsOK
<1> QED
  BY <1>1, <1>2 DEF SettingsOK, Buffers

\* A delay in force lasts a second at least.
LEMMA DelayBounds ==
  ASSUME NEW s \in Settings
  PROVE  DelayMs(s) \in Nat /\ DelayMs(s) >= 1000
BY DEF Settings, DelayMs

\* The windows that a transmission leaves behind.
LEMMA TransmissionWindows ==
  ASSUME CallInv, TypeInv, NEW freq, TxOk(freq)
  PROVE  /\ call'.tx = call.tx + 1 /\ call'.dr = call.dr /\ call'.retry_dr = call.retry_dr
         /\ call'.ch = call.ch /\ call'.fault = call.fault /\ call'.foreign = call.foreign
         /\ call.kind = "join" =>
              /\ call'.rx1 = Rx1Window(Fresh, region.rx1[call.ch], call.dr, JOIN_RX1_DELAY_MS)
              /\ call'.rx2 = Rx2Window(rx, JOIN_RX1_DELAY_MS + 1000)
         /\ call.kind # "join" /\ call.tx = 0 =>
              /\ call'.rx1 = Rx1Window(rx, freq, call.dr, DelayMs(rx))
              /\ call'.rx2 = Rx2Window(rx, DelayMs(rx) + 1000)
         /\ call.kind # "join" /\ call.tx # 0 => call'.rx1 = call.rx1 /\ call'.rx2 = call.rx2
<1>1. call' = [WithWindows(freq) EXCEPT !.tx = @ + 1, !.heard = FALSE]
  BY DEF TxOk
<1>2. DOMAIN WithWindows(freq) = DOMAIN NoCall
  BY DEF CallInv, WithWindows
<1>3. /\ call'.tx = WithWindows(freq).tx + 1 /\ call'.dr = WithWindows(freq).dr
      /\ call'.retry_dr = WithWindows(freq).retry_dr /\ call'.ch = WithWindows(freq).ch
      /\ call'.fault = WithWindows(freq).fault /\ call'.foreign = WithWindows(freq).foreign
      /\ call'.rx1 = WithWindows(freq).rx1 /\ call'.rx2 = WithWindows(freq).rx2
  BY <1>1, <1>2 DEF NoCall
<1>4. CASE call.kind = "join"
  BY <1>3, <1>4 DEF WithWindows, CallInv, NoCall
<1>5. CASE call.kind # "join" /\ call.tx = 0
  BY <1>3, <1>5 DEF WithWindows, CallInv, NoCall
<1>6. CASE call.kind # "join" /\ call.tx # 0
  BY <1>3, <1>6 DEF WithWindows, CallInv, NoCall
<1> QED
  BY <1>4, <1>5, <1>6

\* What a repetition changes.
LEMMA RepetitionWindows ==
  ASSUME CallInv, TypeInv, NEW lower \in BOOLEAN, Repeat(lower)
  PROVE  /\ call'.tx = call.tx /\ call'.ch = call.ch /\ call'.kind = call.kind
         /\ call'.fault = call.fault /\ call'.foreign = call.foreign
         /\ call'.dr \in DataRates /\ call'.retry_dr \in DataRates
         /\ DOMAIN call'.rx1 = DOMAIN Silence
         /\ call'.rx1.freq = call.rx1.freq /\ call'.rx1.at = call.rx1.at
         /\ call'.rx2 = call.rx2
         /\ \/ call'.dr = call.dr /\ call'.rx1 = call.rx1
            \/ call'.rx1.mod = Modulation(region, Rx1Dr(region, call'.dr, rx.offset))
<1>1. RetryBase \in DataRates
  BY DEF RetryBase, TypeInv, CallOK, SessionOK
<1>2. NumDr(region) \in 1 .. 14 /\ DOMAIN call.rx1 = DOMAIN Silence /\ call.dr \in DataRates
  BY RegionSound DEF TypeInv, PlanOK, CallOK
<1>3. CASE lower
  <2> DEFINE mod == Modulation(region, Rx1Dr(region, RetryBase - 1, rx.offset))
  <2>1. /\ RetryBase > 0
        /\ call' = [call EXCEPT !.dr = RetryBase - 1, !.retry_dr = RetryBase - 1,
                                !.rx1.mod = mod]
    BY <1>3 DEF Repeat
  <2>2. RetryBase - 1 \in DataRates
    BY <1>1, <1>2, <2>1 DEF DataRates
  <2>3. /\ call'.dr = RetryBase - 1 /\ call'.retry_dr = RetryBase - 1
        /\ call'.rx1 = [call.rx1 EXCEPT !.mod = mod] /\ call'.rx2 = call.rx2
        /\ call'.tx = call.tx /\ call'.ch = call.ch /\ call'.kind = call.kind
        /\ call'.fault = call.fault /\ call'.foreign = call.foreign
    BY <2>1 DEF CallInv, NoCall
  <2>4. mod = Modulation(region, Rx1Dr(region, call'.dr, rx.offset))
    BY <2>3
  <2> HIDE DEF mod
  <2>5. /\ DOMAIN call'.rx1 = DOMAIN Silence /\ call'.rx1.freq = call.rx1.freq
        /\ call'.rx1.at = call.rx1.at /\ call'.rx1.mod = mod
    BY <2>3, <1>2 DEF Silence
  <2> QED
    BY <2>2, <2>3, <2>4, <2>5
<1>4. CASE ~lower
  <2>1. call' = [call EXCEPT !.retry_dr = RetryBase]
    BY <1>4 DEF Repeat
  <2> QED
    BY <2>1, <1>1, <1>2 DEF CallInv, NoCall
<1> QED
  BY <1>3, <1>4

\* An activation or an uplink is counted.
Counted ==
  /\ joins + sends < MaxFrames
  /\ \/ joins' = joins + 1 /\ sends' = sends
     \/ sends' = sends + 1 /\ joins' = joins

\* The steps of a running call, as far as windows and data rates are concerned.
LEMMA CallSteps ==
  ASSUME CallInv, [Next]_vars
  PROVE  \/ Counted /\ \E kind \in {"join", "data"}, dr \in {current_dr, join_dr} :
                          \E r, nonce, said : Begin(kind, r, dr, nonce, said)
         \/ UNCHANGED <<joins, sends>> /\ \E freq : TxOk(freq)
         \/ Counted /\ \E lower \in BOOLEAN : Repeat(lower)
         \/ UNCHANGED <<joins, sends>> /\ Ends
         \/ UNCHANGED <<pc, call>> /\ (UNCHANGED <<joins, sends>> \/ Counted)
         \/ /\ pc' \in {"rx1", "rx2", "received", "settle"} /\ pc # "idle" /\ pc # "tx"
            /\ UNCHANGED <<joins, sends>>
            /\ call'.tx = call.tx /\ call'.dr = call.dr /\ call'.retry_dr = call.retry_dr
            /\ call'.ch = call.ch /\ call'.rx1 = call.rx1 /\ call'.rx2 = call.rx2
            /\ call'.kind = call.kind
<1>0. {"tx", "dr", "retry_dr", "ch", "rx1", "rx2", "kind"} \subseteq DOMAIN call
  BY DEF CallInv, NoCall
<1> USE DEF Counted
<1>1. CASE UNCHANGED vars
  BY <1>1 DEF vars, history
<1>2. ASSUME NEW r, NEW own, SendBegins(r, own)
      PROVE  Counted /\ Begin("data", r, current_dr, 0, rsp')
  BY <1>2 DEF SendBegins
<1>3. ASSUME NEW r, NEW nonce, JoinBegins(r, nonce)
      PROVE  Counted /\ Begin("join", r, join_dr, nonce, NoRsp)
  BY <1>3 DEF JoinBegins
<1>4. ASSUME NEW a, NEW f, NetworkJoins(a, f)
      PROVE  /\ pc' = "rx1" /\ pc = "rx1" /\ UNCHANGED <<joins, sends>>
             /\ call' = [call EXCEPT !.heard = TRUE]
  BY <1>4 DEF NetworkJoins
<1>5. ASSUME NEW d, NEW f, NetworkHears(d, f)
      PROVE  /\ pc' = "rx1" /\ pc = "rx1" /\ UNCHANGED <<joins, sends>>
             /\ call' = [call EXCEPT !.heard = TRUE, !.answered = IF f = NoAnswer THEN @ ELSE TRUE]
  BY <1>5 DEF NetworkHears
<1>6. ASSUME NEW ok \in BOOLEAN, Receives(ok) \/ ReceivesForeign(ok) \/ TimesOut(ok)
      PROVE  /\ pc \in {"rx1", "rx2"} /\ pc' \in {"rx2", "received"}
             /\ UNCHANGED <<joins, sends>>
             /\ \/ call' = [call EXCEPT !.fault = IF ok THEN @ ELSE TRUE]
                \/ call' = [call EXCEPT !.foreign = TRUE, !.fault = IF ok THEN @ ELSE TRUE]
  <2>1. CASE Receives(ok)
    BY <1>6, <2>1 DEF Receives, Receiving
  <2>2. CASE ReceivesForeign(ok)
    BY <1>6, <2>2 DEF ReceivesForeign, Receiving
  <2>3. CASE TimesOut(ok)
    BY <1>6, <2>3 DEF TimesOut, Receiving
  <2> QED
    BY <1>6, <2>1, <2>2, <2>3
<1>7. CASE (\E r, own : SendBegins(r, own)) \/ \E r, nonce : JoinBegins(r, nonce)
  BY <1>2, <1>3, <1>7
<1>8. CASE \/ \E a \in Accepts : \E f : NetworkJoins(a, f)
          \/ \E d \in Requests : \E f : NetworkHears(d, f)
  BY <1>0, <1>4, <1>5, <1>8
<1>9. CASE \E ok \in BOOLEAN : Receives(ok) \/ ReceivesForeign(ok) \/ TimesOut(ok)
  BY <1>0, <1>6, <1>9
<1>10. CASE \E freq : TxOk(freq)
  BY <1>10 DEF TxOk, history
<1>11. CASE \E lower \in BOOLEAN : Repeat(lower)
  BY <1>11 DEF Repeat
<1>12. CASE NoDownlink \/ \E n \in Fills : Downlink(n)
  BY <1>12 DEF Downlink, NoDownlink, Heard, history
<1>13. CASE TxFail \/ JoinFails \/ JoinSucceeds \/ SendReturns
  BY <1>13 DEF TxFail, JoinFails, JoinSucceeds, SendReturns, history
<1>14. CASE Start \/ SetRegion \/ RxcListens \/ JoinAbp
            \/ (\E mask \in Masks : SetChannelsMask(mask)) \/ (\E dr \in Rates : SetDatarate(dr))
            \/ \E d \in Requests : \E n \in Fills : ClassCDownlink(d, n)
  BY <1>14 DEF Start, SetRegion, RxcListens, JoinAbp, SetChannelsMask, SetDatarate,
     ClassCDownlink, history
<1> QED
  BY Actions, <1>1, <1>7, <1>8, <1>9, <1>10, <1>11, <1>12, <1>13, <1>14

\* A call begins with its windows unset.
LEMMA BeginWindows ==
  ASSUME NEW kind, NEW r, NEW dr, NEW nonce, NEW said, Begin(kind, r, dr, nonce, said)
  PROVE  /\ pc' = "tx" /\ call'.tx = 0 /\ call'.kind = kind
         /\ call'.dr = dr /\ call'.retry_dr = dr
         /\ call'.rx1 = Silence /\ call'.rx2 = Silence
         /\ ~call'.fault /\ ~call'.foreign
BY DEF Begin, NoCall

\* The windows of the call begin at times, and its data rates are of the table.
LEMMA CallTypes ==
  ASSUME CallInv, TypeInv, [Next]_vars
  PROVE  CallOK'
<1>0. UNCHANGED DataRates /\ 0 \in DataRates
  BY RegionSound, SameRegion DEF TypeInv, PlanOK, DataRates
<1> USE <1>0 DEF CallOK, TypeInv
<1>1. ASSUME NEW kind, NEW r, NEW dr \in {current_dr, join_dr}, NEW nonce, NEW said,
             Begin(kind, r, dr, nonce, said)
      PROVE  CallOK'
  BY <1>1, BeginWindows DEF SessionOK, Silence
<1>2. ASSUME NEW freq, TxOk(freq) PROVE CallOK'
  <2>1. pc' = "rx1"
    BY <1>2 DEF TxOk
  <2>2. /\ call'.dr = call.dr /\ call'.retry_dr = call.retry_dr
        /\ \/ call'.rx1 = call.rx1 /\ call'.rx2 = call.rx2
           \/ \E s, g, at : call'.rx1 = Rx1Window(s, g, call.dr, at)
                              /\ call'.rx2 = Rx2Window(rx, at + 1000) /\ at \in Nat
    <3>1. DelayMs(rx) \in Nat /\ JOIN_RX1_DELAY_MS \in Nat
      BY DelayBounds DEF MacOK, SettingsOK, JOIN_RX1_DELAY_MS
    <3> QED
      BY <1>2, <3>1, TransmissionWindows
  <2>3. ASSUME NEW s, NEW g, NEW at \in Nat,
               call'.rx1 = Rx1Window(s, g, call.dr, at), call'.rx2 = Rx2Window(rx, at + 1000)
        PROVE  /\ DOMAIN call'.rx1 = DOMAIN Silence
               /\ call'.rx1.at = at /\ call'.rx2.at = at + 1000
    BY <2>3 DEF Rx1Window, Rx2Window, Silence
  <2> QED
    BY <2>1, <2>2, <2>3
<1>3. ASSUME NEW lower \in BOOLEAN, Repeat(lower) PROVE CallOK'
  <2>1. pc' = "tx"
    BY <1>3 DEF Repeat
  <2> QED
    BY <1>3, <2>1, RepetitionWindows
<1>4. CASE Ends
  BY <1>4 DEF Ends, NoCall, Silence
<1>5. CASE UNCHANGED <<pc, call>>
  BY <1>5
<1>6. CASE /\ pc' \in {"rx1", "rx2", "received", "settle"}
           /\ call'.dr = call.dr /\ call'.retry_dr = call.retry_dr
           /\ call'.rx1 = call.rx1 /\ call'.rx2 = call.rx2
  BY <1>6
<1> QED
  BY CallSteps, <1>1, <1>2, <1>3, <1>4, <1>5, <1>6

\* Every transmission was counted, as an activation, an uplink or a repetition.
LEMMA CountTypes ==
  ASSUME CallInv, TypeInv, [Next]_vars
  PROVE  CountOK'
<1>0. CountOK /\ MaxFrames \in Nat /\ pc \in {"idle", "tx", "rx1", "rx2", "received", "settle"}
  BY WindowsAssumption DEF TypeInv, CallOK
<1> USE <1>0 DEF CountOK, Counted
<1>1. ASSUME Counted, NEW kind, NEW r, NEW dr, NEW nonce, NEW said,
             Begin(kind, r, dr, nonce, said)
      PROVE  CountOK'
  BY <1>1, BeginWindows
<1>2. ASSUME UNCHANGED <<joins, sends>>, NEW freq, TxOk(freq) PROVE CountOK'
  <2>1. pc = "tx" /\ pc' = "rx1"
    BY <1>2 DEF TxOk
  <2> QED
    BY <1>2, <2>1, TransmissionWindows
<1>3. ASSUME Counted, NEW lower \in BOOLEAN, Repeat(lower) PROVE CountOK'
  BY <1>3, RepetitionWindows
<1>4. CASE UNCHANGED <<joins, sends>> /\ Ends
  BY <1>4 DEF Ends, NoCall
<1>5. CASE UNCHANGED <<pc, call>> /\ (UNCHANGED <<joins, sends>> \/ Counted)
  BY <1>5
<1>6. CASE /\ pc' \in {"rx1", "rx2", "received", "settle"}
           /\ call'.tx = call.tx /\ UNCHANGED <<joins, sends>>
  BY <1>6
<1> QED
  BY CallSteps, <1>1, <1>2, <1>3, <1>4, <1>5, <1>6

\* What a frame of the network is, seen from the call that it answers.
LEMMA FrameTypes ==
  ASSUME TypeInv, NEW s \in Settings, NEW at \in Nat, NEW f \in Frames(s, at)
  PROVE  /\ f.fate = "coming" /\ f.toa \in Nat /\ f.at \in Nat
         /\ \/ /\ f.win = 1 /\ f.at = at /\ f.freq = NetRx1Freq(s)
               /\ f.mod = Modulation(region, Rx1Dr(region, call.dr, s.offset))
            \/ /\ f.win = 2 /\ f.at = at + 1000 /\ f.freq = Rx2Freq(s)
               /\ f.mod = Modulation(region, Rx2Dr(s))
<1>0. AirTimes \subseteq Nat
  BY WindowsAssumption
<1>1. ASSUME NEW toa \in AirTimes,
             f = Frame(1, Rx1Window(s, NetRx1Freq(s), call.dr, at), toa)
      PROVE  /\ f.fate = "coming" /\ f.toa = toa /\ f.win = 1 /\ f.at = at
             /\ f.freq = NetRx1Freq(s)
             /\ f.mod = Modulation(region, Rx1Dr(region, call.dr, s.offset))
  BY <1>1 DEF Frame, Rx1Window
<1>2. ASSUME NEW toa \in AirTimes, f = Frame(2, Rx2Window(s, at + 1000), toa)
      PROVE  /\ f.fate = "coming" /\ f.toa = toa /\ f.win = 2 /\ f.at = at + 1000
             /\ f.freq = Rx2Freq(s) /\ f.mod = Modulation(region, Rx2Dr(s))
  BY <1>2 DEF Frame, Rx2Window
<1>3. \E toa \in AirTimes :
        \/ f = Frame(1, Rx1Window(s, NetRx1Freq(s), call.dr, at), toa)
        \/ f = Frame(2, Rx2Window(s, at + 1000), toa)
  BY DEF Frames
<1> QED
  BY <1>0, <1>1, <1>2, <1>3

\* The answer that the network puts on the air.
LEMMA NetworkAnswers ==
  ASSUME CallInv, TypeInv
  PROVE  /\ \A a \in Accepts : \A f : NetworkJoins(a, f) =>
              \/ f = NoAnswer /\ answer' = NoAnswer
              \/ /\ f \in Frames(Fresh, JOIN_RX1_DELAY_MS) /\ answer' = Holding(f, a)
                 /\ a.rx2_dr < NumDr(region)
         /\ \A d \in Requests : \A f : NetworkHears(d, f) =>
              \/ f = NoAnswer /\ answer' = NoAnswer
              \/ /\ f \in Frames(Learn(call.tells \cap unanswered),
                                 DelayMs(Learn(call.tells \cap unanswered)))
                 /\ answer' = Holding(f, d) /\ ~call.answered
         /\ Learn(call.tells \cap unanswered) \in Settings
<1>1. Learn(call.tells \cap unanswered) \in Settings
  BY DEF TypeInv, MacOK, SettingsOK, Settings, Learn
<1> QED
  BY <1>1 DEF NetworkJoins, NetworkHears

\* Time passes from one window to the next, and frames take time.
LEMMA AirTypes ==
  ASSUME CallInv, TypeInv, [Next]_vars
  PROVE  AirOK'
<1> USE DEF AirOK, TypeInv
<1>0. NoAnswer.fate = "none" /\ NoAnswer.at = 0 /\ NoAnswer.toa = 0 /\ Off.mode = "off"
  BY DEF NoAnswer, Off
<1>1. CASE UNCHANGED air
  BY <1>1 DEF air
<1>2. ASSUME NEW kind, NEW r, NEW dr, NEW nonce, NEW said,
             Begin(kind, r, dr, nonce, said)
      PROVE  AirOK'
  BY <1>0, <1>2 DEF Begin
<1>3. CASE RxcListens
  BY <1>3 DEF RxcListens
<1>4. ASSUME NEW freq, TxOk(freq) PROVE AirOK'
  BY <1>0, <1>4 DEF TxOk
<1>5. CASE Ends
  BY <1>0, <1>5 DEF Ends
<1>6. ASSUME NEW s \in Settings, NEW at \in Nat, NEW f \in Frames(s, at), NEW d,
             answer' = Holding(f, d), UNCHANGED <<radio, t>>
      PROVE  AirOK'
  BY <1>6, FrameTypes DEF Holding
<1>7. CASE answer' = NoAnswer /\ UNCHANGED <<radio, t>>
  BY <1>0, <1>7
<1>8. ASSUME NEW a \in Accepts, NEW f, NetworkJoins(a, f) PROVE AirOK'
  <2>1. UNCHANGED <<radio, t>>
    BY <1>8 DEF NetworkJoins
  <2>2. JOIN_RX1_DELAY_MS \in Nat /\ Fresh \in Settings
    BY FreshOK DEF JOIN_RX1_DELAY_MS, SettingsOK
  <2> QED
    BY <1>6, <1>7, <1>8, <2>1, <2>2, NetworkAnswers
<1>9. ASSUME NEW d \in Requests, NEW f, NetworkHears(d, f) PROVE AirOK'
  <2> DEFINE view == Learn(call.tells \cap unanswered)
  <2>1. UNCHANGED <<radio, t>>
    BY <1>9 DEF NetworkHears
  <2>2. /\ view \in Settings
        /\ \/ answer' = NoAnswer
           \/ f \in Frames(view, DelayMs(view)) /\ answer' = Holding(f, d)
    BY <1>9, NetworkAnswers
  <2> HIDE DEF view
  <2>3. DelayMs(view) \in Nat
    BY <2>2, DelayBounds
  <2>4. CASE answer' = NoAnswer
    BY <1>7, <2>1, <2>4
  <2>5. CASE f \in Frames(view, DelayMs(view)) /\ answer' = Holding(f, d)
    BY <1>6, <2>1, <2>2, <2>3, <2>5
  <2> QED
    BY <2>2, <2>4, <2>5
<1>10. ASSUME NEW ok \in BOOLEAN, Receives(ok) \/ ReceivesForeign(ok) \/ TimesOut(ok)
       PROVE  AirOK'
  <2>1. radio'.mode \in {"off", "tx", "rx", "rxc"}
    <3>1. Configure(ok)
      BY <1>10 DEF Receives, ReceivesForeign, TimesOut, Receiving
    <3>2. radio' = radio \/ \E freq, mod : radio' = [mode |-> "rx", freq |-> freq, mod |-> mod]
      BY <3>1 DEF Configure
    <3>3. radio.mode \in {"off", "tx", "rx", "rxc"}
      OBVIOUS
    <3>4. \A freq, mod : [mode |-> "rx", freq |-> freq, mod |-> mod].mode = "rx"
      OBVIOUS
    <3> QED
      BY <3>2, <3>3, <3>4
  <2>2. answer' = answer \/ answer' = Over("heard") \/ answer' = Over("missed")
    BY <1>10 DEF Receives, ReceivesForeign, TimesOut
  <2>3. ASSUME NEW fate \in {"heard", "missed"}
        PROVE  /\ Over(fate).fate \in {"none", "coming", "heard", "missed"}
               /\ Over(fate).at = answer.at /\ Over(fate).toa = answer.toa
    BY DEF Over, CallInv, NoAnswer
  <2>4. t' \in Nat
    <3>1. Window.at \in Nat
      BY DEF Window, CallOK
    <3>2. Opens \in Nat /\ Wait \in Nat
      BY <3>1 DEF Opens, Greatest, Wait, RX_EARLY_MS, RX_TIMEOUT_MS, RX2_TIMEOUT_MS
    <3>3. t' = answer.at + answer.toa \/ t' = Opens \/ t' = Opens + Wait
      BY <1>10 DEF Receives, ReceivesForeign, TimesOut
    <3> QED
      BY <3>2, <3>3
  <2> QED
    BY <2>1, <2>2, <2>3, <2>4
<1>11. CASE (\E r, own : SendBegins(r, own)) \/ \E r, nonce : JoinBegins(r, nonce)
  BY <1>2, <1>11 DEF SendBegins, JoinBegins
<1>12. CASE UNCHANGED vars
  BY <1>1, <1>12 DEF vars
<1>13. CASE Start \/ JoinAbp \/ SetRegion \/ NoDownlink
            \/ (\E n \in Fills : Downlink(n))
            \/ (\E d \in Requests : \E n \in Fills : ClassCDownlink(d, n))
            \/ (\E mask \in Masks : SetChannelsMask(mask))
            \/ (\E dr \in Rates : SetDatarate(dr))
            \/ \E lower \in BOOLEAN : Repeat(lower)
  BY <1>1, <1>13 DEF Start, JoinAbp, SetRegion, Downlink, ClassCDownlink, NoDownlink,
     SetChannelsMask, SetDatarate, Repeat
<1>14. CASE TxFail \/ JoinFails \/ JoinSucceeds \/ SendReturns
  BY <1>5, <1>14 DEF TxFail, JoinFails, JoinSucceeds, SendReturns
<1> QED
  BY Actions, <1>3, <1>4, <1>8, <1>9, <1>10, <1>11, <1>12, <1>13, <1>14

\* What a frame asks for may be asked for as long as the frame is remembered.
LEMMA HoldsTypes ==
  ASSUME SessionInv, TypeInv, [Next]_vars
  PROVE  HoldsOK'
<1>0. NoAnswer.fate = "none" /\ HoldsOK /\ CallInv /\ UNCHANGED region
  BY SameRegion DEF NoAnswer, TypeInv, SessionInv
<1>2. CASE answer'.fate = "none"
  BY <1>2 DEF HoldsOK
<1>3. CASE SameCall
  <2> SUFFICES ASSUME answer'.fate # "none"
               PROVE  answer.fate # "none" /\ call'.kind = call.kind
                        /\ answer'.holds = answer.holds
    BY <1>0 DEF HoldsOK
  <2> QED
    BY <1>3 DEF SameCall
<1>4. ASSUME NEW kind, NEW r, NEW dr, NEW nonce, NEW said,
             Begin(kind, r, dr, nonce, said)
      PROVE  HoldsOK'
  BY <1>0, <1>2, <1>4 DEF Begin, CallInv
<1>5. ASSUME NEW f, NEW d, answer' = Holding(f, d), call'.kind = call.kind,
             call.kind = "join" => d \in Accepts /\ d.rx2_dr < NumDr(region),
             call.kind = "data" => d \in Requests
      PROVE  HoldsOK'
  <2>1. answer'.holds = d
    BY <1>5 DEF Holding
  <2> QED
    BY <1>0, <1>5, <2>1 DEF HoldsOK
<1>6. ASSUME NEW a \in Accepts, NEW f, NetworkJoins(a, f) PROVE HoldsOK'
  <2>1. call.kind = "join" /\ call'.kind = call.kind
    BY <1>0, <1>6 DEF NetworkJoins, CallInv, NoCall
  <2>2. CASE answer' = NoAnswer
    BY <1>0, <1>2, <2>2
  <2>3. CASE answer' = Holding(f, a) /\ a.rx2_dr < NumDr(region)
    BY <1>5, <2>1, <2>3
  <2> QED
    BY <1>0, <1>6, <2>2, <2>3, NetworkAnswers DEF TypeInv
<1>7. ASSUME NEW d \in Requests, NEW f, NetworkHears(d, f) PROVE HoldsOK'
  <2>1. call.kind = "data" /\ call'.kind = call.kind
    BY <1>0, <1>7 DEF NetworkHears, CallInv, NoCall
  <2>2. CASE answer' = NoAnswer
    BY <1>0, <1>2, <2>2
  <2>3. CASE answer' = Holding(f, d)
    BY <1>5, <2>1, <2>3
  <2> QED
    BY <1>0, <1>7, <2>2, <2>3, NetworkAnswers DEF TypeInv
<1>8. CASE Ends
  BY <1>0, <1>2, <1>8 DEF Ends
<1>9. CASE UNCHANGED <<call, answer>>
  BY <1>0, <1>9 DEF HoldsOK
<1>10. CASE SettingStep \/ InnerStep \/ FinalStep
  BY <1>3, <1>8, <1>9, <1>10 DEF SettingStep, InnerStep, FinalStep
<1>11. CASE \/ Start \/ JoinAbp \/ JoinSucceeds \/ \E n \in Fills : Downlink(n)
            \/ \E d \in Requests : \E n \in Fills : ClassCDownlink(d, n)
  BY <1>8, <1>9, <1>11 DEF Start, JoinAbp, Downlink, ClassCDownlink, JoinSucceeds, air
<1>12. CASE (\E r, own : SendBegins(r, own)) \/ \E r, nonce : JoinBegins(r, nonce)
  BY <1>4, <1>12 DEF SendBegins, JoinBegins
<1> QED
  BY <1>0, StepKinds, <1>6, <1>7, <1>10, <1>11, <1>12

\* A start finds the types as they should be.
LEMMA TypeInit == Init => TypeInv
<1> SUFFICES ASSUME Init PROVE TypeInv
  OBVIOUS
<1>1. Sound(region) /\ {0, region.join_dr} \subseteq DataRates
  BY RegionSound DEF Init
<1>2. PlanOK
  BY <1>1, RegionInitOK DEF Init, PlanOK
<1>3. SessionOK
  BY <1>1 DEF Init, SessionOK
<1>4. MacOK
  BY FreshOK DEF Init, MacOK, SettingsOK, Buffers, NoRsp, RSP
<1>5. CallOK
  BY <1>1 DEF Init, CallOK, NoCall, Silence
<1>6. AirOK
  BY DEF Init, AirOK, NoAnswer, Off
<1>7. CountOK
  BY WindowsAssumption DEF Init, CountOK, NoCall
<1>8. HoldsOK
  BY DEF Init, HoldsOK, NoAnswer
<1> QED
  BY <1>2, <1>3, <1>4, <1>5, <1>6, <1>7, <1>8 DEF TypeInv

\* Every step of Next keeps the types, part by part.
LEMMA TypeStep ==
  ASSUME SessionInv, TypeInv, [Next]_vars
  PROVE  TypeInv'
BY PlanStep, SessionTypes, MacTypes, CallTypes, AirTypes, CountTypes, HoldsTypes
   DEF TypeInv, SessionInv

\* The state that the windows depend on has its types in every build, for every
\* choice of Join-Accepts, requests, masks and data rates.
THEOREM TypeCorrect == Spec => []TypeOK
<1>1. TypeInv => TypeOK
  <2> SUFFICES ASSUME TypeInv PROVE TypeOK
    OBVIOUS
  <2>1. {current_dr, join_dr, call.dr, call.retry_dr} \subseteq 0 .. NumDr(region) - 1
    BY DEF TypeInv, SessionOK, CallOK, DataRates
  <2>2. chan.on \subseteq 0 .. LORAWAN_MAX_CHANNELS - 1 /\ chan.num \in Nat
    BY DEF TypeInv, PlanOK, ChannelsOK, LORAWAN_MAX_CHANNELS
  <2>3. call.tx \in 0 .. MaxFrames
    BY WindowsAssumption DEF TypeInv, CountOK
  <2>4. {rx, net, wish} \subseteq Settings
    BY DEF TypeInv, MacOK, SettingsOK
  <2>5. Answers \cup asked \cup unanswered \cup applied \subseteq Kinds /\ rsp.len \in 0 .. RSP
    BY DEF TypeInv, MacOK, Buffers, Answers
  <2> QED
    BY <2>1, <2>2, <2>3, <2>4, <2>5 DEF TypeOK, TypeInv, PlanOK, SessionOK, MacOK, CallOK, AirOK
<1> QED
  BY SessionInit, SessionStep, TypeInit, TypeStep, <1>1, PTL DEF Spec
-----------------------------------------------------------------------------
(* What the network takes the settings to be *)

\* The settings that a kind of request moves.
Part(s, kind) ==
  IF kind = "rx" THEN <<s.offset, s.rx2_freq, s.rx2_dr>>
  ELSE IF kind = "delay" THEN s.delay ELSE s.dl

\* Settings are their parts.
LEMMA PartsOfSettings ==
  ASSUME NEW s1 \in Settings, NEW s2 \in Settings, \A k \in Kinds : Part(s1, k) = Part(s2, k)
  PROVE  s1 = s2
<1>1. Part(s1, "rx") = Part(s2, "rx") /\ Part(s1, "delay") = Part(s2, "delay")
        /\ Part(s1, "dl") = Part(s2, "dl")
  BY DEF Kinds
<1>2. /\ s1.offset = s2.offset /\ s1.rx2_freq = s2.rx2_freq /\ s1.rx2_dr = s2.rx2_dr
      /\ s1.delay = s2.delay /\ s1.dl = s2.dl
  BY <1>1 DEF Part
<1> QED
  BY <1>2 DEF Settings

\* A request moves its own part, to where that part alone decides.
LEMMA ApplyPart ==
  ASSUME NEW d, d.kind \in Kinds, NEW s1 \in Settings, NEW s2 \in Settings
  PROVE  /\ \A k \in Kinds \ {d.kind} : Part(Apply(s1, d), k) = Part(s1, k)
         /\ Part(s1, d.kind) = Part(s2, d.kind) =>
              Part(Apply(s1, d), d.kind) = Part(Apply(s2, d), d.kind)
<1>1. CASE d.kind = "rx"
  BY <1>1 DEF Apply, Part, Settings, Kinds
<1>2. CASE d.kind = "delay"
  BY <1>2 DEF Apply, Part, Settings, Kinds
<1>3. CASE d.kind = "dl"
  BY <1>3 DEF Apply, Part, Settings, Kinds
<1> QED
  BY <1>1, <1>2, <1>3 DEF Kinds

\* An answer moves the network's view of the parts that it is about.
LEMMA LearnPart ==
  ASSUME NEW told, NEW k \in Kinds
  PROVE  Part(Learn(told), k) = IF k \in told THEN Part(wish, k) ELSE Part(net, k)
<1>1. CASE k = "rx"
  BY <1>1 DEF Learn, Part
<1>2. CASE k = "delay"
  BY <1>2 DEF Learn, Part
<1>3. CASE k = "dl"
  BY <1>3 DEF Learn, Part
<1> QED
  BY <1>1, <1>2, <1>3 DEF Kinds

\* While a frame waits for its reception.
Waiting == pc \in {"rx1", "rx2", "received"} /\ answer.fate # "none"

\* A part that nobody has moved is the same for both; one that the device has
\* moved is where the network wants it; and unless the network waits for the
\* answer it has taken it to be there.
PartsAgree ==
  \A k \in Kinds :
    /\ k \notin asked => Part(wish, k) = Part(net, k)
    /\ k \notin applied => Part(net, k) = Part(rx, k)
    /\ k \in applied => Part(wish, k) = Part(rx, k)
    /\ k \in applied /\ k \notin unanswered => Part(net, k) = Part(wish, k)

\* A request on the way takes the device where the network wants it.
RequestAgrees ==
  Waiting /\ answer.holds.kind \in Kinds =>
    /\ answer.holds.kind \in unanswered
    /\ Part(wish, answer.holds.kind) = Part(Apply(rx, answer.holds), answer.holds.kind)

AgreeInv ==
  /\ call.kind = "join" /\ answer.fate # "none" =>
       net = AcceptSettings(answer.holds) /\ wish = net /\ asked = {} /\ unanswered = {}
  /\ state = "JOINED" /\ apart = {} =>
       /\ rsp.full \cup sticky \cup call.tells \subseteq applied
       /\ PartsAgree /\ RequestAgrees

\* Steps that leave the settings and what is known of them alone.
Quietly ==
  /\ UNCHANGED <<state, rx, sticky, net, wish, asked, unanswered, apart, applied>>
  /\ rsp'.full \subseteq rsp.full \cup sticky

\* The steps of Next, told apart by what they do to the settings and to the
\* agreement of device and network.
LEMMA AgreeSteps ==
  ASSUME CallInv, TypeInv, [Next]_vars
  PROVE  \/ Quietly /\ SettingStep
         \/ Quietly /\ InnerStep
         \/ Quietly /\ Ends
         \/ Quietly /\ \E r : Begin("data", r, current_dr, 0, rsp')
         \/ Start \/ JoinAbp \/ JoinSucceeds \/ \E n \in Fills : Downlink(n)
         \/ \E d \in Requests : \E n \in Fills : ClassCDownlink(d, n)
         \/ \E r, nonce : JoinBegins(r, nonce)
         \/ \E a \in Accepts : \E f : NetworkJoins(a, f)
         \/ \E d \in Requests : \E f : NetworkHears(d, f)
<1>1. ASSUME NEW r, NEW own \in Fills, SendBegins(r, own)
      PROVE  Quietly /\ Begin("data", r, current_dr, 0, rsp')
  <2>1. Filled(own) \in Buffers /\ Filled(own).full = rsp.full /\ sticky \subseteq Kinds
    BY <1>1, FilledOK DEF SendBegins, TypeInv, MacOK
  <2>2. rsp'.full \subseteq rsp.full \cup sticky
    BY <1>1, <2>1, RepetitionsOK DEF SendBegins
  <2> QED
    BY <1>1, <2>2 DEF SendBegins, Begin, Quietly, session, network
<1>2. ASSUME NEW freq, TxOk(freq) PROVE Quietly
  <2>1. rsp'.full \subseteq rsp.full
    BY <1>2 DEF TxOk, NoRsp
  <2> QED
    BY <1>2, <2>1 DEF TxOk, Quietly, session, network, history
<1>3. ASSUME UNCHANGED <<state, mac, network, apart, applied>> PROVE Quietly
  <2>1. rsp'.full \subseteq rsp.full \cup sticky
    BY <1>3 DEF mac
  <2> QED
    BY <1>3, <2>1 DEF Quietly, mac, network
<1>4. UNCHANGED vars => Quietly
  BY <1>3 DEF vars, session, history
<1>5. ASSUME \/ SetRegion \/ RxcListens \/ (\E mask \in Masks : SetChannelsMask(mask))
             \/ \E dr \in Rates : SetDatarate(dr)
      PROVE  Quietly
  BY <1>3, <1>5 DEF SetRegion, RxcListens, SetChannelsMask, SetDatarate, session, history
<1>6. ASSUME TxFail \/ JoinFails \/ SendReturns \/ NoDownlink
      PROVE  Quietly
  BY <1>3, <1>6 DEF TxFail, JoinFails, NoDownlink, SendReturns, session, history
<1>7. ASSUME \/ \E ok \in BOOLEAN : Receives(ok) \/ ReceivesForeign(ok) \/ TimesOut(ok)
             \/ \E lower \in BOOLEAN : Repeat(lower)
      PROVE  Quietly
  BY <1>3, <1>7 DEF Receives, ReceivesForeign, TimesOut, Receiving, Repeat, session, history
<1> DEFINE Movers == \/ Start \/ JoinAbp \/ JoinSucceeds \/ \E n \in Fills : Downlink(n)
                     \/ \E d \in Requests : \E n \in Fills : ClassCDownlink(d, n)
                     \/ \E r, nonce : JoinBegins(r, nonce)
                     \/ \E a \in Accepts : \E f : NetworkJoins(a, f)
                     \/ \E d \in Requests : \E f : NetworkHears(d, f)
<1>8. Quietly \/ Movers
  BY Actions, <1>1, <1>2, <1>4, <1>5, <1>6, <1>7
<1>9. FinalStep => Ends
  BY DEF FinalStep
<1>10. (\E r : \E own \in Fills : SendBegins(r, own)) =>
        Quietly /\ \E r : Begin("data", r, current_dr, 0, rsp')
  BY <1>1
<1>11. \/ SettingStep \/ InnerStep \/ FinalStep \/ Movers
       \/ \E r : \E own \in Fills : SendBegins(r, own)
  BY StepKinds
<1> HIDE DEF Movers
<1>12. \/ Movers
       \/ Quietly /\ SettingStep
       \/ Quietly /\ InnerStep
       \/ Quietly /\ Ends
       \/ Quietly /\ \E r : Begin("data", r, current_dr, 0, rsp')
  BY <1>8, <1>9, <1>10, <1>11
<1> QED
  BY <1>12 DEF Movers

\* What agrees stays agreed as long as nobody moves anything.
LEMMA SameParts ==
  ASSUME UNCHANGED <<rx, net, wish, asked, unanswered, applied>>, PartsAgree
  PROVE  PartsAgree'
BY DEF PartsAgree

\* A request that waits stays in agreement while nothing it is about changes.
LEMMA SameRequest ==
  ASSUME UNCHANGED <<rx, wish, unanswered>>, RequestAgrees,
         Waiting' => Waiting /\ answer'.holds = answer.holds
  PROVE  RequestAgrees'
BY DEF RequestAgrees

\* A Join-Accept that leaves nothing of an earlier session behind makes the
\* settings that the network has from it.
LEMMA JoinAgrees ==
  ASSUME SessionInv, TypeInv, AgreeInv, JoinSucceeds, apart' = {}
  PROVE  /\ rx' = net' /\ wish' = net' /\ asked' = {} /\ unanswered' = {} /\ applied' = {}
         /\ rsp'.full = {} /\ sticky' = {}
<1> DEFINE a == answer.holds
           delay == IF a.delay = 0 THEN 1 ELSE a.delay
<1>1. call.kind = "join" /\ answer.fate = "heard"
  BY DEF JoinSucceeds, Heard
<1>2. /\ a.rx2_dr < NumDr(region) /\ applied = {} /\ rx \in Settings
      /\ net = AcceptSettings(a) /\ wish = net /\ asked = {} /\ unanswered = {}
  BY <1>1 DEF TypeInv, HoldsOK, MacOK, SettingsOK, AgreeInv, SessionInv, JoinInv
<1>3. /\ rx.rx2_freq = 0 /\ rx.dl = Fresh.dl /\ rsp.full \cup sticky = {}
      /\ UNCHANGED <<rsp, sticky, net, wish, asked, unanswered, applied>>
  BY DEF JoinSucceeds, Answers, network
<1>4. rx' = [rx EXCEPT !.offset = a.offset, !.rx2_dr = a.rx2_dr, !.delay = delay]
  BY <1>2 DEF JoinSucceeds
<1>5. net = [Fresh EXCEPT !.offset = a.offset, !.rx2_dr = a.rx2_dr, !.delay = delay]
  BY <1>2 DEF AcceptSettings
<1>6. a.offset \in Nat /\ a.rx2_dr \in Nat /\ delay \in Nat
  BY <1>1, AcceptTypes DEF TypeInv, HoldsOK
<1> HIDE DEF a, delay
<1>7. rx' = net
  <2>1. rx' \in Settings /\ net \in Settings
    BY <1>2, <1>3, <1>4, <1>6 DEF TypeInv, MacOK, SettingsOK, Settings
  <2>2. \A k \in Kinds : Part(rx', k) = Part(net, k)
    BY <1>2, <1>3, <1>4, <1>5 DEF Part, Fresh, Settings
  <2> QED
    BY <2>1, <2>2, PartsOfSettings
<1> QED
  BY <1>2, <1>3, <1>7

\* A request that the device accepts is made where the network wants it.
LEMMA ProcessAgrees ==
  ASSUME TypeInv, ToldInv, NEW d \in Requests, NEW n \in Fills, Processes(d, n),
         Refusal(d) = {}, net' = net, asked \subseteq asked', unanswered \subseteq unanswered',
         \A k \in Kinds : k # d.kind => Part(wish', k) = Part(wish, k),
         d.kind \in Kinds =>
           /\ d.kind \in asked' /\ d.kind \in unanswered'
           /\ Part(wish', d.kind) = Part(Apply(rx, d), d.kind),
         rsp.full \cup sticky \cup call.tells \subseteq applied, PartsAgree
  PROVE  /\ PartsAgree' /\ applied' = applied \cup Moves(d)
         /\ rsp'.full \cup sticky' \cup call.tells \subseteq applied'
<1>1. d.kind \in Kinds => Valid(d)
  BY DEF Refusal
<1>2. /\ rx' = IF Valid(d) THEN Apply(rx, d) ELSE rx
      /\ sticky' = Moves(d) /\ applied' = applied \cup Moves(d)
      /\ Moves(d) = IF d.kind \in Kinds THEN {d.kind} ELSE {}
  BY <1>1 DEF Processes, Moves
<1>3. rsp'.full \subseteq rsp.full \cup Moves(d) /\ rx \in Settings
  BY ProcessTypes DEF TypeInv, MacOK, SettingsOK
<1>4. \A k \in Kinds : k # d.kind => Part(rx', k) = Part(rx, k)
  <2>1. CASE d.kind \in Kinds
    BY <1>2, <1>3, <2>1, ApplyPart
  <2>2. CASE d.kind \notin Kinds
    BY <1>2, <2>2 DEF Apply, Kinds
  <2> QED
    BY <2>1, <2>2
<1>5. d.kind \in Kinds => Part(rx', d.kind) = Part(wish', d.kind)
  BY <1>1, <1>2
<1>6. PartsAgree'
  <2> SUFFICES ASSUME NEW k \in Kinds
               PROVE  /\ k \notin asked' => Part(wish', k) = Part(net, k)
                      /\ k \notin applied' => Part(net, k) = Part(rx', k)
                      /\ k \in applied' => Part(wish', k) = Part(rx', k)
                      /\ k \in applied' /\ k \notin unanswered' => Part(net, k) = Part(wish', k)
    BY DEF PartsAgree
  <2>1. CASE k = d.kind
    BY <1>2, <1>5, <2>1
  <2>2. CASE k # d.kind
    BY <1>2, <1>4, <2>2 DEF PartsAgree
  <2> QED
    BY <2>1, <2>2
<1> QED
  BY <1>2, <1>3, <1>6

\* What a request on the way asks for is what the device does when it comes.
LEMMA DownlinkAgrees ==
  ASSUME SessionInv, TypeInv, ToldInv, NEW n \in Fills, Downlink(n), state = "JOINED",
         apart' = {},
         rsp.full \cup sticky \cup call.tells \subseteq applied, PartsAgree, RequestAgrees
  PROVE  /\ PartsAgree' /\ RequestAgrees'
         /\ (rsp.full \cup sticky \cup call.tells)' \subseteq applied'
<1> DEFINE d == answer.holds
<1>1. /\ pc = "received" /\ answer.fate = "heard" /\ pc' = "settle"
      /\ UNCHANGED <<call, net, wish, asked, unanswered>> /\ Refusal(d) = {}
  BY DEF Downlink, Heard, air, network
<1>2. d \in Requests /\ Processes(d, n)
  BY DownlinkProcesses
<1>3. d.kind \in Kinds =>
        /\ d.kind \in asked /\ d.kind \in unanswered
        /\ Part(wish, d.kind) = Part(Apply(rx, d), d.kind)
  BY <1>1 DEF RequestAgrees, Waiting, ToldInv
<1> HIDE DEF d
<1>4. PartsAgree' /\ rsp'.full \cup sticky' \cup call.tells \subseteq applied'
  BY <1>1, <1>2, <1>3, ProcessAgrees
<1>5. ~Waiting'
  BY <1>1 DEF Waiting
<1> QED
  BY <1>1, <1>4, <1>5 DEF RequestAgrees

\* What the network asks for is another's part only.
LEMMA AsksPart ==
  ASSUME TypeInv, ToldInv, NEW d \in Requests, Asks(d), PartsAgree
  PROVE  /\ asked' = asked \cup ({d.kind} \cap Kinds)
         /\ \A k \in Kinds : k # d.kind => Part(wish', k) = Part(wish, k)
         /\ d.kind \in Kinds =>
              /\ d.kind \notin asked /\ d.kind \notin applied /\ d.kind \notin unanswered
              /\ Part(wish', d.kind) = Part(Apply(rx, d), d.kind)
<1>1. rx \in Settings /\ wish \in Settings /\ applied \subseteq asked /\ unanswered \subseteq asked
  BY DEF TypeInv, MacOK, SettingsOK, ToldInv
<1>2. CASE d.kind \in Kinds
  <2>1. d.kind \notin asked /\ wish' = Apply(wish, d) /\ asked' = asked \cup {d.kind}
    BY <1>2 DEF Asks
  <2>2. Part(wish, d.kind) = Part(rx, d.kind)
    BY <1>1, <1>2, <2>1 DEF PartsAgree
  <2>3. \A k \in Kinds \ {d.kind} : Part(Apply(wish, d), k) = Part(wish, k)
    BY <1>1, <1>2, ApplyPart
  <2>4. Part(Apply(wish, d), d.kind) = Part(Apply(rx, d), d.kind)
    BY <1>1, <1>2, <2>2, ApplyPart
  <2> QED
    BY <1>1, <1>2, <2>1, <2>3, <2>4
<1>3. CASE d.kind \notin Kinds
  BY <1>3 DEF Asks
<1> QED
  BY <1>2, <1>3

\* Neither does a downlink between two calls ask for what has been asked for.
LEMMA ClassCAgrees ==
  ASSUME SessionInv, TypeInv, ToldInv, NEW d \in Requests, NEW n \in Fills,
         ClassCDownlink(d, n), apart' = {},
         rsp.full \cup sticky \cup call.tells \subseteq applied, PartsAgree
  PROVE  /\ PartsAgree' /\ RequestAgrees'
         /\ (rsp.full \cup sticky \cup call.tells)' \subseteq applied'
<1> DEFINE new == {d.kind} \cap Kinds
<1>1. /\ Asks(d) /\ unanswered' = unanswered \cup new /\ net' = net
      /\ pc' = "idle" /\ call' = call /\ Refusal(d) = {} /\ Processes(d, n)
  BY DEF ClassCDownlink
<1>2. /\ asked' = asked \cup new
      /\ \A k \in Kinds : k # d.kind => Part(wish', k) = Part(wish, k)
      /\ d.kind \in Kinds => Part(wish', d.kind) = Part(Apply(rx, d), d.kind)
  BY <1>1, AsksPart
<1>3. d.kind \in Kinds => d.kind \in new
  OBVIOUS
<1> HIDE DEF new
<1>4. PartsAgree' /\ rsp'.full \cup sticky' \cup call.tells \subseteq applied'
  BY <1>1, <1>2, <1>3, ProcessAgrees
<1>5. ~Waiting'
  BY <1>1 DEF Waiting
<1> QED
  BY <1>1, <1>4, <1>5 DEF RequestAgrees

\* What the network learns from an uplink is true of the device, and what it then
\* asks for it has not asked for before.
LEMMA HearingAgrees ==
  ASSUME SessionInv, TypeInv, ToldInv, NEW d \in Requests, NEW f, NetworkHears(d, f),
         state = "JOINED", apart' = {},
         rsp.full \cup sticky \cup call.tells \subseteq applied, PartsAgree
  PROVE  /\ PartsAgree' /\ RequestAgrees'
         /\ (rsp.full \cup sticky \cup call.tells)' \subseteq applied'
<1> DEFINE told == call.tells \cap unanswered
           denied == call.denies \cap unanswered
           new == {d.kind} \cap Kinds
<1>1. /\ net' = Learn(told) /\ UNCHANGED <<rx, rsp, sticky, applied, pc>>
      /\ answer' = IF f = NoAnswer THEN f ELSE Holding(f, d)
      /\ call' = [call EXCEPT !.heard = TRUE, !.answered = IF f = NoAnswer THEN @ ELSE TRUE]
      /\ apart' = apart \cup IF denied = {} THEN {} ELSE {"untold"}
  BY DEF NetworkHears, mac
<1>2. call'.tells = call.tells
  BY <1>1 DEF SessionInv, CallInv, NoCall
<1>3. told \subseteq applied /\ told \subseteq unanswered /\ applied \subseteq asked
      /\ unanswered \subseteq asked
  BY DEF ToldInv
<1>4. \A k \in Kinds : Part(net', k) = IF k \in told THEN Part(wish, k) ELSE Part(net, k)
  BY <1>1, LearnPart
<1>5. f = NoAnswer => ~Waiting'
  BY <1>1 DEF Waiting, NoAnswer
<1>6. f # NoAnswer => answer'.holds = d
  BY <1>1 DEF Holding
<1>7. denied = {}
  BY <1>1
<1>8. unanswered \ (told \cup denied) = unanswered \ told
  BY <1>7
<1>9. IF f = NoAnswer THEN UNCHANGED <<wish, asked>> /\ unanswered' = unanswered \ told
      ELSE Asks(d) /\ unanswered' = (unanswered \ told) \cup new
  BY <1>8 DEF NetworkHears
<1>10. CASE f = NoAnswer
  <2>1. wish' = wish /\ asked' = asked /\ unanswered' = unanswered \ told
    BY <1>9, <1>10
  <2> HIDE DEF told, denied, new
  <2>2. PartsAgree'
    BY <1>1, <1>3, <1>4, <2>1 DEF PartsAgree
  <2>3. RequestAgrees'
    BY <1>5, <1>10 DEF RequestAgrees
  <2> QED
    BY <1>1, <1>2, <2>2, <2>3
<1>11. CASE f # NoAnswer
  <2>1. unanswered' = (unanswered \ told) \cup new /\ Asks(d)
    BY <1>9, <1>11
  <2>2. /\ asked' = asked \cup new
        /\ \A k \in Kinds : k # d.kind => Part(wish', k) = Part(wish, k)
        /\ d.kind \in Kinds =>
             /\ d.kind \notin asked /\ d.kind \notin applied
             /\ Part(wish', d.kind) = Part(Apply(rx, d), d.kind)
    BY <2>1, AsksPart
  <2>3. new \subseteq Kinds /\ (\A k \in new : k = d.kind) /\ (d.kind \in Kinds => d.kind \in new)
    OBVIOUS
  <2> HIDE DEF told, denied, new
  <2>4. PartsAgree'
    <3> SUFFICES ASSUME NEW k \in Kinds
                 PROVE  /\ k \notin asked' => Part(wish', k) = Part(net', k)
                        /\ k \notin applied => Part(net', k) = Part(rx, k)
                        /\ k \in applied => Part(wish', k) = Part(rx, k)
                        /\ k \in applied /\ k \notin unanswered' => Part(net', k) = Part(wish', k)
      BY <1>1 DEF PartsAgree
    <3>1. CASE k = d.kind
      BY <1>3, <1>4, <2>1, <2>2, <2>3, <3>1 DEF PartsAgree
    <3>2. CASE k # d.kind
      BY <1>3, <1>4, <2>1, <2>2, <2>3, <3>2 DEF PartsAgree
    <3> QED
      BY <3>1, <3>2
  <2>5. RequestAgrees'
    BY <1>1, <1>6, <1>11, <2>1, <2>2, <2>3 DEF RequestAgrees
  <2> QED
    BY <1>1, <1>2, <2>4, <2>5
<1> QED
  BY <1>10, <1>11

\* Nothing is agreed on at first, as nothing is joined.
LEMMA AgreeInit == Init => AgreeInv
BY DEF Init, AgreeInv, NoCall, NoAnswer

\* Every step of Next keeps the agreement.
LEMMA AgreeStep ==
  ASSUME SessionInv, TypeInv, ToldInv, AgreeInv, [Next]_vars
  PROVE  AgreeInv'
<1>0. CallInv /\ NoCall.kind = "none" /\ NoCall.tells = {} /\ NoAnswer.fate = "none"
  BY DEF SessionInv, NoCall, NoAnswer
<1>1. ASSUME Quietly, SameCall, Waiting' => Waiting
      PROVE  AgreeInv'
  <2>1. /\ call'.kind = call.kind /\ call'.tells = call.tells
        /\ answer'.fate # "none" => answer.fate # "none" /\ answer'.holds = answer.holds
    BY <1>1 DEF SameCall
  <2>2. /\ UNCHANGED <<state, rx, sticky, net, wish, asked, unanswered, apart, applied>>
        /\ rsp'.full \subseteq rsp.full \cup sticky
    BY <1>1 DEF Quietly
  <2>3. Waiting' => Waiting /\ answer'.holds = answer.holds
    BY <1>1, <2>1 DEF Waiting
  <2>4. PartsAgree => PartsAgree'
    BY <2>2, SameParts
  <2>5. RequestAgrees => RequestAgrees'
    BY <2>2, <2>3, SameRequest
  <2>6. rsp.full \cup sticky \cup call.tells \subseteq applied =>
          (rsp.full \cup sticky \cup call.tells)' \subseteq applied'
    BY <2>1, <2>2
  <2>7. answer'.fate # "none" => AcceptSettings(answer'.holds) = AcceptSettings(answer.holds)
    BY <2>1
  <2> QED
    BY <2>1, <2>2, <2>4, <2>5, <2>6, <2>7 DEF AgreeInv
<1>2. CASE Quietly /\ SettingStep
  <2>1. UNCHANGED <<pc, call, answer>>
    BY <1>2 DEF SettingStep
  <2> QED
    BY <1>1, <1>2, <2>1 DEF SameCall, Waiting
<1>3. CASE Quietly /\ InnerStep
  <2>1. Waiting' => Waiting
    BY <1>0, <1>3 DEF InnerStep, SameCall, Waiting
  <2> QED
    BY <1>1, <1>3, <2>1 DEF InnerStep
<1>4. ASSUME Quietly, answer'.fate = "none",
             call'.tells \subseteq rsp.full \cup sticky \cup call.tells
      PROVE  AgreeInv'
  <2>1. ~Waiting'
    BY <1>4 DEF Waiting
  <2>2. RequestAgrees'
    BY <2>1 DEF RequestAgrees
  <2>3. /\ UNCHANGED <<state, rx, sticky, net, wish, asked, unanswered, apart, applied>>
        /\ rsp'.full \subseteq rsp.full \cup sticky
    BY <1>4 DEF Quietly
  <2>4. PartsAgree => PartsAgree'
    BY <2>3, SameParts
  <2>5. rsp.full \cup sticky \cup call.tells \subseteq applied =>
          (rsp.full \cup sticky \cup call.tells)' \subseteq applied'
    BY <1>4, <2>3
  <2> QED
    BY <1>4, <2>2, <2>3, <2>4, <2>5 DEF AgreeInv
<1>5. CASE Quietly /\ Ends
  BY <1>0, <1>4, <1>5, CallEnds
<1>6. CASE Quietly /\ \E r : Begin("data", r, current_dr, 0, rsp')
  <2>1. answer'.fate = "none" /\ call'.tells = rsp'.full
    BY <1>0, <1>6, CallBegins DEF CallInv
  <2>2. rsp'.full \subseteq rsp.full \cup sticky
    BY <1>6 DEF Quietly
  <2> QED
    BY <1>4, <1>6, <2>1, <2>2
<1>7. CASE Start
  <2>1. state' = "IDLE" /\ call'.kind = "none"
    BY <1>0, <1>7 DEF Start, CallInv
  <2> QED
    BY <2>1 DEF AgreeInv
<1>8. CASE JoinAbp
  <2>1. call'.kind = "none" /\ answer'.fate = "none" /\ call'.tells = {}
    BY <1>0, <1>8 DEF JoinAbp, CallInv, air
  <2>2. /\ net' = Fresh /\ wish' = Fresh /\ asked' = {} /\ unanswered' = {} /\ applied' = {}
        /\ UNCHANGED <<rx, rsp, sticky>>
        /\ apart' = {} => rx = Fresh /\ rsp.full \cup sticky = {}
    BY <1>8 DEF JoinAbp, Answers, mac
  <2>3. apart' = {} => PartsAgree'
    BY <2>2 DEF PartsAgree
  <2>4. RequestAgrees'
    BY <2>1 DEF RequestAgrees, Waiting
  <2> QED
    BY <2>1, <2>2, <2>3, <2>4 DEF AgreeInv
<1>9. CASE JoinSucceeds
  <2>1. call'.kind = "none" /\ answer'.fate = "none" /\ call'.tells = {}
    BY <1>0, <1>9, CallEnds DEF JoinSucceeds
  <2>2. apart' = {} => /\ rx' = net' /\ wish' = net' /\ applied' = {}
                       /\ rsp'.full = {} /\ sticky' = {}
    BY <1>9, JoinAgrees
  <2>3. apart' = {} => PartsAgree'
    BY <2>2 DEF PartsAgree
  <2>4. RequestAgrees'
    BY <2>1 DEF RequestAgrees, Waiting
  <2> QED
    BY <2>1, <2>2, <2>3, <2>4 DEF AgreeInv
<1>10. ASSUME NEW n \in Fills, Downlink(n) PROVE AgreeInv'
  <2>1. call.kind = "data" /\ UNCHANGED <<call, state>> /\ apart \subseteq apart'
    BY <1>10 DEF Downlink, Heard
  <2>2. apart' = {} => apart = {}
    BY <2>1
  <2> QED
    BY <1>10, <2>1, <2>2, DownlinkAgrees DEF AgreeInv
<1>11. ASSUME NEW r, NEW nonce, JoinBegins(r, nonce) PROVE AgreeInv'
  <2>1. state' = "JOINING" /\ Begin("join", r, join_dr, nonce, NoRsp)
    BY <1>11 DEF JoinBegins
  <2>2. answer'.fate = "none"
    BY <1>0, <2>1, CallBegins DEF CallInv
  <2> QED
    BY <2>1, <2>2 DEF AgreeInv
<1>12. ASSUME NEW a \in Accepts, NEW f, NetworkJoins(a, f) PROVE AgreeInv'
  <2>1. state' = "JOINING" /\ net' = AcceptSettings(a) /\ wish' = net'
        /\ asked' = {} /\ unanswered' = {}
    BY <1>0, <1>12 DEF NetworkJoins, CallInv, session
  <2>2. answer'.fate = "none" \/ answer'.holds = a
    BY <1>0, <1>12 DEF NetworkJoins, Holding
  <2> QED
    BY <2>1, <2>2 DEF AgreeInv
<1>13. ASSUME NEW d \in Requests, NEW f, NetworkHears(d, f) PROVE AgreeInv'
  <2>1. /\ call'.kind = "data" /\ state = "JOINED" /\ state' = state
        /\ apart' = {} => apart = {}
    BY <1>0, <1>13 DEF NetworkHears, CallInv, NoCall, session
  <2> QED
    BY <1>13, <2>1, HearingAgrees DEF AgreeInv
<1>14. ASSUME NEW d \in Requests, NEW n \in Fills, ClassCDownlink(d, n) PROVE AgreeInv'
  <2>1. /\ call'.kind = "none" /\ state = "JOINED" /\ state' = state
        /\ apart' = {} => apart = {}
    BY <1>0, <1>14 DEF ClassCDownlink, CallInv
  <2> QED
    BY <1>14, <2>1, ClassCAgrees DEF AgreeInv
<1> QED
  BY <1>0, AgreeSteps, <1>2, <1>3, <1>5, <1>6, <1>7, <1>8, <1>9, <1>10, <1>11, <1>12, <1>13, <1>14
-----------------------------------------------------------------------------
(* Where the windows are *)

\* RX1 and RX2 as settings s have them, with RX1 on one of some frequencies.
Rx1Fits(s, freqs, at) ==
  /\ call.rx1.freq \in freqs /\ call.rx1.at = at
  /\ call.rx1.mod = Modulation(region, Rx1Dr(region, call.dr, s.offset))

Rx2Fits(s, at) ==
  /\ call.rx2.freq = Rx2Freq(s) /\ call.rx2.at = at
  /\ call.rx2.mod = Modulation(region, Rx2Dr(s))

\* A call that has transmitted has its windows: a Join-Request those of the region,
\* an uplink those of the settings in force until it is answered.
WindowInv ==
  /\ pc \in {"rx1", "rx2", "received", "settle"} => call.tx > 0
  /\ call.tx > 0 => call.rx1.at >= 1000 /\ call.rx2.at = call.rx1.at + 1000
  /\ call.kind = "join" /\ call.tx > 0 =>
       /\ Rx1Fits(Fresh, {region.rx1[call.ch]}, JOIN_RX1_DELAY_MS)
       /\ Rx2Fits(rx, JOIN_RX1_DELAY_MS + 1000)
  /\ call.kind = "data" /\ call.tx > 0 /\ ~call.answered =>
       Rx1Fits(rx, Rx1Freqs(call.ch), DelayMs(rx)) /\ Rx2Fits(rx, DelayMs(rx) + 1000)

\* Steps that leave the windows and the settings they were made of alone.
Still ==
  /\ UNCHANGED rx
  /\ pc' \in {"rx1", "rx2", "received", "settle"} => pc \in {"rx1", "rx2", "received", "settle"}
  /\ call'.tx = call.tx /\ call'.dr = call.dr /\ call'.ch = call.ch /\ call'.kind = call.kind
  /\ call'.rx1 = call.rx1 /\ call'.rx2 = call.rx2
  /\ ~call'.answered => ~call.answered

\* The steps of Next, told apart by what they do to the call that lorawan_rx()
\* reads its windows from.
LEMMA WindowSteps ==
  ASSUME CallInv, [Next]_vars
  PROVE  \/ pc' = "idle" /\ call' = NoCall
         \/ \E kind \in {"join", "data"}, dr \in {current_dr, join_dr} :
              \E r, nonce, said : Begin(kind, r, dr, nonce, said)
         \/ UNCHANGED rx /\ \E freq \in Rx1Freqs(call.ch) : TxOk(freq)
         \/ UNCHANGED rx /\ \E lower \in BOOLEAN : Repeat(lower)
         \/ Still
         \/ \E n \in Fills : Downlink(n)
<1>1. CASE UNCHANGED vars
  BY <1>1 DEF vars, mac, Still
<1>2. ASSUME NEW a, NEW f, NetworkJoins(a, f) PROVE Still
  BY <1>2 DEF NetworkJoins, CallInv, NoCall, mac, Still
<1>3. ASSUME NEW d, NEW f, NetworkHears(d, f) PROVE Still
  <2>1. call' = [call EXCEPT !.heard = TRUE, !.answered = IF f = NoAnswer THEN @ ELSE TRUE]
    BY <1>3 DEF NetworkHears
  <2>2. UNCHANGED <<rx, pc>>
    BY <1>3 DEF NetworkHears, mac
  <2> QED
    BY <2>1, <2>2 DEF CallInv, NoCall, Still
<1>4. ASSUME NEW ok \in BOOLEAN, Receives(ok) \/ ReceivesForeign(ok) \/ TimesOut(ok)
      PROVE  Still
  <2>1. pc \in {"rx1", "rx2"} /\ UNCHANGED rx
    BY <1>4 DEF Receives, ReceivesForeign, TimesOut, Receiving, mac
  <2>2. \/ call' = [call EXCEPT !.fault = IF ok THEN @ ELSE TRUE]
        \/ call' = [call EXCEPT !.foreign = TRUE, !.fault = IF ok THEN @ ELSE TRUE]
    BY <1>4 DEF Receives, ReceivesForeign, TimesOut
  <2>3. /\ call'.tx = call.tx /\ call'.dr = call.dr /\ call'.ch = call.ch
        /\ call'.kind = call.kind /\ call'.answered = call.answered
        /\ call'.rx1 = call.rx1 /\ call'.rx2 = call.rx2
    BY <2>2 DEF CallInv, NoCall
  <2> QED
    BY <2>1, <2>3 DEF Still
<1>5. CASE SetRegion \/ NoDownlink
  BY <1>5 DEF SetRegion, NoDownlink, mac, Still
<1>6. CASE \/ Start \/ RxcListens \/ JoinAbp \/ (\E mask \in Masks : SetChannelsMask(mask))
           \/ (\E dr \in Rates : SetDatarate(dr))
           \/ \E d \in Requests : \E n \in Fills : ClassCDownlink(d, n)
  BY <1>6 DEF Start, RxcListens, JoinAbp, SetChannelsMask, SetDatarate, ClassCDownlink, CallInv
<1>7. CASE TxFail \/ JoinFails \/ JoinSucceeds \/ SendReturns
  BY <1>7 DEF TxFail, JoinFails, JoinSucceeds, SendReturns, Ends
<1>8. ASSUME NEW r, NEW own, SendBegins(r, own)
      PROVE  Begin("data", r, current_dr, 0, rsp')
  BY <1>8 DEF SendBegins
<1>9. ASSUME NEW r, NEW nonce, JoinBegins(r, nonce)
      PROVE  Begin("join", r, join_dr, nonce, NoRsp)
  BY <1>9 DEF JoinBegins
<1>10. CASE (\E r, own : SendBegins(r, own)) \/ \E r, nonce : JoinBegins(r, nonce)
  BY <1>8, <1>9, <1>10
<1>11. CASE \E freq \in Rx1Freqs(call.ch) : TxOk(freq)
  BY <1>11 DEF TxOk
<1>12. CASE \E lower \in BOOLEAN : Repeat(lower)
  BY <1>12 DEF Repeat, mac
<1> QED
  BY Actions, <1>1, <1>2, <1>3, <1>4, <1>5, <1>6, <1>7, <1>10, <1>11, <1>12

\* No call, no windows.
LEMMA WindowInit == Init => WindowInv
BY DEF Init, WindowInv, NoCall

\* Every step of Next keeps the windows of a call to the settings they were
\* computed from.
LEMMA WindowStep ==
  ASSUME SessionInv, TypeInv, ToldInv, WindowInv, [Next]_vars
  PROVE  WindowInv'
<1>0. CallInv /\ UNCHANGED region
  BY SameRegion DEF SessionInv
<1>1. CASE pc' = "idle" /\ call' = NoCall
  BY <1>1 DEF WindowInv, NoCall
<1>2. ASSUME NEW kind, NEW dr, NEW r, NEW nonce, NEW said,
             Begin(kind, r, dr, nonce, said)
      PROVE  WindowInv'
  BY <1>2, BeginWindows DEF WindowInv
<1>3. ASSUME UNCHANGED rx, NEW freq \in Rx1Freqs(call.ch), TxOk(freq) PROVE WindowInv'
  <2> USE <1>0, <1>3, TransmissionWindows
  <2>1. /\ call'.kind = call.kind /\ call'.tells = call.tells /\ call'.answered = call.answered
        /\ call'.ch = call.ch /\ call'.dr = call.dr
        /\ call.tx \in Nat /\ call'.tx = call.tx + 1
    BY TransmissionSameCall DEF SameCall, TypeInv, CountOK
  <2>2. CASE call.kind = "join"
    <3>1. /\ call'.rx1 = Rx1Window(Fresh, region.rx1[call.ch], call.dr, JOIN_RX1_DELAY_MS)
          /\ call'.rx2 = Rx2Window(rx, JOIN_RX1_DELAY_MS + 1000)
      BY <2>2
    <3>2. /\ Rx1Fits(Fresh, {region.rx1[call.ch]}, JOIN_RX1_DELAY_MS)'
          /\ Rx2Fits(rx, JOIN_RX1_DELAY_MS + 1000)'
      BY <2>1, <3>1 DEF Rx1Fits, Rx2Fits, Rx1Window, Rx2Window, Rx2Freq, Rx2Dr, Fresh
    <3> QED
      BY <2>1, <2>2, <3>2 DEF WindowInv, Rx1Fits, Rx2Fits, JOIN_RX1_DELAY_MS
  <2>3. CASE call.kind # "join" /\ call.tx = 0
    <3>1. /\ call'.rx1 = Rx1Window(rx, freq, call.dr, DelayMs(rx))
          /\ call'.rx2 = Rx2Window(rx, DelayMs(rx) + 1000)
      BY <2>3
    <3>2. (Rx1Fits(rx, Rx1Freqs(call.ch), DelayMs(rx)) /\ Rx2Fits(rx, DelayMs(rx) + 1000))'
      BY <2>1, <3>1 DEF Rx1Fits, Rx2Fits, Rx1Window, Rx2Window, Rx2Freq, Rx2Dr, Rx1Freqs, DelayMs
    <3>3. DelayMs(rx) \in Nat /\ DelayMs(rx) >= 1000 /\ DelayMs(rx)' = DelayMs(rx)
      BY DelayBounds DEF TypeInv, MacOK, SettingsOK, DelayMs
    <3> QED
      BY <2>1, <2>3, <3>2, <3>3 DEF WindowInv, Rx1Fits, Rx2Fits
  <2>4. CASE call.kind # "join" /\ call.tx # 0
    <3>1. call'.rx1 = call.rx1 /\ call'.rx2 = call.rx2
      BY <2>4
    <3> QED
      BY <2>1, <2>4, <3>1 DEF WindowInv, Rx1Fits, Rx2Fits, Rx2Freq, Rx2Dr, Rx1Freqs, DelayMs
  <2> QED
    BY <2>2, <2>3, <2>4
<1>4. ASSUME UNCHANGED rx, NEW lower \in BOOLEAN, Repeat(lower) PROVE WindowInv'
  <2>1. call.kind = "data" /\ pc' = "tx"
    BY <1>0, <1>4 DEF CallInv, Repeat
  <2>2. call'.answered = call.answered
    BY <1>0, <1>4, RepetitionSameCall DEF SameCall
  <2> QED
    BY <1>0, <1>4, <2>1, <2>2, RepetitionWindows
       DEF WindowInv, Rx1Fits, Rx2Fits, Rx2Freq, Rx2Dr, Rx1Freqs, DelayMs
<1>5. CASE Still
  BY <1>0, <1>5 DEF Still, WindowInv, Rx1Fits, Rx2Fits, Rx2Freq, Rx2Dr, Rx1Freqs, DelayMs
<1>6. ASSUME NEW n, Downlink(n) PROVE WindowInv'
  <2>1. call.kind = "data" /\ call.answered /\ UNCHANGED call /\ pc = "received"
    BY <1>6 DEF Downlink, Heard, ToldInv
  <2> QED
    BY <2>1 DEF WindowInv
<1> QED
  BY <1>0, WindowSteps, <1>1, <1>2, <1>3, <1>4, <1>5, <1>6
-----------------------------------------------------------------------------
(* What is heard *)

\* The network's frame is in RX1 or in RX2, as the device has them.
InFirst ==
  /\ answer.win = 1 /\ answer.at = call.rx1.at /\ answer.mod = call.rx1.mod
  /\ RegionOffers(call.ch) => answer.freq = call.rx1.freq

InSecond ==
  /\ answer.win = 2 /\ answer.at = call.rx2.at /\ answer.mod = call.rx2.mod
  /\ answer.freq = call.rx2.freq

\* What AnswerNotMissed excepts.
Excused ==
  \/ call.foreign \/ call.fault \/ TooLong \/ MayDiffer
  \/ OffChannel /\ ~RegionOffers(call.ch)

HeardInv ==
  /\ pc = "rx1" => t = 0
  /\ pc = "rx2" => t + RX_EARLY_MS <= call.rx2.at
  /\ pc = "rx1" /\ answer.fate # "none" =>
       answer.fate = "coming" /\ (MayDiffer \/ InFirst \/ InSecond)
  /\ pc = "rx2" /\ answer.fate # "none" => answer.fate = "coming" /\ (Excused \/ InSecond)
  /\ AnswerNotMissed

\* Where the network puts its answer if it has the settings of the device.
LEMMA FrameFits ==
  ASSUME TypeInv, NEW s \in Settings, NEW at \in Nat, NEW f \in Frames(s, at), NEW d,
         answer' = Holding(f, d), UNCHANGED region,
         call'.rx1 = call.rx1, call'.rx2 = call.rx2, call'.ch = call.ch,
         call.rx1.at = at, call.rx2.at = at + 1000,
         call.rx1.mod = Modulation(region, Rx1Dr(region, call.dr, s.offset)),
         RegionOffers(call.ch) => NetRx1Freq(s) = call.rx1.freq,
         call.rx2.freq = Rx2Freq(s), call.rx2.mod = Modulation(region, Rx2Dr(s))
  PROVE  answer'.fate = "coming" /\ (InFirst \/ InSecond)'
<1>1. /\ answer'.fate = f.fate /\ answer'.win = f.win /\ answer'.freq = f.freq
      /\ answer'.mod = f.mod /\ answer'.at = f.at /\ answer'.toa = f.toa
  BY DEF Holding
<1>2. f.fate = "coming"
  BY FrameTypes
<1>3. CASE /\ f.win = 1 /\ f.at = at /\ f.freq = NetRx1Freq(s)
           /\ f.mod = Modulation(region, Rx1Dr(region, call.dr, s.offset))
  BY <1>1, <1>2, <1>3 DEF InFirst, RegionOffers
<1>4. CASE /\ f.win = 2 /\ f.at = at + 1000 /\ f.freq = Rx2Freq(s)
           /\ f.mod = Modulation(region, Rx2Dr(s))
  BY <1>1, <1>2, <1>4 DEF InSecond
<1> QED
  BY <1>3, <1>4, FrameTypes

\* A Join-Accept comes where the region's windows are.
LEMMA AcceptFits ==
  ASSUME SessionInv, TypeInv, WindowInv, UNCHANGED region,
         NEW a \in Accepts, NEW f, NetworkJoins(a, f), answer'.fate # "none"
  PROVE  answer'.fate = "coming" /\ (MayDiffer \/ InFirst \/ InSecond)'
<1>1. f \in Frames(Fresh, JOIN_RX1_DELAY_MS) /\ answer' = Holding(f, a)
  BY NetworkAnswers DEF SessionInv, NoAnswer
<1>2. /\ pc = "rx1" /\ call.kind = "join" /\ call' = [call EXCEPT !.heard = TRUE]
      /\ UNCHANGED rx
  BY DEF NetworkJoins, mac
<1>3. /\ call'.rx1 = call.rx1 /\ call'.rx2 = call.rx2 /\ call'.ch = call.ch
      /\ call'.kind = "join"
  BY <1>2 DEF SessionInv, CallInv, NoCall
<1>4. /\ Rx1Fits(Fresh, {region.rx1[call.ch]}, JOIN_RX1_DELAY_MS)
      /\ Rx2Fits(rx, JOIN_RX1_DELAY_MS + 1000)
  BY <1>2 DEF WindowInv
<1>5. JOIN_RX1_DELAY_MS \in Nat /\ Fresh \in Settings
  BY FreshOK DEF JOIN_RX1_DELAY_MS, SettingsOK
<1>6. answer'.fate = "coming"
  BY <1>1, <1>5, FrameTypes DEF Holding
<1>7. CASE MayDiffer
  BY <1>2, <1>3, <1>6, <1>7 DEF MayDiffer
<1>8. CASE ~MayDiffer
  <2>1. rx.rx2_freq = 0 /\ rx.rx2_dr = NoDr
    BY <1>2, <1>8 DEF MayDiffer
  <2>2. Rx2Freq(Fresh) = call.rx2.freq /\ Modulation(region, Rx2Dr(Fresh)) = call.rx2.mod
    BY <1>4, <2>1 DEF Rx2Fits, Rx2Freq, Rx2Dr, Fresh
  <2>3. RegionOffers(call.ch) => NetRx1Freq(Fresh) = call.rx1.freq
    BY <1>4 DEF Rx1Fits, NetRx1Freq, RegionOffers, Fresh
  <2> QED
    BY <1>1, <1>3, <1>4, <1>5, <2>2, <2>3, FrameFits DEF Rx1Fits, Rx2Fits
<1> QED
  BY <1>7, <1>8

\* What the network makes of an uplink's answers is what the device has in force.
LEMMA ViewAgrees ==
  ASSUME SessionInv, TypeInv, ToldInv, AgreeInv, keys = net_keys,
         call.kind = "data", pc = "rx1", ~MayDiffer
  PROVE  Learn(call.tells \cap unanswered) = rx
<1> DEFINE told == call.tells \cap unanswered
<1>1. /\ state = "JOINED" /\ PartsAgree /\ call.tells \subseteq applied
      /\ applied \cap unanswered \subseteq sticky /\ sticky \subseteq call.tells
  <2>1. apart = {} /\ sticky \subseteq call.tells
    BY DEF MayDiffer
  <2>2. state = "JOINED"
    BY DEF SessionInv, CallInv
  <2> QED
    BY <2>1, <2>2 DEF AgreeInv, ToldInv, ChangeToldOn
<1>2. \A k \in Kinds : Part(Learn(told), k) = Part(rx, k)
  <2> SUFFICES ASSUME NEW k \in Kinds
               PROVE  (IF k \in told THEN Part(wish, k) ELSE Part(net, k)) = Part(rx, k)
    BY LearnPart
  <2>1. CASE k \in told
    BY <1>1, <2>1 DEF PartsAgree
  <2>2. CASE k \notin told /\ k \in applied
    BY <1>1, <2>2 DEF PartsAgree
  <2>3. CASE k \notin applied
    BY <1>1, <2>3 DEF PartsAgree
  <2> QED
    BY <2>1, <2>2, <2>3
<1>3. Learn(told) \in Settings /\ rx \in Settings
  BY NetworkAnswers DEF SessionInv, TypeInv, MacOK, SettingsOK
<1> QED
  BY <1>2, <1>3, PartsOfSettings

\* The answer to an uplink comes where the settings in force have the windows.
LEMMA DownlinkFits ==
  ASSUME SessionInv, TypeInv, ToldInv, AgreeInv, WindowInv, UNCHANGED region,
         NEW d \in Requests, NEW f, NetworkHears(d, f), answer'.fate # "none"
  PROVE  answer'.fate = "coming" /\ (MayDiffer \/ InFirst \/ InSecond)'
<1> DEFINE view == Learn(call.tells \cap unanswered)
<1>1. /\ f \in Frames(view, DelayMs(view)) /\ answer' = Holding(f, d) /\ ~call.answered
      /\ view \in Settings
  <2>1. answer' # NoAnswer /\ CallInv
    BY DEF SessionInv, NoAnswer
  <2>2. view \in Settings
    BY <2>1, NetworkAnswers
  <2> HIDE DEF view
  <2>3. \/ answer' = NoAnswer
        \/ f \in Frames(view, DelayMs(view)) /\ answer' = Holding(f, d) /\ ~call.answered
    BY <2>1, NetworkAnswers DEF view
  <2> QED
    BY <2>1, <2>2, <2>3
<1>2. /\ pc = "rx1" /\ call.kind = "data" /\ keys = net_keys
      /\ UNCHANGED sticky /\ apart \subseteq apart'
      /\ call' = [call EXCEPT !.heard = TRUE, !.answered = IF f = NoAnswer THEN @ ELSE TRUE]
  BY DEF NetworkHears, mac
<1>3. /\ call'.rx1 = call.rx1 /\ call'.rx2 = call.rx2 /\ call'.ch = call.ch
      /\ call'.kind = call.kind /\ call'.tells = call.tells
  BY <1>2 DEF SessionInv, CallInv, NoCall
<1>4. ~MayDiffer => view = rx
  BY <1>2, ViewAgrees
<1> HIDE DEF view
<1>5. DelayMs(view) \in Nat
  BY <1>1, DelayBounds
<1>6. answer'.fate = "coming"
  BY <1>1, <1>5, FrameTypes DEF Holding
<1>7. CASE MayDiffer
  BY <1>2, <1>3, <1>6, <1>7 DEF MayDiffer
<1>8. CASE ~MayDiffer
  <2>1. Rx1Fits(rx, Rx1Freqs(call.ch), DelayMs(rx)) /\ Rx2Fits(rx, DelayMs(rx) + 1000)
    BY <1>1, <1>2 DEF WindowInv
  <2>2. RegionOffers(call.ch) => NetRx1Freq(rx) = call.rx1.freq
    BY <2>1 DEF Rx1Fits, Rx1Freqs, NetRx1Freq, RegionOffers
  <2> QED
    BY <1>1, <1>3, <1>4, <1>5, <1>8, <2>1, <2>2, FrameFits DEF Rx1Fits, Rx2Fits
<1> QED
  BY <1>7, <1>8

\* No call, no answer to miss.
LEMMA HeardInit == Init => HeardInv
BY DEF Init, HeardInv, AnswerNotMissed

\* RX1 ends without the network's frame: the frame is one of RX2, or excused.
LEMMA FirstEnds ==
  ASSUME SessionInv, TypeInv, WindowInv, HeardInv, UNCHANGED region,
         NEW ok \in BOOLEAN, TimesOut(ok), pc = "rx1"
  PROVE  HeardInv'
<1>1. /\ pc' = "rx2" /\ answer' = answer /\ t' = Opens + Wait /\ ~InReach
      /\ call' = [call EXCEPT !.fault = IF ok THEN @ ELSE TRUE]
      /\ radio' = IF ok THEN [mode |-> "rx", freq |-> Window.freq, mod |-> Window.mod] ELSE radio
      /\ UNCHANGED <<rx, sticky, apart>>
  BY DEF TimesOut, Receiving, Configure, mac
<1>2. /\ call'.rx1 = call.rx1 /\ call'.rx2 = call.rx2 /\ call'.ch = call.ch
      /\ call'.kind = call.kind /\ call'.tells = call.tells /\ call'.foreign = call.foreign
      /\ ok => call'.fault = call.fault
      /\ ~ok => call'.fault
  BY <1>1 DEF SessionInv, CallInv, NoCall
<1>3. Window = call.rx1 /\ Wait = RX_TIMEOUT_MS
  BY DEF Window, Wait
<1>4. call.rx1.at \in Nat /\ call.rx1.at >= 1000 /\ call.rx2.at = call.rx1.at + 1000 /\ t = 0
  BY DEF TypeInv, CallOK, WindowInv, HeardInv
<1>5. Opens = call.rx1.at - RX_EARLY_MS
  BY <1>3, <1>4 DEF Opens, Greatest, RX_EARLY_MS
<1>6. t' + RX_EARLY_MS <= call'.rx2.at
  BY <1>1, <1>2, <1>3, <1>4, <1>5 DEF RX_EARLY_MS, RX_TIMEOUT_MS
<1>7. ASSUME answer.fate # "none"
      PROVE  answer'.fate = "coming" /\ (Excused \/ InSecond)'
  <2>1. answer.fate = "coming" /\ (MayDiffer \/ InFirst \/ InSecond)
    BY <1>7 DEF HeardInv
  <2>2. CASE MayDiffer
    BY <1>1, <1>2, <2>1, <2>2 DEF Excused, MayDiffer
  <2>3. CASE InSecond
    BY <1>1, <1>2, <2>1, <2>3 DEF InSecond
  <2>4. CASE InFirst /\ ~ok
    BY <1>1, <1>2, <2>1, <2>4 DEF Excused
  <2>5. CASE InFirst /\ ok
    <3>1. /\ answer.win = 1 /\ answer.at = call.rx1.at /\ answer.mod = call.rx1.mod
          /\ answer.toa \in Nat
      BY <2>5 DEF InFirst, TypeInv, AirOK
    <3>2. radio'.mode = "rx" /\ radio'.freq = call.rx1.freq /\ radio'.mod = call.rx1.mod
      BY <1>1, <1>3, <2>5
    <3>3. answer.freq # call.rx1.freq \/ answer.toa > RX_TIMEOUT_MS - RX_EARLY_MS
      BY <1>1, <1>3, <1>4, <1>5, <2>1, <3>1, <3>2 DEF InReach, RX_EARLY_MS, RX_TIMEOUT_MS
    <3>4. CASE answer.freq # call.rx1.freq
      <4>1. ~RegionOffers(call.ch)
        BY <2>5, <3>4 DEF InFirst
      <4> QED
        BY <1>1, <1>2, <2>1, <3>1, <3>4, <4>1 DEF Excused, OffChannel, RegionOffers
    <3>5. CASE answer.toa > RX_TIMEOUT_MS - RX_EARLY_MS
      BY <1>1, <2>1, <3>1, <3>5 DEF Excused, TooLong
    <3> QED
      BY <3>3, <3>4, <3>5
  <2> QED
    BY <2>1, <2>2, <2>3, <2>4, <2>5
<1> QED
  BY <1>1, <1>6, <1>7 DEF HeardInv, AnswerNotMissed

\* RX2 ends without the network's frame: the frame is excused.
LEMMA SecondEnds ==
  ASSUME SessionInv, TypeInv, WindowInv, HeardInv, UNCHANGED region,
         NEW ok \in BOOLEAN, TimesOut(ok), pc = "rx2"
  PROVE  HeardInv'
<1>1. /\ pc' = "received" /\ answer' = Over("missed") /\ ~InReach
      /\ call' = [call EXCEPT !.fault = IF ok THEN @ ELSE TRUE]
      /\ radio' = IF ok THEN [mode |-> "rx", freq |-> Window.freq, mod |-> Window.mod] ELSE radio
      /\ UNCHANGED <<rx, sticky, apart>>
  BY DEF TimesOut, Receiving, Configure, mac
<1>2. /\ call'.rx1 = call.rx1 /\ call'.ch = call.ch
      /\ call'.kind = call.kind /\ call'.tells = call.tells /\ call'.foreign = call.foreign
      /\ ok => call'.fault = call.fault
      /\ ~ok => call'.fault
  BY <1>1 DEF SessionInv, CallInv, NoCall
<1>3. Window = call.rx2 /\ Wait = RX2_TIMEOUT_MS
  BY DEF Window, Wait
<1>4. /\ answer'.win = answer.win /\ answer'.freq = answer.freq /\ answer'.toa = answer.toa
      /\ answer'.fate = "missed" => answer.fate \in {"coming", "missed"}
  BY <1>1 DEF Over, SessionInv, CallInv, NoAnswer
<1>5. ASSUME answer'.fate = "missed" PROVE Excused'
  <2>1. answer.fate = "coming" /\ (Excused \/ InSecond)
    BY <1>4, <1>5 DEF HeardInv
  <2>2. CASE Excused
    BY <1>2, <1>1, <1>4, <2>2 DEF Excused, TooLong, OffChannel, MayDiffer, RegionOffers
  <2>3. CASE InSecond /\ ~ok
    BY <1>2, <2>3 DEF Excused
  <2>4. CASE InSecond /\ ok
    <3>1. /\ answer.at = call.rx2.at /\ answer.mod = call.rx2.mod
          /\ answer.freq = call.rx2.freq /\ answer.toa \in Nat
      BY <2>4 DEF InSecond, TypeInv, AirOK
    <3>2. radio'.mode = "rx" /\ radio'.freq = call.rx2.freq /\ radio'.mod = call.rx2.mod
      BY <1>1, <1>3, <2>4
    <3>3. t \in Nat /\ call.rx2.at \in Nat /\ t + RX_EARLY_MS <= call.rx2.at
      BY DEF TypeInv, CallOK, AirOK, HeardInv
    <3>4. Opens = call.rx2.at - RX_EARLY_MS
      BY <1>3, <3>3 DEF Opens, Greatest, RX_EARLY_MS
    <3>5. answer.toa > RX2_TIMEOUT_MS - RX_EARLY_MS
      BY <1>1, <1>3, <2>1, <3>1, <3>2, <3>3, <3>4 DEF InReach, RX_EARLY_MS, RX2_TIMEOUT_MS
    <3> QED
      BY <1>4, <2>4, <3>5 DEF InSecond, Excused, TooLong
  <2> QED
    BY <2>1, <2>2, <2>3, <2>4
<1> QED
  BY <1>1, <1>5 DEF HeardInv, AnswerNotMissed, Excused

\* Every step of Next keeps an answer on its way to an open window.
LEMMA HeardStep ==
  ASSUME SessionInv, TypeInv, ToldInv, AgreeInv, WindowInv, HeardInv, [Next]_vars
  PROVE  HeardInv'
<1>0. CallInv /\ UNCHANGED region
  BY SameRegion DEF SessionInv
<1>1. CASE pc' \notin {"rx1", "rx2", "received"}
  BY <1>1 DEF HeardInv, AnswerNotMissed
<1>2. CASE UNCHANGED <<rx, sticky, apart, pc, call, t, answer>>
  BY <1>0, <1>2 DEF HeardInv, AnswerNotMissed, Excused, TooLong, OffChannel, MayDiffer,
     RegionOffers, InFirst, InSecond
<1>3. ASSUME NEW a \in Accepts, NEW f, NetworkJoins(a, f) PROVE HeardInv'
  <2>1. pc = "rx1" /\ UNCHANGED <<pc, t>>
    BY <1>3 DEF NetworkJoins
  <2> QED
    BY <1>0, <1>3, <2>1, AcceptFits DEF HeardInv, AnswerNotMissed
<1>4. ASSUME NEW d \in Requests, NEW f, NetworkHears(d, f) PROVE HeardInv'
  <2>1. pc = "rx1" /\ UNCHANGED <<pc, t>>
    BY <1>4 DEF NetworkHears
  <2> QED
    BY <1>0, <1>4, <2>1, DownlinkFits DEF HeardInv, AnswerNotMissed
<1>5. ASSUME NEW freq, TxOk(freq) PROVE HeardInv'
  BY <1>5 DEF TxOk, NoAnswer, HeardInv, AnswerNotMissed
<1>6. ASSUME NEW ok \in BOOLEAN, Receives(ok) PROVE HeardInv'
  <2>1. pc' = "received" /\ answer' = Over("heard") /\ answer.fate = "coming"
    BY <1>6 DEF Receives, InReach
  <2>2. answer'.fate = "heard"
    BY <1>0, <2>1 DEF Over, CallInv, NoAnswer
  <2> QED
    BY <2>1, <2>2 DEF HeardInv, AnswerNotMissed
<1>7. ASSUME NEW ok \in BOOLEAN, ReceivesForeign(ok) PROVE HeardInv'
  <2>1. /\ pc' = "received"
        /\ call' = [call EXCEPT !.foreign = TRUE, !.fault = IF ok THEN @ ELSE TRUE]
    BY <1>7 DEF ReceivesForeign
  <2>2. call'.foreign
    BY <1>0, <2>1 DEF CallInv, NoCall
  <2> QED
    BY <2>1, <2>2 DEF HeardInv, AnswerNotMissed
<1>8. ASSUME NEW ok \in BOOLEAN, TimesOut(ok) PROVE HeardInv'
  <2>1. pc \in {"rx1", "rx2"}
    BY <1>8 DEF TimesOut, Receiving
  <2> QED
    BY <1>0, <1>8, <2>1, FirstEnds, SecondEnds
<1>9. CASE UNCHANGED vars
  BY <1>2, <1>9 DEF vars, mac, air, history
<1>10. CASE SetRegion
  BY <1>2, <1>10 DEF SetRegion, mac, air, history
<1>11. CASE \/ Start \/ RxcListens \/ JoinAbp \/ (\E mask \in Masks : SetChannelsMask(mask))
            \/ (\E dr \in Rates : SetDatarate(dr)) \/ NoDownlink
            \/ (\E n \in Fills : Downlink(n))
            \/ \E d \in Requests : \E n \in Fills : ClassCDownlink(d, n)
  BY <1>1, <1>11 DEF Start, RxcListens, JoinAbp, SetChannelsMask, SetDatarate, Downlink,
     ClassCDownlink, NoDownlink
<1>12. CASE TxFail \/ JoinFails \/ JoinSucceeds \/ SendReturns
  BY <1>1, <1>12 DEF TxFail, JoinFails, JoinSucceeds, SendReturns, Ends
<1>13. CASE (\E r, own : SendBegins(r, own)) \/ (\E r, nonce : JoinBegins(r, nonce))
            \/ \E lower \in BOOLEAN : Repeat(lower)
  BY <1>1, <1>13 DEF SendBegins, JoinBegins, Begin, Repeat
<1> QED
  BY Actions, <1>3, <1>4, <1>5, <1>6, <1>7, <1>8, <1>9, <1>10, <1>11, <1>12, <1>13

\* The answer of a network that follows the device's settings is heard, for every
\* region and channel plan, every Join-Accept and request, and every number of
\* exchanges, losses and repetitions.
THEOREM AnswerHeard == Spec => []AnswerNotMissed
<1> DEFINE Inv == SessionInv /\ TypeInv /\ ToldInv /\ AgreeInv /\ WindowInv /\ HeardInv
<1>1. Init => Inv
  BY SessionInit, TypeInit, ToldInit, AgreeInit, WindowInit, HeardInit
<1>2. Inv /\ [Next]_vars => Inv'
  BY SessionStep, TypeStep, ToldStep, AgreeStep, WindowStep, HeardStep
<1>3. Inv => AnswerNotMissed
  BY DEF HeardInv
<1> HIDE DEF Inv
<1> QED
  BY <1>1, <1>2, <1>3, PTL DEF Spec
=============================================================================
