------------------------------- MODULE Windows -------------------------------
(***************************************************************************)
(* Activation over the air and the receive windows: lorawan_join() with    *)
(* send_join_request(), the part of lorawan_send() that chooses a channel, *)
(* transmits and opens RX1 and RX2, the radio HAL under both, and the MAC  *)
(* requests that move the windows, together with a network that answers    *)
(* where its own view of the device's settings tells it to.                *)
(*                                                                         *)
(* pc # "idle" says that lorawan_mutex is taken.  t is the time in ms      *)
(* since the end of the last transmission.  A modulation and a frequency   *)
(* stand for the radio's configuration; a frame is heard if the radio      *)
(* listens on both from its first moment to its last.  Counters, retries   *)
(* wanted or not, and the answers one by one are in Session and            *)
(* MacCommands; here are those that move the windows, and the bytes that   *)
(* the others take.  Class C appears with its radio configuration and with *)
(* downlinks between two calls; its thread is in ClassC.                   *)
(***************************************************************************)
EXTENDS Regions

CONSTANTS
  Builds,       \* the regions, of which a build has one
  Accepts,      \* Join-Accepts: [offset, rx2_dr, delay, cflist]
  Requests,     \* what a downlink asks: records with a kind
  Masks,        \* channel sets given to lorawan_set_channels_mask()
  Rates,        \* data rates given to lorawan_set_datarate()
  DevNonces,    \* what sys_rand32_get() returns for DevNonce
  Draws,        \* what it returns for the choice of a channel
  Fills,        \* bytes that the other answers and requests of a frame take
  AirTimes,     \* how long a frame of the network lasts, in ms
  MaxFrames,    \* bound: activations and uplinks, the repeated ones too
  MaxFaults     \* bound: failed radio configurations, others' frames, and
                \* downlinks in Class C

RX_EARLY_MS   == 10
RX_TIMEOUT_MS == 950
RX2_TIMEOUT_MS == 2000
JOIN_RX1_DELAY_MS == 5000
NoDr       == 255   \* rx2_dr_override: none
StrayFreq  == 1     \* what lies beyond dl_channel_freq[16]
DlChannels == 0 .. 15
Kinds      == {"rx", "delay", "dl"}  \* the requests that move the windows
RSP        == 15  \* sizeof(mac_rsp_buf)

ASSUME WindowsAssumption ==
  /\ Builds \subseteq AllRegions
  /\ Accepts \subseteq
       [offset : Nat, rx2_dr : Nat, delay : Nat,
        cflist : [type : {"none"}] \cup [type : {"A"}, freqs : Seq(Nat)]
                   \cup [type : {"B"}, mask : SUBSET Nat]]
  /\ Requests \subseteq
       [kind : {"none"}] \cup [kind : {"rx"}, offset : Nat, freq : Nat, dr : Nat]
         \cup [kind : {"delay"}, delay : Nat] \cup [kind : {"dl"}, ch : Nat, freq : Nat]
         \cup [kind : {"adr"}, dr : Nat, mask : SUBSET Nat]
  /\ Masks \subseteq SUBSET Nat /\ Rates \subseteq Nat
  /\ Fills \subseteq Nat /\ AirTimes \subseteq Nat
  /\ MaxFrames \in Nat /\ MaxFaults \in Nat

VARIABLES
  region, chan,                   \* the build, and g_ctx.region
  state, keys, current_dr, join_dr,
  rx,                             \* what the windows depend on
  rsp, sticky,                    \* answers in mac_rsp_buf and _ans_pending
  pc, call, radio, t,             \* the running call and the radio
  answer,                         \* the network's frame in answer to the call
  net, wish, net_keys, used, asked, unanswered,  \* the network
  joins, sends, faults, apart, applied           \* history

plan    == <<region, chan>>
session == <<state, keys, current_dr, join_dr>>
mac     == <<rx, rsp, sticky>>
air     == <<radio, t, answer>>
network == <<net, wish, net_keys, used, asked, unanswered>>
history == <<joins, sends, faults, apart, applied>>
vars == <<plan, session, mac, pc, call, air, network, history>>

\* rx1_dr_offset, the two RX2 overrides, rx_timing_delay and dl_channel_freq,
\* as lorawan_start() leaves them.
Fresh == [offset |-> 0, rx2_freq |-> 0, rx2_dr |-> NoDr, delay |-> 0,
          dl |-> [ch \in DlChannels |-> 0]]
\* mac_rsp_buf: the kinds of which it has an answer with all status bits set,
\* and with some of them only, and its length.
NoRsp   == [full |-> {}, part |-> {}, len |-> 0]
NoKeys  == [nonce |-> 0, join |-> -1]
AbpKeys == [nonce |-> 0, join |-> 0]
NoAnswer == [fate |-> "none", win |-> 0, freq |-> 0, mod |-> <<0, 0>>, at |-> 0,
             toa |-> 0, holds |-> [kind |-> "none"]]
Silence == [freq |-> 0, mod |-> <<0, 0>>, at |-> 0]
Off     == [mode |-> "off", freq |-> 0, mod |-> <<0, 0>>]
NoCall  == [kind |-> "none", nonce |-> 0, ch |-> 0, freq |-> 0, dr |-> 0,
            retry_dr |-> 0, tx |-> 0, tells |-> {}, denies |-> {}, rx1 |-> Silence,
            rx2 |-> Silence, heard |-> FALSE, answered |-> FALSE, foreign |-> FALSE, fault |-> FALSE]

Init ==
  /\ region \in Builds /\ chan = RegionInit(region)
  /\ state = "IDLE" /\ keys = NoKeys
  /\ current_dr = 0 /\ join_dr = region.join_dr
  /\ rx = Fresh /\ rsp = NoRsp /\ sticky = {}
  /\ pc = "idle" /\ call = NoCall
  /\ radio = Off /\ t = 0
  /\ answer = NoAnswer
  /\ net = Fresh /\ wish = Fresh /\ net_keys = NoKeys /\ used = {}
  /\ asked = {} /\ unanswered = {}
  /\ joins = 0 /\ sends = 0 /\ faults = 0 /\ apart = {} /\ applied = {}
-----------------------------------------------------------------------------
(* Where the windows are, from the settings s of the device or the network *)

Rx2Freq(s) == IF s.rx2_freq # 0 THEN s.rx2_freq ELSE region.rx2_freq
Rx2Dr(s)   == IF s.rx2_dr # NoDr THEN s.rx2_dr ELSE region.rx2_dr
DelayMs(s) == 1000 * (IF s.delay # 0 THEN s.delay ELSE 1)

Rx1Window(s, freq, dr, at) ==
  [freq |-> freq, mod |-> Modulation(region, Rx1Dr(region, dr, s.offset)), at |-> at]
Rx2Window(s, at) == [freq |-> Rx2Freq(s), mod |-> Modulation(region, Rx2Dr(s)), at |-> at]

\* The device: beyond the 16 entries of dl_channel_valid it reads what follows.
Rx1Freqs(ch) ==
  IF ch \notin DlChannels THEN {region.rx1[ch], StrayFreq}
  ELSE IF rx.dl[ch] # 0 THEN {rx.dl[ch]} ELSE {region.rx1[ch]}

\* The network: the region's downlink channels, or else the uplink's own.
NetRx1Freq(s) ==
  IF call.ch \in DlChannels /\ s.dl[call.ch] # 0 THEN s.dl[call.ch]
  ELSE IF region.cflist.type = "B" THEN region.rx1[call.ch] ELSE call.freq
-----------------------------------------------------------------------------
(* The API *)

\* lorawan_start() again: the session is gone and the channels stay.
Start ==
  /\ pc = "idle" /\ state # "IDLE"
  /\ state' = "IDLE" /\ keys' = NoKeys
  /\ current_dr' = 0 /\ join_dr' = region.join_dr
  /\ rx' = Fresh /\ rsp' = NoRsp /\ sticky' = {} /\ apart' = {}
  /\ UNCHANGED <<plan, pc, call, air, network, joins, sends, faults, applied>>

\* lorawan_set_region() takes no mutex.  What a call or thread that runs at the
\* same time sees of a half-written region is not modelled, and no build has a
\* region without channels.
SetRegion ==
  /\ pc = "idle" /\ chan' = RegionInit(region)
  /\ UNCHANGED <<region, session, mac, pc, call, air, network, history>>

SetChannelsMask(mask) ==
  /\ pc = "idle"
  /\ chan' = [chan EXCEPT !.on = {ch \in mask : ch < chan.max}
                                   \cup {ch \in @ : ch >= chan.max}]
  /\ UNCHANGED <<region, session, mac, pc, call, air, network, history>>

SetDatarate(dr) ==
  /\ pc = "idle" /\ dr < NumDr(region)
  /\ current_dr' = dr /\ join_dr' = dr
  /\ UNCHANGED <<plan, state, keys, mac, pc, call, air, network, history>>

\* The thread of a Class C device between two calls: rxc_freq and rxc_dr are
\* those of region_init().
RxcListens ==
  /\ pc = "idle" /\ state = "JOINED"
  /\ radio' = [mode |-> "rxc", freq |-> region.rx2_freq,
               mod |-> Modulation(region, region.rx2_dr)]
  /\ UNCHANGED <<plan, session, mac, pc, call, t, answer, network, history>>
-----------------------------------------------------------------------------
(* Transmission *)

Begin(kind, r, dr, nonce, said) ==
  /\ pc = "idle" /\ pc' = "tx"
  /\ LET ch == ChannelChoice(chan, r)
     IN call' = [NoCall EXCEPT !.kind = kind, !.ch = ch, !.dr = dr, !.retry_dr = dr,
                   !.freq = FrequencyOf(region, chan, ch), !.nonce = nonce,
                   !.tells = said.full, !.denies = said.part \ said.full]
  /\ radio' = Off
  /\ UNCHANGED <<plan, t, answer, network, faults, apart, applied>>

\* The locals of a call and the radio's configuration do not outlive it: every
\* transmission configures the radio anew.
Ends == pc' = "idle" /\ call' = NoCall /\ radio' = Off /\ t' = 0 /\ answer' = NoAnswer

\* Mutant of JoinBegins: the old session stays usable until the answer is here.
MutJoinBegins(r, nonce) ==
  /\ joins + sends < MaxFrames /\ joins' = joins + 1
  /\ Begin("join", r, join_dr, nonce, NoRsp)
  /\ UNCHANGED <<session, mac, sends>>

JoinBegins(r, nonce) ==
  /\ joins + sends < MaxFrames /\ joins' = joins + 1
  /\ state' = "JOINING"
  /\ Begin("join", r, join_dr, nonce, NoRsp)
  /\ UNCHANGED <<keys, current_dr, join_dr, mac, sends>>

\* An answer is put into mac_rsp_buf if there is room for it.
Bytes(kind) == IF kind = "delay" THEN 1 ELSE 2
Queue(b, kind, full) ==
  IF b.len + Bytes(kind) > RSP THEN b
  ELSE [full |-> b.full \cup IF full THEN {kind} ELSE {},
        part |-> b.part \cup IF full THEN {} ELSE {kind},
        len  |-> b.len + Bytes(kind)]
Filled(n) == [rsp EXCEPT !.len = @ + n]

\* append_uplink_mac_cmds(): requests of the device's own, then the answers that
\* are repeated, whatever was answered first, with all status bits set.
Repetitions(b) ==
  LET again(c, kind) == IF kind \in sticky THEN Queue(c, kind, TRUE) ELSE c
  IN again(again(again(b, "rx"), "dl"), "delay")

\* The frame carries what mac_rsp_buf then holds.
SendBegins(r, own) ==
  /\ state = "JOINED" /\ joins + sends < MaxFrames /\ sends' = sends + 1
  /\ own <= 2 /\ rsp.len + own <= RSP
  /\ rsp' = Repetitions(Filled(own))
  /\ Begin("data", r, current_dr, 0, rsp')
  /\ UNCHANGED <<session, rx, sticky, joins>>

\* The windows of a Join-Request are fixed before it goes out, those of an
\* uplink after its first transmission; a repetition keeps them.
WithWindows(rx1_freq) ==
  IF call.kind = "join"
  THEN [call EXCEPT
          !.rx1 = Rx1Window(Fresh, region.rx1[call.ch], call.dr, JOIN_RX1_DELAY_MS),
          !.rx2 = Rx2Window(rx, JOIN_RX1_DELAY_MS + 1000)]
  ELSE IF call.tx = 0
  THEN [call EXCEPT !.rx1 = Rx1Window(rx, rx1_freq, call.dr, DelayMs(rx)),
                    !.rx2 = Rx2Window(rx, DelayMs(rx) + 1000)]
  ELSE call

\* Mutant of TxOk: the answers are repeated only until they have been sent.
MutTxOk(rx1_freq) ==
  /\ pc = "tx" /\ pc' = "rx1" /\ t' = 0
  /\ radio' = [mode |-> "tx", freq |-> call.freq, mod |-> Modulation(region, call.dr)]
  /\ call' = [WithWindows(rx1_freq) EXCEPT !.tx = @ + 1, !.heard = FALSE]
  /\ answer' = NoAnswer
  /\ rsp' = NoRsp /\ sticky' = {}
  /\ UNCHANGED <<plan, session, rx, network, history>>

TxOk(rx1_freq) ==
  /\ pc = "tx" /\ pc' = "rx1" /\ t' = 0
  /\ radio' = [mode |-> "tx", freq |-> call.freq, mod |-> Modulation(region, call.dr)]
  /\ call' = [WithWindows(rx1_freq) EXCEPT !.tx = @ + 1, !.heard = FALSE]
  /\ answer' = NoAnswer
  /\ rsp' = IF call.kind = "data" /\ call.tx = 0 THEN NoRsp ELSE rsp
  /\ UNCHANGED <<plan, session, rx, sticky, network, history>>

TxFail ==
  /\ pc = "tx" /\ Ends
  /\ UNCHANGED <<plan, session, mac, network, history>>
-----------------------------------------------------------------------------
(* The network *)

\* A frame of it begins when its window does.  A data rate that a region does
\* not have cannot be sent at, even if a refused request was taken to be accepted.
Frame(win, window, toa) ==
  [fate |-> "coming", win |-> win, freq |-> window.freq, mod |-> window.mod,
   at |-> window.at, toa |-> toa]
Rx2Exists(s) == Rx2Dr(s) < NumDr(region)
Frames(s, at) ==
  {Frame(1, Rx1Window(s, NetRx1Freq(s), call.dr, at), toa) : toa \in AirTimes}
  \cup {Frame(2, Rx2Window(s, at + 1000), toa) : toa \in {d \in AirTimes : Rx2Exists(s)}}
Holding(f, d) == [fate |-> f.fate, win |-> f.win, freq |-> f.freq, mod |-> f.mod,
                  at |-> f.at, toa |-> f.toa, holds |-> d]

AcceptSettings(a) ==
  [Fresh EXCEPT !.offset = a.offset, !.rx2_dr = a.rx2_dr,
                !.delay = IF a.delay = 0 THEN 1 ELSE a.delay]

\* A Join-Request with a new nonce makes a new session, whether or not the
\* Join-Accept comes through.
NetworkJoins(a, f) ==
  /\ pc = "rx1" /\ call.kind = "join" /\ ~call.heard
  /\ call.nonce \notin used /\ used' = used \cup {call.nonce}
  /\ a.rx2_dr < NumDr(region)
  /\ net' = AcceptSettings(a) /\ wish' = net'
  /\ net_keys' = [nonce |-> call.nonce, join |-> joins]
  /\ asked' = {} /\ unanswered' = {} /\ applied' = {}
  /\ f \in {NoAnswer} \cup Frames(Fresh, JOIN_RX1_DELAY_MS)
  /\ answer' = IF f = NoAnswer THEN f ELSE Holding(f, a)
  /\ call' = [call EXCEPT !.heard = TRUE]
  /\ UNCHANGED <<plan, session, mac, pc, radio, t, joins, sends, faults, apart>>

\* What a request asks for, in the settings s.
Apply(s, d) ==
  CASE d.kind = "rx" -> [s EXCEPT !.offset = d.offset, !.rx2_freq = d.freq, !.rx2_dr = d.dr]
    [] d.kind = "delay" -> [s EXCEPT !.delay = IF d.delay = 0 THEN 1 ELSE d.delay]
    [] d.kind = "dl" -> [s EXCEPT !.dl[d.ch] = d.freq]
    [] OTHER -> s

\* The channels that a LinkADRReq for the first sixteen leaves enabled.
Masked(mask) == {ch \in mask : ch < chan.num} \cup {ch \in chan.on : ch >= 16}

Valid(d) ==
  CASE d.kind = "rx" -> d.dr < NumDr(region) /\ d.offset < NumDr(region) /\ InBand(region, d.freq)
    [] d.kind = "dl" -> d.ch \in DlChannels /\ InBand(region, d.freq)
    [] d.kind = "adr" -> /\ d.dr < NumDr(region)
                         /\ \E ch \in Masked(d.mask) : ch < chan.num
    [] OTHER -> TRUE

\* An answer with all status bits set makes the change known.
Learn(kinds) ==
  [offset |-> IF "rx" \in kinds THEN wish.offset ELSE net.offset,
   rx2_freq |-> IF "rx" \in kinds THEN wish.rx2_freq ELSE net.rx2_freq,
   rx2_dr |-> IF "rx" \in kinds THEN wish.rx2_dr ELSE net.rx2_dr,
   delay |-> IF "delay" \in kinds THEN wish.delay ELSE net.delay,
   dl |-> IF "dl" \in kinds THEN wish.dl ELSE net.dl]

\* A change is asked for once in a session.
Asks(d) ==
  IF d.kind \in Kinds
  THEN d.kind \notin asked /\ wish' = Apply(wish, d) /\ asked' = asked \cup {d.kind}
  ELSE UNCHANGED <<wish, asked>>

\* An uplink of the session is heard: what it answers in full is taken to be made,
\* what it answers in part only to be refused, the rest waits; and the network
\* answers the uplink once, with a frame that asks for one thing or nothing.
NetworkHears(d, f) ==
  /\ pc = "rx1" /\ call.kind = "data" /\ ~call.heard /\ keys = net_keys
  /\ LET told   == call.tells \cap unanswered
         denied == call.denies \cap unanswered
         view   == Learn(told)
         rest   == unanswered \ (told \cup denied)
     IN /\ net' = view
        /\ f \in {NoAnswer} \cup
             IF call.answered THEN {} ELSE Frames(view, DelayMs(view))
        /\ IF f = NoAnswer THEN UNCHANGED <<wish, asked>> /\ unanswered' = rest
           ELSE Asks(d) /\ unanswered' = rest \cup ({d.kind} \cap Kinds)
        /\ apart' = apart \cup IF denied = {} THEN {} ELSE {"untold"}
  /\ answer' = IF f = NoAnswer THEN f ELSE Holding(f, d)
  /\ call' = [call EXCEPT !.heard = TRUE, !.answered = IF f = NoAnswer THEN @ ELSE TRUE]
  /\ UNCHANGED <<plan, session, mac, pc, radio, t, net_keys, used,
                 joins, sends, faults, applied>>
-----------------------------------------------------------------------------
(* lorawan_rx(): RX1, then RX2 *)

Window == IF pc = "rx1" THEN call.rx1 ELSE call.rx2
Wait   == IF pc = "rx1" THEN RX_TIMEOUT_MS ELSE RX2_TIMEOUT_MS

\* Mutant of Opens: the delay of a window counts from the last one's end.
MutOpens == t + Window.at - RX_EARLY_MS

\* It sleeps only if the time has not come yet.
Opens == Greatest(t, Window.at - RX_EARLY_MS)

\* The outcome of the configuration is ignored: if it fails, the radio stays as it is.
Configure(ok) ==
  radio' = IF ok THEN [mode |-> "rx", freq |-> Window.freq, mod |-> Window.mod] ELSE radio

InReach ==
  /\ answer.fate = "coming" /\ radio'.mode = "rx"
  /\ radio'.freq = answer.freq /\ radio'.mod = answer.mod
  /\ Opens <= answer.at /\ answer.at + answer.toa <= Opens + Wait

Receiving(ok, foreign) ==
  /\ pc \in {"rx1", "rx2"} /\ Configure(ok)
  /\ faults' = faults + (IF ok THEN 0 ELSE 1) + (IF foreign THEN 1 ELSE 0)
  /\ faults' <= MaxFaults
  /\ UNCHANGED <<plan, session, mac, network, joins, sends, apart, applied>>
Over(fate) == IF answer.fate = "coming" THEN [answer EXCEPT !.fate = fate] ELSE answer

Receives(ok) ==
  /\ Receiving(ok, FALSE) /\ InReach
  /\ pc' = "received" /\ t' = answer.at + answer.toa
  /\ answer' = Over("heard")
  /\ call' = [call EXCEPT !.fault = IF ok THEN @ ELSE TRUE]

\* Any frame ends the windows, RX2 included.
ReceivesForeign(ok) ==
  /\ Receiving(ok, TRUE)
  /\ pc' = "received" /\ t' = Opens
  /\ answer' = Over("missed")
  /\ call' = [call EXCEPT !.foreign = TRUE, !.fault = IF ok THEN @ ELSE TRUE]

TimesOut(ok) ==
  /\ Receiving(ok, FALSE) /\ ~InReach
  /\ t' = Opens + Wait
  /\ IF pc = "rx1" THEN pc' = "rx2" /\ answer' = answer
                   ELSE pc' = "received" /\ answer' = Over("missed")
  /\ call' = [call EXCEPT !.fault = IF ok THEN @ ELSE TRUE]
-----------------------------------------------------------------------------
(* What was received *)

Heard == pc = "received" /\ answer.fate = "heard"

\* No frame, one too short or with a wrong MIC: -ETIMEDOUT or -EIO.
JoinFails ==
  /\ pc = "received" /\ call.kind = "join" /\ answer.fate # "heard"
  /\ Ends
  /\ UNCHANGED <<plan, session, mac, network, history>>

Answers == rsp.full \cup rsp.part \cup sticky

\* The RX2 frequency and the downlink channels stay, as do answers to the old
\* session's requests.
JoinSucceeds ==
  /\ Heard /\ call.kind = "join"
  /\ LET a == answer.holds
     IN /\ rx' = [rx EXCEPT !.offset = a.offset,
                    !.rx2_dr = IF a.rx2_dr < NumDr(region) THEN a.rx2_dr ELSE @,
                    !.delay = IF a.delay = 0 THEN 1 ELSE a.delay]
        /\ chan' = ApplyCFList(region, chan, a.cflist)
  /\ keys' = [nonce |-> call.nonce, join |-> joins]
  /\ state' = "JOINED" /\ current_dr' = join_dr
  /\ Ends
  /\ apart' = IF rx.rx2_freq # 0 \/ rx.dl # Fresh.dl \/ Answers # {} THEN {"leftover"} ELSE {}
  /\ UNCHANGED <<region, join_dr, rsp, sticky, network,
                 joins, sends, faults, applied>>

\* Activation by personalisation: the network starts from the region's defaults.
JoinAbp ==
  /\ pc = "idle" /\ joins + sends < MaxFrames /\ joins' = joins + 1
  /\ keys' = AbpKeys /\ state' = "JOINED"
  /\ net_keys' = AbpKeys /\ net' = Fresh /\ wish' = Fresh
  /\ asked' = {} /\ unanswered' = {} /\ applied' = {}
  /\ apart' = IF rx # Fresh \/ Answers # {} THEN {"leftover"} ELSE {}
  /\ UNCHANGED <<plan, current_dr, join_dr, mac, pc, call, air, used,
                 sends, faults>>

\* Mutant of Moves: the answer to any command is repeated.
MutMoves(d) == {d.kind}

\* The requests whose answers are repeated.
Moves(d) == IF d.kind \in Kinds THEN {d.kind} ELSE {}

\* process_downlink(): the repetition of earlier answers ends, and what the
\* frame asks for is answered if there is room after n bytes of other answers,
\* and repeatedly if it is about the windows.  An RXParamSetupAns never has its
\* third status bit.  The mask of a LinkADRReq is stored even if it is refused.
Processes(d, n) ==
  /\ rsp.len + n <= RSP
  /\ rx' = IF Valid(d) THEN Apply(rx, d) ELSE rx
  /\ sticky' = Moves(d)
  /\ rsp' = IF d.kind \in Kinds THEN Queue(Filled(n), d.kind, d.kind # "rx" /\ Valid(d))
                               ELSE Filled(n)
  /\ applied' = IF Valid(d) THEN applied \cup Moves(d) ELSE applied
  /\ current_dr' = IF d.kind = "adr" /\ Valid(d) THEN d.dr ELSE current_dr
  /\ chan' = IF d.kind = "adr" THEN [chan EXCEPT !.on = Masked(d.mask)] ELSE chan

\* A refusal is repeated as an acceptance.
Refusal(d) == IF d.kind \in Kinds /\ ~Valid(d) THEN {"refused"} ELSE {}

\* The frame that the downlink answers may have had no room for a repetition.
Downlink(n) ==
  /\ Heard /\ call.kind = "data"
  /\ Processes(answer.holds, n)
  /\ apart' = apart \cup Refusal(answer.holds)
                   \cup IF sticky \subseteq call.tells THEN {} ELSE {"untold"}
  /\ pc' = "settle"
  /\ UNCHANGED <<region, state, keys, join_dr, call, air, network, joins, sends, faults>>

\* Between two calls a downlink reaches a Class C device that listens where the
\* network sends, and ends the repetition like any other.
ClassCDownlink(d, n) ==
  /\ pc = "idle" /\ state = "JOINED" /\ keys = net_keys /\ radio.mode = "rxc"
  /\ faults < MaxFaults /\ faults' = faults + 1
  /\ Rx2Exists(net)
  /\ radio.freq = Rx2Freq(net) /\ radio.mod = Modulation(region, Rx2Dr(net))
  /\ Asks(d) /\ unanswered' = unanswered \cup ({d.kind} \cap Kinds)
  /\ Processes(d, n)
  /\ apart' = apart \cup Refusal(d)
                   \cup IF sticky \cap unanswered = {} THEN {} ELSE {"untold"}
  /\ UNCHANGED <<region, state, keys, join_dr, pc, call, air, net, net_keys, used,
                 joins, sends>>

NoDownlink ==
  /\ pc = "received" /\ call.kind = "data" /\ answer.fate # "heard"
  /\ pc' = "settle"
  /\ UNCHANGED <<plan, session, mac, call, air, network, history>>

\* A repetition or a retry.  Only a retry at a lower data rate has a new RX1.
RetryBase == IF call.tx = 1 THEN current_dr ELSE call.retry_dr
Repeat(lower) ==
  /\ pc = "settle" /\ joins + sends < MaxFrames /\ sends' = sends + 1
  /\ lower => RetryBase > 0 /\ call.tx >= 2 /\ call.tx % 2 = 0
  /\ pc' = "tx"
  /\ call' = IF lower
             THEN [call EXCEPT !.dr = RetryBase - 1, !.retry_dr = RetryBase - 1,
                     !.rx1.mod = Modulation(region, Rx1Dr(region, RetryBase - 1, rx.offset))]
             ELSE [call EXCEPT !.retry_dr = RetryBase]
  /\ UNCHANGED <<plan, session, mac, air, network, joins, faults, apart, applied>>

SendReturns ==
  /\ pc = "settle" /\ Ends
  /\ UNCHANGED <<plan, session, mac, network, history>>
-----------------------------------------------------------------------------
Api ==
  \/ Start \/ SetRegion \/ RxcListens \/ JoinAbp
  \/ \E mask \in Masks : SetChannelsMask(mask)
  \/ \E dr \in Rates : SetDatarate(dr)
  \/ \E r \in Draws :
       \/ \E own \in Fills : SendBegins(r, own)
       \/ \E nonce \in DevNonces : JoinBegins(r, nonce)

Network ==
  \/ \E a \in Accepts : \E f \in {NoAnswer} \cup Frames(Fresh, JOIN_RX1_DELAY_MS) : NetworkJoins(a, f)
  \/ \E d \in Requests : \E view \in {Learn(call.tells \cap unanswered)} :
       \E f \in {NoAnswer} \cup Frames(view, DelayMs(view)) :
         NetworkHears(d, f)
  \/ \E d \in Requests : \E n \in Fills : ClassCDownlink(d, n)

Call ==
  \/ \E freq \in Rx1Freqs(call.ch) : TxOk(freq)
  \/ TxFail
  \/ \E ok \in BOOLEAN : Receives(ok) \/ ReceivesForeign(ok) \/ TimesOut(ok)
  \/ JoinFails \/ JoinSucceeds \/ NoDownlink
  \/ \E n \in Fills : Downlink(n)
  \/ \E lower \in BOOLEAN : Repeat(lower)
  \/ SendReturns

Next == Api \/ Network \/ Call

Spec == Init /\ [][Next]_vars
-----------------------------------------------------------------------------
Settings == [offset : Nat, rx2_freq : Nat, rx2_dr : Nat, delay : Nat, dl : [DlChannels -> Nat]]

(* Every variable has its type: settings are records over the sixteen DL    *)
(* channels, channels and data rates are those of the build's table.        *)
TypeOK ==
  /\ region \in Builds
  /\ chan.on \subseteq 0 .. LORAWAN_MAX_CHANNELS - 1 /\ chan.num \in Nat
  /\ state \in {"IDLE", "JOINING", "JOINED"}
  /\ {current_dr, join_dr, call.dr, call.retry_dr} \subseteq 0 .. NumDr(region) - 1
  /\ {rx, net, wish} \subseteq Settings
  /\ Answers \cup asked \cup unanswered \cup applied \subseteq Kinds
  /\ rsp.len \in 0 .. RSP
  /\ pc \in {"idle", "tx", "rx1", "rx2", "received", "settle"}
  /\ call.tx \in 0 .. MaxFrames
  /\ radio.mode \in {"off", "tx", "rx", "rxc"} /\ t \in Nat
  /\ answer.fate \in {"none", "coming", "heard", "missed"}

\* What the code does not listen for: RX1 on the uplink's own channel, and a
\* frame longer than its window stays open.
OffChannel == answer.win = 1 /\ answer.freq # call.rx1.freq
TooLong ==
  answer.toa > (IF answer.win = 1 THEN RX_TIMEOUT_MS ELSE RX2_TIMEOUT_MS) - RX_EARLY_MS

\* Device and network may have different settings: of an earlier session, after a
\* refused request or an answer that could not be told, or as the uplink itself
\* had no room for a repeated answer.  A Join-Request ignores what is repeated.
MayDiffer ==
  IF call.kind = "join" THEN rx.rx2_freq # 0 \/ rx.rx2_dr # NoDr
  ELSE apart # {} \/ ~(sticky \subseteq call.tells)

\* The plans with downlink channels of their own, and the channels whose
\* DlChannelReq has an entry.
RegionOffers(ch) == region.cflist.type = "B" /\ ch \in DlChannels

(* A network that follows the device's settings, changes them only by       *)
(* requests and Join-Accepts, and takes a change to be made when an uplink   *)
(* answers it in full, is heard in RX1 or RX2 however the exchanges, losses  *)
(* and repetitions went: lorawan_rx() is open on the frame's frequency and   *)
(* data rate from its beginning to its end.  Excepted are another's frame in *)
(* the window, a failed radio_configure_rx(), a frame longer than the window *)
(* stays open, settings that may differ (MayDiffer), and RX1 frequencies of  *)
(* regions and channels for which the code has none of its own.              *)
AnswerNotMissed ==
  pc = "received" /\ answer.fate = "missed" =>
    \/ call.foreign \/ call.fault \/ TooLong \/ MayDiffer
    \/ OffChannel /\ ~RegionOffers(call.ch)

(* While the device takes itself to be joined, the network has the same      *)
(* session, whatever was lost, repeated or given up: lorawan_join() leaves    *)
(* STATE_JOINED before the Join-Request that replaces the network's keys.     *)
SessionAgrees == state = "JOINED" => keys = net_keys

(* A change of the windows that the device made and the network has not      *)
(* heard of is still to be answered: the flags tested by                      *)
(* append_uplink_mac_cmds() outlive the transmission of the answer and end    *)
(* with a downlink only after the network has heard it.  Excepted are a       *)
(* downlink in reply to an uplink without room for the answer, one that finds *)
(* a Class C device between two calls, and an answer heard in part only.      *)
ChangeToldOn ==
  state = "JOINED" /\ keys = net_keys /\ "untold" \notin apart =>
    applied \cap unanswered \subseteq sticky

(* The Class C window is the RX2 in force ("defaults to RX2 values", and      *)
(* README.md on RXC): rxc_freq and rxc_dr follow rx2_freq_override.            *)
ClassCListensOnRx2 ==
  radio.mode = "rxc" =>
    radio.freq = Rx2Freq(rx) /\ radio.mod = Modulation(region, Rx2Dr(rx))

(* What is sent lies between freq_min_hz and freq_max_hz of the region.        *)
OnAirInBand == radio.mode = "tx" => InBand(region, radio.freq)
=============================================================================
