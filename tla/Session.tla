------------------------------- MODULE Session -------------------------------
(***************************************************************************)
(* One device's session: activation (lorawan_join), the uplink path        *)
(* (lorawan_send with its retries), the downlink path (process_downlink),  *)
(* the two frame counters, the pending acknowledgement and the ADR state,  *)
(* together with a network server and a radio channel that loses, delays,  *)
(* repeats and reorders downlinks.                                         *)
(*                                                                         *)
(* lorawan_send() keeps lorawan_mutex from its first test to its return,   *)
(* so pc # "idle" says that the mutex is taken: every other handler that   *)
(* locks it is an action enabled in pc = "idle".  lorawan_set_class(),     *)
(* which locks nothing, a reset of the device and the network run at any   *)
(* moment.  A frame is its header fields; its MIC is symbolic: a frame     *)
(* verifies exactly under the keys and the full counter it was made with.  *)
(***************************************************************************)
EXTENDS FrameCounter, Sequences, FiniteSets

CONSTANTS
  NumDr,        \* region.num_dr
  DefaultJoinDr,  \* region.default_join_dr
  MaxPayload,   \* region.max_payload, a function of the data rate
  AdrLimit,     \* 1 << adr_limit_exp
  AdrDelay,     \* 1 << adr_delay_exp
  Lengths,      \* payload lengths the application sends
  Tries,        \* values given to lorawan_set_conf_msg_tries()
  AdrSettings,  \* values given to lorawan_enable_adr()
  Classes,      \* classes given to lorawan_set_class()
  Modes,        \* activation modes used, a subset of {"OTAA", "ABP"}
  MsgTypes,     \* confirmed (TRUE) or not, of the application's uplinks
  Downs,        \* downlinks the network makes: [confirmed, payload, mac]
  MaxCalls,     \* bound: frames the device builds
  MaxEpochs,    \* bound: activations
  MaxDown,      \* bound: downlinks the network makes with one set of keys
  MaxDelivered  \* bound: downlinks accepted in one activation

NoKeys  == -1   \* no session keys yet
AbpKeys == 0    \* the keys ABP installs, the same at every activation
KeepDr  == 15   \* LinkADRReq: leave the data rate alone
NoMac   == [dr |-> KeepDr, rep |-> 0, ok |-> FALSE, present |-> FALSE]

Request(dr, rep, ok) == [dr |-> dr, rep |-> rep, ok |-> ok, present |-> TRUE]
MacFields  == [dr : 0 .. 15, rep : 0 .. 15, ok : BOOLEAN, present : BOOLEAN]
DataRate   == 0 .. NumDr - 1
AdrCount   == 0 .. AdrLimit + AdrDelay - 1
Keys       == AbpKeys .. MaxEpochs

ASSUME SessionAssumption ==
  /\ NumDr \in Nat \ {0} /\ DefaultJoinDr \in DataRate
  /\ MaxPayload \in [DataRate -> Nat]
  /\ AdrLimit \in Nat \ {0} /\ AdrDelay \in Nat \ {0}
  /\ Lengths \subseteq Nat /\ 0 \in Lengths
  /\ Tries \subseteq Nat
  /\ AdrSettings \subseteq BOOLEAN
  /\ Classes \subseteq {"A", "C"}
  /\ Modes \subseteq {"OTAA", "ABP"}
  /\ MsgTypes \subseteq BOOLEAN
  /\ Downs \subseteq [confirmed : BOOLEAN, payload : BOOLEAN, mac : MacFields]
  /\ MaxCalls \in Nat /\ MaxCalls < FcntMod
  /\ MaxDown \in Nat /\ MaxDown <= FcntMod
  /\ MaxEpochs \in Nat /\ MaxDelivered \in Nat

VARIABLES
  state, keys, fcnt_up, fcnt_down,        \* g_ctx: activation and counters
  downlink_ack_pending, ack_work,         \* g_ctx: the ACK bit, the ACK work
  adr_ack_cnt, current_dr, join_dr, nb_trans,            \* g_ctx: ADR
  adr_enabled, conf_msg_tries, dev_class, class_c_thread,  \* g_ctx: settings
  pc, call, send_ret,                     \* the running (or last) lorawan_send
  srv_fcnt, issued,                       \* the network server
  epoch, calls, on_air, delivered, silence  \* history

activation == <<state, keys, epoch>>
counters == <<fcnt_up, fcnt_down>>
acks     == <<downlink_ack_pending, ack_work>>
adr      == <<adr_ack_cnt, current_dr, join_dr, nb_trans>>
settings == <<adr_enabled, conf_msg_tries, dev_class, class_c_thread>>
sending  == <<pc, call, send_ret>>
network  == <<srv_fcnt, issued>>
history  == <<calls, on_air, delivered, silence>>
vars == <<activation, counters, acks, adr, settings, sending, network, history>>

Frame == [id : 0 .. MaxCalls, session : 0 .. MaxEpochs, keys : Keys,
          fcnt : Counter, confirmed : BOOLEAN, len : Nat, ack : BOOLEAN,
          adr_ack_req : BOOLEAN, seen : Nat]
Call == [frame : Frame, dr : DataRate, retry_dr : DataRate, tx : Nat,
         acked : BOOLEAN, heard : BOOLEAN]
Downlink == [keys : Keys, fcnt : Counter, confirmed : BOOLEAN,
             payload : BOOLEAN, mac : MacFields, answers : 0 .. MaxCalls]
DeliveryRecord == [fcnt : Counter, confirmed : BOOLEAN, payload : BOOLEAN,
                   at : 0 .. MaxCalls]

\* The uplinks with the ADR bit since the network last sent a payload, the device
\* was reset or the data rate was backed off: those sent, the sent ones that asked
\* for an answer, and those whose transmission failed.
Silence == [sent : Nat, asked : Nat, lost : Nat]
NoSilence == [sent |-> 0, asked |-> 0, lost |-> 0]

NoCall == [frame |-> [id |-> 0, session |-> 0, keys |-> AbpKeys, fcnt |-> 0,
                      confirmed |-> FALSE, len |-> 0, ack |-> FALSE,
                      adr_ack_req |-> FALSE, seen |-> 0],
           dr |-> 0, retry_dr |-> 0, tx |-> 0, acked |-> FALSE, heard |-> FALSE]

Init ==
  /\ state = "IDLE" /\ keys = NoKeys
  /\ fcnt_up = 0 /\ fcnt_down = 0
  /\ downlink_ack_pending = FALSE /\ ack_work = FALSE
  /\ adr_ack_cnt = 0 /\ current_dr = 0 /\ join_dr = DefaultJoinDr /\ nb_trans = 1
  /\ adr_enabled = FALSE /\ conf_msg_tries = 1
  /\ dev_class = "A" /\ class_c_thread = FALSE
  /\ pc = "idle" /\ call = NoCall /\ send_ret = "none"
  /\ srv_fcnt = [k \in Keys |-> 0] /\ issued = {}
  /\ epoch = 0 /\ calls = 0 /\ on_air = {} /\ delivered = <<>>
  /\ silence = NoSilence
-----------------------------------------------------------------------------
(* Activation and settings *)

Activate(k) ==
  /\ pc = "idle" /\ epoch < MaxEpochs
  /\ state' = "JOINED" /\ keys' = k /\ epoch' = epoch + 1
  /\ fcnt_up' = 0 /\ fcnt_down' = 0
  /\ delivered' = <<>>
  /\ UNCHANGED <<acks, settings, sending, network, calls, on_air, silence,
                 adr_ack_cnt, join_dr, nb_trans>>

\* Every Join-Accept carries a fresh nonce, so its keys are new.
JoinOtaa ==
  /\ "OTAA" \in Modes
  /\ Activate(epoch + 1)
  /\ current_dr' = join_dr

JoinAbp ==
  /\ "ABP" \in Modes
  /\ Activate(AbpKeys)
  /\ UNCHANGED current_dr

\* Mutant of JoinFails: the state is set before the answer is checked.
MutJoinFails ==
  /\ "OTAA" \in Modes /\ pc = "idle"
  /\ state' = "JOINED"
  /\ UNCHANGED <<keys, epoch, counters, acks, adr, settings, sending,
                 network, history>>

\* No answer, a short one or a wrong MIC: the state stays STATE_JOINING.
JoinFails ==
  /\ "OTAA" \in Modes /\ pc = "idle"
  /\ state' = "JOINING"
  /\ UNCHANGED <<keys, epoch, counters, acks, adr, settings, sending,
                 network, history>>

\* A reset of the device at any moment, or lorawan_start() called again once the
\* mutex is free: the context is zeroed and the defaults are set.  Nothing is
\* kept in flash.
Restart ==
  /\ state' = "IDLE" /\ keys' = NoKeys
  /\ fcnt_up' = 0 /\ fcnt_down' = 0
  /\ downlink_ack_pending' = FALSE /\ ack_work' = FALSE
  /\ adr_ack_cnt' = 0 /\ current_dr' = 0 /\ join_dr' = DefaultJoinDr /\ nb_trans' = 1
  /\ adr_enabled' = FALSE /\ conf_msg_tries' = 1
  /\ dev_class' = "A" /\ class_c_thread' = FALSE
  /\ pc' = "idle" /\ call' = NoCall /\ send_ret' = "none"
  /\ delivered' = <<>> /\ silence' = NoSilence
  /\ UNCHANGED <<network, epoch, calls, on_air>>

EnableAdr(enable) ==
  /\ pc = "idle"
  /\ adr_enabled' = enable
  /\ UNCHANGED <<activation, counters, acks, adr, conf_msg_tries, dev_class,
                 class_c_thread, sending, network, history>>

SetConfMsgTries(tries) ==
  /\ pc = "idle"
  /\ conf_msg_tries' = tries
  /\ UNCHANGED <<activation, counters, acks, adr, adr_enabled, dev_class,
                 class_c_thread, sending, network, history>>

SetDatarate(dr) ==
  /\ pc = "idle"
  /\ current_dr' = dr /\ join_dr' = dr
  /\ UNCHANGED <<activation, counters, acks, adr_ack_cnt, nb_trans, settings,
                 sending, network, history>>

\* lorawan_set_class() takes no mutex.  The Class C thread sees a change to
\* Class A only when it next looks.
SetClass(class) ==
  /\ class # dev_class
  /\ dev_class' = class
  /\ class_c_thread' = (class_c_thread \/ class = "C")
  /\ UNCHANGED <<activation, counters, acks, adr, adr_enabled, conf_msg_tries,
                 sending, network, history>>
ClassCThreadEnds ==
  /\ class_c_thread /\ dev_class = "A"
  /\ class_c_thread' = FALSE
  /\ UNCHANGED <<activation, counters, acks, adr, adr_enabled, conf_msg_tries,
                 dev_class, sending, network, history>>
-----------------------------------------------------------------------------
(* Downlinks *)

\* The network makes its next downlink for the session it knows.  It
\* acknowledges the current uplink only if it heard it.
NetworkSend(d, ack) ==
  /\ keys # NoKeys /\ srv_fcnt[keys] < MaxDown
  /\ ack => call.heard /\ call.frame.confirmed /\ call.frame.keys = keys
  /\ issued' = issued \cup
       {[keys |-> keys, fcnt |-> srv_fcnt[keys], confirmed |-> d.confirmed,
         payload |-> d.payload, mac |-> d.mac,
         answers |-> IF ack THEN call.frame.id ELSE 0]}
  /\ srv_fcnt' = [srv_fcnt EXCEPT ![keys] = @ + 1]
  /\ UNCHANGED <<activation, counters, acks, adr, settings, sending, history>>

\* The tests of process_downlink() up to the MIC: the counter rebuilt from its
\* low bits is newer, and the frame was made with these keys and that counter.
Accepts(d) ==
  /\ d.keys = keys
  /\ LET rebuilt == Reconstruct(Lsb(d.fcnt), fcnt_down)
     IN Newer(rebuilt, fcnt_down) /\ rebuilt = d.fcnt

\* process_mac_commands() on a LinkADRReq: nb_trans changes even when the
\* request is refused, the data rate only when all of it is accepted.
ApplyLinkAdr(mac) ==
  IF ~mac.present THEN UNCHANGED <<nb_trans, current_dr>>
  ELSE /\ nb_trans' = IF mac.rep = 0 THEN 1 ELSE mac.rep
       /\ current_dr' = IF mac.ok /\ mac.dr \in DataRate THEN mac.dr ELSE current_dr

\* The rest of process_downlink(), for a frame it accepts.
Accept(d) ==
  /\ Accepts(d)
  /\ Len(delivered) < MaxDelivered
  /\ fcnt_down' = d.fcnt
  /\ downlink_ack_pending' = (downlink_ack_pending \/ d.confirmed)
  /\ adr_ack_cnt' = IF d.payload THEN 0 ELSE adr_ack_cnt
  /\ silence' = IF d.payload THEN NoSilence ELSE silence
  /\ ApplyLinkAdr(d.mac)
  /\ delivered' = Append(delivered,
       [fcnt |-> d.fcnt, confirmed |-> d.confirmed, payload |-> d.payload,
        at |-> calls])
  /\ UNCHANGED <<activation, fcnt_up, join_dr, settings, network, calls, on_air>>

\* The Class C thread hands over a frame once it has the mutex.  A frame with
\* the ACK bit schedules the acknowledgement work.
ClassCReceive(d) ==
  /\ pc = "idle" /\ class_c_thread
  /\ Accept(d)
  /\ ack_work' = (ack_work \/ d.answers # 0)
  /\ UNCHANGED sending
-----------------------------------------------------------------------------
(* lorawan_send() *)

FitsCurrentDr(len) == len <= MaxPayload[current_dr]

\* Mutant of BacksOff: the delay is not counted from the limit.
MutBacksOff == adr_enabled /\ adr_ack_cnt + 1 >= AdrDelay

\* ADR back-off: the count of this uplink, and whether it lowers the data rate.
BacksOff == adr_enabled /\ adr_ack_cnt + 1 >= AdrLimit + AdrDelay
NextAdrAckCnt ==
  IF BacksOff THEN 0 ELSE IF adr_enabled THEN adr_ack_cnt + 1 ELSE adr_ack_cnt
NextDr == IF BacksOff /\ current_dr > 0 THEN current_dr - 1 ELSE current_dr

BuildFrame(confirmed, len) ==
  [id |-> calls + 1, session |-> epoch, keys |-> keys, fcnt |-> fcnt_up,
   confirmed |-> confirmed, len |-> len, ack |-> downlink_ack_pending,
   adr_ack_req |-> adr_enabled /\ NextAdrAckCnt >= AdrLimit,
   seen |-> Len(delivered)]

Send(confirmed, len) ==
  /\ pc = "idle" /\ state = "JOINED" /\ FitsCurrentDr(len)
  /\ calls < MaxCalls
  /\ calls' = calls + 1
  /\ adr_ack_cnt' = NextAdrAckCnt /\ current_dr' = NextDr
  /\ call' = [frame |-> BuildFrame(confirmed, len), dr |-> NextDr,
              retry_dr |-> NextDr, tx |-> 0, acked |-> FALSE, heard |-> FALSE]
  /\ pc' = "tx"
  /\ silence' = IF BacksOff THEN NoSilence ELSE silence
  /\ UNCHANGED <<activation, counters, downlink_ack_pending, join_dr, nb_trans,
                 settings, send_ret, network, on_air, delivered>>

AppSend(confirmed, len) == Send(confirmed, len) /\ UNCHANGED ack_work

\* -EAGAIN before activation, -EMSGSIZE for a payload over the limit.
Refuse(len) ==
  /\ pc = "idle" /\ (state # "JOINED" \/ ~FitsCurrentDr(len))
  /\ send_ret' = IF state # "JOINED" THEN "EAGAIN" ELSE "EMSGSIZE"
  /\ UNCHANGED <<activation, counters, downlink_ack_pending, adr, settings,
                 pc, call, network, history>>

SendRefused(len) == Refuse(len) /\ UNCHANGED ack_work

\* The Class C acknowledgement work is an empty unconfirmed lorawan_send().
AckWorkRuns ==
  /\ ack_work /\ ack_work' = FALSE
  /\ Send(FALSE, 0) \/ Refuse(0)

\* lorawan_tx() radiates the frame at data rate dr; the network may hear it.
Transmit(dr, retry_dr, heard) ==
  /\ on_air' = on_air \cup {[frame |-> call.frame, dr |-> dr]}
  /\ call' = [call EXCEPT !.tx = @ + 1, !.dr = dr, !.retry_dr = retry_dr,
                          !.heard = @ \/ heard]
  /\ pc' = "rx"
  /\ UNCHANGED <<activation, fcnt_down, ack_work, adr, settings, send_ret,
                 network, calls, delivered>>

\* An uplink with the ADR bit goes out, or fails to, and is not answered yet.
CountsSent ==
  silence' = IF adr_enabled
             THEN [silence EXCEPT !.sent = @ + 1,
                     !.asked = IF call.frame.adr_ack_req THEN @ + 1 ELSE @]
             ELSE silence
CountsLost ==
  silence' = IF adr_enabled THEN [silence EXCEPT !.lost = @ + 1] ELSE silence

\* Mutants of TxOk: the counter advances only for a frame the network heard;
\* the acknowledgement stays pending.
MutTxOkCounter(heard) ==
  /\ pc = "tx"
  /\ Transmit(call.dr, call.retry_dr, heard)
  /\ CountsSent
  /\ fcnt_up' = IF heard THEN (fcnt_up + 1) % FcntMod ELSE fcnt_up
  /\ downlink_ack_pending' = (downlink_ack_pending /\ ~call.frame.ack)
MutTxOkAck(heard) ==
  /\ pc = "tx"
  /\ Transmit(call.dr, call.retry_dr, heard)
  /\ CountsSent
  /\ fcnt_up' = (fcnt_up + 1) % FcntMod
  /\ UNCHANGED downlink_ack_pending

\* The first transmission uses up the counter and the acknowledgement it carries.
TxOk(heard) ==
  /\ pc = "tx"
  /\ Transmit(call.dr, call.retry_dr, heard)
  /\ CountsSent
  /\ fcnt_up' = (fcnt_up + 1) % FcntMod
  /\ downlink_ack_pending' = (downlink_ack_pending /\ ~call.frame.ack)

\* Mutant of TxFail: the acknowledgement of the frame that failed is forgotten.
MutTxFail ==
  /\ pc = "tx"
  /\ pc' = "idle" /\ send_ret' = "EIO"
  /\ downlink_ack_pending' = (downlink_ack_pending /\ ~call.frame.ack)
  /\ CountsLost
  /\ UNCHANGED <<activation, counters, ack_work, adr, settings, call, network,
                 calls, on_air, delivered>>

TxFail ==
  /\ pc = "tx"
  /\ pc' = "idle" /\ send_ret' = "EIO"
  /\ CountsLost
  /\ UNCHANGED <<activation, counters, acks, adr, settings, call, network,
                 calls, on_air, delivered>>

\* A confirmed uplink of a Class C device listens on, up to 8 s, after the
\* windows of its first transmission.
ListensOn(acked) == /\ call.tx = 1 /\ call.frame.confirmed /\ ~acked
                    /\ pc = "listen" \/ dev_class = "C"

\* A frame that process_downlink() accepts in a window of this uplink or while it
\* listens on.  Any acknowledgement counts for this uplink, a late one of an
\* earlier uplink too: the header does not say which uplink it answers.
Receive(d) ==
  /\ pc \in {"rx", "listen"}
  /\ Accept(d)
  /\ LET acked == call.acked \/ d.answers # 0
     IN /\ call' = [call EXCEPT !.acked = acked]
        /\ pc' = IF ListensOn(acked) THEN "listen" ELSE "settle"
  /\ UNCHANGED <<send_ret, ack_work>>

\* Nothing in the windows, or a frame that process_downlink() drops.
RxSilent ==
  /\ pc = "rx"
  /\ pc' = IF ListensOn(FALSE) THEN "listen" ELSE "settle"
  /\ UNCHANGED <<activation, counters, acks, adr, settings, call, send_ret,
                 network, history>>

\* Mutant of ListenTimeout: the start of the wait is read again in every round.
MutListenTimeout == pc = "listen" /\ UNCHANGED vars

ListenTimeout ==
  /\ pc = "listen" /\ pc' = "settle"
  /\ UNCHANGED <<activation, counters, acks, adr, settings, call, send_ret,
                 network, history>>

MoreTries == IF call.frame.confirmed THEN ~call.acked /\ call.tx < conf_msg_tries
                                     ELSE call.tx < nb_trans

\* The retries of a confirmed uplink start from the data rate in force after
\* the first windows, and lose one step before every second retry.
RetryBase == IF call.tx = 1 THEN current_dr ELSE call.retry_dr
LowersRetryDr == /\ call.frame.confirmed /\ adr_enabled
                 /\ RetryBase > 0 /\ call.tx >= 2 /\ call.tx % 2 = 0

Retransmit(heard) ==
  /\ pc = "settle" /\ MoreTries
  /\ IF LowersRetryDr THEN Transmit(RetryBase - 1, RetryBase - 1, heard)
                      ELSE Transmit(call.dr, RetryBase, heard)
  /\ UNCHANGED <<fcnt_up, downlink_ack_pending, silence>>

Finish(ret) ==
  /\ pc = "settle"
  /\ pc' = "idle" /\ send_ret' = ret
  /\ UNCHANGED <<activation, counters, acks, adr, settings, call, network, history>>

\* lorawan_tx() fails in a retransmission: the loop ends there.
RetransmitFails ==
  /\ MoreTries
  /\ Finish(IF call.frame.confirmed THEN "ETIMEDOUT" ELSE "EIO")

\* Mutant of Return: a missing acknowledgement is not reported.
MutReturn == ~MoreTries /\ Finish("OK")

Return ==
  /\ ~MoreTries
  /\ Finish(IF call.frame.confirmed /\ ~(call.acked /\ conf_msg_tries > 0)
            THEN "ETIMEDOUT" ELSE "OK")
-----------------------------------------------------------------------------
Activation ==
  \/ JoinOtaa \/ JoinAbp \/ JoinFails \/ Restart

Configure ==
  \/ \E enable \in AdrSettings : EnableAdr(enable)
  \/ \E tries \in Tries : SetConfMsgTries(tries)
  \/ \E dr \in DataRate : SetDatarate(dr)
  \/ \E class \in Classes : SetClass(class)
  \/ ClassCThreadEnds

Network == \E d \in Downs, ack \in BOOLEAN : NetworkSend(d, ack)

Start ==
  \/ \E confirmed \in MsgTypes, len \in Lengths : AppSend(confirmed, len)
  \/ \E len \in Lengths : SendRefused(len)
  \/ AckWorkRuns

\* What the thread inside lorawan_send() does next.
Progress ==
  \/ \E heard \in BOOLEAN : TxOk(heard) \/ Retransmit(heard)
  \/ TxFail \/ RxSilent \/ ListenTimeout \/ RetransmitFails \/ Return
  \/ \E d \in issued : Receive(d)

Next ==
  \/ Activation \/ Configure \/ Network \/ Start \/ Progress
  \/ \E d \in issued : ClassCReceive(d)

Spec == Init /\ [][Next]_vars

\* A thread inside lorawan_send() is never blocked for ever: its waits are
\* k_msleep() and lora_recv() with a timeout, and the loop of the Class C
\* listening ends with the clock.
FairSpec == Spec /\ WF_vars(Progress) /\ WF_vars(ListenTimeout)
-----------------------------------------------------------------------------
(* Properties *)

ActivationTypeOK ==
  /\ state \in {"IDLE", "JOINING", "JOINED"}
  /\ keys \in {NoKeys} \cup Keys
  /\ state = "JOINED" => keys # NoKeys
  /\ epoch \in 0 .. MaxEpochs
  /\ fcnt_up \in Counter /\ fcnt_down \in Counter

ContextTypeOK ==
  /\ downlink_ack_pending \in BOOLEAN /\ ack_work \in BOOLEAN
  /\ adr_ack_cnt \in AdrCount
  /\ current_dr \in DataRate /\ join_dr \in DataRate
  /\ nb_trans \in 1 .. 15
  /\ adr_enabled \in BOOLEAN /\ conf_msg_tries \in Nat
  /\ dev_class \in {"A", "C"} /\ class_c_thread \in BOOLEAN

CallTypeOK ==
  /\ pc \in {"idle", "tx", "rx", "listen", "settle"}
  /\ call \in Call
  /\ send_ret \in {"none", "OK", "EAGAIN", "EMSGSIZE", "EIO", "ETIMEDOUT"}

NetworkTypeOK ==
  /\ srv_fcnt \in [Keys -> 0 .. MaxDown] /\ issued \subseteq Downlink

HistoryTypeOK ==
  /\ calls \in 0 .. MaxCalls
  /\ on_air \subseteq [frame : Frame, dr : DataRate]
  /\ delivered \in Seq(DeliveryRecord)
  /\ silence \in Silence

TypeOK == /\ ActivationTypeOK /\ ContextTypeOK /\ CallTypeOK
          /\ NetworkTypeOK /\ HistoryTypeOK

\* The payload cipher and the MIC take the uplink counter as their nonce.  With
\* the keys of one OTAA join, two different uplinks never go on the air with the
\* same counter, and a later uplink has the larger one: through failed
\* transmissions, retransmissions and resets in the middle of a call.
UplinkNonceUnique ==
  \A t, u \in on_air :
    /\ t.frame.keys = u.frame.keys /\ t.frame.keys # AbpKeys
    => /\ t.frame.id = u.frame.id => t.frame = u.frame
       /\ t.frame.id < u.frame.id => t.frame.fcnt < u.frame.fcnt

\* A frame sent in this activation that carries the ACK bit and was built when
\* at least n downlinks had been accepted.
AckedOnAir(n) ==
  \E t \in on_air : t.frame.session = epoch /\ t.frame.ack /\ t.frame.seen >= n

\* A confirmed downlink accepted by either thread stays owed until a frame that
\* acknowledges it is on the air; no failed transmission and no frame built
\* before the downlink came pays the debt.
AckOwed ==
  \A i \in DOMAIN delivered :
    delivered[i].confirmed => downlink_ack_pending \/ AckedOnAir(i)

\* One debt is paid by one uplink: of two acknowledging uplinks of an
\* activation, the later one answers a confirmed downlink that came in between.
AckOnce == keys # NoKeys =>
  \A t, u \in on_air :
    /\ t.frame.session = epoch /\ u.frame.session = epoch
    /\ t.frame.ack /\ u.frame.ack /\ t.frame.id < u.frame.id
    => \E i \in t.frame.seen + 1 .. u.frame.seen : delivered[i].confirmed

\* A genuine downlink less than half the 16-bit range ahead of the last one is
\* never mistaken for a replay, whatever was lost before it.
InSyncAccepts ==
  \A d \in issued :
    d.keys = keys /\ InWindow(d.fcnt, fcnt_down) => Accepts(d)

\* An accepted downlink, recorded at i, that acknowledges an uplink which went on
\* the air under the session's keys.
Acknowledges(i) ==
  \E d \in issued, t \in on_air :
    /\ d.keys = keys /\ d.fcnt = delivered[i].fcnt
    /\ t.frame.id = d.answers /\ t.frame.confirmed /\ t.frame.keys = keys

\* lorawan_send() reports success of a confirmed uplink only if it accepted, during
\* this very call, an acknowledgement that the network made under the session's
\* keys for an uplink it heard.  It may be a late one, of an earlier uplink: that
\* this uplink itself was heard cannot be had.
OutcomeBacked ==
  /\ pc = "idle" /\ send_ret = "OK"
  /\ call.frame.confirmed /\ call.frame.session = epoch
  => \E i \in DOMAIN delivered : delivered[i].at = call.frame.id /\ Acknowledges(i)

\* The back-off lowers the data rate only after AdrLimit + AdrDelay uplinks with
\* the ADR bit, this one included, of which AdrDelay asked the network for an answer,
\* with no payload from it since: through joins, ADR switched off and on and
\* repetitions.  An uplink whose transmission failed counts among both, though the
\* network could not know of it, and a downlink without a payload ends no silence.
BackoffAfterSilence ==
  [][calls' > calls /\ current_dr' < current_dr =>
       /\ silence.sent + silence.lost + 1 >= AdrLimit + AdrDelay
       /\ silence.asked + silence.lost >= AdrDelay]_vars

\* Every lorawan_send() that took the mutex returns and frees it.
SendReturns == pc # "idle" ~> pc = "idle"

\* The session implements the delivery service of DownlinkDelivery: what is
\* handed to the application was sent with the session's keys, in order.
Service == INSTANCE DownlinkDelivery WITH
  Session <- {NoKeys} \cup Keys,
  session <- keys,
  sent    <- {<<d.keys, d.fcnt>> : d \in issued},
  log     <- [i \in DOMAIN delivered |-> delivered[i].fcnt]
DeliveryService == Service!Spec
-----------------------------------------------------------------------------
(* What the documentation says and the code does not do *)

\* README.md:95: "Downlink frame counter replay protection".
NoReplayDelivered ==
  \A i, j \in DOMAIN delivered : i < j => delivered[i].fcnt # delivered[j].fcnt

\* lorawan_impl.c:923: a payload that "exceeds max allowed %d for DR%d" is
\* refused, so none goes out at a data rate whose limit it exceeds.
PayloadFitsDr == \A t \in on_air : t.frame.len <= MaxPayload[t.dr]
=============================================================================
