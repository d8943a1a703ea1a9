----------------------------- MODULE SessionProofs -----------------------------
(***************************************************************************)
(* Theorems about Session, for every value of its constants.               *)
(***************************************************************************)
EXTENDS Session, TLAPS

\* Constants that every proof needs.
LEMMA Zeros ==
  /\ 0 \in Counter /\ 0 \in DataRate /\ 0 \in Keys /\ 0 \in Nat
  /\ 0 \in 0 .. MaxCalls /\ 0 \in 0 .. MaxEpochs /\ 0 \in 0 .. MaxDown
  /\ 0 \in AdrCount /\ DefaultJoinDr \in DataRate
BY SessionAssumption, WidthAssumption DEF Counter, DataRate, Keys, AbpKeys, AdrCount

\* The call record of a device that has sent nothing is well typed.
LEMMA NoCallType == NoCall \in Call
BY Zeros DEF NoCall, Call, Frame, AbpKeys

\* A device fresh from reset is well typed.
LEMMA TypeInit == Init => TypeOK
<1> SUFFICES ASSUME Init PROVE TypeOK
  OBVIOUS
<1>1. ActivationTypeOK
  BY Zeros DEF Init, ActivationTypeOK
<1>2. ContextTypeOK
  BY Zeros DEF Init, ContextTypeOK
<1>3. CallTypeOK
  BY NoCallType DEF Init, CallTypeOK
<1>4. NetworkTypeOK
  BY Zeros DEF Init, NetworkTypeOK
<1>5. HistoryTypeOK
  BY Zeros DEF Init, HistoryTypeOK, Silence, NoSilence
<1> QED
  BY <1>1, <1>2, <1>3, <1>4, <1>5 DEF TypeOK

\* A frame that is accepted is one of the network's.
LEMMA AcceptFields ==
  ASSUME NetworkTypeOK, NEW d \in issued, Accept(d)
  PROVE  /\ fcnt_down' = d.fcnt /\ fcnt_down' \in Counter
         /\ UNCHANGED <<activation, fcnt_up, join_dr, settings, network, calls, on_air>>
BY DEF NetworkTypeOK, Downlink, Accept

\* lorawan_join(), a reset and nothing else change the activation, and keep its type.
LEMMA TypeActivation ==
  ASSUME TypeOK, Next PROVE ActivationTypeOK'
<1> USE DEF ActivationTypeOK
<1>1. CASE JoinOtaa
  BY <1>1, Zeros, SessionAssumption DEF TypeOK, JoinOtaa, Activate, Keys, AbpKeys, NoKeys
<1>2. CASE JoinAbp
  BY <1>2, Zeros, SessionAssumption DEF TypeOK, JoinAbp, Activate, Keys, AbpKeys, NoKeys
<1>3. CASE JoinFails
  BY <1>3 DEF TypeOK, JoinFails, counters
<1>4. CASE Restart
  BY <1>4, Zeros DEF TypeOK, Restart
<1>5. ASSUME NEW heard \in BOOLEAN, TxOk(heard) PROVE ActivationTypeOK'
  <2>1. (fcnt_up + 1) % FcntMod \in Counter
    BY WidthAssumption DEF TypeOK, Counter
  <2> QED
    BY <1>5, <2>1 DEF TypeOK, TxOk, Transmit, activation
<1>6. ASSUME NEW d \in issued, Accept(d) PROVE ActivationTypeOK'
  BY <1>6, AcceptFields DEF TypeOK, activation
<1>7. CASE UNCHANGED <<activation, counters>>
  BY <1>7 DEF TypeOK, activation, counters
<1>8. ASSUME NEW heard \in BOOLEAN, Retransmit(heard) PROVE UNCHANGED <<activation, counters>>
  BY <1>8 DEF Retransmit, Transmit, counters
<1> QED
  BY <1>1, <1>2, <1>3, <1>4, <1>5, <1>6, <1>7, <1>8
  DEF Next, Activation, Configure, Network, Start, Progress, ClassCReceive, Receive,
      EnableAdr, SetConfMsgTries, SetDatarate, SetClass, ClassCThreadEnds, NetworkSend,
      AppSend, Send, SendRefused, Refuse, AckWorkRuns, TxFail, RxSilent,
      ListenTimeout, RetransmitFails, Return, Finish

\* Every handler keeps the acknowledgement, ADR and settings fields in their ranges.
LEMMA TypeContext ==
  ASSUME TypeOK, Next PROVE ContextTypeOK'
<1> USE DEF ContextTypeOK
<1>1. CASE JoinOtaa
  BY <1>1 DEF TypeOK, JoinOtaa, Activate, acks, settings
<1>2. CASE Restart
  <2>1. conf_msg_tries' \in Nat /\ nb_trans' \in 1 .. 15
    BY <1>2 DEF Restart
  <2> QED
    BY <1>2, <2>1, Zeros DEF Restart
<1>3. CASE Configure
  <2>1. ASSUME NEW enable \in AdrSettings, EnableAdr(enable) PROVE ContextTypeOK'
    BY <2>1, SessionAssumption DEF TypeOK, EnableAdr, acks, adr
  <2>2. ASSUME NEW tries \in Tries, SetConfMsgTries(tries) PROVE ContextTypeOK'
    BY <2>2, SessionAssumption DEF TypeOK, SetConfMsgTries, acks, adr
  <2>3. ASSUME NEW dr \in DataRate, SetDatarate(dr) PROVE ContextTypeOK'
    BY <2>3 DEF TypeOK, SetDatarate, acks, settings
  <2>4. ASSUME NEW class \in Classes, SetClass(class) PROVE ContextTypeOK'
    BY <2>4, SessionAssumption DEF TypeOK, SetClass, acks, adr
  <2>5. CASE ClassCThreadEnds
    BY <2>5 DEF TypeOK, ClassCThreadEnds, acks, adr
  <2> QED
    BY <1>3, <2>1, <2>2, <2>3, <2>4, <2>5 DEF Configure
<1>4. ASSUME NEW heard \in BOOLEAN, TxOk(heard) PROVE ContextTypeOK'
  BY <1>4 DEF TypeOK, TxOk, Transmit, adr, settings
<1>5. ASSUME NEW confirmed, NEW len, Send(confirmed, len), ack_work' \in BOOLEAN
      PROVE  ContextTypeOK'
  <2>1. NextAdrAckCnt \in AdrCount
    BY SessionAssumption DEF TypeOK, NextAdrAckCnt, BacksOff, AdrCount
  <2>2. NextDr \in DataRate
    BY SessionAssumption DEF TypeOK, NextDr, DataRate
  <2> QED
    BY <1>5, <2>1, <2>2 DEF TypeOK, Send, settings
<1>6. ASSUME NEW d \in issued, Accept(d), ack_work' \in BOOLEAN
      PROVE  ContextTypeOK'
  <2>1. d \in Downlink
    BY DEF TypeOK, NetworkTypeOK
  <2>2. nb_trans' \in 1 .. 15 /\ current_dr' \in DataRate
    <3>1. CASE ~d.mac.present
      BY <1>6, <3>1 DEF TypeOK, Accept, ApplyLinkAdr
    <3>2. CASE d.mac.present
      <4>1. d.mac.rep \in 0 .. 15
        BY <2>1 DEF Downlink, MacFields
      <4>2. nb_trans' = IF d.mac.rep = 0 THEN 1 ELSE d.mac.rep
        BY <1>6, <3>2 DEF Accept, ApplyLinkAdr
      <4>3. current_dr' = IF d.mac.ok /\ d.mac.dr \in DataRate THEN d.mac.dr ELSE current_dr
        BY <1>6, <3>2 DEF Accept, ApplyLinkAdr
      <4> QED
        BY <4>1, <4>2, <4>3 DEF TypeOK
    <3> QED
      BY <3>1, <3>2
  <2>3. adr_ack_cnt' \in AdrCount
    BY <1>6, Zeros DEF TypeOK, Accept
  <2>4. downlink_ack_pending' \in BOOLEAN
    BY <1>6, <2>1 DEF TypeOK, Accept, Downlink
  <2> QED
    BY <1>6, <2>2, <2>3, <2>4 DEF TypeOK, Accept, settings
<1>7. CASE UNCHANGED <<acks, adr, settings>>
  BY <1>7 DEF TypeOK, acks, adr, settings
<1>8. ASSUME NEW heard \in BOOLEAN, Retransmit(heard) PROVE UNCHANGED <<acks, adr, settings>>
  BY <1>8 DEF Retransmit, Transmit, acks
<1>9. CASE AckWorkRuns
  <2>1. CASE Refuse(0)
    BY <1>9, <2>1 DEF TypeOK, AckWorkRuns, Refuse, adr, settings
  <2> QED
    BY <1>9, <1>5, <2>1 DEF AckWorkRuns
<1>10. ASSUME NEW confirmed, NEW len, AppSend(confirmed, len) PROVE ContextTypeOK'
  BY <1>10, <1>5 DEF TypeOK, AppSend
<1>11. ASSUME NEW d \in issued, Receive(d) PROVE ContextTypeOK'
  BY <1>11, <1>6 DEF TypeOK, Receive
<1>12. ASSUME NEW d \in issued, ClassCReceive(d) PROVE ContextTypeOK'
  BY <1>12, <1>6 DEF TypeOK, ClassCReceive
<1>13. CASE JoinAbp
  BY <1>13 DEF JoinAbp, Activate, acks, adr, TypeOK, settings
<1>14. ASSUME NEW len, SendRefused(len) PROVE UNCHANGED <<acks, adr, settings>>
  BY <1>14 DEF SendRefused, Refuse, acks
<1> QED
  BY <1>1, <1>2, <1>3, <1>4, <1>7, <1>8, <1>9, <1>10, <1>11, <1>12, <1>13, <1>14
  DEF Next, Activation, Network, Start, Progress, JoinFails, NetworkSend,
      TxFail, RxSilent, ListenTimeout, RetransmitFails, Return, Finish

\* Every step of lorawan_send() keeps the record of the running call typed.
LEMMA TypeCall ==
  ASSUME TypeOK, Next PROVE CallTypeOK'
<1> USE DEF CallTypeOK
<1>1. CASE Restart
  BY <1>1, NoCallType DEF Restart
<1>2. ASSUME NEW confirmed \in BOOLEAN, NEW len \in Nat, Send(confirmed, len)
      PROVE  CallTypeOK'
  <2>1. NextDr \in DataRate
    BY SessionAssumption DEF TypeOK, ContextTypeOK, NextDr, DataRate
  <2>2. BuildFrame(confirmed, len) \in Frame
    <3>1. calls + 1 \in 0 .. MaxCalls
      BY <1>2, SessionAssumption DEF TypeOK, HistoryTypeOK, Send
    <3>2. keys \in Keys /\ epoch \in 0 .. MaxEpochs /\ fcnt_up \in Counter
      BY <1>2 DEF TypeOK, ActivationTypeOK, Send
    <3>3. Len(delivered) \in Nat
      BY DEF TypeOK, HistoryTypeOK
    <3>4. downlink_ack_pending \in BOOLEAN
      BY DEF TypeOK, ContextTypeOK
    <3> QED
      BY <3>1, <3>2, <3>3, <3>4 DEF BuildFrame, Frame
  <2>3. call' \in Call
    BY <1>2, <2>1, <2>2 DEF Send, Call
  <2> QED
    BY <1>2, <2>3 DEF TypeOK, Send
<1>3. ASSUME NEW heard \in BOOLEAN, NEW dr \in DataRate, NEW retry_dr \in DataRate,
             Transmit(dr, retry_dr, heard)
      PROVE  CallTypeOK'
  <2> DEFINE tx == call.tx + 1
             any == call.heard \/ heard
  <2>a. tx \in Nat
    BY DEF TypeOK, Call
  <2>b. any \in BOOLEAN
    OBVIOUS
  <2>c. call' = [call EXCEPT !.tx = tx, !.dr = dr, !.retry_dr = retry_dr, !.heard = any]
    BY <1>3 DEF Transmit
  <2> HIDE DEF tx, any
  <2>1. call' \in Call
    BY <2>a, <2>b, <2>c DEF TypeOK, Call
  <2> QED
    BY <1>3, <2>1 DEF TypeOK, Transmit
<1>4. ASSUME NEW heard \in BOOLEAN, TxOk(heard) PROVE CallTypeOK'
  BY <1>3, <1>4 DEF TxOk, TypeOK, Call
<1>5. ASSUME NEW heard \in BOOLEAN, Retransmit(heard) PROVE CallTypeOK'
  <2>1. RetryBase \in DataRate /\ call.dr \in DataRate
    BY DEF TypeOK, ContextTypeOK, RetryBase, Call
  <2>2. CASE LowersRetryDr
    <3>1. RetryBase - 1 \in DataRate
      BY <2>1, <2>2, SessionAssumption DEF LowersRetryDr, DataRate
    <3> QED
      BY <1>3, <1>5, <2>2, <3>1 DEF Retransmit
  <2> QED
    BY <1>3, <1>5, <2>1, <2>2 DEF Retransmit
<1>6. ASSUME NEW d \in issued, Receive(d) PROVE CallTypeOK'
  <2>1. call' \in Call
    BY <1>6 DEF TypeOK, Receive, Call
  <2> QED
    BY <1>6, <2>1 DEF TypeOK, Receive
<1>7. ASSUME NEW len, Refuse(len) PROVE CallTypeOK'
  BY <1>7 DEF TypeOK, Refuse
<1>8. ASSUME NEW ret \in {"OK", "EIO", "ETIMEDOUT"}, Finish(ret) PROVE CallTypeOK'
  BY <1>8 DEF TypeOK, Finish
<1>9. CASE TxFail \/ RxSilent \/ ListenTimeout
  BY <1>9 DEF TypeOK, TxFail, RxSilent, ListenTimeout
<1>10. CASE UNCHANGED sending
  BY <1>10 DEF TypeOK, sending
<1>11. CASE Start
  BY <1>2, <1>7, <1>11, SessionAssumption DEF Start, AppSend, SendRefused, AckWorkRuns
<1>12. CASE Progress
  BY <1>4, <1>5, <1>6, <1>8, <1>9, <1>12 DEF Progress, RetransmitFails, Return
<1> QED
  BY <1>1, <1>10, <1>11, <1>12
  DEF Next, Activation, JoinOtaa, JoinAbp, Activate, JoinFails, Configure, EnableAdr,
      SetConfMsgTries, SetDatarate, SetClass, ClassCThreadEnds, Network, NetworkSend,
      ClassCReceive

\* The network server makes well-typed downlinks only.
LEMMA TypeNetwork ==
  ASSUME TypeOK, Next PROVE NetworkTypeOK'
<1> USE DEF NetworkTypeOK
<1>1. ASSUME NEW d \in Downs, NEW ack \in BOOLEAN, NetworkSend(d, ack)
      PROVE  NetworkTypeOK'
  <2>1. keys \in Keys /\ srv_fcnt[keys] \in 0 .. MaxDown /\ srv_fcnt[keys] < MaxDown
    BY <1>1 DEF TypeOK, ActivationTypeOK, NetworkSend
  <2>2. srv_fcnt[keys] \in Counter /\ srv_fcnt[keys] + 1 \in 0 .. MaxDown
    BY <2>1, SessionAssumption, WidthAssumption DEF Counter
  <2>3. d \in [confirmed : BOOLEAN, payload : BOOLEAN, mac : MacFields]
    BY SessionAssumption
  <2>4. (IF ack THEN call.frame.id ELSE 0) \in 0 .. MaxCalls
    BY Zeros DEF TypeOK, CallTypeOK, Call, Frame
  <2> QED
    BY <1>1, <2>1, <2>2, <2>3, <2>4 DEF TypeOK, NetworkSend, Downlink
<1>2. CASE UNCHANGED network
  BY <1>2 DEF TypeOK, network
<1>3. ASSUME NEW dr, NEW retry_dr, NEW heard, Transmit(dr, retry_dr, heard)
      PROVE  UNCHANGED network
  BY <1>3 DEF Transmit
<1>4. ASSUME NEW confirmed, NEW len, Send(confirmed, len) \/ Refuse(len)
      PROVE  UNCHANGED network
  BY <1>4 DEF Send, Refuse
<1>5. CASE Start
  BY <1>2, <1>4, <1>5 DEF Start, AppSend, SendRefused, AckWorkRuns
<1>6. CASE Progress
  BY <1>2, <1>3, <1>6 DEF Progress, TxOk, Retransmit, TxFail, RxSilent, ListenTimeout,
                          RetransmitFails, Return, Finish, Receive, Accept
<1> QED
  BY <1>1, <1>2, <1>5, <1>6
  DEF Next, Activation, JoinOtaa, JoinAbp, Activate, JoinFails, Restart, Configure,
      EnableAdr, SetConfMsgTries, SetDatarate, SetClass, ClassCThreadEnds, Network,
      ClassCReceive, Accept

\* What a step does to the count of silent uplinks.
SilenceStep ==
  \/ UNCHANGED silence \/ silence' = NoSilence
  \/ pc = "tx" /\ (CountsSent \/ CountsLost)

\* Every step zeroes the count, counts one uplink or leaves it.
LEMMA SilenceSteps == ASSUME Next PROVE SilenceStep
<1> USE DEF SilenceStep, history
<1>1. CASE Activation
  BY <1>1 DEF Activation, JoinOtaa, JoinAbp, Activate, JoinFails, Restart
<1>2. CASE Configure
  BY <1>2 DEF Configure, EnableAdr, SetConfMsgTries, SetDatarate, SetClass, ClassCThreadEnds
<1>3. CASE Network
  BY <1>3 DEF Network, NetworkSend
<1>4. ASSUME NEW confirmed, NEW len, Send(confirmed, len) PROVE SilenceStep
  BY <1>4 DEF Send
<1>5. CASE Start
  BY <1>4, <1>5 DEF Start, AppSend, SendRefused, Refuse, AckWorkRuns
<1>6. ASSUME NEW d, Accept(d) PROVE SilenceStep
  BY <1>6 DEF Accept
<1>7. CASE Progress
  BY <1>6, <1>7 DEF Progress, TxOk, Retransmit, TxFail, RxSilent, ListenTimeout,
              RetransmitFails, Return, Finish, Receive
<1>8. CASE \E d \in issued : ClassCReceive(d)
  BY <1>6, <1>8 DEF ClassCReceive
<1> QED
  BY <1>1, <1>2, <1>3, <1>5, <1>7, <1>8 DEF Next

\* The count of silent uplinks keeps its type.
LEMMA SilenceMoves == ASSUME HistoryTypeOK, Next PROVE silence' \in Silence
<1>1. silence \in Silence
  BY DEF HistoryTypeOK
<1>2. PICK n \in Nat, a \in Nat, l \in Nat : silence = [sent |-> n, asked |-> a, lost |-> l]
  BY <1>1 DEF Silence
<1>3. NoSilence \in Silence
  BY DEF NoSilence, Silence
<1>4. ASSUME CountsSent PROVE silence' \in Silence
  <2> DEFINE b == IF call.frame.adr_ack_req THEN a + 1 ELSE a
  <2>1. b \in Nat
    OBVIOUS
  <2>2. silence' = silence \/ silence' = [sent |-> n + 1, asked |-> b, lost |-> l]
    BY <1>2, <1>4 DEF CountsSent
  <2> HIDE DEF b
  <2> QED
    BY <1>1, <2>1, <2>2 DEF Silence
<1>5. CountsLost => silence' \in Silence
  BY <1>1, <1>2 DEF CountsLost, Silence
<1> QED
  BY <1>1, <1>3, <1>4, <1>5, SilenceSteps DEF SilenceStep

\* Transmissions and deliveries are recorded with their types.
LEMMA TypeHistory ==
  ASSUME TypeOK, Next PROVE HistoryTypeOK'
<1> USE DEF HistoryTypeOK
<1>0. silence' \in Silence
  BY SilenceMoves DEF TypeOK
<1>1. CASE JoinOtaa \/ JoinAbp \/ Restart
  <2>1. delivered' = <<>> /\ UNCHANGED <<calls, on_air>>
    BY <1>1 DEF JoinOtaa, JoinAbp, Activate, Restart
  <2> QED
    BY <1>0, <2>1 DEF TypeOK
<1>2. ASSUME NEW d \in issued, Accept(d)
      PROVE  HistoryTypeOK'
  <2> DEFINE r == [fcnt |-> d.fcnt, confirmed |-> d.confirmed, payload |-> d.payload,
                   at |-> calls]
  <2>1. d \in Downlink /\ d.mac \in MacFields
    BY DEF TypeOK, NetworkTypeOK, Downlink
  <2>2. r \in DeliveryRecord
    BY <2>1 DEF TypeOK, Downlink, MacFields, DeliveryRecord
  <2>3. delivered' = Append(delivered, r)
    BY <1>2 DEF Accept
  <2> HIDE DEF r
  <2> QED
    BY <1>0, <1>2, <2>2, <2>3 DEF TypeOK, Accept
<1>3. ASSUME NEW dr \in DataRate, NEW retry_dr, NEW heard, Transmit(dr, retry_dr, heard)
      PROVE  HistoryTypeOK'
  <2>1. call.frame \in Frame
    BY DEF TypeOK, CallTypeOK, Call
  <2> QED
    BY <1>0, <1>3, <2>1 DEF TypeOK, Transmit
<1>4. ASSUME NEW heard, TxOk(heard) PROVE HistoryTypeOK'
  BY <1>3, <1>4 DEF TxOk, TypeOK, CallTypeOK, Call
<1>5. ASSUME NEW heard, Retransmit(heard) PROVE HistoryTypeOK'
  <2>1. RetryBase \in DataRate /\ call.dr \in DataRate
    BY DEF TypeOK, ContextTypeOK, CallTypeOK, RetryBase, Call
  <2>2. LowersRetryDr => RetryBase - 1 \in DataRate
    BY <2>1, SessionAssumption DEF LowersRetryDr, DataRate
  <2> QED
    BY <1>3, <1>5, <2>1, <2>2 DEF Retransmit
<1>6. ASSUME NEW confirmed, NEW len, Send(confirmed, len) PROVE HistoryTypeOK'
  BY <1>0, <1>6, SessionAssumption DEF TypeOK, Send
<1>7. CASE UNCHANGED <<calls, on_air, delivered>>
  BY <1>0, <1>7 DEF TypeOK
<1>8. CASE Start
  BY <1>6, <1>7, <1>8 DEF Start, AppSend, SendRefused, AckWorkRuns, Refuse, history
<1>9. CASE Progress
  BY <1>2, <1>4, <1>5, <1>7, <1>9
  DEF Progress, TxFail, RxSilent, ListenTimeout, RetransmitFails, Return, Finish, Receive,
      history
<1>10. ASSUME NEW d \in issued, ClassCReceive(d) PROVE HistoryTypeOK'
  BY <1>2, <1>10 DEF ClassCReceive
<1> QED
  BY <1>1, <1>7, <1>8, <1>9, <1>10
  DEF Next, Activation, JoinFails, Configure, EnableAdr, SetConfMsgTries, SetDatarate,
      SetClass, ClassCThreadEnds, Network, NetworkSend, history

\* Types depend on the variables alone.
LEMMA TypeStutter == ASSUME TypeOK, UNCHANGED vars PROVE TypeOK'
BY DEF TypeOK, ActivationTypeOK, ContextTypeOK, CallTypeOK, NetworkTypeOK, HistoryTypeOK,
       vars, activation, counters, acks, adr, settings, sending, network, history

\* One step of anything keeps every type.
LEMMA TypeStep == TypeOK /\ [Next]_vars => TypeOK'
<1> SUFFICES ASSUME TypeOK, Next PROVE TypeOK'
  BY TypeStutter
<1> QED
  BY TypeActivation, TypeContext, TypeCall, TypeNetwork, TypeHistory DEF TypeOK

\* Every reachable state is well typed: in particular lorawan_send() never runs
\* without session keys, and every count stays within its field.
THEOREM TypeCorrect == Spec => []TypeOK
BY TypeInit, TypeStep, PTL DEF Spec
-----------------------------------------------------------------------------
(* The uplink counter as a nonce *)

\* What holds between calls, the counter and the frames on the air: the counter
\* has passed every frame of the present keys, and the running call is the last.
NonceInv ==
  /\ fcnt_up <= calls /\ keys <= epoch
  /\ \A t \in on_air :
       /\ t.frame.id <= calls /\ t.frame.keys <= epoch
       /\ t.frame.keys = keys /\ keys # AbpKeys => t.frame.fcnt < fcnt_up
  /\ pc # "idle" => call.frame.id = calls /\ call.frame.keys = keys
  /\ pc = "tx" => /\ call.frame.fcnt = fcnt_up /\ fcnt_up < calls
                  /\ \A t \in on_air : t.frame.id < calls
  /\ pc \in {"rx", "listen", "settle"} => \E t \in on_air : t.frame = call.frame
  /\ UplinkNonceUnique

\* The debt of an acknowledgement, and what the running call knows of it.
AckInv ==
  /\ pc = "tx" => /\ call.frame.session = epoch /\ call.frame.seen = Len(delivered)
                  /\ call.frame.ack = downlink_ack_pending
  /\ AckOwed

\* The last accepted counter bounds all of them; the network's next one is new.
OrderInv ==
  /\ \A i \in DOMAIN delivered : delivered[i].fcnt <= fcnt_down
  /\ \A d \in issued : d.fcnt < srv_fcnt[d.keys]
-----------------------------------------------------------------------------
(* The steps, sorted by what they do to keys, counters and frames *)

\* The running call goes on, or ends, and keeps its frame.
CallGoesOn ==
  /\ call'.frame = call.frame
  /\ pc' = pc \/ pc' = "idle" \/ (pc \in {"rx", "listen"} /\ pc' \in {"listen", "settle"})

Quiet ==
  /\ CallGoesOn
  /\ UNCHANGED <<keys, epoch, counters, downlink_ack_pending, network, calls, on_air,
                 delivered>>

Accepting(d) ==
  /\ CallGoesOn /\ pc # "tx"
  /\ Accepts(d) /\ fcnt_down' = d.fcnt
  /\ downlink_ack_pending' = (downlink_ack_pending \/ d.confirmed)
  /\ \E r : /\ r.fcnt = d.fcnt /\ r.confirmed = d.confirmed
            /\ delivered' = Append(delivered, r)
  /\ UNCHANGED <<keys, epoch, fcnt_up, network, calls, on_air>>

\* process_downlink() from a window or from the Class C thread has one effect.
LEMMA AcceptingStep ==
  ASSUME TypeOK, NEW d \in issued, Receive(d) \/ ClassCReceive(d)
  PROVE  Accepting(d)
<1>1. ASSUME Accept(d)
      PROVE  /\ Accepts(d) /\ fcnt_down' = d.fcnt
             /\ downlink_ack_pending' = (downlink_ack_pending \/ d.confirmed)
             /\ \E r : /\ r.fcnt = d.fcnt /\ r.confirmed = d.confirmed
                       /\ delivered' = Append(delivered, r)
             /\ UNCHANGED <<keys, epoch, fcnt_up, network, calls, on_air>>
  <2> DEFINE r == [fcnt |-> d.fcnt, confirmed |-> d.confirmed, payload |-> d.payload,
                   at |-> calls]
  <2>1. r.fcnt = d.fcnt /\ r.confirmed = d.confirmed
    OBVIOUS
  <2>2. delivered' = Append(delivered, r)
    BY <1>1 DEF Accept
  <2> HIDE DEF r
  <2> QED
    BY <1>1, <2>1, <2>2 DEF Accept, activation
<1>2. CASE Receive(d)
  <2>1. call'.frame = call.frame
    BY <1>2 DEF TypeOK, CallTypeOK, Call, Receive
  <2>2. pc \in {"rx", "listen"} /\ pc' \in {"listen", "settle"}
    BY <1>2 DEF Receive
  <2> QED
    BY <1>1, <1>2, <2>1, <2>2 DEF Accepting, CallGoesOn, Receive
<1>3. CASE ClassCReceive(d)
  <2>1. pc = "idle" /\ pc' = pc /\ call' = call
    BY <1>3 DEF ClassCReceive, sending
  <2> QED
    BY <1>1, <1>3, <2>1 DEF Accepting, CallGoesOn, ClassCReceive
<1> QED
  BY <1>2, <1>3

\* Seen from the counters, the acknowledgement and the deliveries, a step is an
\* activation, a reset, a send, a transmission, a downlink, the network, or quiet.
LEMMA StepKinds ==
  ASSUME TypeOK, Next
  PROVE  \/ Activate(epoch + 1) \/ Activate(AbpKeys) \/ Restart
         \/ \E confirmed \in BOOLEAN, len \in Nat : Send(confirmed, len)
         \/ \E heard \in BOOLEAN : TxOk(heard) \/ Retransmit(heard)
         \/ \E d \in issued : Accepting(d)
         \/ \E d \in Downs, ack \in BOOLEAN : NetworkSend(d, ack)
         \/ Quiet
<1>0. ASSUME UNCHANGED sending PROVE CallGoesOn
  BY <1>0 DEF sending, CallGoesOn
<1>1. CASE Activation
  <2>1. CASE JoinFails
    BY <1>0, <2>1 DEF JoinFails, Quiet, acks, history
  <2> QED
    BY <1>1, <2>1 DEF Activation, JoinOtaa, JoinAbp
<1>2. CASE Configure
  <2>1. UNCHANGED sending
    BY <1>2 DEF Configure, EnableAdr, SetConfMsgTries, SetDatarate, SetClass, ClassCThreadEnds
  <2>2. UNCHANGED <<activation, counters, acks, network, history>>
    BY <1>2 DEF Configure, EnableAdr, SetConfMsgTries, SetDatarate, SetClass, ClassCThreadEnds
  <2> QED
    BY <1>0, <2>1, <2>2 DEF Quiet, activation, acks, history
<1>3. CASE Network
  BY <1>3 DEF Network
<1>4. CASE Start
  <2>1. ASSUME NEW len, Refuse(len) PROVE Quiet
    BY <2>1 DEF Refuse, Quiet, CallGoesOn, activation, history
  <2>2. CASE \E confirmed \in MsgTypes, len \in Lengths : AppSend(confirmed, len)
    BY <2>2, SessionAssumption DEF AppSend
  <2>3. CASE \E len \in Lengths : SendRefused(len)
    BY <2>1, <2>3 DEF SendRefused
  <2>4. CASE AckWorkRuns
    <3>1. FALSE \in BOOLEAN /\ 0 \in Nat
      OBVIOUS
    <3> QED
      BY <2>1, <2>4, <3>1, Zenon DEF AckWorkRuns
  <2> QED
    BY <1>4, <2>2, <2>3, <2>4 DEF Start
<1>5. CASE Progress
  <2>1. CASE TxFail \/ RxSilent \/ ListenTimeout \/ RetransmitFails \/ Return
    <3>1. /\ UNCHANGED <<activation, counters, acks, network, calls, on_air, delivered>>
          /\ call' = call
      BY <2>1 DEF TxFail, RxSilent, ListenTimeout, RetransmitFails, Return, Finish, history
    <3>2. pc' = "idle" \/ (pc \in {"rx", "listen"} /\ pc' \in {"listen", "settle"})
      <4>1. CASE RxSilent \/ ListenTimeout
        BY <4>1 DEF RxSilent, ListenTimeout
      <4>2. CASE TxFail \/ RetransmitFails \/ Return
        BY <4>2 DEF TxFail, RetransmitFails, Return, Finish
      <4> QED
        BY <2>1, <4>1, <4>2
    <3> QED
      BY <3>1, <3>2 DEF Quiet, CallGoesOn, activation, acks
  <2> QED
    BY <1>5, <2>1, AcceptingStep DEF Progress
<1>6. CASE \E d \in issued : ClassCReceive(d)
  BY <1>6, AcceptingStep
<1> QED
  BY <1>1, <1>2, <1>3, <1>4, <1>5, <1>6 DEF Next
-----------------------------------------------------------------------------
\* What was handed over carries counters.
LEMMA DeliveredCounters ==
  ASSUME TypeOK PROVE \A i \in DOMAIN delivered : delivered[i].fcnt \in Counter
<1>1. delivered \in Seq(DeliveryRecord)
  BY DEF TypeOK, HistoryTypeOK
<1>2. \A i \in DOMAIN delivered : delivered[i] \in DeliveryRecord
  BY <1>1
<1> QED
  BY <1>2 DEF DeliveryRecord

\* Nothing was handed over at a reset.
LEMMA OrderInit == Init => OrderInv
BY DEF Init, OrderInv

\* process_downlink() hands over frames of this session only, in counter order.
LEMMA OrderStep == ASSUME TypeOK, OrderInv, Next PROVE OrderInv'
<1> USE DEF OrderInv
<1>1. CASE delivered' = <<>> /\ UNCHANGED network
  BY <1>1 DEF network
<1>2. CASE UNCHANGED <<delivered, fcnt_down, network>>
  BY <1>2 DEF network
<1>3. ASSUME NEW d \in issued, Accepting(d) PROVE OrderInv'
  <2>1. d.fcnt \in Counter /\ fcnt_down \in Counter
    BY DEF TypeOK, NetworkTypeOK, ActivationTypeOK, Downlink
  <2>2. \A i \in DOMAIN delivered : delivered[i].fcnt \in Counter
    BY DeliveredCounters
  <2>3. \A i \in DOMAIN delivered : delivered[i].fcnt <= d.fcnt
    BY <1>3, <2>1, <2>2 DEF Accepting, Accepts, Newer, Counter
  <2>4. PICK r : r.fcnt = d.fcnt /\ delivered' = Append(delivered, r)
    BY <1>3 DEF Accepting
  <2>5. delivered \in Seq(DeliveryRecord)
    BY DEF TypeOK, HistoryTypeOK
  <2>6. \A i \in DOMAIN delivered' : delivered'[i].fcnt <= d.fcnt
    BY <2>1, <2>3, <2>4, <2>5 DEF Counter
  <2> QED
    BY <1>3, <2>6 DEF Accepting, network
<1>4. ASSUME NEW d \in Downs, NEW ack \in BOOLEAN, NetworkSend(d, ack) PROVE OrderInv'
  <2>1. keys \in Keys /\ srv_fcnt \in [Keys -> 0 .. MaxDown]
    BY <1>4 DEF TypeOK, ActivationTypeOK, NetworkTypeOK, NetworkSend
  <2>2. \A e \in issued : e.keys \in Keys /\ e.fcnt \in Nat
    BY WidthAssumption DEF TypeOK, NetworkTypeOK, Downlink, Counter
  <2>3. ASSUME NEW e \in issued' PROVE e.fcnt < srv_fcnt'[e.keys]
    BY <1>4, <2>1, <2>2, <2>3, SessionAssumption DEF NetworkSend
  <2> QED
    BY <1>4, <2>3 DEF NetworkSend, history, counters
<1> QED
  BY StepKinds, <1>1, <1>2, <1>3, <1>4
  DEF Activate, Restart, Send, TxOk, Retransmit, Transmit, Quiet, counters, history

\* Every step of the session is a step of the delivery service or leaves it alone.
LEMMA ServiceStep ==
  ASSUME TypeOK, TypeOK', OrderInv, Next PROVE [Service!Next]_(Service!vars)
<1> DEFINE log(s) == [i \in DOMAIN s |-> s[i].fcnt]
<1>1. ASSUME NEW k \in Keys \cup {NoKeys}, keys' = k, delivered' = <<>>, UNCHANGED issued
      PROVE  Service!Next
  <2>1. log(delivered') = <<>>
    BY <1>1
  <2>2. Service!Activate(k)
    BY <1>1, <2>1 DEF Service!Activate
  <2> QED
    BY <2>2 DEF Service!Next
<1>2. CASE UNCHANGED <<keys, delivered, issued>>
  BY <1>2 DEF Service!vars
<1>3. ASSUME NEW d \in issued, Accepting(d) PROVE Service!Next
  <2>1. d.fcnt \in Counter /\ fcnt_down \in Counter /\ d.keys = keys
    BY <1>3 DEF TypeOK, NetworkTypeOK, ActivationTypeOK, Downlink, Accepting, Accepts
  <2>2. \A i \in DOMAIN delivered : delivered[i].fcnt \in Counter
    BY DeliveredCounters
  <2>3. \A i \in DOMAIN delivered : delivered[i].fcnt < d.fcnt \/ delivered[i].fcnt = 0
    BY <1>3, <2>1, <2>2 DEF OrderInv, Accepting, Accepts, Newer, Counter
  <2>4. PICK r : r.fcnt = d.fcnt /\ delivered' = Append(delivered, r)
    BY <1>3 DEF Accepting
  <2>5. delivered \in Seq(DeliveryRecord)
    BY DEF TypeOK, HistoryTypeOK
  <2>6. log(delivered') = Append(log(delivered), d.fcnt)
    BY <2>4, <2>5
  <2>7. UNCHANGED <<keys, issued>>
    BY <1>3 DEF Accepting, network
  <2>8. Service!Deliver(d.fcnt)
    BY <2>1, <2>3, <2>6, <2>7 DEF Service!Deliver
  <2> QED
    BY <2>1, <2>8 DEF Service!Next
<1>4. ASSUME NEW d \in Downs, NEW ack \in BOOLEAN, NetworkSend(d, ack)
      PROVE  Service!Next
  <2>1. keys \in Keys /\ srv_fcnt[keys] \in Counter
    BY <1>4, SessionAssumption, WidthAssumption
    DEF TypeOK, ActivationTypeOK, NetworkTypeOK, NetworkSend, Counter
  <2>0. PICK n \in Counter : n = srv_fcnt[keys]
    BY <2>1
  <2> DEFINE pairs(S) == {<<e.keys, e.fcnt>> : e \in S}
  <2>2. <<keys, n>> \notin pairs(issued)
    BY <2>0, <2>1, WidthAssumption DEF OrderInv, TypeOK, NetworkTypeOK, Downlink, Counter
  <2>3. pairs(issued') = pairs(issued) \cup {<<keys, n>>}
    <3>1. PICK e : /\ issued' = issued \cup {e}
                   /\ e.keys = keys /\ e.fcnt = n
      <4> DEFINE e == [keys |-> keys, fcnt |-> n, confirmed |-> d.confirmed,
                       payload |-> d.payload, mac |-> d.mac,
                       answers |-> IF ack THEN call.frame.id ELSE 0]
      <4>1. issued' = issued \cup {e}
        BY <1>4, <2>0 DEF NetworkSend
      <4>2. e.keys = keys /\ e.fcnt = n
        OBVIOUS
      <4> HIDE DEF e
      <4> QED
        BY <4>1, <4>2
    <3> QED
      BY <3>1
  <2>4. UNCHANGED <<keys, delivered>>
    BY <1>4 DEF NetworkSend, activation, history
  <2>5. Service!NetworkSends(n)
    BY <2>2, <2>3, <2>4 DEF Service!NetworkSends
  <2> QED
    BY <2>5 DEF Service!Next
<1>5. CASE Activate(epoch + 1) \/ Activate(AbpKeys) \/ Restart
  <2>1. keys' \in Keys \cup {NoKeys}
    BY DEF TypeOK, ActivationTypeOK
  <2> QED
    BY <1>1, <1>5, <2>1 DEF Activate, Restart, network
<1> QED
  BY StepKinds, <1>2, <1>3, <1>4, <1>5
  DEF Send, TxOk, Retransmit, Transmit, Quiet, activation, network, history

\* The session implements the delivery service: whatever the channel repeats,
\* delays or reorders, the application gets frames of this session's network,
\* each newer than the last, but for repetitions of counter 0.
THEOREM ImplementsDelivery == Spec => DeliveryService
<1> DEFINE log(s) == [i \in DOMAIN s |-> s[i].fcnt]
<1>1. Init => Service!Init
  <2> SUFFICES ASSUME Init PROVE Service!Init
    OBVIOUS
  <2>1. log(delivered) = <<>>
    BY DEF Init
  <2> QED
    BY <2>1 DEF Init, Service!Init
<1>2. TypeOK /\ TypeOK' /\ OrderInv /\ Next => [Service!Next]_(Service!vars)
  BY ServiceStep
<1>3. UNCHANGED vars => UNCHANGED (Service!vars)
  BY DEF vars, activation, network, history, Service!vars
<1>4. OrderInv /\ UNCHANGED vars => OrderInv'
  BY DEF OrderInv, vars, counters, network, history
<1>5. Spec => [](TypeOK /\ OrderInv)
  BY TypeInit, TypeStep, OrderInit, OrderStep, <1>4, PTL DEF Spec
<1> QED
  BY <1>1, <1>2, <1>3, <1>5, PTL DEF Spec, DeliveryService, Service!Spec
-----------------------------------------------------------------------------
\* No frame is on the air at first.
LEMMA NonceInit == Init => NonceInv
BY Zeros DEF Init, NonceInv, UplinkNonceUnique, NoKeys

\* The arithmetic side of NonceInv.
LEMMA NonceTypes ==
  ASSUME TypeOK
  PROVE  /\ keys \in Int /\ epoch \in Nat /\ calls \in Nat /\ calls <= MaxCalls
         /\ fcnt_up \in Nat /\ call.frame \in Frame
         /\ \A t \in on_air : t.frame \in Frame
         /\ \A f \in Frame : f.id \in Nat /\ f.keys \in Nat /\ f.fcnt \in Nat
<1>1. keys \in Int /\ epoch \in Nat /\ fcnt_up \in Nat
  BY SessionAssumption, WidthAssumption
  DEF TypeOK, ActivationTypeOK, Keys, NoKeys, AbpKeys, Counter
<1>2. calls \in Nat /\ calls <= MaxCalls /\ \A t \in on_air : t.frame \in Frame
  BY SessionAssumption DEF TypeOK, HistoryTypeOK
<1>3. call.frame \in Frame
  BY DEF TypeOK, CallTypeOK, Call
<1>4. \A f \in Frame : f.id \in Nat /\ f.keys \in Nat /\ f.fcnt \in Nat
  BY SessionAssumption, WidthAssumption DEF Frame, Keys, AbpKeys, Counter
<1> QED
  BY <1>1, <1>2, <1>3, <1>4

\* Activations, sends and (re)transmissions keep the counter ahead of the air.
LEMMA NonceStep == ASSUME TypeOK, NonceInv, Next PROVE NonceInv'
<1> USE NonceTypes
<1>1. CASE Activate(epoch + 1)
  BY <1>1 DEF NonceInv, UplinkNonceUnique, Activate, sending, AbpKeys
<1>2. CASE Activate(AbpKeys)
  BY <1>2 DEF NonceInv, UplinkNonceUnique, Activate, sending, AbpKeys
<1>3. CASE Restart
  BY <1>3 DEF NonceInv, UplinkNonceUnique, Restart, NoKeys
<1>4. ASSUME NEW confirmed \in BOOLEAN, NEW len \in Nat, Send(confirmed, len)
      PROVE  NonceInv'
  <2>1. /\ call'.frame.id = calls + 1 /\ call'.frame.keys = keys
        /\ call'.frame.fcnt = fcnt_up
    BY <1>4 DEF Send, BuildFrame
  <2>2. pc = "idle" /\ pc' = "tx" /\ calls' = calls + 1
        /\ UNCHANGED <<keys, epoch, fcnt_up, on_air>>
    BY <1>4 DEF Send, activation, counters
  <2> QED
    BY <2>1, <2>2 DEF NonceInv, UplinkNonceUnique
<1>5. ASSUME NEW heard \in BOOLEAN, TxOk(heard) PROVE NonceInv'
  <2>1. fcnt_up' = fcnt_up + 1
    <3>1. fcnt_up + 1 \in 0 .. FcntMod - 1
      BY <1>5, SessionAssumption, WidthAssumption DEF NonceInv, TxOk
    <3>2. (fcnt_up + 1) % FcntMod = fcnt_up + 1
      BY <3>1, WidthAssumption
    <3> QED
      BY <1>5, <3>2 DEF TxOk
  <2>2. /\ pc = "tx" /\ pc' = "rx" /\ call'.frame = call.frame
        /\ on_air' = on_air \cup {[frame |-> call.frame, dr |-> call.dr]}
        /\ UNCHANGED <<keys, epoch, calls>>
    BY <1>5 DEF TxOk, Transmit, activation, TypeOK, CallTypeOK, Call
  <2>3. ASSUME NEW t \in on_air' PROVE t \in on_air \/ t.frame = call.frame
    BY <2>2
  <2>4. UplinkNonceUnique'
    BY <2>2, <2>3 DEF NonceInv, UplinkNonceUnique
  <2>5. \E t \in on_air' : t.frame = call'.frame
    <3> DEFINE t == [frame |-> call.frame, dr |-> call.dr]
    <3>1. t \in on_air' /\ t.frame = call'.frame
      BY <2>2
    <3> QED
      BY <3>1
  <2>6. \A t \in on_air' :
          /\ t.frame.id <= calls /\ t.frame.keys <= epoch
          /\ t.frame.keys = keys /\ keys # AbpKeys => t.frame.fcnt < fcnt_up'
    BY <2>1, <2>2, <2>3 DEF NonceInv
  <2> QED
    BY <2>1, <2>2, <2>4, <2>5, <2>6 DEF NonceInv
<1>6. ASSUME NEW heard \in BOOLEAN, Retransmit(heard) PROVE NonceInv'
  <2>1. /\ pc = "settle" /\ pc' = "rx" /\ call'.frame = call.frame
        /\ \E dr : on_air' = on_air \cup {[frame |-> call.frame, dr |-> dr]}
        /\ UNCHANGED <<keys, epoch, calls, fcnt_up>>
    BY <1>6 DEF Retransmit, Transmit, activation, TypeOK, CallTypeOK, Call
  <2>2. PICK u \in on_air : u.frame = call.frame
    BY <2>1 DEF NonceInv
  <2>3. ASSUME NEW t \in on_air' PROVE \E v \in on_air : v.frame = t.frame
    BY <2>1, <2>2
  <2>4. UplinkNonceUnique'
    BY <2>1, <2>3 DEF NonceInv, UplinkNonceUnique
  <2>5. \E t \in on_air' : t.frame = call'.frame
    BY <2>1, <2>2
  <2> QED
    BY <2>1, <2>3, <2>4, <2>5 DEF NonceInv
<1>7. ASSUME CallGoesOn, UNCHANGED <<keys, epoch, fcnt_up, calls, on_air>>
      PROVE  NonceInv'
  BY <1>7 DEF NonceInv, UplinkNonceUnique, CallGoesOn
<1>8. ASSUME NEW d \in Downs, NEW ack \in BOOLEAN, NetworkSend(d, ack)
      PROVE  CallGoesOn /\ UNCHANGED <<keys, epoch, fcnt_up, calls, on_air>>
  BY <1>8 DEF NetworkSend, CallGoesOn, sending, activation, counters, history
<1> QED
  BY StepKinds, <1>1, <1>2, <1>3, <1>4, <1>5, <1>6, <1>7, <1>8
  DEF Quiet, Accepting, counters, history

\* NonceInv depends on the variables alone.
LEMMA NonceStutter == ASSUME NonceInv, UNCHANGED vars PROVE NonceInv'
BY DEF NonceInv, UplinkNonceUnique, vars, activation, counters, sending, history

\* No nonce of the payload cipher and the MIC is used for two uplinks.
THEOREM NonceUnique == Spec => []UplinkNonceUnique
<1>1. TypeOK /\ NonceInv /\ [Next]_vars => NonceInv'
  BY NonceStep, NonceStutter
<1>2. NonceInv => UplinkNonceUnique
  BY DEF NonceInv
<1> QED
  BY NonceInit, TypeCorrect, <1>1, <1>2, PTL DEF Spec
-----------------------------------------------------------------------------
\* Nothing is owed at a reset.
LEMMA AckInit == Init => AckInv
BY DEF Init, AckInv, AckOwed

\* Downlinks make debts, and only the first transmission of a frame pays them.
LEMMA AckStep == ASSUME TypeOK, AckInv, Next PROVE AckInv'
<1> USE DEF AckInv
<1>1. CASE delivered' = <<>> /\ pc' = "idle"
  BY <1>1 DEF AckOwed
<1>2. ASSUME NEW confirmed \in BOOLEAN, NEW len \in Nat, Send(confirmed, len)
      PROVE  AckInv'
  <2>1. /\ call'.frame.session = epoch /\ call'.frame.ack = downlink_ack_pending
        /\ call'.frame.seen = Len(delivered)
    BY <1>2 DEF Send, BuildFrame
  <2> QED
    BY <1>2, <2>1 DEF Send, AckOwed, AckedOnAir, activation
<1>3. ASSUME NEW heard \in BOOLEAN, TxOk(heard) PROVE AckInv'
  <2> DEFINE sent == [frame |-> call.frame, dr |-> call.dr]
  <2>1. /\ pc = "tx" /\ pc' = "rx" /\ on_air' = on_air \cup {sent}
        /\ downlink_ack_pending' = (downlink_ack_pending /\ ~call.frame.ack)
        /\ UNCHANGED <<epoch, delivered>>
    BY <1>3 DEF TxOk, Transmit, activation
  <2>2. sent.frame = call.frame
    OBVIOUS
  <2>3. delivered \in Seq(DeliveryRecord)
    BY DEF TypeOK, HistoryTypeOK
  <2> HIDE DEF sent
  <2>4. ASSUME downlink_ack_pending, NEW i \in DOMAIN delivered PROVE AckedOnAir(i)'
    <3>1. sent.frame.session = epoch /\ sent.frame.seen = Len(delivered)
      BY <2>1, <2>2
    <3>2. sent.frame.ack
      BY <2>1, <2>2, <2>4, Zenon
    <3>3. sent.frame.seen >= i
      BY <2>3, <3>1
    <3> QED
      BY <2>1, <3>1, <3>2, <3>3 DEF AckedOnAir
  <2>5. ASSUME NEW i, AckedOnAir(i) PROVE AckedOnAir(i)'
    BY <2>1, <2>5 DEF AckedOnAir
  <2> QED
    BY <2>1, <2>4, <2>5 DEF AckOwed
<1>4. ASSUME NEW heard \in BOOLEAN, Retransmit(heard) PROVE AckInv'
  <2>1. /\ pc' = "rx" /\ on_air \subseteq on_air'
        /\ UNCHANGED <<epoch, delivered, downlink_ack_pending>>
    BY <1>4 DEF Retransmit, Transmit, activation
  <2> QED
    BY <2>1 DEF AckOwed, AckedOnAir
<1>5. ASSUME NEW d \in issued, Accepting(d) PROVE AckInv'
  <2>1. PICK r : r.confirmed = d.confirmed /\ delivered' = Append(delivered, r)
    BY <1>5 DEF Accepting
  <2>2. /\ pc # "tx" /\ pc' # "tx" /\ UNCHANGED <<epoch, on_air>>
        /\ downlink_ack_pending' = (downlink_ack_pending \/ d.confirmed)
    BY <1>5 DEF Accepting, CallGoesOn
  <2>3. delivered \in Seq(DeliveryRecord)
    BY DEF TypeOK, HistoryTypeOK
  <2>4. ASSUME NEW i \in DOMAIN delivered'
        PROVE  \/ i \in DOMAIN delivered /\ delivered'[i] = delivered[i]
               \/ delivered'[i] = r
    BY <2>1, <2>3
  <2> QED
    BY <2>1, <2>2, <2>4 DEF AckOwed, AckedOnAir
<1>6. ASSUME CallGoesOn,
             UNCHANGED <<epoch, downlink_ack_pending, on_air, delivered>>
      PROVE  AckInv'
  BY <1>6 DEF CallGoesOn, AckOwed, AckedOnAir
<1>7. ASSUME NEW d \in Downs, NEW ack \in BOOLEAN, NetworkSend(d, ack)
      PROVE  CallGoesOn /\ UNCHANGED <<epoch, downlink_ack_pending, on_air, delivered>>
  BY <1>7 DEF NetworkSend, CallGoesOn, sending, activation, acks, history
<1>8. ASSUME NEW k, Activate(k) PROVE delivered' = <<>> /\ pc' = "idle"
  BY <1>8 DEF Activate, sending
<1>9. Restart => delivered' = <<>> /\ pc' = "idle"
  BY DEF Restart
<1> QED
  BY StepKinds, <1>1, <1>2, <1>3, <1>4, <1>5, <1>6, <1>7, <1>8, <1>9 DEF Quiet, history

\* AckInv depends on the variables alone.
LEMMA AckStutter == ASSUME AckInv, UNCHANGED vars PROVE AckInv'
BY DEF AckInv, AckOwed, AckedOnAir, vars, activation, acks, sending, history

\* Every confirmed downlink that was accepted stays owed until a frame built
\* after it carries the ACK bit on the air.
THEOREM AcknowledgementOwed == Spec => []AckOwed
<1>1. TypeOK /\ AckInv /\ [Next]_vars => AckInv'
  BY AckStep, AckStutter
<1>2. AckInv => AckOwed
  BY DEF AckInv
<1> QED
  BY AckInit, TypeCorrect, <1>1, <1>2, PTL DEF Spec
=============================================================================
