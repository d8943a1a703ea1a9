------------------------------ MODULE CallProofs ------------------------------
(***************************************************************************)
(* More theorems about Session, for every value of its constants: what a   *)
(* lorawan_send() reports, one acknowledging uplink a debt, when the       *)
(* back-off lowers the data rate, and the rebuilding of downlink counters. *)
(***************************************************************************)
EXTENDS SessionProofs
-----------------------------------------------------------------------------
(* Downlink counters *)

\* Low parts of two numbers less than one field apart differ by their distance.
LEMMA LowParts ==
  ASSUME NEW l \in Nat, l >= 2, NEW a \in Nat, NEW k \in 0 .. l - 1
  PROVE  (((a + k) % l) - (a % l)) % l = k
<1> DEFINE r == a % l
           s == (a + k) % l
           q == a \div l
           p == (a + k) \div l
<1>1. r \in 0 .. l - 1 /\ q \in Int /\ a = l * q + r
  OBVIOUS
<1>2. s \in 0 .. l - 1 /\ p \in Int /\ a + k = l * p + s
  OBVIOUS
<1> HIDE DEF r, s, q, p
<1>3. PICK m \in Int : m = p - q /\ l * m = l * p - l * q
  BY <1>1, <1>2
<1>4. k = l * m + (s - r)
  BY <1>1, <1>2, <1>3
<1>5. m = 0 \/ m = 1
  <2>1. l * m < 2 * l /\ l * m > -l
    BY <1>1, <1>2, <1>4
  <2>2. m < 2 /\ m > -1
    BY <2>1
  <2> QED
    BY <2>2
<1>6. s - r = k \/ s - r = k - l
  BY <1>1, <1>2, <1>4, <1>5
<1>7. (s - r) % l = k
  <2>1. k % l = k /\ (k - l) % l = k
    OBVIOUS
  <2> QED
    BY <1>6, <2>1
<1> QED
  BY <1>7 DEF r, s

\* A counter in the window is rebuilt exactly, at the wrap of the low bits too.
LEMMA Rebuilt ==
  ASSUME NEW n \in Counter, NEW last \in Counter, InWindow(n, last)
  PROVE  Reconstruct(Lsb(n), last) = n
<1>1. /\ LsbMod \in Nat /\ LsbMod >= 2 /\ FcntMod \in Nat /\ FcntMod > 0
      /\ n \in Nat /\ last \in Nat /\ n < FcntMod
  BY WidthAssumption DEF Counter
<1>2. n - last \in 0 .. LsbMod - 1 /\ n - last < LsbMod \div 2 /\ n = last + (n - last)
  BY <1>1 DEF InWindow
<1>3. Diff(Lsb(n), last) = n - last
  <2>1. PICK k \in 0 .. LsbMod - 1 : k = n - last /\ n = last + k
    BY <1>2
  <2>2. (((last + k) % LsbMod) - (last % LsbMod)) % LsbMod = k
    BY <1>1, LowParts
  <2> QED
    BY <2>1, <2>2 DEF Diff, Lsb
<1>4. (last + (n - last)) % FcntMod = n
  BY <1>1, <1>2
<1> QED
  BY <1>2, <1>3, <1>4 DEF Reconstruct

\* No genuine downlink within half the 16-bit range of the last accepted one is
\* taken for a replay by process_downlink(), whatever was lost in between.
THEOREM InSync == Spec => []InSyncAccepts
<1>1. TypeOK => InSyncAccepts
  <2> SUFFICES ASSUME TypeOK, NEW d \in issued, d.keys = keys, InWindow(d.fcnt, fcnt_down)
               PROVE  Accepts(d)
    BY DEF InSyncAccepts
  <2>1. d.fcnt \in Counter /\ fcnt_down \in Counter
    BY DEF TypeOK, NetworkTypeOK, ActivationTypeOK, Downlink
  <2> QED
    BY <2>1, Rebuilt DEF Accepts, Newer, InWindow
<1> QED
  BY <1>1, TypeCorrect, PTL
-----------------------------------------------------------------------------
(* The running call *)

\* An accepted downlink backs the success of the running (or last) call.
Backed ==
  \E i \in DOMAIN delivered : delivered[i].at = call.frame.id /\ Acknowledges(i)

\* What holds between a call, its transmissions and the network's answers: the
\* network acknowledges an uplink it heard, and the call's acknowledgement is one
\* of the accepted downlinks.
CallInv ==
  /\ \A d \in issued : d.answers # 0 =>
       \E t \in on_air : /\ t.frame.id = d.answers /\ t.frame.confirmed
                         /\ t.frame.keys = d.keys
  /\ call.heard => \E t \in on_air : t.frame = call.frame
  /\ call.frame.session <= epoch
  /\ call.acked /\ call.frame.session = epoch => Backed
  /\ pc = "idle" /\ send_ret = "OK" /\ call.frame.confirmed => call.acked

\* Downlinks, transmissions and deliveries are added to the records of a session.
Grows ==
  /\ UNCHANGED <<keys, epoch>>
  /\ on_air \subseteq on_air' /\ issued \subseteq issued'
  /\ delivered' = delivered \/ \E r : delivered' = Append(delivered, r)

\* A step outside the running call: it stays as it is.
Outside ==
  /\ UNCHANGED <<pc, call, issued, on_air>>
  /\ send_ret' = send_ret \/ send_ret' # "OK"
  /\ Grows \/ epoch' = epoch + 1

\* A step of lorawan_send() that neither sends nor hears anything.
Waits ==
  /\ UNCHANGED <<call, issued, on_air>> /\ Grows /\ pc # "idle"
  /\ pc' = "idle" /\ send_ret' = "OK" /\ call.frame.confirmed => call.acked

\* Seen from the running call, a step is one of these.
LEMMA CallSteps ==
  ASSUME TypeOK, Next
  PROVE  \/ Outside \/ Waits \/ Restart
         \/ \E confirmed \in BOOLEAN, len \in Nat : Send(confirmed, len)
         \/ \E heard \in BOOLEAN : TxOk(heard) \/ Retransmit(heard)
         \/ \E d \in issued : Receive(d)
         \/ \E d \in Downs, ack \in BOOLEAN : NetworkSend(d, ack)
<1> USE DEF Grows
<1>1. CASE JoinOtaa \/ JoinAbp
  BY <1>1 DEF JoinOtaa, JoinAbp, Activate, sending, network, Outside
<1>2. CASE Configure \/ JoinFails
  BY <1>2 DEF Configure, EnableAdr, SetConfMsgTries, SetDatarate, SetClass, ClassCThreadEnds,
              JoinFails, activation, sending, network, history, Outside
<1>3. CASE Start
  <2>1. ASSUME NEW len, Refuse(len) PROVE Outside
    BY <2>1 DEF Refuse, activation, network, history, Outside
  <2>2. CASE \E confirmed \in MsgTypes, len \in Lengths : AppSend(confirmed, len)
    BY <2>2, SessionAssumption DEF AppSend
  <2>3. CASE \E len \in Lengths : SendRefused(len)
    BY <2>1, <2>3 DEF SendRefused
  <2>4. CASE AckWorkRuns
    <3>1. FALSE \in BOOLEAN /\ 0 \in Nat
      OBVIOUS
    <3> QED
      BY <2>1, <2>4, <3>1, Zenon DEF AckWorkRuns
  <2> QED
    BY <1>3, <2>2, <2>3, <2>4 DEF Start
<1>4. CASE TxFail \/ RxSilent \/ ListenTimeout
  BY <1>4 DEF TxFail, RxSilent, ListenTimeout, activation, network, history, Waits
<1>5. CASE RetransmitFails
  BY <1>5 DEF RetransmitFails, Finish, activation, network, history, Waits
<1>6. CASE Return
  BY <1>6 DEF Return, Finish, activation, network, history, Waits
<1>7. ASSUME NEW d \in issued, ClassCReceive(d) PROVE Outside
  BY <1>7 DEF ClassCReceive, Accept, activation, sending, network, Outside
<1>8. CASE Activation
  BY <1>1, <1>2, <1>8 DEF Activation
<1>9. CASE Network
  BY <1>9 DEF Network
<1>10. CASE Progress
  BY <1>4, <1>5, <1>6, <1>10 DEF Progress
<1> QED
  BY <1>2, <1>3, <1>7, <1>8, <1>9, <1>10 DEF Next

\* The fields of a well-typed call and of the downlinks that answer it.
LEMMA CallFields ==
  ASSUME TypeOK
  PROVE  /\ call \in Call /\ call.frame.id \in Nat /\ call.frame.session \in Nat
         /\ call.acked \in BOOLEAN /\ call.heard \in BOOLEAN
         /\ calls \in Nat /\ epoch \in Nat
         /\ delivered \in Seq(DeliveryRecord) /\ Len(delivered) \in Nat
<1>1. call \in Call /\ calls \in Nat /\ epoch \in Nat
  BY SessionAssumption DEF TypeOK, CallTypeOK, HistoryTypeOK, ActivationTypeOK
<1>2. call.frame \in Frame /\ call.acked \in BOOLEAN /\ call.heard \in BOOLEAN
  BY <1>1 DEF Call
<1>3. call.frame.id \in Nat /\ call.frame.session \in Nat
  BY <1>2, SessionAssumption DEF Frame
<1>4. delivered \in Seq(DeliveryRecord) /\ Len(delivered) \in Nat
  BY DEF TypeOK, HistoryTypeOK
<1> QED
  BY <1>1, <1>2, <1>3, <1>4

\* What backs a call backs it while the session lasts.
LEMMA BackedStays ==
  ASSUME TypeOK, Backed, Grows, call'.frame = call.frame
  PROVE  Backed'
<1>1. PICK i \in DOMAIN delivered : delivered[i].at = call.frame.id /\ Acknowledges(i)
  BY DEF Backed
<1>2. i \in DOMAIN delivered' /\ delivered'[i] = delivered[i]
  <2>1. delivered \in Seq(DeliveryRecord)
    BY CallFields
  <2>2. delivered' = delivered \/ \E r : delivered' = Append(delivered, r)
    BY DEF Grows
  <2> QED
    BY <2>1, <2>2
<1>3. Acknowledges(i)'
  BY <1>1, <1>2 DEF Acknowledges, Grows
<1> QED
  BY <1>1, <1>2, <1>3 DEF Backed

\* A transmission of the running frame is recorded and may be heard.
LEMMA TransmitFields ==
  ASSUME TypeOK, NEW dr, NEW retry_dr, NEW heard \in BOOLEAN, Transmit(dr, retry_dr, heard)
  PROVE  /\ call'.acked = call.acked /\ call'.frame = call.frame
         /\ pc' = "rx" /\ UNCHANGED issued /\ Grows
         /\ \E t \in on_air' : t.frame = call.frame
<1>1. /\ on_air' = on_air \cup {[frame |-> call.frame, dr |-> dr]} /\ pc' = "rx"
      /\ UNCHANGED <<keys, epoch, issued, delivered>>
  BY DEF Transmit, activation, network
<1>2. call'.acked = call.acked /\ call'.frame = call.frame
  BY CallFields DEF Transmit, Call
<1>3. [frame |-> call.frame, dr |-> dr] \in on_air'
  BY <1>1
<1>4. Grows
  BY <1>1 DEF Grows
<1> QED
  BY <1>1, <1>2, <1>3, <1>4

\* Every step of lorawan_send(), of the application and of the network keeps CallInv.
LEMMA CallStep == ASSUME TypeOK, NonceInv, CallInv, Next PROVE CallInv'
<1> USE CallFields
<1>1. CASE Outside
  <2>1. CASE Grows
    BY <1>1, <2>1, BackedStays DEF Outside, CallInv, Grows
  <2>2. CASE epoch' = epoch + 1
    BY <1>1, <2>2 DEF Outside, CallInv
  <2> QED
    BY <1>1, <2>1, <2>2 DEF Outside
<1>2. CASE Waits
  BY <1>2, BackedStays DEF Waits, CallInv, Grows
<1>3. CASE Restart
  <2>1. /\ send_ret' = "none" /\ UNCHANGED <<epoch, issued, on_air>>
        /\ call'.frame.session = 0 /\ call'.acked = FALSE /\ call'.heard = FALSE
    BY <1>3 DEF Restart, NoCall, network
  <2> QED
    BY <2>1 DEF CallInv
<1>4. ASSUME NEW confirmed \in BOOLEAN, NEW len \in Nat, Send(confirmed, len) PROVE CallInv'
  <2>1. /\ pc' = "tx" /\ UNCHANGED <<epoch, issued, on_air>>
        /\ call'.frame.session = epoch /\ call'.acked = FALSE /\ call'.heard = FALSE
    BY <1>4 DEF Send, BuildFrame, activation, network
  <2> QED
    BY <2>1 DEF CallInv
<1>5. ASSUME NEW dr, NEW retry_dr, NEW heard \in BOOLEAN, Transmit(dr, retry_dr, heard)
      PROVE  CallInv'
  <2>1. /\ call'.acked = call.acked /\ call'.frame = call.frame
        /\ pc' = "rx" /\ UNCHANGED issued /\ Grows
        /\ \E t \in on_air' : t.frame = call.frame
    BY <1>5, TransmitFields
  <2> QED
    BY <2>1, BackedStays DEF CallInv, Grows
<1>6. ASSUME NEW d \in issued, Receive(d) PROVE CallInv'
  <2>1. /\ pc # "idle" /\ pc' # "idle"
        /\ call'.frame = call.frame /\ call'.heard = call.heard
        /\ call'.acked => call.acked \/ d.answers # 0
        /\ UNCHANGED <<issued, on_air>>
    BY <1>6 DEF Receive, Accept, Call, network
  <2> DEFINE r == [fcnt |-> d.fcnt, confirmed |-> d.confirmed, payload |-> d.payload,
                   at |-> calls]
  <2>2. /\ r.at = calls /\ r.fcnt = d.fcnt /\ delivered' = Append(delivered, r)
        /\ d.keys = keys /\ Grows
    BY <1>6 DEF Receive, Accept, Accepts, activation, network, Grows
  <2> HIDE DEF r
  <2>3. call.frame.id = calls
    BY <2>1 DEF NonceInv
  <2>4. CASE d.answers # 0
    <3>1. PICK t \in on_air : /\ t.frame.id = d.answers /\ t.frame.confirmed
                              /\ t.frame.keys = d.keys
      BY <2>4 DEF CallInv
    <3>2. PICK n \in DOMAIN delivered' : delivered'[n] = r
      <4>1. delivered \in Seq(DeliveryRecord)
        OBVIOUS
      <4> QED
        BY <2>2, <4>1
    <3>3. Acknowledges(n)'
      BY <2>1, <2>2, <3>1, <3>2 DEF Acknowledges, Grows
    <3>4. Backed'
      BY <2>1, <2>2, <2>3, <3>2, <3>3 DEF Backed
    <3> QED
      BY <2>1, <2>2, <3>4 DEF CallInv, Grows
  <2>5. CASE d.answers = 0
    BY <2>1, <2>2, <2>5, BackedStays DEF CallInv, Grows
  <2> QED
    BY <2>4, <2>5
<1>7. ASSUME NEW d \in Downs, NEW ack \in BOOLEAN, NetworkSend(d, ack) PROVE CallInv'
  <2>1. UNCHANGED <<pc, call, send_ret, on_air>> /\ Grows
    BY <1>7 DEF NetworkSend, activation, sending, history, Grows
  <2>2. ASSUME NEW e \in issued', e.answers # 0
        PROVE  \E t \in on_air : /\ t.frame.id = e.answers /\ t.frame.confirmed
                                 /\ t.frame.keys = e.keys
    <3>1. CASE e \in issued
      BY <2>2, <3>1 DEF CallInv
    <3>2. CASE e \notin issued
      <4>1. /\ ack /\ call.heard /\ call.frame.confirmed /\ call.frame.keys = keys
            /\ e.answers = call.frame.id /\ e.keys = keys
        BY <1>7, <2>2, <3>2 DEF NetworkSend
      <4> QED
        BY <4>1 DEF CallInv
    <3> QED
      BY <3>1, <3>2
  <2> QED
    BY <2>1, <2>2, BackedStays DEF CallInv, Grows
<1>8. ASSUME NEW heard \in BOOLEAN, TxOk(heard) \/ Retransmit(heard) PROVE CallInv'
  BY <1>5, <1>8 DEF TxOk, Retransmit
<1> QED
  BY CallSteps, <1>1, <1>2, <1>3, <1>4, <1>6, <1>7, <1>8

\* Nothing was sent at a reset.
LEMMA CallInit == Init => CallInv
BY DEF Init, CallInv, NoCall

\* CallInv depends on the variables alone.
LEMMA CallStutter == ASSUME CallInv, UNCHANGED vars PROVE CallInv'
BY DEF CallInv, Backed, Acknowledges, vars, activation, sending, network, history

\* lorawan_send() reports success of a confirmed uplink only with an acknowledgement
\* accepted during the call and made by the network for an uplink it heard under the
\* same keys, through retransmissions, late and repeated downlinks, joins and resets.
THEOREM OutcomeJustified == Spec => []OutcomeBacked
<1>1. CallInv => OutcomeBacked
  BY DEF CallInv, OutcomeBacked, Backed
<1>2. TypeOK /\ NonceInv /\ CallInv /\ [Next]_vars => CallInv'
  BY CallStep, CallStutter
<1>3. TypeOK /\ NonceInv /\ [Next]_vars => NonceInv'
  BY NonceStep, NonceStutter
<1> QED
  BY <1>1, <1>2, <1>3, CallInit, NonceInit, TypeCorrect, PTL DEF Spec
-----------------------------------------------------------------------------
(* One acknowledging uplink a debt *)

\* A confirmed downlink that was accepted after the first n and up to the m-th.
Debt(n, m) == \E i \in n + 1 .. m : delivered[i].confirmed

\* While an acknowledgement is owed, it is owed for a downlink that no
\* acknowledging frame of this activation had seen.
OnceInv ==
  /\ \A t \in on_air : t.frame.session <= epoch
  /\ keys # NoKeys =>
       \A t \in on_air : t.frame.session = epoch /\ t.frame.ack =>
         /\ t.frame.seen <= Len(delivered)
         /\ downlink_ack_pending => Debt(t.frame.seen, Len(delivered))
  /\ AckOnce

\* Every step keeps debts and acknowledging frames apart.
LEMMA OnceStep ==
  ASSUME TypeOK, NonceInv, AckInv, OnceInv, Next
  PROVE  OnceInv'
<1>0. /\ epoch \in Nat /\ delivered \in Seq(DeliveryRecord) /\ Len(delivered) \in Nat
      /\ downlink_ack_pending \in BOOLEAN
      /\ \A t \in on_air : t.frame.session \in Nat /\ t.frame.seen \in Nat /\ t.frame.id \in Nat
  <2>1. \A t \in on_air : t.frame \in Frame
    BY DEF TypeOK, HistoryTypeOK
  <2>2. \A f \in Frame : f.session \in Nat /\ f.seen \in Nat /\ f.id \in Nat
    BY SessionAssumption DEF Frame
  <2>3. epoch \in Nat /\ downlink_ack_pending \in BOOLEAN
    BY SessionAssumption DEF TypeOK, ActivationTypeOK, ContextTypeOK
  <2>4. delivered \in Seq(DeliveryRecord)
    BY DEF TypeOK, HistoryTypeOK
  <2>5. Len(delivered) \in Nat
    BY <2>4
  <2> QED
    BY <2>1, <2>2, <2>3, <2>4, <2>5
<1>1. ASSUME NEW k, Activate(k) PROVE OnceInv'
  <2>1. epoch' = epoch + 1 /\ UNCHANGED on_air
    BY <1>1 DEF Activate
  <2>2. \A t \in on_air : t.frame.session <= epoch /\ t.frame.session # epoch'
    BY <1>0, <2>1 DEF OnceInv
  <2> QED
    BY <1>0, <2>1, <2>2 DEF OnceInv, AckOnce
<1>2. CASE Restart
  <2>1. keys' = NoKeys /\ UNCHANGED <<epoch, on_air>>
    BY <1>2 DEF Restart
  <2> QED
    BY <2>1 DEF OnceInv, AckOnce
<1>3. CASE UNCHANGED <<keys, epoch, on_air, delivered, downlink_ack_pending>>
  BY <1>3 DEF OnceInv, AckOnce, Debt
<1>4. ASSUME NEW confirmed, NEW len, Send(confirmed, len)
      PROVE  UNCHANGED <<keys, epoch, on_air, delivered, downlink_ack_pending>>
  BY <1>4 DEF Send, activation
<1>5. ASSUME NEW heard \in BOOLEAN, TxOk(heard) PROVE OnceInv'
  <2> DEFINE f == call.frame
  <2>1. /\ pc = "tx" /\ UNCHANGED <<keys, epoch, delivered>>
        /\ \A t \in on_air' : t \in on_air \/ t.frame = f
        /\ downlink_ack_pending' = (downlink_ack_pending /\ ~f.ack)
    BY <1>5 DEF TxOk, Transmit, activation
  <2>2. /\ f.session = epoch /\ f.seen = Len(delivered) /\ f.ack = downlink_ack_pending
        /\ \A t \in on_air : t.frame.id < f.id
        /\ f.id \in Nat
    <3>1. /\ f.session = epoch /\ f.seen = Len(delivered) /\ f.ack = downlink_ack_pending
          /\ \A t \in on_air : t.frame.id < f.id
      BY <2>1 DEF AckInv, NonceInv
    <3> QED
      BY <3>1, CallFields
  <2> HIDE DEF f
  <2>3. downlink_ack_pending' = FALSE
    BY <1>0, <2>1, <2>2, Zenon
  <2>4. ASSUME NEW t \in on_air' PROVE t.frame.session <= epoch
    BY <1>0, <2>1, <2>2, <2>4 DEF OnceInv
  <2>5. ASSUME keys # NoKeys, NEW t \in on_air', t.frame.session = epoch, t.frame.ack
        PROVE  t.frame.seen <= Len(delivered)
    BY <1>0, <2>1, <2>2, <2>5 DEF OnceInv
  <2>6. AckOnce'
    <3> SUFFICES ASSUME keys # NoKeys, NEW t \in on_air', NEW u \in on_air',
                        t.frame.session = epoch, u.frame.session = epoch,
                        t.frame.ack, u.frame.ack, t.frame.id < u.frame.id
                 PROVE  Debt(t.frame.seen, u.frame.seen)
      BY <2>1 DEF AckOnce, Debt
    <3>1. CASE t \in on_air /\ u \in on_air
      BY <3>1 DEF OnceInv, AckOnce, Debt
    <3>2. CASE t.frame = f
      BY <1>0, <2>1, <2>2, <3>2
    <3>3. CASE t \in on_air /\ u.frame = f
      <4>1. downlink_ack_pending
        BY <2>2, <3>3, Zenon
      <4> QED
        BY <2>2, <3>3, <4>1 DEF OnceInv
    <3> QED
      BY <2>1, <3>1, <3>2, <3>3
  <2> QED
    BY <2>1, <2>3, <2>4, <2>5, <2>6 DEF OnceInv
<1>6. ASSUME NEW heard \in BOOLEAN, Retransmit(heard) PROVE OnceInv'
  <2>1. /\ pc = "settle" /\ UNCHANGED <<keys, epoch, delivered, downlink_ack_pending>>
        /\ \A t \in on_air' : t \in on_air \/ t.frame = call.frame
    BY <1>6 DEF Retransmit, Transmit, activation
  <2>2. PICK v \in on_air : v.frame = call.frame
    BY <2>1 DEF NonceInv
  <2>3. \A t \in on_air' : \E w \in on_air : w.frame = t.frame
    BY <2>1, <2>2
  <2>4. AckOnce'
    BY <2>1, <2>3 DEF OnceInv, AckOnce
  <2> QED
    BY <2>1, <2>3, <2>4 DEF OnceInv, Debt
<1>7. ASSUME NEW d \in issued, Accepting(d) PROVE OnceInv'
  <2>1. PICK r : r.confirmed = d.confirmed /\ delivered' = Append(delivered, r)
    BY <1>7 DEF Accepting
  <2>2. /\ UNCHANGED <<keys, epoch, on_air>>
        /\ downlink_ack_pending' => downlink_ack_pending \/ d.confirmed
    BY <1>7 DEF Accepting
  <2>3. /\ Len(delivered') = Len(delivered) + 1 /\ delivered'[Len(delivered) + 1] = r
        /\ \A i \in 1 .. Len(delivered) : delivered'[i] = delivered[i]
    BY <1>0, <2>1
  <2>4. ASSUME keys # NoKeys, NEW t \in on_air, t.frame.session = epoch, t.frame.ack
        PROVE  /\ t.frame.seen <= Len(delivered')
               /\ downlink_ack_pending' => Debt(t.frame.seen, Len(delivered))'
    <3>1. t.frame.seen \in Nat /\ t.frame.seen <= Len(delivered)
      BY <1>0, <2>4 DEF OnceInv
    <3>2. CASE d.confirmed
      <4>1. Len(delivered) + 1 \in t.frame.seen + 1 .. Len(delivered')
        BY <1>0, <2>3, <3>1
      <4>2. \E i \in t.frame.seen + 1 .. Len(delivered') : delivered'[i].confirmed
        BY <2>1, <2>3, <3>2, <4>1
      <4> QED
        BY <1>0, <2>2, <2>3, <3>1, <4>2 DEF Debt
    <3>3. CASE downlink_ack_pending
      <4>1. PICK i \in t.frame.seen + 1 .. Len(delivered) : delivered[i].confirmed
        BY <2>4, <3>3 DEF OnceInv, Debt
      <4>2. i \in t.frame.seen + 1 .. Len(delivered') /\ i \in 1 .. Len(delivered)
        BY <1>0, <2>3, <3>1
      <4> QED
        BY <1>0, <2>2, <2>3, <3>1, <4>1, <4>2 DEF Debt
    <3> QED
      BY <1>0, <2>2, <2>3, <3>1, <3>2, <3>3
  <2>5. AckOnce'
    <3> SUFFICES ASSUME keys # NoKeys, NEW t \in on_air, NEW u \in on_air,
                        t.frame.session = epoch, u.frame.session = epoch,
                        t.frame.ack, u.frame.ack, t.frame.id < u.frame.id
                 PROVE  \E i \in t.frame.seen + 1 .. u.frame.seen : delivered'[i].confirmed
      BY <2>2 DEF AckOnce
    <3>1. PICK i \in t.frame.seen + 1 .. u.frame.seen : delivered[i].confirmed
      BY DEF OnceInv, AckOnce
    <3>2. u.frame.seen <= Len(delivered) /\ t.frame.seen \in Nat /\ u.frame.seen \in Nat
      BY <1>0 DEF OnceInv
    <3>3. i \in 1 .. Len(delivered)
      BY <1>0, <3>1, <3>2
    <3> QED
      BY <2>3, <3>1, <3>3
  <2> QED
    BY <2>2, <2>4, <2>5 DEF OnceInv
<1>8. ASSUME NEW d \in Downs, NEW ack \in BOOLEAN, NetworkSend(d, ack)
      PROVE  UNCHANGED <<keys, epoch, on_air, delivered, downlink_ack_pending>>
  BY <1>8 DEF NetworkSend, activation, acks, history
<1>9. Quiet => UNCHANGED <<keys, epoch, on_air, delivered, downlink_ack_pending>>
  BY DEF Quiet, history
<1> QED
  BY StepKinds, <1>1, <1>2, <1>3, <1>4, <1>5, <1>6, <1>7, <1>8, <1>9

\* OnceInv depends on the variables alone.
LEMMA OnceStutter == ASSUME OnceInv, UNCHANGED vars PROVE OnceInv'
BY DEF OnceInv, AckOnce, Debt, vars, activation, acks, history

\* No two uplinks of an activation acknowledge without a confirmed downlink
\* accepted between them: one debt is paid once, whatever failed or was repeated.
THEOREM AcknowledgedOnce == Spec => []AckOnce
<1>1. Init => OnceInv
  BY DEF Init, OnceInv, AckOnce
<1>2. TypeOK /\ NonceInv /\ AckInv /\ OnceInv /\ [Next]_vars => OnceInv'
  BY OnceStep, OnceStutter
<1>3. TypeOK /\ NonceInv /\ [Next]_vars => NonceInv'
  BY NonceStep, NonceStutter
<1>4. TypeOK /\ AckInv /\ [Next]_vars => AckInv'
  BY AckStep, AckStutter
<1>5. OnceInv => AckOnce
  BY DEF OnceInv
<1> QED
  BY NonceInit, AckInit, TypeCorrect, <1>1, <1>2, <1>3, <1>4, <1>5, PTL DEF Spec
-----------------------------------------------------------------------------
(* The back-off *)

\* The uplink being transmitted, already counted by the device but not as silent.
Pending(n) == IF pc = "tx" /\ adr_enabled /\ adr_ack_cnt >= n THEN 1 ELSE 0

\* adr_ack_cnt has counted at most the silent uplinks, and those from the limit on
\* asked the network for an answer.
SilenceInv ==
  /\ adr_ack_cnt <= silence.sent + silence.lost + Pending(1)
  /\ adr_ack_cnt <= AdrLimit - 1 + silence.asked + silence.lost + Pending(AdrLimit)
  /\ pc = "tx" /\ adr_enabled => call.frame.adr_ack_req = (adr_ack_cnt >= AdrLimit)

\* The count of the device and the one of the history stay, or a running
\* transmission is not touched.
CountsStay ==
  /\ UNCHANGED <<adr_ack_cnt, silence>>
  /\ \/ UNCHANGED <<pc, adr_enabled>> /\ call'.frame = call.frame
     \/ pc # "tx" /\ pc' # "tx"

\* Both counts start anew, outside a transmission.
CountsReset ==
  adr_ack_cnt' = 0 /\ silence' = NoSilence /\ pc' # "tx"

\* Seen from the count of silent uplinks, a step is one of these.
LEMMA CountSteps ==
  ASSUME TypeOK, [Next]_vars
  PROVE  \/ CountsStay \/ CountsReset
         \/ \E confirmed, len : Send(confirmed, len)
         \/ pc = "tx" /\ pc' # "tx" /\ (CountsSent \/ CountsLost) /\ UNCHANGED adr_ack_cnt
<1> USE DEF adr, history, CountsStay
<1>1. CASE UNCHANGED vars
  BY <1>1 DEF vars, sending, settings
<1>2. CASE Activation
  BY <1>2 DEF Activation, JoinOtaa, JoinAbp, Activate, JoinFails, Restart, CountsReset,
              sending, settings
<1>3. CASE Configure
  BY <1>3 DEF Configure, EnableAdr, SetConfMsgTries, SetDatarate, SetClass, ClassCThreadEnds,
              sending
<1>4. CASE Network
  BY <1>4 DEF Network, NetworkSend, sending, settings
<1>5. CASE Start
  BY <1>5 DEF Start, AppSend, SendRefused, Refuse, AckWorkRuns, settings
<1>6. ASSUME NEW d \in issued, Accept(d), pc # "tx", pc' # "tx"
      PROVE  CountsStay \/ CountsReset
  BY <1>6 DEF Accept, CountsReset
<1>7. ASSUME NEW d \in issued, Receive(d) PROVE CountsStay \/ CountsReset
  BY <1>6, <1>7 DEF Receive
<1>8. ASSUME NEW d \in issued, ClassCReceive(d) PROVE CountsStay \/ CountsReset
  BY <1>6, <1>8 DEF ClassCReceive, sending
<1>9. ASSUME NEW heard, Retransmit(heard) PROVE CountsStay
  BY <1>9 DEF Retransmit, Transmit
<1>10. CASE Progress
  BY <1>7, <1>9, <1>10 DEF Progress, TxOk, Transmit, TxFail, RxSilent, ListenTimeout,
              RetransmitFails, Return, Finish
<1> QED
  BY <1>1, <1>2, <1>3, <1>4, <1>5, <1>8, <1>10 DEF Next

\* The types the counting needs.
LEMMA CountTypes ==
  ASSUME TypeOK
  PROVE  /\ adr_ack_cnt \in Nat /\ adr_enabled \in BOOLEAN
         /\ AdrLimit \in Nat \ {0} /\ AdrDelay \in Nat \ {0}
         /\ silence \in Silence
         /\ silence.sent \in Nat /\ silence.asked \in Nat /\ silence.lost \in Nat
         /\ calls \in Nat /\ current_dr \in Nat
<1>1. /\ adr_ack_cnt \in AdrCount /\ adr_enabled \in BOOLEAN /\ current_dr \in DataRate
      /\ silence \in Silence /\ calls \in 0 .. MaxCalls
  BY DEF TypeOK, ContextTypeOK, HistoryTypeOK
<1>2. silence.sent \in Nat /\ silence.asked \in Nat /\ silence.lost \in Nat
  BY <1>1 DEF Silence
<1> QED
  BY <1>1, <1>2, SessionAssumption DEF AdrCount, DataRate

\* A built frame is pending, a sent one is counted, a back-off or a payload starts anew.
LEMMA CountStep ==
  ASSUME TypeOK, SilenceInv, [Next]_vars PROVE SilenceInv'
<1> USE CountTypes DEF SilenceInv
<1>1. CASE CountsStay
  BY <1>1 DEF CountsStay, Pending
<1>2. CASE CountsReset
  BY <1>2 DEF CountsReset, NoSilence, Pending
<1>3. ASSUME NEW confirmed, NEW len, Send(confirmed, len) PROVE SilenceInv'
  <2>1. /\ pc = "idle" /\ pc' = "tx" /\ adr_enabled' = adr_enabled
        /\ adr_ack_cnt' = NextAdrAckCnt
        /\ silence' = IF BacksOff THEN NoSilence ELSE silence
    BY <1>3 DEF Send, settings
  <2>a. adr_enabled => call'.frame.adr_ack_req = (adr_ack_cnt' >= AdrLimit)
    BY <1>3 DEF Send, BuildFrame
  <2>2. CASE BacksOff
    <3>1. adr_ack_cnt' = 0 /\ silence' = NoSilence
      BY <2>1, <2>2 DEF NextAdrAckCnt
    <3> QED
      BY <2>1, <2>a, <3>1 DEF NoSilence, Pending
  <2>3. CASE ~BacksOff /\ adr_enabled
    <3>1. adr_ack_cnt' = adr_ack_cnt + 1 /\ silence' = silence
      BY <2>1, <2>3 DEF NextAdrAckCnt
    <3> QED
      BY <2>1, <2>a, <2>3, <3>1 DEF Pending
  <2>4. CASE ~BacksOff /\ ~adr_enabled
    <3>1. adr_ack_cnt' = adr_ack_cnt /\ silence' = silence
      BY <2>1, <2>4 DEF NextAdrAckCnt
    <3> QED
      BY <2>1, <2>a, <2>4, <3>1 DEF Pending
  <2> QED
    BY <2>2, <2>3, <2>4
<1>4. CASE pc = "tx" /\ pc' # "tx" /\ (CountsSent \/ CountsLost) /\ UNCHANGED adr_ack_cnt
  <2>1. CASE ~adr_enabled
    BY <1>4, <2>1 DEF CountsSent, CountsLost, Pending
  <2>2. CASE adr_enabled /\ CountsSent
    <3>1. /\ silence'.sent = silence.sent + 1 /\ silence'.lost = silence.lost
          /\ silence'.asked = IF adr_ack_cnt >= AdrLimit THEN silence.asked + 1
                                                         ELSE silence.asked
      BY <1>4, <2>2 DEF CountsSent, Silence
    <3> QED
      BY <1>4, <2>2, <3>1 DEF Pending
  <2>3. CASE adr_enabled /\ CountsLost
    <3>1. /\ silence'.sent = silence.sent /\ silence'.lost = silence.lost + 1
          /\ silence'.asked = silence.asked
      BY <1>4, <2>3 DEF CountsLost, Silence
    <3> QED
      BY <1>4, <2>3, <3>1 DEF Pending
  <2> QED
    BY <1>4, <2>1, <2>2, <2>3
<1> QED
  BY CountSteps, <1>1, <1>2, <1>3, <1>4

\* lorawan_send() lowers the data rate at the limit only.
LEMMA BackoffStep ==
  ASSUME TypeOK, SilenceInv, [Next]_vars, calls' > calls, current_dr' < current_dr
  PROVE  /\ silence.sent + silence.lost + 1 >= AdrLimit + AdrDelay
         /\ silence.asked + silence.lost >= AdrDelay
<1>1. PICK confirmed, len : Send(confirmed, len)
  <2>1. calls' # calls
    BY CountTypes
  <2> QED
    BY <2>1, StepKinds DEF vars, history, Activate, Restart, TxOk, Retransmit,
       Transmit, Accepting, NetworkSend, Quiet
<1>2. pc = "idle" /\ current_dr' = NextDr
  BY <1>1 DEF Send
<1>3. adr_ack_cnt + 1 >= AdrLimit + AdrDelay
  BY <1>2, CountTypes DEF NextDr, BacksOff
<1> QED
  BY <1>2, <1>3, CountTypes DEF SilenceInv, Pending

\* The back-off lowers the data rate only after AdrLimit + AdrDelay uplinks with the ADR
\* bit, AdrDelay of them asking for an answer, without a payload from the network in
\* between, for every limit, delay and data rate: the count survives a join, ADR switched
\* off and on, and counts an uplink whose transmission failed.
THEOREM BackoffJustified == Spec => BackoffAfterSilence
<1>1. Init => SilenceInv
  BY SessionAssumption DEF Init, SilenceInv, NoSilence, Pending
<1>2. TypeOK /\ SilenceInv /\ [Next]_vars => SilenceInv'
  BY CountStep
<1>3. TypeOK /\ SilenceInv /\ [Next]_vars =>
        [calls' > calls /\ current_dr' < current_dr =>
           /\ silence.sent + silence.lost + 1 >= AdrLimit + AdrDelay
           /\ silence.asked + silence.lost >= AdrDelay]_vars
  BY BackoffStep
<1> QED
  BY <1>1, <1>2, <1>3, TypeCorrect, PTL DEF Spec, BackoffAfterSilence
=============================================================================
