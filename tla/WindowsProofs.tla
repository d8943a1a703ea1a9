---------------------------- MODULE WindowsProofs ----------------------------
(***************************************************************************)
(* What an activation and a change of the windows leave the device and the *)
(* network agreed on, for every build, channel plan and answer.            *)
(***************************************************************************)
EXTENDS Windows, TLAPS

\* What a running call is known to be.
CallInv ==
  /\ DOMAIN call = DOMAIN NoCall /\ DOMAIN answer = DOMAIN NoAnswer
  /\ pc = "idle" => call = NoCall /\ answer = NoAnswer
  /\ pc # "idle" => \/ call.kind = "join" /\ state = "JOINING"
                    \/ call.kind = "data" /\ state = "JOINED"
  /\ pc = "settle" => call.kind = "data"

\* A Join-Request that the network has answered is the one its keys are made of.
JoinInv ==
  /\ SessionAgrees
  /\ call.kind = "join" /\ answer.fate # "none" =>
       net_keys = [nonce |-> call.nonce, join |-> joins] /\ applied = {}

SessionInv == CallInv /\ JoinInv

\* A step that leaves the call's identity alone and makes no answer.
SameCall ==
  /\ DOMAIN call' = DOMAIN call /\ DOMAIN answer' = DOMAIN answer
  /\ call'.kind = call.kind /\ call'.nonce = call.nonce
  /\ call'.tells = call.tells /\ call'.answered = call.answered
  /\ answer'.fate # "none" => answer.fate # "none" /\ answer'.holds = answer.holds

\* A change is answered until the network has heard of it; a frame that comes in
\* reply to an uplink with every repeated answer finds none unheard.
ToldInv ==
  /\ applied \subseteq asked /\ unanswered \subseteq asked
  /\ call.kind = "data" /\ answer.fate # "none" =>
       call.answered /\ Moves(answer.holds) \subseteq asked
  /\ call.kind = "data" /\ answer.fate # "none" /\ pc \in {"rx1", "rx2", "received"} =>
       \/ applied \cap unanswered = {}
       \/ "untold" \in apart \/ ~(sticky \subseteq call.tells)
  /\ ChangeToldOn
-----------------------------------------------------------------------------
(* What the steps of a running call leave alone *)

\* A transmission computes windows and forgets the last answer.
LEMMA TransmissionSameCall ==
  ASSUME CallInv, NEW freq, TxOk(freq)
  PROVE  SameCall
BY DEF CallInv, TxOk, WithWindows, SameCall, NoCall, NoAnswer, Silence, Rx1Window, Rx2Window

\* A window that ends marks the network's frame as heard or missed.
LEMMA OverSameAnswer ==
  ASSUME CallInv, NEW fate
  PROVE  /\ DOMAIN Over(fate) = DOMAIN answer
         /\ Over(fate).holds = answer.holds
         /\ Over(fate).fate # "none" => answer.fate # "none"
BY DEF CallInv, Over, NoAnswer

\* So the reception leaves the call and the network's frame what they are.
LEMMA ReceptionSameCall ==
  ASSUME CallInv, NEW ok,
         Receives(ok) \/ ReceivesForeign(ok) \/ TimesOut(ok)
  PROVE  SameCall
<1>1. \/ call' = [call EXCEPT !.fault = IF ok THEN @ ELSE TRUE]
      \/ call' = [call EXCEPT !.foreign = TRUE, !.fault = IF ok THEN @ ELSE TRUE]
  BY DEF Receives, ReceivesForeign, TimesOut
<1>2. answer' = answer \/ answer' = Over("heard") \/ answer' = Over("missed")
  BY DEF Receives, ReceivesForeign, TimesOut
<1>3. /\ DOMAIN call' = DOMAIN call
      /\ call'.kind = call.kind /\ call'.nonce = call.nonce
      /\ call'.tells = call.tells /\ call'.answered = call.answered
  BY <1>1 DEF CallInv, NoCall
<1>4. /\ DOMAIN answer' = DOMAIN answer
      /\ answer'.fate # "none" => answer.fate # "none" /\ answer'.holds = answer.holds
  BY <1>2, OverSameAnswer
<1> QED
  BY <1>3, <1>4 DEF SameCall

\* A repetition may lower the data rate and with it RX1.
LEMMA RepetitionSameCall ==
  ASSUME CallInv, NEW lower, Repeat(lower)
  PROVE  SameCall
BY DEF CallInv, Repeat, SameCall, NoCall, air

\* A call begins with nothing on the air.
LEMMA CallBegins ==
  ASSUME NEW kind \in {"join", "data"}, NEW r, NEW dr, NEW nonce, NEW said,
         Begin(kind, r, dr, nonce, said)
  PROVE  /\ pc = "idle" /\ pc' = "tx"
         /\ DOMAIN call' = DOMAIN NoCall
         /\ call'.kind = kind /\ call'.nonce = nonce /\ call'.tells = said.full
         /\ ~call'.answered /\ answer' = answer
         /\ UNCHANGED <<network, apart, applied>>
BY DEF Begin, NoCall

\* A call that ends leaves nothing of itself.
LEMMA CallEnds ==
  ASSUME Ends
  PROVE  /\ pc' = "idle" /\ call' = NoCall /\ answer' = NoAnswer
         /\ call'.kind = "none" /\ answer'.fate = "none"
BY DEF Ends, NoCall, NoAnswer
-----------------------------------------------------------------------------
(* Steps of a kind that the invariants see alike *)

kept_by_all ==
  <<state, keys, sticky, net_keys, asked, unanswered, joins, apart, applied>>

\* Settings, and the Class C window between two calls.
SettingStep == UNCHANGED <<kept_by_all, pc, call, answer>>

\* A step inside a call, from one pc to a later one.
InnerStep ==
  /\ SameCall /\ UNCHANGED kept_by_all
  /\ \/ pc = "tx" /\ pc' = "rx1" /\ answer' = NoAnswer
     \/ pc \in {"rx1", "rx2"} /\ pc' \in {"rx2", "received"}
     \/ pc = "received" /\ call.kind = "data" /\ pc' = "settle"
     \/ pc = "settle" /\ pc' = "tx"

\* A call that returns and has changed nothing of the session.
FinalStep == pc # "idle" /\ Ends /\ UNCHANGED kept_by_all

\* Every step is one of these or one of the nine that the proofs look into.
LEMMA StepKinds ==
  ASSUME CallInv, [Next]_vars
  PROVE  \/ SettingStep \/ InnerStep \/ FinalStep
         \/ Start \/ JoinAbp \/ JoinSucceeds \/ \E n \in Fills : Downlink(n)
         \/ \E r : \E own \in Fills : SendBegins(r, own)
         \/ \E r, nonce : JoinBegins(r, nonce)
         \/ \E d \in Requests : \E n \in Fills : ClassCDownlink(d, n)
         \/ \E a \in Accepts : \E f : NetworkJoins(a, f)
         \/ \E d \in Requests : \E f : NetworkHears(d, f)
<1> USE DEF session, mac, air, network, history, plan, kept_by_all
<1>1. CASE UNCHANGED vars
  BY <1>1 DEF vars, SettingStep
<1>2. CASE Api
  <2>1. CASE SetRegion
    BY <2>1 DEF SetRegion, SettingStep
  <2>2. CASE RxcListens
    BY <2>2 DEF RxcListens, SettingStep
  <2>3. ASSUME NEW mask, SetChannelsMask(mask) PROVE SettingStep
    BY <2>3 DEF SetChannelsMask, SettingStep
  <2>4. ASSUME NEW dr, SetDatarate(dr) PROVE SettingStep
    BY <2>4 DEF SetDatarate, SettingStep
  <2> QED
    BY <1>2, <2>1, <2>2, <2>3, <2>4 DEF Api
<1>3. CASE Network
  BY <1>3 DEF Network
<1>4. CASE Call
  <2>1. ASSUME NEW freq, TxOk(freq) PROVE InnerStep
    BY <2>1, TransmissionSameCall DEF TxOk, InnerStep
  <2>2. ASSUME NEW ok, Receives(ok) \/ ReceivesForeign(ok) \/ TimesOut(ok)
        PROVE  InnerStep
    <3>1. SameCall
      BY <2>2, ReceptionSameCall
    <3>2. /\ pc \in {"rx1", "rx2"} /\ pc' \in {"rx2", "received"}
          /\ UNCHANGED kept_by_all
      BY <2>2 DEF Receives, ReceivesForeign, TimesOut, Receiving
    <3> QED
      BY <3>1, <3>2 DEF InnerStep
  <2>3. ASSUME NEW lower, Repeat(lower) PROVE InnerStep
    BY <2>3, RepetitionSameCall DEF Repeat, InnerStep
  <2>4. CASE NoDownlink
    BY <2>4 DEF NoDownlink, InnerStep, SameCall
  <2>5. CASE TxFail \/ JoinFails \/ SendReturns
    BY <2>5 DEF TxFail, JoinFails, SendReturns, FinalStep
  <2> QED
    BY <1>4, <2>1, <2>2, <2>3, <2>4, <2>5 DEF Call
<1> QED
  BY <1>1, <1>2, <1>3, <1>4 DEF Next
-----------------------------------------------------------------------------
(* The session *)

\* Nothing is joined and nothing runs at first.
LEMMA SessionInit == Init => SessionInv
BY DEF Init, SessionInv, CallInv, JoinInv, SessionAgrees, NoCall

\* Only a Join-Request that waits for its answer moves the network to new keys,
\* and only the answer to it makes the device joined with them.
LEMMA SessionStep ==
  ASSUME SessionInv, [Next]_vars
  PROVE  SessionInv'
<1> USE DEF SessionInv, CallInv, JoinInv, SessionAgrees
<1>0. NoCall.kind = "none" /\ NoAnswer.fate = "none"
  BY DEF NoCall, NoAnswer
<1>1. CASE SettingStep
  BY <1>1 DEF SettingStep, kept_by_all
<1>2. CASE InnerStep
  <2>1. CallInv'
    BY <1>2 DEF InnerStep, SameCall, kept_by_all
  <2>2. JoinInv'
    BY <1>2 DEF InnerStep, SameCall, kept_by_all
  <2> QED
    BY <2>1, <2>2
<1>3. CASE FinalStep
  BY <1>3, CallEnds, <1>0 DEF FinalStep, kept_by_all
<1>4. CASE Start
  BY <1>4, <1>0 DEF Start, air, network
<1>5. CASE JoinAbp
  BY <1>5, <1>0 DEF JoinAbp, air, mac, plan
<1>6. CASE JoinSucceeds
  <2>1. answer.fate = "heard" /\ call.kind = "join"
    BY <1>6 DEF JoinSucceeds, Heard
  <2>2. keys' = net_keys' /\ UNCHANGED <<joins, applied>>
    BY <1>6, <2>1 DEF JoinSucceeds, network
  <2>3. Ends
    BY <1>6 DEF JoinSucceeds
  <2> QED
    BY <2>2, <2>3, CallEnds, <1>0
<1>7. ASSUME NEW n, Downlink(n) PROVE SessionInv'
  <2>1. pc = "received" /\ call.kind = "data" /\ pc' = "settle"
    BY <1>7 DEF Downlink, Heard
  <2>2. UNCHANGED <<state, keys, call, answer, net_keys>>
    BY <1>7 DEF Downlink, air, network
  <2> QED
    BY <2>1, <2>2
<1>8. ASSUME NEW r, NEW own, SendBegins(r, own) PROVE SessionInv'
  <2>1. Begin("data", r, current_dr, 0, rsp')
    BY <1>8 DEF SendBegins
  <2>2. state = "JOINED" /\ UNCHANGED <<state, keys, joins>>
    BY <1>8 DEF SendBegins, session
  <2> QED
    BY <2>1, <2>2, CallBegins, <1>0 DEF network
<1>9. ASSUME NEW nonce, NEW r, JoinBegins(r, nonce) PROVE SessionInv'
  <2>1. Begin("join", r, join_dr, nonce, NoRsp)
    BY <1>9 DEF JoinBegins
  <2>2. state' = "JOINING" /\ UNCHANGED keys
    BY <1>9 DEF JoinBegins
  <2> QED
    BY <2>1, <2>2, CallBegins, <1>0 DEF network
<1>10. ASSUME NEW a, NEW f, NetworkJoins(a, f) PROVE SessionInv'
  <2>1. pc = "rx1" /\ call.kind = "join" /\ call' = [call EXCEPT !.heard = TRUE]
    BY <1>10 DEF NetworkJoins
  <2>2. /\ net_keys' = [nonce |-> call.nonce, join |-> joins] /\ applied' = {}
        /\ UNCHANGED <<state, pc, joins>>
    BY <1>10 DEF NetworkJoins, session
  <2>3. DOMAIN call' = DOMAIN NoCall /\ call'.kind = call.kind /\ call'.nonce = call.nonce
    BY <2>1 DEF NoCall
  <2>4. DOMAIN answer' = DOMAIN NoAnswer
    BY <1>10 DEF NetworkJoins, Holding, NoAnswer
  <2> QED
    BY <2>1, <2>2, <2>3, <2>4
<1>11. ASSUME NEW d, NEW f, NetworkHears(d, f) PROVE SessionInv'
  <2>1. /\ pc = "rx1" /\ call.kind = "data" /\ UNCHANGED <<state, pc, keys, net_keys>>
        /\ call' = [call EXCEPT !.heard = TRUE, !.answered = IF f = NoAnswer THEN @ ELSE TRUE]
    BY <1>11 DEF NetworkHears, session
  <2>2. DOMAIN call' = DOMAIN NoCall /\ call'.kind = call.kind
    BY <2>1 DEF NoCall
  <2>3. DOMAIN answer' = DOMAIN NoAnswer
    BY <1>11 DEF NetworkHears, Holding, NoAnswer
  <2> QED
    BY <2>1, <2>2, <2>3
<1>12. ASSUME NEW d, NEW n, ClassCDownlink(d, n) PROVE SessionInv'
  <2>1. pc = "idle" /\ UNCHANGED <<state, keys, pc, call, answer, net_keys>>
    BY <1>12 DEF ClassCDownlink, air
  <2> QED
    BY <2>1, <1>0
<1> QED
  BY StepKinds, <1>1, <1>2, <1>3, <1>4, <1>5, <1>6, <1>7, <1>8, <1>9, <1>10, <1>11, <1>12

\* While the device takes itself to be joined, the network has the same keys.
THEOREM SessionAgreed == Spec => []SessionAgrees
<1>1. SessionInv => SessionAgrees
  BY DEF SessionInv, JoinInv
<1> QED
  BY SessionInit, SessionStep, <1>1, PTL DEF Spec
-----------------------------------------------------------------------------
(* Changes of the windows *)

\* Nothing has changed at first.
LEMMA ToldInit == Init => ToldInv
BY DEF Init, ToldInv, ChangeToldOn, NoCall, NoAnswer

\* The network takes an answer for what was applied and asked for; a change that
\* replaces the repeated answers came in reply to an uplink that carried them.
LEMMA ToldStep ==
  ASSUME SessionInv, ToldInv, [Next]_vars
  PROVE  ToldInv'
<1> USE DEF SessionInv, CallInv, JoinInv, SessionAgrees, ToldInv, ChangeToldOn
<1>0. NoCall.kind = "none" /\ NoAnswer.fate = "none"
  BY DEF NoCall, NoAnswer
<1>1. CASE SettingStep
  BY <1>1 DEF SettingStep, kept_by_all, Moves
<1>2. CASE InnerStep
  <2>1. answer'.fate # "none" =>
          Moves(answer'.holds) = Moves(answer.holds) /\ pc # "tx"
    BY <1>2, <1>0 DEF InnerStep, SameCall, Moves
  <2>2. UNCHANGED kept_by_all /\ SameCall
    BY <1>2 DEF InnerStep
  <2>3. answer'.fate # "none" /\ pc' \in {"rx1", "rx2", "received"} =>
          pc \in {"rx1", "rx2"}
    BY <1>2, <1>0 DEF InnerStep
  <2> QED
    BY <2>1, <2>2, <2>3 DEF SameCall, kept_by_all
<1>3. CASE FinalStep
  BY <1>3, CallEnds DEF FinalStep, kept_by_all
<1>4. CASE Start
  BY <1>4, <1>0 DEF Start, air, network
<1>5. CASE JoinAbp
  BY <1>5, <1>0 DEF JoinAbp, air, mac, plan
<1>6. CASE JoinSucceeds
  <2>1. applied = {} /\ UNCHANGED <<applied, asked, unanswered>>
    BY <1>6 DEF JoinSucceeds, Heard, network
  <2>2. Ends
    BY <1>6 DEF JoinSucceeds
  <2> QED
    BY <2>1, <2>2, CallEnds
<1>7. ASSUME NEW n, Downlink(n) PROVE ToldInv'
  <2> DEFINE moves == Moves(answer.holds)
  <2>1. /\ pc = "received" /\ call.kind = "data" /\ answer.fate = "heard" /\ pc' = "settle"
        /\ sticky' = moves /\ applied' \subseteq applied \cup moves
        /\ UNCHANGED <<state, keys, call, answer, net_keys, asked, unanswered>>
    BY <1>7 DEF Downlink, Processes, Heard, air, network
  <2>2. apart \subseteq apart' /\ (sticky \subseteq call.tells \/ "untold" \in apart')
    BY <1>7 DEF Downlink
  <2>3. Moves(answer'.holds) = moves
    BY <2>1
  <2> HIDE DEF moves
  <2>4. /\ moves \subseteq asked /\ call.answered
        /\ "untold" \notin apart' => applied \cap unanswered = {}
    BY <2>1, <2>2 DEF moves
  <2> QED
    BY <2>1, <2>3, <2>4
<1>8. ASSUME NEW r, NEW own, SendBegins(r, own) PROVE ToldInv'
  <2>1. Begin("data", r, current_dr, 0, rsp')
    BY <1>8 DEF SendBegins
  <2>2. UNCHANGED <<state, keys, sticky>>
    BY <1>8 DEF SendBegins, session
  <2> QED
    BY <2>1, <2>2, CallBegins, <1>0 DEF network
<1>9. ASSUME NEW nonce, NEW r, JoinBegins(r, nonce) PROVE ToldInv'
  <2>1. Begin("join", r, join_dr, nonce, NoRsp)
    BY <1>9 DEF JoinBegins
  <2>2. state' = "JOINING"
    BY <1>9 DEF JoinBegins
  <2> QED
    BY <2>1, <2>2, CallBegins, <1>0 DEF network
<1>10. ASSUME NEW a, NEW f, NetworkJoins(a, f) PROVE ToldInv'
  <2>1. call.kind = "join" /\ call' = [call EXCEPT !.heard = TRUE]
    BY <1>10 DEF NetworkJoins
  <2>2. applied' = {} /\ asked' = {} /\ unanswered' = {}
    BY <1>10 DEF NetworkJoins
  <2>3. call'.kind = call.kind
    BY <2>1 DEF NoCall
  <2> QED
    BY <2>1, <2>2, <2>3
<1>11. ASSUME NEW d, NEW f, NetworkHears(d, f) PROVE ToldInv'
  <2> DEFINE told == call.tells \cap unanswered
             denied == call.denies \cap unanswered
             rest == unanswered \ (told \cup denied)
  <2>1. /\ pc = "rx1" /\ call.kind = "data" /\ keys = net_keys /\ state = "JOINED"
        /\ UNCHANGED <<state, pc, keys, net_keys, sticky, applied>> /\ apart \subseteq apart'
        /\ call' = [call EXCEPT !.heard = TRUE, !.answered = IF f = NoAnswer THEN @ ELSE TRUE]
        /\ answer' = IF f = NoAnswer THEN f ELSE Holding(f, d)
        /\ f = NoAnswer \/ ~call.answered
    BY <1>11 DEF NetworkHears, session, mac
  <2>2. IF f = NoAnswer THEN asked' = asked /\ unanswered' = rest
        ELSE Asks(d) /\ unanswered' = rest \cup ({d.kind} \cap Kinds)
    BY <1>11 DEF NetworkHears
  <2>3. /\ call'.kind = call.kind /\ call'.tells = call.tells
        /\ f = NoAnswer => call'.answered = call.answered
        /\ f # NoAnswer => call'.answered
    BY <2>1 DEF NoCall
  <2>4. f # NoAnswer => answer'.holds = d
    BY <2>1 DEF Holding
  <2>5. /\ asked \subseteq asked'
        /\ f # NoAnswer => Moves(d) \subseteq asked' /\ {d.kind} \cap Kinds \cap asked = {}
                             /\ {d.kind} \cap Kinds \subseteq asked'
    BY <2>2 DEF Asks, Moves
  <2>6. unanswered' \subseteq asked' /\ applied \cap unanswered' \subseteq applied \cap rest
    BY <2>2, <2>5
  <2>7. sticky \subseteq call.tells /\ "untold" \notin apart' => applied \cap rest = {}
    BY <2>1
  <2>8. rest \subseteq unanswered
    OBVIOUS
  <2>9. f = NoAnswer => answer'.fate = "none"
    BY <2>1, <1>0
  <2> HIDE DEF told, denied, rest
  <2> QED
    BY <2>1, <2>3, <2>4, <2>5, <2>6, <2>7, <2>8, <2>9
<1>12. ASSUME NEW d, NEW n, ClassCDownlink(d, n) PROVE ToldInv'
  <2> DEFINE new == {d.kind} \cap Kinds
  <2>1. /\ pc = "idle" /\ state = "JOINED" /\ keys = net_keys
        /\ UNCHANGED <<state, keys, pc, call, answer, net_keys>>
    BY <1>12 DEF ClassCDownlink, air
  <2>2. /\ sticky' = new /\ applied' \subseteq applied \cup new
        /\ Asks(d) /\ unanswered' = unanswered \cup new
    BY <1>12 DEF ClassCDownlink, Processes, Moves
  <2>3. apart \subseteq apart' /\ (sticky \cap unanswered = {} \/ "untold" \in apart')
    BY <1>12 DEF ClassCDownlink
  <2>4. asked' = asked \cup new /\ new \cap asked = {}
    BY <2>2 DEF Asks
  <2> HIDE DEF new
  <2>5. "untold" \notin apart' => applied \cap unanswered = {}
    BY <2>1, <2>3
  <2> QED
    BY <2>1, <2>2, <2>3, <2>4, <2>5, <1>0
<1> QED
  BY StepKinds, <1>1, <1>2, <1>3, <1>4, <1>5, <1>6, <1>7, <1>8, <1>9, <1>10, <1>11, <1>12

\* A change that the network does not know of is answered for as long as uplinks
\* have room for it and no downlink comes between two calls.
THEOREM ChangesTold == Spec => []ChangeToldOn
<1>1. ToldInv => ChangeToldOn
  BY DEF ToldInv
<1> QED
  BY SessionInit, SessionStep, ToldInit, ToldStep, <1>1, PTL DEF Spec
=============================================================================
