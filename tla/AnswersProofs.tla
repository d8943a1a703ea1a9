----------------------------- MODULE AnswersProofs -----------------------------
(***************************************************************************)
(* What the answer buffer holds: the length the code counts is the sum of  *)
(* the answers' sizes, and answers leave in the order of their requests.   *)
(***************************************************************************)
EXTENDS MacCommandsProofs, WellFoundedInduction

\* A set of numbers that is not empty has a least element.
LEMMA LeastNumber ==
  ASSUME NEW S \in SUBSET Nat, S # {}
  PROVE  \E n \in S : \A m \in S : n <= m
<1>1. PICK n \in S : \A m \in S : <<m, n>> \notin OpToRel(<, Nat)
  BY WFMin, NatLessThanWellFounded
<1>2. \A m \in S : ~(m < n)
  BY <1>1 DEF OpToRel
<1> QED
  BY <1>2
-----------------------------------------------------------------------------
(* The length *)

\* f adds the sizes of the first answers of buf, up to the n-th.
IsSum(f, buf, n) ==
  f = [i \in 0 .. n |-> IF i = 0 THEN 0 ELSE f[i - 1] + SizeOf[buf[i].cid]]

\* Such a sum exists for every buffer: the least n without one would have a
\* predecessor, whose sum has a next value.
LEMMA SumExists == ASSUME NEW buf, NEW n \in Nat PROVE \E f : IsSum(f, buf, n)
<1> DEFINE Missing == {m \in Nat : ~\E f : IsSum(f, buf, m)}
<1> SUFFICES ASSUME Missing # {} PROVE FALSE
  OBVIOUS
<1>1. PICK k \in Missing : \A m \in Missing : k <= m
  BY LeastNumber
<1>2. CASE k = 0
  <2>1. IsSum([i \in 0 .. 0 |-> 0], buf, 0)
    BY DEF IsSum
  <2> QED
    BY <1>2, <2>1
<1>3. CASE k # 0
  <2>1. k - 1 \in Nat /\ k - 1 \notin Missing
    BY <1>1, <1>3
  <2>2. PICK f : IsSum(f, buf, k - 1)
    BY <2>1
  <2> DEFINE g == [i \in 0 .. k |-> IF i = k THEN f[k - 1] + SizeOf[buf[k].cid] ELSE f[i]]
  <2>3. \A i \in 0 .. k - 1 : f[i] = IF i = 0 THEN 0 ELSE f[i - 1] + SizeOf[buf[i].cid]
    BY <2>2 DEF IsSum
  <2>4. ASSUME NEW i \in 0 .. k
        PROVE  g[i] = IF i = 0 THEN 0 ELSE g[i - 1] + SizeOf[buf[i].cid]
    <3>1. CASE i = k
      <4>1. k - 1 \in 0 .. k /\ k - 1 # k
        BY <2>1
      <4>2. g[k - 1] = f[k - 1]
        BY <4>1
      <4> QED
        BY <1>3, <3>1, <4>2
    <3>2. CASE i # k
      <4>1. i \in 0 .. k - 1 /\ (i # 0 => i - 1 \in 0 .. k /\ i - 1 # k)
        BY <3>2
      <4>2. g[i] = f[i] /\ (i # 0 => g[i - 1] = f[i - 1])
        BY <3>2, <4>1
      <4> QED
        BY <2>3, <4>1, <4>2
    <3> QED
      BY <3>1, <3>2
  <2>5. IsSum(g, buf, k)
    <3>1. g = [i \in 0 .. k |-> g[i]]
      OBVIOUS
    <3> HIDE DEF g
    <3> QED
      BY <2>4, <3>1 DEF IsSum
  <2> QED
    BY <2>5
<1> QED
  BY <1>2, <1>3

\* Two such sums agree as far as their buffers do.
LEMMA SumsAgree ==
  ASSUME NEW x, NEW y, NEW n \in Nat, NEW m \in Nat, n <= m,
         \A i \in 1 .. n : x[i] = y[i],
         NEW f, IsSum(f, x, n), NEW g, IsSum(g, y, m)
  PROVE  \A i \in 0 .. n : f[i] = g[i]
<1> DEFINE Differ == {i \in 0 .. n : f[i] # g[i]}
<1> SUFFICES ASSUME Differ # {} PROVE FALSE
  OBVIOUS
<1>0. Differ \in SUBSET Nat
  OBVIOUS
<1>1. PICK k \in Differ : \A i \in Differ : k <= i
  <2> HIDE DEF Differ
  <2> QED
    BY <1>0, LeastNumber
<1>2. k \in 0 .. n /\ k \in 0 .. m /\ f[k] # g[k]
  BY <1>1
<1> HIDE DEF Differ
<1>3. f[k] = IF k = 0 THEN 0 ELSE f[k - 1] + SizeOf[x[k].cid]
  BY <1>2 DEF IsSum
<1>4. g[k] = IF k = 0 THEN 0 ELSE g[k - 1] + SizeOf[y[k].cid]
  BY <1>2 DEF IsSum
<1>5. k # 0
  BY <1>2, <1>3, <1>4
<1>6. k - 1 \in 0 .. n /\ k - 1 \notin Differ
  BY <1>1, <1>2, <1>5 DEF Differ
<1>7. f[k - 1] = g[k - 1] /\ x[k] = y[k]
  BY <1>2, <1>5, <1>6 DEF Differ
<1> QED
  BY <1>2, <1>3, <1>4, <1>5, <1>7

\* LengthOf is such a sum.
LEMMA LengthSums ==
  ASSUME NEW buf, Len(buf) \in Nat
  PROVE  \E f : IsSum(f, buf, Len(buf)) /\ LengthOf(buf) = f[Len(buf)]
<1> DEFINE f == CHOOSE g : IsSum(g, buf, Len(buf))
<1>1. IsSum(f, buf, Len(buf))
  BY SumExists
<1>2. LengthOf(buf) = f[Len(buf)]
  BY DEF LengthOf, IsSum
<1> QED
  BY <1>1, <1>2

\* An empty buffer has length 0.
LEMMA LengthEmpty == LengthOf(<<>>) = 0
<1>1. Len(<<>>) = 0
  OBVIOUS
<1>2. PICK f : IsSum(f, <<>>, 0) /\ LengthOf(<<>>) = f[0]
  BY <1>1, LengthSums
<1> QED
  BY <1>2 DEF IsSum

\* An answer adds its size.
LEMMA LengthAppend ==
  ASSUME NEW buf \in Seq(AnswerSet), NEW a
  PROVE  LengthOf(Append(buf, a)) = LengthOf(buf) + SizeOf[a.cid]
<1> DEFINE n == Len(buf)
           longer == Append(buf, a)
<1>1. /\ n \in Nat /\ Len(longer) = n + 1 /\ longer[n + 1] = a
      /\ \A i \in 1 .. n : buf[i] = longer[i]
  OBVIOUS
<1> HIDE DEF n, longer
<1>2. PICK f : IsSum(f, buf, n) /\ LengthOf(buf) = f[n]
  BY <1>1, LengthSums DEF n
<1>3. PICK g : IsSum(g, longer, n + 1) /\ LengthOf(longer) = g[n + 1]
  BY <1>1, LengthSums
<1>4. f[n] = g[n]
  BY <1>1, <1>2, <1>3, SumsAgree
<1>5. g[n + 1] = g[n] + SizeOf[longer[n + 1].cid]
  BY <1>1, <1>3 DEF IsSum
<1> QED
  BY <1>1, <1>2, <1>3, <1>4, <1>5 DEF longer
-----------------------------------------------------------------------------
(* The steps of the buffer *)

\* rsp is the buffer with an answer to the request that is being processed.
IsReply(rsp) ==
  \E cid \in Answers : \E status :
    rsp = Queue(mac_rsp, Answer(cid, status, requests + 1, FALSE))

\* The buffer changes by such an answer, by append_uplink_mac_cmds(), and by a
\* transmission that empties it.
BufferSteps ==
  \/ UNCHANGED <<mac_rsp, answered>> /\ requests' \in {requests, requests + 1}
  \/ IsReply(mac_rsp') /\ requests' = requests + 1 /\ UNCHANGED answered
  \/ mac_rsp' = WithSticky /\ UNCHANGED <<requests, answered>>
  \/ TxOk

\* Every step is one of these.
LEMMA BufferMoves == ASSUME [Next]_vars PROVE BufferSteps
<1> USE DEF BufferSteps, served, uplinks
<1>1. CASE UNCHANGED vars
  BY <1>1 DEF vars
<1>2. CASE Process
  <2>0. {"LinkADRAns", "DutyCycleAns", "RXParamSetupAns", "DevStatusAns", "NewChannelAns",
         "RXTimingSetupAns", "TxParamSetupAns", "DlChannelAns"} \subseteq Answers
    BY DEF Answers, StickyAnswers
  <2>1. CASE Abandon \/ PartDone
    BY <2>1 DEF Abandon, PartDone
  <2>2. CASE LinkCheckAns \/ DeviceTimeAns
    BY <2>2 DEF LinkCheckAns, DeviceTimeAns, Processing
  <2>3. CASE ~(Abandon \/ PartDone \/ LinkCheckAns \/ DeviceTimeAns)
    <3>1. /\ \E cid : Processing(cid)
          /\ \E cid \in Answers : \E status : Reply(cid, status)
      BY <1>2, <2>0, <2>3 DEF Process, LinkADRReq, DutyCycleReq, RXParamSetupReq, DevStatusReq,
         NewChannelReq, RXTimingSetupReq, TxParamSetupReq, DlChannelReq
    <3>2. requests' = requests + 1 /\ UNCHANGED answered
      BY <3>1 DEF Processing
    <3> QED
      BY <3>1, <3>2 DEF Reply, IsReply
  <2> QED
    BY <2>1, <2>2, <2>3
<1>3. CASE \E d \in Downlinks : Downlink(d)
  BY <1>3 DEF Downlink
<1>4. CASE RequestLinkCheck \/ RequestDeviceTime \/ TxFail \/ SendReturns
  BY <1>4 DEF RequestLinkCheck, RequestDeviceTime, TxFail, SendReturns
<1>5. CASE \E mask \in ChannelMasks : SetChannelsMask(mask)
  BY <1>5 DEF SetChannelsMask
<1>6. CASE Send
  BY <1>6 DEF Send, Appended
<1> QED
  BY <1>1, <1>2, <1>3, <1>4, <1>5, <1>6 DEF Next
-----------------------------------------------------------------------------
(* The length is that of the answers *)

Counted(rsp) == IsBuffer(rsp) /\ rsp.len = LengthOf(rsp.buf)

\* An answer that does not fit changes neither.
LEMMA QueueCounts ==
  ASSUME NEW rsp, Counted(rsp), NEW a, a.cid \in Answers, IsBuffer(Queue(rsp, a))
  PROVE  Counted(Queue(rsp, a))
<1>1. CASE Fits(rsp, a.cid)
  <2>1. /\ Queue(rsp, a).buf = Append(rsp.buf, a)
        /\ Queue(rsp, a).len = rsp.len + SizeOf[a.cid]
    BY <1>1 DEF Queue
  <2> QED
    BY <2>1, LengthAppend DEF Counted, IsBuffer
<1>2. CASE ~Fits(rsp, a.cid)
  BY <1>2 DEF Queue
<1> QED
  BY <1>1, <1>2

\* Nor does an answer that is not wanted.
LEMMA WantCounts ==
  ASSUME NEW rsp, Counted(rsp), NEW wanted \in BOOLEAN, NEW cid \in Answers
  PROVE  Counted(Want(rsp, wanted, cid))
<1> DEFINE a == Answer(cid, "full", 0, cid \in StickyAnswers)
<1>1. a \in AnswerSet /\ a.cid = cid
  BY DEF Answer, AnswerSet, Statuses
<1>2. Want(rsp, wanted, cid) = IF wanted THEN Queue(rsp, a) ELSE rsp
  BY DEF Want
<1> HIDE DEF a
<1>3. IsBuffer(Queue(rsp, a))
  BY <1>1, QueueGrows DEF Counted, Grown
<1> QED
  BY <1>1, <1>2, <1>3, QueueCounts

\* So append_uplink_mac_cmds() keeps the count.
LEMMA WithStickyCounts ==
  ASSUME BufferTypeOK, Counted(mac_rsp)
  PROVE  Counted(WithSticky)
<1>0. /\ {"LinkCheckReq", "DeviceTimeReq", "RXParamSetupAns", "DlChannelAns",
          "RXTimingSetupAns"} \subseteq Answers
      /\ link_check_req_pending \in BOOLEAN /\ device_time_req_pending \in BOOLEAN
      /\ \A cid : (cid \in sticky) \in BOOLEAN
  BY DEF Answers, AppRequests, StickyAnswers, BufferTypeOK
<1>1. Counted(WithLinkCheck)
  BY <1>0, WantCounts DEF WithLinkCheck
<1>2. Counted(WithDeviceTime)
  BY <1>0, <1>1, WantCounts DEF WithDeviceTime
<1> DEFINE rx == Want(WithDeviceTime, "RXParamSetupAns" \in sticky, "RXParamSetupAns")
           dl == Want(rx, "DlChannelAns" \in sticky, "DlChannelAns")
<1>3. Counted(rx)
  BY <1>0, <1>2, WantCounts
<1> HIDE DEF rx
<1>4. Counted(dl)
  BY <1>0, <1>3, WantCounts
<1> HIDE DEF dl
<1>5. Counted(Want(dl, "RXTimingSetupAns" \in sticky, "RXTimingSetupAns"))
  BY <1>0, <1>4, WantCounts
<1> QED
  BY <1>5 DEF WithSticky, rx, dl

\* mac_rsp_len is the length of the answers in mac_rsp_buf, whatever mix of requests,
\* repetitions and failed transmissions filled it, and FOpts has room for them.
THEOREM LengthKept == Spec => []FOptsConsistent
<1>1. Init => FOptsConsistent
  BY LengthEmpty, MacAssumption DEF Init, FOptsConsistent
<1>2. TypeOK /\ TypeOK' /\ FOptsConsistent /\ [Next]_vars => FOptsConsistent'
  <2> SUFFICES ASSUME TypeOK, TypeOK', FOptsConsistent, [Next]_vars PROVE FOptsConsistent'
    OBVIOUS
  <2>1. Counted(mac_rsp) /\ BufferTypeOK /\ IsBuffer(mac_rsp')
    BY DEF TypeOK, BufferTypeOK, FOptsConsistent, Counted, IsBuffer, AnswerSet
  <2>2. Counted(mac_rsp')
    <3>1. CASE UNCHANGED mac_rsp
      BY <2>1, <3>1
    <3>2. ASSUME NEW cid \in Answers, NEW status,
                 mac_rsp' = Queue(mac_rsp, Answer(cid, status, requests + 1, FALSE))
          PROVE  Counted(mac_rsp')
      BY <2>1, <3>2, QueueCounts DEF Answer
    <3>3. CASE mac_rsp' = WithSticky
      BY <2>1, <3>3, WithStickyCounts
    <3>4. CASE TxOk
      BY <2>1, <3>4, LengthEmpty DEF TxOk, Counted
    <3> QED
      BY BufferMoves, <3>1, <3>2, <3>3, <3>4 DEF BufferSteps, IsReply
  <2> QED
    BY <2>2, MacAssumption DEF Counted, IsBuffer, FOptsConsistent
<1> QED
  BY <1>1, <1>2, TypeCorrect, PTL DEF Spec
-----------------------------------------------------------------------------
(* The order of the answers *)

\* The numbers that were on the air and those in the buffer after them rise, up to
\* the last request.
Ordered(told, buf, last) ==
  /\ InOrder(told)
  /\ \A i, j \in DOMAIN buf :
       i < j /\ buf[i].n > 0 /\ buf[j].n > 0 => buf[i].n < buf[j].n
  /\ \A i \in DOMAIN told : told[i] <= last
  /\ \A i \in DOMAIN buf : buf[i].n <= last
  /\ \A i \in DOMAIN told : \A j \in DOMAIN buf :
       told[i] > 0 /\ buf[j].n > 0 => told[i] < buf[j].n

OrderInv == answered \in Seq(Nat) /\ Ordered(answered, mac_rsp.buf, requests)

\* The number of every answer is one.
LEMMA NumbersTyped ==
  ASSUME NEW buf \in Seq(AnswerSet)
  PROVE  /\ Len(buf) \in Nat /\ DOMAIN buf = 1 .. Len(buf)
         /\ \A i \in DOMAIN buf : buf[i].n \in Nat
<1>1. \A a \in AnswerSet : a.n \in Nat
  BY DEF AnswerSet
<1>2. \A i \in DOMAIN buf : buf[i] \in AnswerSet
  OBVIOUS
<1>3. Len(buf) \in Nat /\ DOMAIN buf = 1 .. Len(buf)
  OBVIOUS
<1> QED
  BY <1>1, <1>2, <1>3

\* A later request may come and go without an answer.
LEMMA LaterOrdered ==
  ASSUME NEW told \in Seq(Nat), NEW buf \in Seq(AnswerSet), NEW last \in Nat,
         Ordered(told, buf, last)
  PROVE  Ordered(told, buf, last + 1)
<1>1. \A i \in DOMAIN told : told[i] \in Nat
  OBVIOUS
<1>2. \A i \in DOMAIN buf : buf[i].n \in Nat
  BY NumbersTyped
<1> QED
  BY <1>1, <1>2 DEF Ordered

\* An answer to the next request, or to none, may join the buffer.
LEMMA QueueOrdered ==
  ASSUME NEW told \in Seq(Nat), NEW rsp, rsp.buf \in Seq(AnswerSet), NEW last \in Nat,
         Ordered(told, rsp.buf, last), NEW a, NEW next \in {last, last + 1},
         a.n \in {0, next}, a.n # 0 => next = last + 1
  PROVE  Ordered(told, Queue(rsp, a).buf, next)
<1>0. Ordered(told, rsp.buf, next)
  BY LaterOrdered
<1>1. CASE ~Fits(rsp, a.cid)
  BY <1>0, <1>1 DEF Queue
<1>2. CASE Fits(rsp, a.cid)
  <2> DEFINE n == Len(rsp.buf)
             longer == Append(rsp.buf, a)
  <2>1. /\ n \in Nat /\ DOMAIN rsp.buf = 1 .. n /\ DOMAIN longer = 1 .. n + 1
        /\ longer[n + 1] = a /\ \A i \in 1 .. n : longer[i] = rsp.buf[i]
    OBVIOUS
  <2>2. Queue(rsp, a).buf = longer
    BY <1>2 DEF Queue
  <2>3. \A i \in 1 .. n : rsp.buf[i].n \in Nat
    BY <2>1, NumbersTyped
  <2>4. \A i \in DOMAIN told : told[i] \in Nat /\ told[i] <= last
    BY DEF Ordered
  <2> HIDE DEF n, longer
  <2>5. \A i, j \in DOMAIN longer :
          i < j /\ longer[i].n > 0 /\ longer[j].n > 0 => longer[i].n < longer[j].n
    <3> SUFFICES ASSUME NEW i \in 1 .. n + 1, NEW j \in 1 .. n + 1, i < j,
                        longer[i].n > 0, longer[j].n > 0
                 PROVE  longer[i].n < longer[j].n
      BY <2>1
    <3>0. i \in 1 .. n
      BY <2>1
    <3>1. i \in 1 .. n /\ longer[i] = rsp.buf[i] /\ rsp.buf[i].n <= last
      BY <2>1, <3>0 DEF Ordered
    <3>2. CASE j = n + 1
      BY <2>1, <2>3, <3>1, <3>2
    <3>3. CASE j \in 1 .. n
      BY <2>1, <3>1, <3>3 DEF Ordered
    <3> QED
      BY <2>1, <3>2, <3>3
  <2>6. \A i \in DOMAIN longer : longer[i].n <= next
    <3> SUFFICES ASSUME NEW i \in 1 .. n + 1 PROVE longer[i].n <= next
      BY <2>1
    <3>1. CASE i = n + 1
      BY <2>1, <3>1
    <3>2. CASE i \in 1 .. n
      BY <1>0, <2>1, <3>2 DEF Ordered
    <3> QED
      BY <2>1, <3>1, <3>2
  <2>7. \A i \in DOMAIN told : \A j \in DOMAIN longer :
          told[i] > 0 /\ longer[j].n > 0 => told[i] < longer[j].n
    <3> SUFFICES ASSUME NEW i \in DOMAIN told, NEW j \in 1 .. n + 1,
                        told[i] > 0, longer[j].n > 0
                 PROVE  told[i] < longer[j].n
      BY <2>1
    <3>1. CASE j = n + 1
      BY <2>1, <2>4, <3>1
    <3>2. CASE j \in 1 .. n
      BY <2>1, <3>2 DEF Ordered
    <3> QED
      BY <2>1, <3>1, <3>2
  <2> QED
    BY <1>0, <2>2, <2>5, <2>6, <2>7 DEF Ordered
<1> QED
  BY <1>1, <1>2

\* What the uplink itself wants in the buffer answers no request.
LEMMA WantOrdered ==
  ASSUME NEW told \in Seq(Nat), NEW rsp, IsBuffer(rsp), NEW last \in Nat,
         Ordered(told, rsp.buf, last), NEW wanted \in BOOLEAN, NEW cid \in Answers
  PROVE  /\ IsBuffer(Want(rsp, wanted, cid))
         /\ Ordered(told, Want(rsp, wanted, cid).buf, last)
<1> DEFINE a == Answer(cid, "full", 0, cid \in StickyAnswers)
<1>1. a.n = 0
  BY DEF Answer
<1>2. Want(rsp, wanted, cid) = IF wanted THEN Queue(rsp, a) ELSE rsp
  BY DEF Want
<1> HIDE DEF a
<1>3. Ordered(told, Queue(rsp, a).buf, last)
  BY <1>1, QueueOrdered DEF IsBuffer
<1>4. IsBuffer(Want(rsp, wanted, cid))
  BY WantGrows DEF Grown
<1> QED
  BY <1>2, <1>3, <1>4

\* So append_uplink_mac_cmds() keeps the order.
LEMMA WithStickyOrdered ==
  ASSUME BufferTypeOK, NEW told \in Seq(Nat), NEW last \in Nat,
         Ordered(told, mac_rsp.buf, last)
  PROVE  Ordered(told, WithSticky.buf, last)
<1>0. /\ {"LinkCheckReq", "DeviceTimeReq", "RXParamSetupAns", "DlChannelAns",
          "RXTimingSetupAns"} \subseteq Answers
      /\ link_check_req_pending \in BOOLEAN /\ device_time_req_pending \in BOOLEAN
      /\ \A cid : (cid \in sticky) \in BOOLEAN
      /\ IsBuffer(mac_rsp)
  BY DEF Answers, AppRequests, StickyAnswers, BufferTypeOK, IsBuffer, AnswerSet
<1> DEFINE Fine(rsp) == IsBuffer(rsp) /\ Ordered(told, rsp.buf, last)
           rx == Want(WithDeviceTime, "RXParamSetupAns" \in sticky, "RXParamSetupAns")
           dl == Want(rx, "DlChannelAns" \in sticky, "DlChannelAns")
<1>1. Fine(WithLinkCheck)
  BY <1>0, WantOrdered DEF WithLinkCheck
<1>2. Fine(WithDeviceTime)
  BY <1>0, <1>1, WantOrdered DEF WithDeviceTime
<1>3. Fine(rx)
  BY <1>0, <1>2, WantOrdered
<1> HIDE DEF rx
<1>4. Fine(dl)
  BY <1>0, <1>3, WantOrdered
<1> HIDE DEF dl
<1>5. Fine(Want(dl, "RXTimingSetupAns" \in sticky, "RXTimingSetupAns"))
  BY <1>0, <1>4, WantOrdered
<1> QED
  BY <1>5 DEF WithSticky, rx, dl

\* A transmission moves the buffer to the air.
LEMMA TransmissionOrdered ==
  ASSUME TypeOK, OrderInv, TxOk PROVE OrderInv'
<1> DEFINE buf == mac_rsp.buf
           numbers == [i \in DOMAIN buf |-> buf[i].n]
           n == Len(answered)
           m == Len(numbers)
<1>1. /\ answered' = answered \o numbers /\ requests' = requests
      /\ mac_rsp'.buf = <<>>
  BY DEF TxOk, Carried, served
<1>2. answered \in Seq(Nat) /\ buf \in Seq(AnswerSet) /\ requests \in Nat
  BY Zenon DEF OrderInv, TypeOK, BufferTypeOK, HistoryTypeOK, AnswerSet
<1>3. /\ numbers \in Seq(Nat)
      /\ \A i \in DOMAIN numbers : i \in DOMAIN buf /\ numbers[i] = buf[i].n
  <2>1. /\ Len(buf) \in Nat /\ DOMAIN buf = 1 .. Len(buf)
        /\ \A i \in DOMAIN buf : buf[i].n \in Nat
    BY <1>2, NumbersTyped
  <2> HIDE DEF buf
  <2> QED
    BY <2>1
<1>4. Ordered(answered, buf, requests)
  BY DEF OrderInv
<1> HIDE DEF buf, numbers
<1>5. /\ n \in Nat /\ m \in Nat /\ DOMAIN answered = 1 .. n /\ DOMAIN numbers = 1 .. m
      /\ answered' \in Seq(Nat) /\ DOMAIN answered' = 1 .. n + m
      /\ \A i \in 1 .. n : answered'[i] = answered[i]
      /\ \A i \in n + 1 .. n + m : answered'[i] = numbers[i - n] /\ i - n \in 1 .. m
  BY <1>1, <1>2, <1>3
<1> HIDE DEF n, m
<1>6. InOrder(answered')
  <2> SUFFICES ASSUME NEW i \in 1 .. n + m, NEW j \in 1 .. n + m, i < j,
                      answered'[i] > 0, answered'[j] > 0
               PROVE  answered'[i] < answered'[j]
    BY <1>5 DEF InOrder
  <2>1. CASE j \in 1 .. n
    <3>1. i \in 1 .. n
      BY <1>5, <2>1
    <3> QED
      BY <1>4, <1>5, <2>1, <3>1 DEF Ordered, InOrder
  <2>2. CASE i \in 1 .. n /\ j \in n + 1 .. n + m
    BY <1>3, <1>4, <1>5, <2>2 DEF Ordered
  <2>3. CASE i \in n + 1 .. n + m
    <3>1. j \in n + 1 .. n + m /\ i - n < j - n
      BY <1>5, <2>3
    <3>2. /\ answered'[i] = numbers[i - n] /\ answered'[j] = numbers[j - n]
          /\ i - n \in DOMAIN numbers /\ j - n \in DOMAIN numbers
      BY <1>5, <2>3, <3>1
    <3> QED
      BY <1>3, <1>4, <3>1, <3>2 DEF Ordered
  <2> QED
    BY <1>5, <2>1, <2>2, <2>3
<1>7. \A i \in DOMAIN answered' : answered'[i] <= requests
  <2> SUFFICES ASSUME NEW i \in 1 .. n + m PROVE answered'[i] <= requests
    BY <1>5
  <2>1. CASE i \in 1 .. n
    BY <1>4, <1>5, <2>1 DEF Ordered
  <2>2. CASE i \in n + 1 .. n + m
    BY <1>3, <1>4, <1>5, <2>2 DEF Ordered
  <2> QED
    BY <1>5, <2>1, <2>2
<1> QED
  BY <1>1, <1>5, <1>6, <1>7 DEF OrderInv, Ordered

\* Answers go out in the order of the requests and once each, however often a
\* transmission failed and whatever came in the windows in between: what a failed
\* uplink leaves in the buffer is older than every answer that joins it.
THEOREM OrderKept == Spec => []AnsweredInOrder
<1>1. Init => OrderInv
  BY DEF Init, OrderInv, Ordered, InOrder
<1>2. TypeOK /\ OrderInv /\ [Next]_vars => OrderInv'
  <2> SUFFICES ASSUME TypeOK, OrderInv, [Next]_vars PROVE OrderInv'
    OBVIOUS
  <2>0. /\ answered \in Seq(Nat) /\ requests \in Nat /\ BufferTypeOK
        /\ mac_rsp.buf \in Seq(AnswerSet) /\ Ordered(answered, mac_rsp.buf, requests)
    BY Zenon DEF OrderInv, TypeOK, BufferTypeOK, HistoryTypeOK, AnswerSet
  <2>1. CASE UNCHANGED <<mac_rsp, answered>> /\ requests' \in {requests, requests + 1}
    BY <2>0, <2>1, LaterOrdered DEF OrderInv
  <2>2. CASE IsReply(mac_rsp') /\ requests' = requests + 1 /\ UNCHANGED answered
    <3>1. PICK cid, status : cid \in Answers /\
                 mac_rsp' = Queue(mac_rsp, Answer(cid, status, requests + 1, FALSE))
      BY <2>2 DEF IsReply
    <3> DEFINE a == Answer(cid, status, requests + 1, FALSE)
    <3>2. a.n = requests + 1
      BY DEF Answer
    <3> HIDE DEF a
    <3>3. Ordered(answered, Queue(mac_rsp, a).buf, requests + 1)
      BY <2>0, <3>2, QueueOrdered
    <3> QED
      BY <2>0, <2>2, <3>1, <3>3 DEF OrderInv, a
  <2>3. CASE mac_rsp' = WithSticky /\ UNCHANGED <<requests, answered>>
    BY <2>0, <2>3, WithStickyOrdered DEF OrderInv
  <2>4. CASE TxOk
    BY <2>4, TransmissionOrdered
  <2> QED
    BY BufferMoves, <2>1, <2>2, <2>3, <2>4 DEF BufferSteps
<1>3. OrderInv => AnsweredInOrder
  BY DEF OrderInv, Ordered, AnsweredInOrder
<1> QED
  BY <1>1, <1>2, <1>3, TypeCorrect, PTL DEF Spec
=============================================================================
