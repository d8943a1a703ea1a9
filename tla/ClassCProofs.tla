----------------------------- MODULE ClassCProofs -----------------------------
(***************************************************************************)
(* Theorems about ClassC, for every value of its bounds.                   *)
(***************************************************************************)
EXTENDS ClassC, TLAPS

Sends(s) == pc[s] \in {"yield", "tx", "window", "out"}

\* Who holds the mutex, read off the program counters.
MutexInv ==
  /\ Sends("app") \/ At("app", "join") <=> lorawan_mutex = "app"
  /\ Sends("workq") <=> lorawan_mutex = "workq"
  /\ At("rx", "process") <=> lorawan_mutex = "rx"

\* A reception is on exactly while the thread waits for its end or ends it.
RadioInv == radio = "recv" <=> pc["rx"] \in {"take", "stop"}

\* A running lorawan_send() found Class C off or has it paused; nobody undoes
\* either before it returns.
PauseInv ==
  \A s \in Senders : Sends(s) =>
    IF was_class_c[s] THEN class_c_paused ELSE ~class_c_active

\* With Class C off the thread is on its way out and starts no reception.  While
\* lorawan_set_class() waits for that, no acknowledgement is due.
OffSteps == {"none", "poll", "backoff", "lock", "process"}
LeaveInv ==
  ~class_c_active =>
    \/ At("app", "leave") /\ NothingToSend
    \/ pc["rx"] \in OffSteps

\* Class C is on from lorawan_set_class(C) until lorawan_set_class(A).
ClassInv == class_c_active <=> dev_class = "C" /\ ~At("app", "leave")

\* A thread is created over none, and while nothing is to be sent; none loses the
\* semaphore it waits on.
CreateInv ==
  /\ ~At("rx", "lost")
  /\ At("app", "create") => NothingToSend /\ At("rx", "none") /\ class_c_active
  /\ At("app", "join") => At("rx", "none")
  /\ At("app", "leave") => dev_class = "C"

\* Once a frame is being transmitted or its windows are open, the thread sleeps,
\* waits for the mutex or is gone.
QuietInv ==
  \A s \in Senders : UsesRadio(s) => pc["rx"] \in {"none", "poll", "backoff", "lock"}

\* Nothing sleeps on a semaphore that should have been given.
WakeInv ==
  /\ pc["rx"] \in {"config", "start", "take"} /\ class_c_data_sem = 0 => ~Paused
  /\ pc["rx"] \in {"start", "take"} /\ class_c_data_sem = 0 => class_c_rx_len = 0

PauseHolds ==
  /\ MutexInv /\ RadioInv /\ PauseInv /\ LeaveInv
  /\ ClassInv /\ CreateInv /\ QuietInv /\ WakeInv
-----------------------------------------------------------------------------
(* Types *)

\* The initial state is well typed.
LEMMA TypeInit == Init => TypeOK
<1> SUFFICES ASSUME Init PROVE TypeOK
  OBVIOUS
<1>1. /\ pc \in [Threads -> RxSteps \cup AppSteps]
      /\ pc["rx"] \in RxSteps /\ pc["app"] \in AppSteps /\ pc["workq"] \in SendSteps
  BY DEF Init, Threads, Senders, RxSteps, AppSteps, SendSteps
<1>2. was_class_c \in [Senders -> BOOLEAN]
  BY DEF Init
<1>3. /\ arrived \in 0 .. MaxArrivals /\ handed \in Seq(0 .. MaxArrivals)
      /\ class_c_rx_len \in 0 .. MaxArrivals
      /\ sends \in 0 .. MaxSends /\ changes \in 0 .. MaxChanges /\ faults \in 0 .. MaxFaults
  BY ClassCAssumption DEF Init
<1>4. /\ class_c_active \in BOOLEAN /\ class_c_paused \in BOOLEAN
      /\ class_c_shutdown \in BOOLEAN /\ class_c_ack_work \in BOOLEAN
      /\ overwritten \in BOOLEAN
  BY DEF Init
<1>5. class_c_data_sem \in 0 .. 1
  BY DEF Init
<1>6. /\ dev_class \in {"A", "C"} /\ radio \in {"standby", "recv"}
      /\ lorawan_mutex \in Threads \cup {"nobody"}
  BY DEF Init
<1> QED
  BY <1>1, <1>2, <1>3, <1>4, <1>5, <1>6 DEF TypeOK

\* A step of one thread keeps the program counters typed.
LEMMA GotoTyped ==
  ASSUME TypeOK, NEW t \in Threads, NEW step, Goto(t, step),
         IF t = "rx" THEN step \in RxSteps
         ELSE IF t = "app" THEN step \in AppSteps ELSE step \in SendSteps
  PROVE  /\ pc' \in [Threads -> RxSteps \cup AppSteps]
         /\ pc'["rx"] \in RxSteps /\ pc'["app"] \in AppSteps /\ pc'["workq"] \in SendSteps
BY DEF TypeOK, Goto, Threads, Senders, AppSteps

\* The receive thread keeps every type.
LEMMA TypeRx == ASSUME TypeOK, RxThread PROVE TypeOK'
<1> USE DEF Threads, Senders, flags, signals, locks, history, bounds
<1>1. CASE RxPolls
  BY <1>1, GotoTyped DEF RxPolls, TypeOK, RxSteps
<1>2. CASE RxConfigures
  BY <1>2, GotoTyped, ClassCAssumption DEF RxConfigures, TypeOK, RxSteps
<1>3. CASE RxStarts
  BY <1>3, GotoTyped DEF RxStarts, TypeOK, RxSteps
<1>4. CASE RxFaults
  <2>1. faults' \in 0 .. MaxFaults
    BY <1>4, ClassCAssumption DEF RxFaults, TypeOK
  <2> QED
    BY <1>4, <2>1, GotoTyped DEF RxFaults, TypeOK, RxSteps
<1>5. CASE RxWakes
  BY <1>5, GotoTyped DEF RxWakes, TypeOK, RxSteps
<1>6. CASE RxTakes
  BY <1>6, GotoTyped DEF RxTakes, TypeOK, RxSteps
<1>7. CASE RxStops
  BY <1>7, GotoTyped DEF RxStops, TypeOK, RxSteps
<1>8. CASE RxChecks
  BY <1>8, GotoTyped DEF RxChecks, TypeOK, RxSteps
<1>9. CASE RxLocks
  BY <1>9, GotoTyped DEF RxLocks, TypeOK, RxSteps
<1>10. ASSUME NEW ack \in BOOLEAN, RxProcesses(ack) PROVE TypeOK'
  <2>1. handed' \in Seq(0 .. MaxArrivals)
    BY <1>10 DEF RxProcesses, TypeOK
  <2>2. class_c_ack_work' \in BOOLEAN
    BY <1>10, Zenon DEF RxProcesses, TypeOK
  <2> QED
    BY <1>10, <2>1, <2>2, GotoTyped DEF RxProcesses, TypeOK, RxSteps
<1> QED
  BY <1>1, <1>2, <1>3, <1>4, <1>5, <1>6, <1>7, <1>8, <1>9, <1>10 DEF RxThread

\* lorawan_send() keeps every type.
LEMMA TypeSending ==
  ASSUME TypeOK, NEW s \in Senders, Sending(s) PROVE TypeOK'
<1> USE DEF Threads, Senders, flags, signals, locks, history, bounds
<1>1. CASE SendBegins(s)
  <2> DEFINE c == dev_class = "C" /\ class_c_active
  <2>1. c \in BOOLEAN
    OBVIOUS
  <2>2. /\ was_class_c' = [was_class_c EXCEPT ![s] = c]
        /\ class_c_paused' = (class_c_paused \/ c)
        /\ class_c_data_sem' = IF c THEN 1 ELSE class_c_data_sem
        /\ Goto(s, IF c THEN "yield" ELSE "tx")
    BY <1>1 DEF SendBegins
  <2> HIDE DEF c
  <2>3. was_class_c' \in [Senders -> BOOLEAN]
    BY <2>1, <2>2 DEF TypeOK
  <2>4. class_c_paused' \in BOOLEAN
    BY <2>1, <2>2, Zenon DEF TypeOK
  <2>5. class_c_data_sem' \in 0 .. 1
    BY <2>2 DEF TypeOK
  <2>6. /\ pc' \in [Threads -> RxSteps \cup AppSteps]
        /\ pc'["rx"] \in RxSteps /\ pc'["app"] \in AppSteps /\ pc'["workq"] \in SendSteps
    BY <2>2, GotoTyped DEF AppSteps, SendSteps
  <2>7. lorawan_mutex' \in Threads \cup {"nobody"}
    BY <1>1 DEF SendBegins
  <2> QED
    BY <1>1, <2>3, <2>4, <2>5, <2>6, <2>7 DEF SendBegins, TypeOK
<1>2. CASE YieldEnds(s)
  BY <1>2, GotoTyped DEF YieldEnds, TypeOK, AppSteps, SendSteps
<1>3. CASE Transmits(s)
  BY <1>3, GotoTyped DEF Transmits, TypeOK, AppSteps, SendSteps
<1>4. CASE TransmitFails(s)
  <2>1. faults' \in 0 .. MaxFaults
    BY <1>4, ClassCAssumption DEF TransmitFails, TypeOK
  <2> QED
    BY <1>4, <2>1, GotoTyped DEF TransmitFails, TypeOK, AppSteps, SendSteps
<1>5. CASE WindowsEnd(s)
  BY <1>5, GotoTyped DEF WindowsEnd, TypeOK, AppSteps, SendSteps
<1>6. CASE SendReturns(s)
  <2>1. class_c_paused' \in BOOLEAN
    BY <1>6, Zenon DEF SendReturns, TypeOK
  <2> QED
    BY <1>6, <2>1, GotoTyped DEF SendReturns, TypeOK, AppSteps, SendSteps
<1> QED
  BY <1>1, <1>2, <1>3, <1>4, <1>5, <1>6 DEF Sending

\* The application's calls, the work queue and the radio.
Other ==
  \/ RadioReceives \/ AppSends \/ AckWorkRuns
  \/ JoinBegins \/ EnterClassC \/ LeaveClassC \/ StartsAgain \/ Ending

\* The application's other calls, the work queue and the radio keep every type.
LEMMA TypeOther == ASSUME TypeOK, Other PROVE TypeOK'
<1> USE DEF Threads, Senders, flags, signals, locks, history, bounds
<1>1. CASE RadioReceives
  <2>1. arrived' \in 0 .. MaxArrivals
    BY <1>1, ClassCAssumption DEF RadioReceives, TypeOK
  <2>2. class_c_data_sem' \in 0 .. 1 /\ class_c_rx_len' \in 0 .. MaxArrivals
    BY <1>1, <2>1 DEF RadioReceives, TypeOK
  <2> QED
    BY <1>1, <2>1, <2>2 DEF RadioReceives, TypeOK
<1>2. CASE AppSends
  <2>1. sends' \in 0 .. MaxSends
    BY <1>2, ClassCAssumption DEF AppSends, TypeOK
  <2> QED
    BY <1>2, <2>1, GotoTyped DEF AppSends, TypeOK, AppSteps, SendSteps
<1>3. CASE AckWorkRuns
  BY <1>3, GotoTyped DEF AckWorkRuns, TypeOK, AppSteps, SendSteps
<1>5. CASE JoinBegins
  <2>1. changes' \in 0 .. MaxChanges
    BY <1>5, ClassCAssumption DEF JoinBegins, Change, TypeOK
  <2> QED
    BY <1>5, <2>1, GotoTyped DEF JoinBegins, TypeOK, AppSteps
<1>6. CASE EnterClassC
  <2>1. changes' \in 0 .. MaxChanges
    BY <1>6, ClassCAssumption DEF EnterClassC, Change, TypeOK
  <2> QED
    BY <1>6, <2>1, GotoTyped DEF EnterClassC, TypeOK, AppSteps
<1>7. CASE LeaveClassC
  <2>1. changes' \in 0 .. MaxChanges
    BY <1>7, ClassCAssumption DEF LeaveClassC, Change, TypeOK
  <2>2. class_c_data_sem' \in 0 .. 1
    BY <1>7 DEF LeaveClassC
  <2>3. /\ class_c_active' \in BOOLEAN /\ class_c_paused' \in BOOLEAN
        /\ class_c_shutdown' \in BOOLEAN /\ class_c_ack_work' \in BOOLEAN
    BY <1>7 DEF LeaveClassC, TypeOK
  <2>4. /\ pc' \in [Threads -> RxSteps \cup AppSteps]
        /\ pc'["rx"] \in RxSteps /\ pc'["app"] \in AppSteps /\ pc'["workq"] \in SendSteps
    BY <1>7, GotoTyped DEF LeaveClassC, TypeOK, AppSteps
  <2> QED
    BY <1>7, <2>1, <2>2, <2>3, <2>4 DEF LeaveClassC, TypeOK
<1>8. CASE StartsAgain
  <2>1. changes' \in 0 .. MaxChanges
    BY <1>8, ClassCAssumption DEF StartsAgain, Change, TypeOK
  <2>2. class_c_data_sem' \in 0 .. 1
    BY <1>8 DEF StartsAgain
  <2>3. /\ class_c_active' \in BOOLEAN /\ class_c_paused' \in BOOLEAN
        /\ class_c_shutdown' \in BOOLEAN /\ class_c_ack_work' \in BOOLEAN
    BY <1>8 DEF StartsAgain, TypeOK
  <2>4. /\ pc' \in [Threads -> RxSteps \cup AppSteps]
        /\ pc'["rx"] \in RxSteps /\ pc'["app"] \in AppSteps /\ pc'["workq"] \in SendSteps
    BY <1>8, GotoTyped DEF StartsAgain, TypeOK, RxSteps
  <2> QED
    BY <1>8, <2>1, <2>2, <2>3, <2>4 DEF StartsAgain, TypeOK
<1>9. CASE JoinEnds
  BY <1>9, GotoTyped DEF JoinEnds, TypeOK, AppSteps, SendSteps
<1>10. CASE CreateThread
  <2>1. /\ pc' \in [Threads -> RxSteps \cup AppSteps]
        /\ pc'["rx"] \in RxSteps /\ pc'["app"] \in AppSteps /\ pc'["workq"] \in SendSteps
    BY <1>10 DEF CreateThread, TypeOK, RxSteps, AppSteps, SendSteps
  <2>2. overwritten' \in BOOLEAN
    BY <1>10, Zenon DEF CreateThread, TypeOK, At
  <2> QED
    BY <1>10, <2>1, <2>2 DEF CreateThread, TypeOK
<1>11. CASE LeftClassC
  BY <1>11, GotoTyped DEF LeftClassC, TypeOK, AppSteps, SendSteps
<1> QED
  BY <1>1, <1>2, <1>3, <1>5, <1>6, <1>7, <1>8, <1>9, <1>10, <1>11 DEF Other, Ending

\* A step is one of the receive thread, of a running uplink, or another.
LEMMA NextCases ==
  ASSUME Next PROVE RxThread \/ (\E s \in Senders : Sending(s)) \/ Other
BY DEF Next, Other

\* One step of anything keeps every type.
LEMMA TypeStep == TypeOK /\ [Next]_vars => TypeOK'
<1> SUFFICES ASSUME TypeOK, [Next]_vars PROVE TypeOK'
  OBVIOUS
<1>1. CASE Next
  BY <1>1, NextCases, TypeRx, TypeSending, TypeOther
<1>2. CASE UNCHANGED vars
  BY <1>2 DEF vars, flags, signals, locks, history, bounds, TypeOK
<1> QED
  BY <1>1, <1>2

\* Every variable keeps its type, whatever the application does.
THEOREM TypeCorrect == Spec => []TypeOK
BY TypeInit, TypeStep, PTL DEF Spec
-----------------------------------------------------------------------------
(* Frames are processed once and in order *)

\* A frame in the buffer, once the thread has cleared the last length, is newer
\* than all that was processed.
FreshInv ==
  /\ class_c_rx_len <= arrived
  /\ \A i \in DOMAIN handed : handed[i] <= arrived
  /\ pc["rx"] \in {"start", "take", "stop", "check", "lock", "process"} /\ class_c_rx_len > 0
       => \A i \in DOMAIN handed : handed[i] < class_c_rx_len
  /\ pc["rx"] \in {"lock", "process"} => class_c_rx_len > 0
  /\ HandedOnce

\* What a sequence holds.
LEMMA SeqElement == ASSUME NEW S, NEW q \in Seq(S), NEW i \in DOMAIN q PROVE q[i] \in S
OBVIOUS

\* A step that neither processes nor receives a frame.
LEMMA FreshKept ==
  ASSUME TypeOK, FreshInv, UNCHANGED <<arrived, handed>>,
         \/ class_c_rx_len' = class_c_rx_len
            /\ pc'["rx"] \in {pc["rx"], "none", "lost", "poll", "config", "backoff"}
         \/ class_c_rx_len' = class_c_rx_len /\ pc["rx"] # "config" /\ pc["rx"] # "poll"
            /\ pc["rx"] \in {"start", "take", "stop", "check", "lock"}
            /\ (pc'["rx"] \in {"lock", "process"} => class_c_rx_len > 0)
         \/ class_c_rx_len' = 0 /\ pc'["rx"] = "start"
  PROVE  FreshInv'
BY DEF TypeOK, FreshInv, HandedOnce

\* Every step keeps the buffered frame newer than those processed.
LEMMA FreshStep == ASSUME TypeOK, FreshInv, Next PROVE FreshInv'
<1> USE DEF Goto, At, Threads, Senders, signals, history
<1>1. ASSUME NEW ack \in BOOLEAN, RxProcesses(ack) PROVE FreshInv'
  <2>1. /\ handed' = Append(handed, class_c_rx_len) /\ arrived' = arrived
        /\ class_c_rx_len' = class_c_rx_len /\ pc'["rx"] = "poll"
        /\ pc["rx"] = "process"
    BY <1>1 DEF RxProcesses, TypeOK
  <2> QED
    BY <2>1 DEF FreshInv, HandedOnce, TypeOK
<1>2. CASE RadioReceives
  <2>1. /\ arrived' = arrived + 1 /\ handed' = handed /\ pc' = pc
        /\ class_c_rx_len' \in {class_c_rx_len, arrived + 1}
    BY <1>2 DEF RadioReceives
  <2>2. /\ arrived \in Nat /\ class_c_rx_len \in Nat /\ class_c_rx_len <= arrived
        /\ \A i \in DOMAIN handed : handed[i] \in Nat /\ handed[i] <= arrived
    <3>1. \A i \in DOMAIN handed : handed[i] \in 0 .. MaxArrivals
      BY SeqElement DEF TypeOK
    <3>2. arrived \in Nat /\ class_c_rx_len \in Nat
      BY ClassCAssumption DEF TypeOK
    <3> QED
      BY <3>1, <3>2, ClassCAssumption DEF FreshInv
  <2>3. /\ class_c_rx_len' <= arrived'
        /\ \A i \in DOMAIN handed' : handed'[i] <= arrived'
    BY <2>1, <2>2
  <2>4. CASE class_c_rx_len' = class_c_rx_len
    BY <2>1, <2>3, <2>4 DEF FreshInv, HandedOnce
  <2>5. CASE class_c_rx_len' = arrived + 1
    <3>1. class_c_rx_len' > 0 /\ \A i \in DOMAIN handed' : handed'[i] < class_c_rx_len'
      BY <2>1, <2>2, <2>5
    <3> QED
      BY <2>1, <2>3, <3>1 DEF FreshInv, HandedOnce
  <2> QED
    BY <2>1, <2>4, <2>5
<1>3. ASSUME RxThread, \A ack \in BOOLEAN : ~RxProcesses(ack) PROVE FreshInv'
  <2>1. UNCHANGED <<arrived, handed>>
    BY <1>3 DEF RxThread, RxPolls, RxConfigures, RxStarts, RxFaults, RxWakes, RxTakes,
                RxStops, RxChecks, RxLocks
  <2>2. CASE RxPolls \/ RxFaults \/ RxWakes
    <3>1. class_c_rx_len' = class_c_rx_len /\ pc'["rx"] \in {"none", "config", "backoff", "poll"}
      BY <2>2 DEF RxPolls, RxFaults, RxWakes, TypeOK
    <3> QED
      BY <2>1, <3>1, FreshKept
  <2>6. CASE RxTakes \/ RxStops \/ RxStarts
    <3>1. /\ class_c_rx_len' = class_c_rx_len /\ pc'["rx"] \in {"take", "stop", "check"}
          /\ pc["rx"] \in {"start", "take", "stop"}
      BY <2>6 DEF RxTakes, RxStops, RxStarts, TypeOK
    <3> QED
      BY <2>1, <3>1, FreshKept
  <2>3. CASE RxConfigures
    BY <2>1, <2>3, FreshKept DEF RxConfigures, TypeOK
  <2>4. CASE RxChecks
    BY <2>1, <2>4, FreshKept DEF RxChecks, TypeOK
  <2>5. CASE RxLocks
    BY <2>1, <2>5, FreshKept DEF RxLocks, TypeOK, FreshInv
  <2> QED
    BY <1>3, <2>2, <2>3, <2>4, <2>5, <2>6 DEF RxThread
<1>4. ASSUME NEW s \in Senders, Sending(s) PROVE FreshInv'
  <2>1. UNCHANGED <<arrived, handed, class_c_rx_len>>
    BY <1>4 DEF Sending, SendBegins, YieldEnds, Transmits, TransmitFails, WindowsEnd, SendReturns
  <2>2. pc'["rx"] = pc["rx"]
    BY <1>4 DEF Sending, SendBegins, YieldEnds, Transmits, TransmitFails, WindowsEnd,
                SendReturns, TypeOK
  <2> QED
    BY <2>1, <2>2, FreshKept
<1>5. CASE Other /\ ~RadioReceives
  <2>1. UNCHANGED <<arrived, handed, class_c_rx_len>>
    BY <1>5 DEF Other, Ending, AppSends, AckWorkRuns, JoinBegins, EnterClassC, LeaveClassC,
                StartsAgain, JoinEnds, CreateThread, LeftClassC
  <2>2. pc'["rx"] \in {pc["rx"], "lost", "poll"}
    BY <1>5 DEF Other, Ending, AppSends, AckWorkRuns, JoinBegins, EnterClassC, LeaveClassC,
                StartsAgain, JoinEnds, CreateThread, LeftClassC, TypeOK
  <2> QED
    BY <2>1, <2>2, FreshKept
<1> QED
  BY <1>1, <1>2, <1>3, <1>4, <1>5, NextCases

\* No frame was received or processed at first.
LEMMA FreshInit == Init => FreshInv
BY ClassCAssumption DEF Init, FreshInv, HandedOnce, Threads

\* No frame is processed twice or after a later one, in spite of semaphore counts
\* left over from a pause and whatever the application does.
THEOREM FramesOnce == Spec => []HandedOnce
<1>1. TypeOK /\ FreshInv /\ [Next]_vars => FreshInv'
  <2> SUFFICES ASSUME TypeOK, FreshInv, [Next]_vars PROVE FreshInv'
    OBVIOUS
  <2>1. CASE Next
    BY <2>1, FreshStep
  <2>2. CASE UNCHANGED vars
    BY <2>2 DEF vars, signals, history, FreshInv, HandedOnce
  <2> QED
    BY <2>1, <2>2
<1>2. FreshInv => HandedOnce
  BY DEF FreshInv
<1> QED
  BY <1>1, <1>2, FreshInit, TypeCorrect, PTL DEF Spec
-----------------------------------------------------------------------------
(* The pause keeps the radio free *)

\* No thread uses the radio at first.
LEMMA PauseInit == Init => PauseHolds
BY DEF Init, PauseHolds, MutexInv, RadioInv, PauseInv, LeaveInv, ClassInv, CreateInv,
       QuietInv, WakeInv, Senders, Threads, At, Sends, UsesRadio, OffSteps, NothingToSend

\* The receive thread respects the pause.
LEMMA PauseRx == ASSUME TypeOK, PauseHolds, RxThread PROVE PauseHolds'
<1> USE DEF TypeOK, PauseHolds, MutexInv, RadioInv, PauseInv, LeaveInv, ClassInv, CreateInv,
            QuietInv, WakeInv, Senders, Threads, At, Goto, Sends, UsesRadio, OffSteps,
            NothingToSend, Paused, flags, signals, locks
<1>1. CASE RxPolls
  <2>1. /\ pc'["app"] = pc["app"] /\ pc'["workq"] = pc["workq"] /\ pc["rx"] = "poll"
        /\ pc'["rx"] = IF class_c_shutdown THEN "none" ELSE "config"
        /\ class_c_shutdown \/ (class_c_active /\ ~class_c_paused)
        /\ UNCHANGED <<flags, signals, locks, class_c_ack_work, radio>>
    BY <1>1 DEF RxPolls
  <2>2. MutexInv' /\ RadioInv' /\ PauseInv'
    BY <2>1
  <2>3. LeaveInv' /\ ClassInv' /\ CreateInv'
    BY <2>1
  <2>4. QuietInv'
    <3> SUFFICES ASSUME NEW s \in Senders, UsesRadio(s)'
                 PROVE  pc'["rx"] = "none"
      BY DEF QuietInv
    <3>1. UsesRadio(s) /\ s \in {"app", "workq"}
      BY <2>1
    <3>2. Sends(s) \/ At(s, "join")
      BY <3>1
    <3>3. CASE Sends(s)
      BY <2>1, <3>1, <3>3
    <3>4. CASE At(s, "join")
      BY <2>1, <3>1, <3>4 DEF SendSteps
    <3> QED
      BY <3>2, <3>3, <3>4
  <2>5. WakeInv'
    BY <2>1
  <2> QED
    BY <2>2, <2>3, <2>4, <2>5
<1>2. CASE RxConfigures
  BY <1>2 DEF RxConfigures
<1>3. CASE RxStarts
  BY <1>3 DEF RxStarts
<1>4. CASE RxFaults
  BY <1>4 DEF RxFaults
<1>5. CASE RxWakes
  BY <1>5 DEF RxWakes
<1>6. CASE RxTakes
  BY <1>6 DEF RxTakes
<1>7. CASE RxStops
  BY <1>7 DEF RxStops
<1>8. CASE RxChecks
  BY <1>8 DEF RxChecks
<1>9. CASE RxLocks
  <2>1. /\ pc'["app"] = pc["app"] /\ pc'["workq"] = pc["workq"]
        /\ pc["rx"] = "lock" /\ pc'["rx"] = "process"
        /\ lorawan_mutex = "nobody" /\ lorawan_mutex' = "rx"
        /\ UNCHANGED <<flags, signals, was_class_c, class_c_ack_work, radio>>
    BY <1>9 DEF RxLocks
  <2>2. MutexInv' /\ RadioInv' /\ PauseInv'
    BY <2>1
  <2>3. LeaveInv' /\ ClassInv' /\ CreateInv'
    BY <2>1
  <2>4. QuietInv'
    <3> SUFFICES ASSUME NEW s \in Senders, UsesRadio(s)'
                 PROVE  FALSE
      BY DEF QuietInv
    <3>1. UsesRadio(s) /\ s \in {"app", "workq"}
      BY <2>1
    <3>2. Sends(s) \/ At(s, "join")
      BY <3>1
    <3>3. CASE Sends(s)
      BY <2>1, <3>1, <3>3
    <3>4. CASE At(s, "join")
      BY <2>1, <3>1, <3>4 DEF SendSteps
    <3> QED
      BY <3>2, <3>3, <3>4
  <2>5. WakeInv'
    BY <2>1
  <2> QED
    BY <2>2, <2>3, <2>4, <2>5
<1>10. ASSUME NEW ack \in BOOLEAN, RxProcesses(ack) PROVE PauseHolds'
  BY <1>10 DEF RxProcesses
<1> QED
  BY <1>1, <1>2, <1>3, <1>4, <1>5, <1>6, <1>7, <1>8, <1>9, <1>10 DEF RxThread

\* lorawan_send() pauses the thread before it uses the radio, and resumes it after.
LEMMA PauseSending ==
  ASSUME TypeOK, PauseHolds, NEW s \in Senders, Sending(s) PROVE PauseHolds'
<1> USE DEF TypeOK, PauseHolds, MutexInv, RadioInv, PauseInv, LeaveInv, ClassInv, CreateInv,
            QuietInv, WakeInv, Senders, Threads, At, Goto, Sends, UsesRadio, OffSteps,
            NothingToSend, Paused, flags, signals, locks
<1>1. CASE SendBegins(s)
  BY <1>1 DEF SendBegins
<1>2. CASE YieldEnds(s)
  BY <1>2 DEF YieldEnds, RxSettled
<1>3. CASE Transmits(s)
  BY <1>3 DEF Transmits
<1>4. CASE TransmitFails(s)
  BY <1>4 DEF TransmitFails
<1>5. CASE WindowsEnd(s)
  BY <1>5 DEF WindowsEnd
<1>6. CASE SendReturns(s)
  BY <1>6 DEF SendReturns
<1> QED
  BY <1>1, <1>2, <1>3, <1>4, <1>5, <1>6 DEF Sending

\* An application that takes no liberty does not disturb the pause.
LEMMA PauseOther ==
  ASSUME Liberties = {}, TypeOK, PauseHolds, Other PROVE PauseHolds'
<1> USE DEF TypeOK, PauseHolds, MutexInv, RadioInv, PauseInv, LeaveInv, ClassInv, CreateInv,
            QuietInv, WakeInv, Senders, Threads, At, Goto, Sends, UsesRadio, OffSteps,
            NothingToSend, Paused, flags, signals, locks, Change
<1>1. CASE RadioReceives
  BY <1>1 DEF RadioReceives
<1>2. CASE AppSends
  BY <1>2 DEF AppSends
<1>3. CASE AckWorkRuns
  BY <1>3 DEF AckWorkRuns
<1>4. CASE JoinBegins
  BY <1>4 DEF JoinBegins
<1>5. CASE JoinEnds
  BY <1>5 DEF JoinEnds
<1>6. CASE EnterClassC
  BY <1>6 DEF EnterClassC
<1>7. CASE CreateThread
  BY <1>7 DEF CreateThread
<1>8. CASE LeaveClassC
  BY <1>8 DEF LeaveClassC
<1>9. CASE LeftClassC
  BY <1>9 DEF LeftClassC, RxStuck
<1>10. CASE StartsAgain
  BY <1>10 DEF StartsAgain
<1> QED
  BY <1>1, <1>2, <1>3, <1>4, <1>5, <1>6, <1>7, <1>8, <1>9, <1>10 DEF Other, Ending

\* One step of anything keeps the pause.
LEMMA PauseStep ==
  ASSUME Liberties = {}, TypeOK, PauseHolds, [Next]_vars PROVE PauseHolds'
<1>1. CASE Next
  BY <1>1, NextCases, PauseRx, PauseSending, PauseOther
<1>2. CASE UNCHANGED vars
  BY <1>2 DEF vars, flags, signals, locks, PauseHolds, MutexInv, RadioInv, PauseInv,
              LeaveInv, ClassInv, CreateInv, QuietInv, WakeInv, Sends, UsesRadio, At,
              NothingToSend, Paused
<1> QED
  BY <1>1, <1>2

\* What the pause promises follows from the invariant.
LEMMA PausePromises == TypeOK /\ PauseHolds => RadioExclusive /\ NoLostWakeup
<1>1. TypeOK /\ PauseHolds => RadioExclusive
  BY DEF PauseHolds, QuietInv, RadioInv, RadioExclusive, TypeOK
<1>2. PauseHolds => NoLostWakeup
  BY DEF PauseHolds, WakeInv, NoLostWakeup, At
<1> QED
  BY <1>1, <1>2

\* The pause of lorawan_send() keeps the radio to the sender: with an application
\* that takes no liberty, no reception of the receive thread is on or starts while
\* an uplink, its windows or a join exchange use the radio.
THEOREM RadioFree == ASSUME Liberties = {} PROVE Spec => []RadioExclusive
<1>1. TypeOK /\ PauseHolds /\ [Next]_vars => PauseHolds'
  BY PauseStep
<1>2. TypeOK /\ PauseHolds => RadioExclusive
  BY PausePromises
<1> QED
  BY <1>1, <1>2, PauseInit, TypeCorrect, PTL DEF Spec

\* No wake-up is lost: with an application that takes no liberty, the receive thread
\* never waits on an empty semaphore while it is paused or a frame is in its buffer.
THEOREM WakeupKept == ASSUME Liberties = {} PROVE Spec => []NoLostWakeup
<1>1. TypeOK /\ PauseHolds /\ [Next]_vars => PauseHolds'
  BY PauseStep
<1>2. TypeOK /\ PauseHolds => NoLostWakeup
  BY PausePromises
<1> QED
  BY <1>1, <1>2, PauseInit, TypeCorrect, PTL DEF Spec
-----------------------------------------------------------------------------
(* The buffer of the frame that was checked *)

\* The callback runs only while the thread waits for it, ends the reception or
\* has lost its semaphore; and no thread is created over another.
BufferInv ==
  /\ radio = "recv" => pc["rx"] \in {"take", "stop", "lost"}
  /\ At("app", "create") => At("rx", "none")

\* The receive thread starts the reception before it waits and ends it before it
\* checks the buffer; no one else turns it on.
LEMMA BufferStep ==
  ASSUME "class" \notin Liberties, TypeOK, BufferInv, [Next]_vars
  PROVE  BufferInv'
<1> USE DEF BufferInv, TypeOK, Threads, Senders, At, Goto
<1>1. CASE UNCHANGED vars
  BY <1>1 DEF vars
<1>2. CASE RxThread
  BY <1>2 DEF RxThread, RxPolls, RxConfigures, RxStarts, RxFaults, RxWakes, RxTakes,
              RxStops, RxChecks, RxLocks, RxProcesses
<1>3. ASSUME NEW s \in Senders, Sending(s) PROVE BufferInv'
  BY <1>3 DEF Sending, SendBegins, YieldEnds, Transmits, TransmitFails, WindowsEnd, SendReturns
<1>4. CASE Other
  <2>1. CASE RadioReceives \/ AppSends \/ AckWorkRuns \/ JoinBegins \/ LeaveClassC
    BY <2>1 DEF RadioReceives, AppSends, AckWorkRuns, JoinBegins, LeaveClassC, Change
  <2>2. CASE EnterClassC
    BY <2>2 DEF EnterClassC, Change
  <2>3. CASE StartsAgain
    BY <2>3 DEF StartsAgain, Change
  <2>4. CASE Ending
    BY <2>4 DEF Ending, JoinEnds, CreateThread, LeftClassC
  <2> QED
    BY <1>4, <2>1, <2>2, <2>3, <2>4 DEF Other
<1> QED
  BY <1>1, <1>2, <1>3, <1>4, NextCases

\* Only the callback and the configuration of a reception write the length.
LEMMA BufferWritten ==
  ASSUME TypeOK, BufferInv, [Next]_vars, pc["rx"] \in {"lock", "process"}
  PROVE  class_c_rx_len' = class_c_rx_len
<1> USE DEF signals
<1>1. CASE UNCHANGED vars
  BY <1>1 DEF vars
<1>2. CASE RxThread
  BY <1>2 DEF RxThread, RxPolls, RxConfigures, RxStarts, RxFaults, RxWakes, RxTakes,
              RxStops, RxChecks, RxLocks, RxProcesses, At
<1>3. ASSUME NEW s \in Senders, Sending(s) PROVE class_c_rx_len' = class_c_rx_len
  BY <1>3 DEF Sending, SendBegins, YieldEnds, Transmits, TransmitFails, WindowsEnd, SendReturns
<1>4. CASE Other
  BY <1>4 DEF Other, Ending, RadioReceives, AppSends, AckWorkRuns, JoinBegins, EnterClassC,
              LeaveClassC, StartsAgain, JoinEnds, CreateThread, LeftClassC, BufferInv
<1> QED
  BY <1>1, <1>2, <1>3, <1>4, NextCases

\* The buffer that the thread checked is the one it processes, however long it
\* waits for the mutex: as long as the application does not change the class under
\* a running thread, it may even join and start again as it likes.
THEOREM FrameKept == ASSUME "class" \notin Liberties PROVE Spec => FrameIntact
<1>1. Init => BufferInv
  BY DEF Init, BufferInv, At, Threads, Senders
<1>2. TypeOK /\ BufferInv /\ [Next]_vars => BufferInv'
  BY BufferStep
<1>3. TypeOK /\ BufferInv /\ [Next]_vars =>
        [pc["rx"] \in {"lock", "process"} => class_c_rx_len' = class_c_rx_len]_vars
  BY BufferWritten
<1> QED
  BY <1>1, <1>2, <1>3, TypeCorrect, PTL DEF Spec, FrameIntact
=============================================================================
