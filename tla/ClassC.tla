-------------------------------- MODULE ClassC --------------------------------
(***************************************************************************)
(* The continuous reception of Class C: the receive thread, the radio      *)
(* callback, the delayed acknowledgement work, lorawan_send() with its     *)
(* pause, lorawan_join() without one, and lorawan_set_class() and          *)
(* lorawan_start(), which change the flags under the thread's feet.        *)
(*                                                                         *)
(* Three threads run: the application ("app"), the system work queue       *)
(* ("workq") and the receive thread ("rx"); the radio calls back at any    *)
(* moment of a reception.  A step is a stretch of a thread's code between  *)
(* two points where it may have to wait or where what it tested may have   *)
(* changed; the callback is one step, as the receive thread (priority 8,   *)
(* preemptible) does not preempt it.  A frame is its arrival number:       *)
(* class_c_rx_len = n > 0 says that the buffer holds arrival n.            *)
(*                                                                         *)
(* Two waits in the code count on time instead of an answer: 100 ms in     *)
(* lorawan_send() and 200 ms in lorawan_set_class().  The model takes them *)
(* as long enough for every step of the receive thread that neither sleeps *)
(* nor waits (RxSettled, RxStuck): only what is asleep or blocked is late. *)
(***************************************************************************)
EXTENDS Naturals, Sequences, FiniteSets

CONSTANTS
  Liberties,    \* what the application does although nothing makes it safe
  MaxArrivals,  \* bound: frames the radio receives
  MaxSends,     \* bound: calls of lorawan_send() by the application
  MaxChanges,   \* bound: calls of lorawan_set_class(), _join() and _start()
  MaxFaults     \* bound: failures of the radio driver

\* "class": change the class while the acknowledgement work is about to send or
\* sends, or enter Class C while the thread of the last time has not ended;
\* "join": lorawan_join() in Class C; "start": lorawan_start() with a receive
\* thread alive.  The code tests for none of them and no document warns of them.
ASSUME ClassCAssumption ==
  /\ Liberties \subseteq {"class", "join", "start"}
  /\ MaxArrivals \in Nat /\ MaxSends \in Nat
  /\ MaxChanges \in Nat /\ MaxFaults \in Nat

VARIABLES
  dev_class, class_c_active, class_c_paused, class_c_shutdown,
  class_c_data_sem, class_c_rx_len,
  lorawan_mutex,    \* who holds it
  class_c_ack_work, \* the work is scheduled
  was_class_c,      \* the local of each lorawan_send()
  radio,            \* "recv" while an asynchronous reception is on
  pc,               \* where each thread is
  arrived, handed,  \* history: frames received, and those processed in order
  overwritten,      \* history: a thread was created over a live one
  sends, changes, faults

flags   == <<dev_class, class_c_active, class_c_paused, class_c_shutdown>>
signals == <<class_c_data_sem, class_c_rx_len>>
locks   == <<lorawan_mutex, was_class_c>>
history == <<arrived, handed, overwritten>>
bounds  == <<sends, changes, faults>>
vars == <<flags, signals, locks, class_c_ack_work, radio, pc, history, bounds>>

Senders == {"app", "workq"}
Threads == Senders \cup {"rx"}
RxSteps == {"none", "lost", "poll", "config", "start", "take", "stop", "check",
            "lock", "process", "backoff"}
SendSteps == {"idle", "lock", "yield", "tx", "window", "out"}
AppSteps  == SendSteps \cup {"join", "create", "leave"}

Init ==
  /\ dev_class = "A"
  /\ class_c_active = FALSE /\ class_c_paused = FALSE /\ class_c_shutdown = FALSE
  /\ class_c_data_sem = 0 /\ class_c_rx_len = 0
  /\ lorawan_mutex = "nobody" /\ was_class_c = [s \in Senders |-> FALSE]
  /\ class_c_ack_work = FALSE /\ radio = "standby"
  /\ pc = [t \in Threads |-> IF t = "rx" THEN "none" ELSE "idle"]
  /\ arrived = 0 /\ handed = <<>> /\ overwritten = FALSE
  /\ sends = 0 /\ changes = 0 /\ faults = 0

At(t, step) == pc[t] = step
Goto(t, step) == pc' = [pc EXCEPT ![t] = step]
Paused == ~class_c_active \/ class_c_paused
-----------------------------------------------------------------------------
(* The receive thread and the radio callback *)

\* Asleep until the flags let it receive or tell it to end.
RxPolls ==
  /\ At("rx", "poll") /\ (~Paused \/ class_c_shutdown)
  /\ Goto("rx", IF class_c_shutdown THEN "none" ELSE "config")
  /\ UNCHANGED <<flags, signals, locks, class_c_ack_work, radio, history, bounds>>

\* Mutant of RxConfigures: the length of the last frame is not cleared.
MutRxConfigures ==
  /\ At("rx", "config") /\ Goto("rx", "start")
  /\ UNCHANGED <<flags, signals, locks, class_c_ack_work, radio, history, bounds>>

RxConfigures ==
  /\ At("rx", "config") /\ Goto("rx", "start")
  /\ class_c_rx_len' = 0
  /\ UNCHANGED <<flags, class_c_data_sem, locks, class_c_ack_work, radio, history, bounds>>

RxStarts ==
  /\ At("rx", "start") /\ Goto("rx", "take")
  /\ radio' = "recv"
  /\ UNCHANGED <<flags, signals, locks, class_c_ack_work, history, bounds>>

\* radio_configure_rx() or lora_recv_async() fails: the thread sleeps 1 s.
RxFaults ==
  /\ At("rx", "config") \/ At("rx", "start")
  /\ faults < MaxFaults /\ faults' = faults + 1
  /\ Goto("rx", "backoff")
  /\ UNCHANGED <<flags, signals, locks, class_c_ack_work, radio, history, sends, changes>>

RxWakes ==
  /\ At("rx", "backoff") /\ Goto("rx", "poll")
  /\ UNCHANGED <<flags, signals, locks, class_c_ack_work, radio, history, bounds>>

\* Mutant of RadioReceives: the semaphore counts past its limit.
MutRadioReceives ==
  /\ radio = "recv" /\ arrived < MaxArrivals
  /\ arrived' = arrived + 1
  /\ IF Paused THEN UNCHANGED signals
     ELSE class_c_rx_len' = arrived + 1 /\ class_c_data_sem' = class_c_data_sem + 1
  /\ UNCHANGED <<flags, locks, class_c_ack_work, radio, pc, handed, overwritten, bounds>>

\* class_c_rx_cb(): a frame that comes while the stack is paused is dropped.
RadioReceives ==
  /\ radio = "recv" /\ arrived < MaxArrivals
  /\ arrived' = arrived + 1
  /\ IF Paused THEN UNCHANGED signals
     ELSE class_c_rx_len' = arrived + 1 /\ class_c_data_sem' = 1
  /\ UNCHANGED <<flags, locks, class_c_ack_work, radio, pc, handed, overwritten, bounds>>

RxTakes ==
  /\ At("rx", "take") /\ class_c_data_sem = 1
  /\ class_c_data_sem' = 0
  /\ Goto("rx", "stop")
  /\ UNCHANGED <<flags, class_c_rx_len, locks, class_c_ack_work, radio, history, bounds>>

\* Mutant of RxStops: the reception is not cancelled.
MutRxStops ==
  /\ At("rx", "stop") /\ Goto("rx", "check")
  /\ UNCHANGED <<flags, signals, locks, class_c_ack_work, radio, history, bounds>>

RxStops ==
  /\ At("rx", "stop") /\ Goto("rx", "check")
  /\ radio' = "standby"
  /\ UNCHANGED <<flags, signals, locks, class_c_ack_work, history, bounds>>

RxChecks ==
  /\ At("rx", "check")
  /\ Goto("rx", IF Paused \/ class_c_rx_len = 0 THEN "poll" ELSE "lock")
  /\ UNCHANGED <<flags, signals, locks, class_c_ack_work, radio, history, bounds>>

RxLocks ==
  /\ At("rx", "lock") /\ lorawan_mutex = "nobody"
  /\ lorawan_mutex' = "rx" /\ Goto("rx", "process")
  /\ UNCHANGED <<flags, signals, was_class_c, class_c_ack_work, radio, history, bounds>>

\* Mutant of RxProcesses: the mutex is kept.
MutRxProcesses(ack) ==
  /\ At("rx", "process") /\ Goto("rx", "poll")
  /\ handed' = Append(handed, class_c_rx_len)
  /\ class_c_ack_work' = (class_c_ack_work \/ ack)
  /\ UNCHANGED <<flags, signals, locks, radio, arrived, overwritten, bounds>>

\* process_downlink(); a frame with the ACK bit schedules the work.
RxProcesses(ack) ==
  /\ At("rx", "process") /\ Goto("rx", "poll")
  /\ handed' = Append(handed, class_c_rx_len)
  /\ class_c_ack_work' = (class_c_ack_work \/ ack)
  /\ lorawan_mutex' = "nobody"
  /\ UNCHANGED <<flags, signals, was_class_c, radio, arrived, overwritten, bounds>>
-----------------------------------------------------------------------------
(* lorawan_send(), by the application or as the acknowledgement work *)

AppSends ==
  /\ At("app", "idle") /\ sends < MaxSends
  /\ sends' = sends + 1 /\ Goto("app", "lock")
  /\ UNCHANGED <<flags, signals, locks, class_c_ack_work, radio, history, changes, faults>>

\* class_c_ack_work_handler(), 100 ms after it was scheduled.
AckWorkRuns ==
  /\ class_c_ack_work /\ At("workq", "idle")
  /\ class_c_ack_work' = FALSE /\ Goto("workq", "lock")
  /\ UNCHANGED <<flags, signals, locks, radio, history, bounds>>

\* Mutant of SendBegins: the thread is told to pause and not woken.
MutSendBegins(s) ==
  /\ At(s, "lock") /\ lorawan_mutex = "nobody"
  /\ lorawan_mutex' = s
  /\ LET c == dev_class = "C" /\ class_c_active
     IN /\ was_class_c' = [was_class_c EXCEPT ![s] = c]
        /\ class_c_paused' = (class_c_paused \/ c)
        /\ Goto(s, IF c THEN "yield" ELSE "tx")
  /\ UNCHANGED <<dev_class, class_c_active, class_c_shutdown, signals,
                 class_c_ack_work, radio, history, bounds>>

\* The mutex is taken; in Class C the thread is told to pause and woken.
SendBegins(s) ==
  /\ At(s, "lock") /\ lorawan_mutex = "nobody"
  /\ lorawan_mutex' = s
  /\ LET c == dev_class = "C" /\ class_c_active
     IN /\ was_class_c' = [was_class_c EXCEPT ![s] = c]
        /\ class_c_paused' = (class_c_paused \/ c)
        /\ class_c_data_sem' = IF c THEN 1 ELSE class_c_data_sem
        /\ Goto(s, IF c THEN "yield" ELSE "tx")
  /\ UNCHANGED <<dev_class, class_c_active, class_c_shutdown, class_c_rx_len,
                 class_c_ack_work, radio, history, bounds>>

\* k_msleep(100): the receive thread is asleep, blocked or gone by the end.
RxSettled == \/ pc["rx"] \in {"none", "lost", "backoff", "lock"}
             \/ At("rx", "poll") /\ Paused

\* Mutant of YieldEnds: nothing is waited for.
MutYieldEnds(s) ==
  /\ At(s, "yield") /\ Goto(s, "tx")
  /\ UNCHANGED <<flags, signals, locks, class_c_ack_work, radio, history, bounds>>

YieldEnds(s) ==
  /\ At(s, "yield") /\ RxSettled /\ Goto(s, "tx")
  /\ UNCHANGED <<flags, signals, locks, class_c_ack_work, radio, history, bounds>>

\* Transmission, then the windows with all that follows them.
Transmits(s) ==
  /\ At(s, "tx") /\ Goto(s, "window")
  /\ UNCHANGED <<flags, signals, locks, class_c_ack_work, radio, history, bounds>>

TransmitFails(s) ==
  /\ At(s, "tx") /\ faults < MaxFaults
  /\ faults' = faults + 1 /\ Goto(s, "out")
  /\ UNCHANGED <<flags, signals, locks, class_c_ack_work, radio, history, sends, changes>>

WindowsEnd(s) ==
  /\ At(s, "window") /\ Goto(s, "out")
  /\ UNCHANGED <<flags, signals, locks, class_c_ack_work, radio, history, bounds>>

\* Mutant of SendReturns: the receive thread stays paused.
MutSendReturns(s) ==
  /\ At(s, "out") /\ Goto(s, "idle")
  /\ lorawan_mutex' = "nobody"
  /\ UNCHANGED <<flags, signals, was_class_c, class_c_ack_work, radio, history, bounds>>

\* The label out: the thread may receive again, and the mutex is free.
SendReturns(s) ==
  /\ At(s, "out") /\ Goto(s, "idle")
  /\ class_c_paused' = (class_c_paused /\ ~was_class_c[s])
  /\ lorawan_mutex' = "nobody"
  /\ UNCHANGED <<dev_class, class_c_active, class_c_shutdown, signals, was_class_c,
                 class_c_ack_work, radio, history, bounds>>
-----------------------------------------------------------------------------
(* lorawan_join(), lorawan_set_class() and lorawan_start() *)

\* An application that does not take the liberty does it when safe holds.
Change(liberty, safe) ==
  /\ At("app", "idle") /\ changes < MaxChanges /\ changes' = changes + 1
  /\ liberty \in Liberties \/ safe
NothingToSend == At("workq", "idle") /\ ~class_c_ack_work

JoinBegins ==
  /\ Change("join", At("rx", "none"))
  /\ lorawan_mutex = "nobody" /\ lorawan_mutex' = "app"
  /\ Goto("app", "join")
  /\ UNCHANGED <<flags, signals, was_class_c, class_c_ack_work, radio, history, sends, faults>>

JoinEnds ==
  /\ At("app", "join") /\ Goto("app", "idle")
  /\ lorawan_mutex' = "nobody"
  /\ UNCHANGED <<flags, signals, was_class_c, class_c_ack_work, radio, history, bounds>>

\* lorawan_set_class(LORAWAN_CLASS_C), which locks nothing.
EnterClassC ==
  /\ Change("class", NothingToSend /\ At("rx", "none")) /\ dev_class = "A"
  /\ class_c_active' = TRUE /\ class_c_paused' = FALSE
  /\ class_c_shutdown' = FALSE /\ dev_class' = "C"
  /\ Goto("app", "create")
  /\ UNCHANGED <<signals, locks, class_c_ack_work, radio, history, sends, faults>>

\* k_thread_create() reuses the one thread object and stack.
CreateThread ==
  /\ At("app", "create")
  /\ pc' = [pc EXCEPT !["app"] = "idle", !["rx"] = "poll"]
  /\ overwritten' = (overwritten \/ ~At("rx", "none"))
  /\ UNCHANGED <<flags, signals, locks, class_c_ack_work, radio, arrived, handed, bounds>>

\* lorawan_set_class(LORAWAN_CLASS_A)
LeaveClassC ==
  /\ Change("class", NothingToSend) /\ dev_class = "C"
  /\ class_c_active' = FALSE /\ class_c_paused' = TRUE /\ class_c_shutdown' = TRUE
  /\ class_c_data_sem' = 1
  /\ Goto("app", "leave")
  /\ UNCHANGED <<dev_class, class_c_rx_len, locks, class_c_ack_work, radio,
                 history, sends, faults>>

\* k_msleep(200): a thread that neither sleeps 1 s nor waits has ended by then.
RxStuck == \/ pc["rx"] \in {"none", "lost", "backoff"}
           \/ At("rx", "lock") /\ lorawan_mutex # "nobody"
LeftClassC ==
  /\ At("app", "leave") /\ RxStuck /\ Goto("app", "idle")
  /\ dev_class' = "A"
  /\ UNCHANGED <<class_c_active, class_c_paused, class_c_shutdown, signals, locks,
                 class_c_ack_work, radio, history, bounds>>

\* lorawan_start(): the context is zeroed.  The semaphore is initialised anew,
\* so a thread that waits on it is never woken.
StartsAgain ==
  /\ Change("start", NothingToSend /\ At("rx", "none"))
  /\ lorawan_mutex = "nobody"
  /\ dev_class' = "A" /\ class_c_active' = FALSE
  /\ class_c_paused' = FALSE /\ class_c_shutdown' = FALSE
  /\ class_c_data_sem' = 0 /\ class_c_ack_work' = FALSE
  /\ Goto("rx", IF At("rx", "take") /\ class_c_data_sem = 0 THEN "lost" ELSE pc["rx"])
  /\ UNCHANGED <<class_c_rx_len, locks, radio, history, sends, faults>>
-----------------------------------------------------------------------------
RxThread ==
  \/ RxPolls \/ RxConfigures \/ RxStarts \/ RxFaults \/ RxWakes \/ RxTakes
  \/ RxStops \/ RxChecks \/ RxLocks \/ \E ack \in BOOLEAN : RxProcesses(ack)

Sending(s) ==
  \/ SendBegins(s) \/ YieldEnds(s) \/ Transmits(s) \/ TransmitFails(s)
  \/ WindowsEnd(s) \/ SendReturns(s)

Ending == JoinEnds \/ CreateThread \/ LeftClassC

Next ==
  \/ RxThread \/ RadioReceives \/ AppSends \/ AckWorkRuns
  \/ \E s \in Senders : Sending(s)
  \/ JoinBegins \/ EnterClassC \/ LeaveClassC \/ StartsAgain \/ Ending

Spec == Init /\ [][Next]_vars

\* Every thread that can run runs: the scheduler's timed sleeps end, and a
\* blocked thread gets the mutex when nobody else takes it for ever.
FairSpec ==
  /\ Spec /\ WF_vars(RxThread) /\ WF_vars(AckWorkRuns) /\ WF_vars(Ending)
  /\ \A s \in Senders : WF_vars(Sending(s))
-----------------------------------------------------------------------------
(* Properties *)

TypeOK ==
  /\ dev_class \in {"A", "C"}
  /\ class_c_active \in BOOLEAN /\ class_c_paused \in BOOLEAN
  /\ class_c_shutdown \in BOOLEAN
  /\ class_c_data_sem \in 0 .. 1 /\ class_c_rx_len \in 0 .. MaxArrivals
  /\ lorawan_mutex \in Threads \cup {"nobody"}
  /\ was_class_c \in [Senders -> BOOLEAN] /\ class_c_ack_work \in BOOLEAN
  /\ radio \in {"standby", "recv"}
  /\ pc \in [Threads -> RxSteps \cup AppSteps]
  /\ pc["rx"] \in RxSteps /\ pc["app"] \in AppSteps /\ pc["workq"] \in SendSteps
  /\ arrived \in 0 .. MaxArrivals /\ handed \in Seq(0 .. MaxArrivals)
  /\ overwritten \in BOOLEAN
  /\ sends \in 0 .. MaxSends /\ changes \in 0 .. MaxChanges
  /\ faults \in 0 .. MaxFaults

\* While a thread transmits or listens in the windows of lorawan_send(), or
\* exchanges join frames, the receive thread has no reception on and starts none.
UsesRadio(t) == pc[t] \in {"tx", "window", "join"}
RadioExclusive ==
  \A s \in Senders : UsesRadio(s) =>
    radio = "standby" /\ pc["rx"] \notin {"config", "start", "take", "stop"}

\* A reception that waits is neither paused nor over, and no frame lies in the
\* buffer unseen: whoever set a flag or filled the buffer gave the semaphore.
NoLostWakeup ==
  At("rx", "take") /\ class_c_data_sem = 0 => ~Paused /\ class_c_rx_len = 0

\* No frame is processed twice or after a later one, in spite of semaphore
\* counts left over from a pause.
HandedOnce ==
  \A i, j \in DOMAIN handed : i < j => handed[i] < handed[j]

\* The buffer that was checked is the one that is processed: the callback never
\* writes it while the thread waits for the mutex or holds it.
FrameIntact ==
  [][pc["rx"] \in {"lock", "process"} => class_c_rx_len' = class_c_rx_len]_vars

\* A Class C device always gets back to its reception.
ListensAgain == class_c_active ~> (radio = "recv" \/ ~class_c_active)

\* An acknowledgement that was scheduled is sent or fails: its lorawan_send()
\* gets the mutex and returns.
AckWorkEnds == class_c_ack_work ~> (~class_c_ack_work /\ At("workq", "idle"))

\* README.md:116: "lorawan_send() sets class_c_paused = true, yields 100 ms for
\* the Class C thread to exit RX, transmits, then clears the flag".
PausedWhileSending ==
  \A s \in Senders : pc[s] \in {"tx", "window"} => radio = "standby"
=============================================================================
