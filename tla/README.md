# Verification of the LoRaWAN stack

TLA+ models of `src/src/lorawan_impl.c` and its neighbours, checked with TLC on
small instances and proved about with TLAPS for every value of the constants.
Paths are relative to the repository (`src/` is its root).

## 1. The system

A device runs a LoRaWAN 1.0.x end-device stack on Zephyr. One global context,
`g_ctx` (`src/src/lorawan_state.h:47-122`), holds everything; nothing is kept in
flash. Three threads touch it: the application, the system work queue and the
Class C receive thread; the radio driver adds a callback. Most of the API takes
`lorawan_mutex`; `lorawan_set_class()`, `lorawan_set_region()` and the callback
do not.

| Component | State | Operations | Interacts with |
|---|---|---|---|
| Activation | `state`, keys, `dev_addr`, `dev_nonce`, counters | `lorawan_start`, `lorawan_join` | radio HAL (Join windows), region (CFList), crypto |
| Uplink path | `fcnt_up`, `downlink_ack_pending`, `mac_rsp_buf`, `nb_trans`, `conf_msg_tries` | `lorawan_send` | Class C (pause), MAC commands, HAL, downlink path |
| Downlink path | `fcnt_down`, `last_snr`, callbacks | `process_downlink` | called by `lorawan_send` and by the receive thread, under the mutex |
| ADR | `adr_enabled`, `adr_ack_cnt`, `current_dr`, `adr_power_index` | counted in `lorawan_send`, reset by downlinks, set by LinkADRReq | region, uplink path |
| MAC commands | `mac_rsp_buf`, sticky flags, pending requests, channels, RX and TX parameters | `process_mac_commands`, `append_uplink_mac_cmds` | downlink and uplink paths |
| Class C | `class_c_active/paused/shutdown`, semaphore, buffer, `class_c_ack_work` | receive thread, `class_c_rx_cb`, work handler, `lorawan_set_class` | shares the radio and the mutex with the uplink path |
| Radio HAL | `last_tx_channel` | `lorawan_tx`, `lorawan_rx`, `get_data_channel` | LoRa driver |
| Regions | `struct region_ctx`: channels, data rates, RX2 | `region_init`, join channel, RX1 parameters, CFList | read by all |
| Crypto | none | AES, CMAC, MICs, key derivation, payload cipher | activation and both paths |
| Stubs | none | clock sync, fragmentation: `-ENOTSUP` | none |

What makes it hard: the pause of Class C rests on flags, a binary semaphore and
two sleeps instead of a handshake; a frame is built before a transmission that
may fail, while the state it was built from goes on changing; downlinks come
late, twice or not at all and carry half of their counter; a reset may come
between any two steps and the session is then gone; the answers to the network
share 15 bytes with their own repetitions; the windows follow settings that the
network changes and of whose change it learns later, if the answer comes through.

What makes it correct, component by component: counters are never reused under
one set of keys and downlinks are handed over once and in order; a confirmed
downlink is acknowledged, once; `lorawan_send()` returns, and reports
success of a confirmed uplink only with an acknowledgement in hand; the back-off
lowers the data rate only after as many unanswered uplinks as configured; every
request is answered once, in order, within the FOpts field, and sticky answers
are repeated; device and network hold the same session and the same idea of the
receive windows, so that an answer sent in a window is heard; what is sent lies in
the region's band; the radio has one user at a time, no wake-up is lost, and
reception goes on after every uplink. `PROJECT.json` lists the hazards at their
lines with the properties that would catch them.

## 2. The modules

| Module | Models | Checked by |
|---|---|---|
| `FrameCounter` | reconstruction of the downlink counter and the replay test | through `Session` |
| `DownlinkDelivery` | abstract: frames of the session's network, in order | refined by `Session` |
| `Session` | activation, both counters, acknowledgements, ADR, `lorawan_send()`, `process_downlink()`, network and channel | `MCSession_*.cfg` |
| `ClassC` | receive thread, radio callback, pause, acknowledgement work, class changes | `MCClassC_*.cfg` |
| `MacCommands` | requests, their answers, the answer buffer, repetition | `MCMacCommands_*.cfg` |
| `Regions` | the ten regional tables, channel plans, CFLists, channel choice | through `Windows` |
| `Windows` | the join exchange, channel, transmission, RX1 and RX2 with their times, the requests that move them, and the network's view of all this | `MCWindows_*.cfg` |
| `SessionProofs`, `CallProofs`, `ClassCProofs`, `MacCommandsProofs`, `AnswersProofs`, `WindowsProofs`, `HearingProofs` | theorems | TLAPS |

**Session.** Variables carry the names of the fields of `g_ctx`. `pc` and `call` are
the running `lorawan_send()`: `tx` before the first transmission, `rx` in the
windows, `listen` in the Class C listening of a confirmed uplink, `settle` where it
decides whether to transmit again. A call keeps the mutex for all of that, so the
handlers that lock it are enabled only in `idle`, and only resets,
`lorawan_set_class()`, the end of the receive thread and the network interleave with
it. `Send` is everything up to `lorawan_tx()` (tests, ADR count and back-off, the
frame), `TxOk` and `TxFail` its outcome, `Receive` and `RxSilent` the windows with
`process_downlink()`, `Retransmit`, `RetransmitFails` and `Return` the two loops and
the label `out`. The receive thread hands over a frame in one step
(`ClassCReceive`). Downlinks once made stay in `issued`, from which any may arrive
at any time and any number of times, in any order, or never. The network
acknowledges an uplink only if it heard it; the acknowledgement may come at any
later time like any other downlink, and `Receive` takes it for that of the uplink
then waiting, as the code does (`lorawan_impl.c:601`). The MIC is symbolic: a frame
verifies under the keys and the full counter it was made with. `Restart` is a reset
of the device at any moment followed by `lorawan_start()`; a second
`lorawan_start()` under a live receive thread is studied in `ClassC`. `on_air`,
`delivered`, `epoch`, `calls` and `silence` are history; `silence` counts the
uplinks with the ADR bit since the network last sent a payload: those sent, those of
them that asked for an answer, and those whose transmission failed, which the device
counts too (`adr_ack_cnt` is raised at 932, before the transmission). A join does
not reset the device's count, nor does a downlink without a payload, whatever the
comment at `lorawan_impl.c:633` says.

**ClassC.** One program counter per thread. A step is a stretch of code between two
points where the thread can be kept waiting (a sleep, the semaphore, the mutex) or
where what it tested may have changed; a flag and the give that follows it on the
next line are one step. The radio callback is one step: it runs in the driver's
context, which the preemptible receive thread (priority 8) does not preempt. A frame
is its arrival number, and `class_c_rx_len = n > 0` says that the buffer holds
arrival n. What the application may do although nothing makes it safe is a constant,
`Liberties`: change the class under an acknowledgement, join in Class C, start
again. The waits of 100 ms and 200 ms count as long enough for steps that neither
sleep nor block (`RxSettled`, `RxStuck`); the one-second sleeps after a radio fault
and the wait for the mutex may outlast them, and do in the model.

**MacCommands.** One action per request. A frame is two sequences of commands, FOpts
and the payload of port 0. A field that is only compared with the region's limits
is the outcome of that test; LinkADRReq keeps its masks and both of its passes
over the channels. An answer has a status: all bits set (`full`), accepted with a bit
missing (`partial`: an RXParamSetupAns is 0x03 at best, 306), or `refused`; a repetition
always has all bits set. `Send`, `TxOk`, `TxFail` are the part of `lorawan_send()` that
takes the buffer into a frame and empties it.

**Regions.** A record for each `region_xxxxx.c` (a build contains one), with its
default channels, data rates, payload limits, RX1 frequencies, RX2,
band and the arguments of its CFList call. The RX1 data-rate matrices of the
sources are given by the rule they follow (`Rx1Dr`). What changes at run time, the
channels, is a record of its own: how many there are, which a CFList or a request
gave a frequency, which are enabled. Frequencies are in units of 100 Hz, as on the
air. `ApplyTypeA` reads the bytes of a frequency as the code does
(`region.h:126-129`), that is in reverse of how the network writes them.

**Windows.** One call at a time runs through `tx`, `rx1`, `rx2`, `received` and
`settle`. `t` is the time since the end of the last transmission. `TxOk` computes
the windows after the first transmission of an uplink, as `lorawan_send()` does, and
leaves them for its repetitions; those of a join are the region's. Each window
configures the radio, which may fail unnoticed, opens at its time or at once if that
has passed (`Opens`), and ends with any frame or at its timeout. A frame is heard
when the radio is on its frequency and modulation from its beginning to its end
(`InReach`). The network is part of the model, since the hazard is the agreement of
both sides: it answers a Join-Request with a new nonce by a new session, each uplink
at most once, in RX1 or RX2 where *its* settings put them, with a frame of any of
the lengths in `AirTimes`. It computes RX1's data rate as the code does and starts
from the region's RX2. It may ask for what the device refuses, each kind of request
once in a session, and reads the answers that reach it: with all status bits set,
the change is made from that uplink on; with some bits only, it takes it to be
refused; without an answer it waits. The first answer to an RXParamSetupReq, 0x03,
shares its frame with the repetition, 0x07, and the network goes by the latter;
where the frame has no room for that, it reads a refusal of what the device has
applied (`"untold"` in `apart`).

`rsp` is the answer buffer seen from these requests: the kinds it answers in full and in
part, and its length. The bytes that other answers and the device's own requests take
are drawn from `Fills`, so that an answer or a repetition may find no room
(`lorawan_impl.c:328`, 408, 457, 509-521) and be dropped. `sticky` are the answers still
to be repeated. Between two calls a Class C device that listens where the network sends
takes downlinks too (`ClassCDownlink`), which end a repetition like any other; that the
thread waits for the mutex in between is in `ClassC`. `lorawan_set_region()` comes
between two calls; see section 5. The 8 s of listening of a confirmed uplink are in
`Session` only.

The modules overlap on purpose. `Session` takes the outcome of the windows as an
input (any downlink, or none), so it allows more than `Windows` does, and what it
proves of counters and acknowledgements holds for every such outcome; `Windows`
leaves out the counters, and `MacCommands` the network.

## 3. The runs

| Run | Shows | Bounds |
|---|---|---|
| `acks` | `AckOwed`, `AckOnce`, `OutcomeBacked`, `SendReturns` | 3 frames, 2 downlinks confirmed or not, 2 tries, Class A and C |
| `rejoin` | `TypeOK`, `UplinkNonceUnique`, `InSyncAccepts`, refinement of `DownlinkDelivery` | 2 activations by OTAA or ABP, 2 frames, 4 downlinks per key, a 4-value field in an 8-value counter |
| `adr` | `BackoffAfterSilence` | 2 activations, 2 frames, 1 downlink, limit and delay 1, 2 data rates, 3 tries, NbTrans up to 3 |
| `careful` | the radio has one user, no lost wake-up, frames once and intact, reception and acknowledgement go on | 3 frames, 2 uplinks besides acknowledgements, 3 changes, 1 fault |
| `answers` | answers fit, are in order and once, requests survive, sticky ones repeat, a channel remains | 4 regions, 2 uplinks, 2 downlinks, a 7-byte buffer |
| `windows` | `TypeOK`, `AnswerNotMissed`, `SessionAgrees`, `ChangeToldOn` | EU868 and US915, 4 activations and transmissions, 1 fault, foreign frame or Class C downlink, 2 DevNonces (symmetric), 1 Join-Accept, 4 requests, of which EU868 refuses two, other answers of 0, 1 or 14 bytes, frames of 940 and 1990 ms |

Why these are enough. Two frames and two downlinks are the least with which one can
be confused with another; three frames let an acknowledgement be forgotten, paid and
paid again. In `rejoin` the counters run from 0 to 3: gaps below and above half of
the 4-value field occur, the wrap of the low bits does not; that the reconstruction
is exact past the wrap too is the theorem `InSync`, for every width. The ADR limit
and delay are powers of two in the code (64 and 32) and only their sum and order
matter; with 1 and 1 both thresholds are crossed in two uplinks, of one activation
or of two. A buffer of 7 bytes overflows with what two downlinks can ask, where the
15 bytes of the code would need more commands. Three class changes leave Class C and
come back. In `windows` the two regions stand for the two kinds of channel plan
(every other one differs in numbers only, but for KR920, IN865 and RU864, see
below); four activations and transmissions are a join, the uplink whose answer asks
for a change, one that is lost with the answer to it, and one in which the change
must hold; or two joins, the second of which fails, and uplinks around them. One
draw for the channel is enough because every plan's choice goes through the same
function, and the set masks make it another channel. The two frame lengths are the
longest that RX1 and RX2 hear, so that the second does not fit RX1; 14 bytes of
other answers leave room for an RXTimingSetupAns and for nothing else. Deadlock is
not checked in the first three modules: with the bounds used up, the models stop. In
`Windows` the region may always be set again. The bounds are constants named
`Max...`, and the theorems below hold for all their values.

The remaining runs each show that a statement of the documents or comments does
not hold; `PROJECT.json` quotes the lines.

| Run | Statement | What the code does |
|---|---|---|
| `replay` | replay protection (`README.md:95`) | the test is off while the last counter is 0, so counter 0 is accepted again |
| `fits` | payload limit (`lorawan_impl.c:923`) | the limit is tested before the ADR back-off lowers the data rate |
| `pause` | a sender pauses the reception (`README.md:116-118`) | after `lorawan_set_class(A)` has cleared the flag, it does not |
| `sticky` | sticky answers are repeated (`lorawan_impl.c:508`) | a refusal is repeated as an acceptance |
| `rxc` | the Class C window defaults to RX2 (`region.h:57`, `README.md:146`) | a Join-Accept or RXParamSetupReq moves RX2 only |
| `inband` | frequency band limits (`README.md:145`) | a CFList is read in the wrong byte order, its channels keep frequency 0 and are counted; a LinkADRReq enables one and the uplink is configured at 0 Hz |

Disagreements seen while modelling that no run restates, since the code shows them
at a glance: `process_downlink()` never reads `is_class_c` and carries out MAC commands
in Class C (`README.md:110-112` says they are discarded); the acknowledgement work
follows the ACK bit of a downlink, not its confirmed type (`README.md:113-115`);
RX1 of the dynamic plans is always channel 0's frequency, and 0 Hz in KR920, IN865
and RU864; a MaxEIRP of 0 is "8 dBm" in the table of `radio_hal.c:60-63` and "no
ceiling" in the test above it; `region_get_rx_window_timeout_ms()` and the times on air
behind it (`dr_max_toa_ms`) are never used, and RX1 stays open for 950 ms and RX2 for
2000 ms where a full frame at SF12 and 125 kHz takes about 3 s; the data rates
of a channel (`min_dr`, `max_dr`) are never read; the first data rate of the retries
is the one in force after the windows, which a LinkADRReq may have raised; a downlink
taken by the Class C thread ends the repetition of sticky answers
(`lorawan_impl.c:508`: "until Class A downlink"); an RXParamSetupReq that is accepted is
answered 0x03 and the answer repeated as 0x07; an answer for which the buffer has no
room is dropped, its repetition too, and the next downlink ends it; the table of regions
(`README.md:120-133`) differs from the sources in the data rates of KR920 and AS923
and in the channels of KR920 and RU864; `src/region/region.c` (`README.md:148`) is
not there.

**What `AnswerNotMissed` excepts**, each because the code does miss the frame: another
device's frame in the window (it ends RX1 and RX2 alike); a radio configuration
that failed; a frame longer than its window stays open (`TooLong`); RX1 in regions whose
code has no frequency for the channel, and beyond the 16 entries of `dl_channel_valid`;
and settings that may differ (`MayDiffer`): those left over from an earlier session (RX2
frequency, downlink channels, and answers still waiting or repeated, none of which a
join resets), after a refusal that was repeated as an acceptance, after an answer that
found no room or whose repetition ended before the network heard it, or heard it in
part only. `apart` remembers the reason until the next activation. What remains is the
agreement through accepted requests, losses, failures, repetitions, retries and joins.
`ChangeToldOn` excepts the changes that were left untold (`"untold" \in apart`): a reply
to an uplink without room for the repetition, a Class C downlink before the network has
heard the answer, an answer heard in part only. None of these is assumed away: the model
has the behaviours, and the properties say where they stop holding.

**Fairness.** `Session!FairSpec` makes a thread inside `lorawan_send()` go on:
all its waits are `k_msleep()` or `lora_recv()` with a timeout. The Class C
listening is a loop on the clock, so `ListenTimeout` has weak fairness of its own;
without it, downlinks could be received for ever. Nothing is assumed of the
network, of the application or of radio reception. `ClassC!FairSpec` makes the
receive thread, a running uplink, the scheduled work and an unfinished API call go
on, each weakly: a thread that is ready runs, and the mutex goes to a waiting
thread unless others take it again and again, which the bound on calls excludes.

## 4. The theorems

For every value of the constants within the named assumptions
(`WidthAssumption`, `SessionAssumption`, `ClassCAssumption`, `MacAssumption`,
`WindowsAssumption`). The last one gives types to the Join-Accepts and requests that
the network may send: their fields are numbers, and masks sets of numbers; no proof
uses the widths of the fields. What else bounds the network is in the actions of the
model: one frame in answer to an uplink with one request in it at most, each kind of
request that moves the windows once in a session, a Join-Accept whose RX2 data rate the
region has, a DevNonce answered once, and settings that follow the answers as section 2
says.

| Theorem | Says |
|---|---|
| `SessionProofs!TypeCorrect` | `Spec => []TypeOK`; a device that may send has keys, and every count keeps to its field |
| `SessionProofs!NonceUnique` | `Spec => []UplinkNonceUnique` |
| `SessionProofs!AcknowledgementOwed` | `Spec => []AckOwed` |
| `SessionProofs!ImplementsDelivery` | `Spec => DeliveryService`, the refinement |
| `CallProofs!InSync` | `Spec => []InSyncAccepts` |
| `CallProofs!OutcomeJustified` | `Spec => []OutcomeBacked` |
| `CallProofs!AcknowledgedOnce` | `Spec => []AckOnce` |
| `CallProofs!BackoffJustified` | `Spec => BackoffAfterSilence`, an action property |
| `ClassCProofs!TypeCorrect` | `Spec => []TypeOK`, with any `Liberties` |
| `ClassCProofs!FramesOnce` | `Spec => []HandedOnce`, with any `Liberties` |
| `ClassCProofs!RadioFree` | `Spec => []RadioExclusive`, with `Liberties = {}` |
| `ClassCProofs!WakeupKept` | `Spec => []NoLostWakeup`, with `Liberties = {}` |
| `ClassCProofs!FrameKept` | `Spec => FrameIntact`, an action property, with any `Liberties` but "class" |
| `MacCommandsProofs!TypeCorrect` | `Spec => []TypeOK`; the answers keep within their buffer |
| `MacCommandsProofs!RequestsKept` | `Spec => []RequestNotLost` |
| `MacCommandsProofs!StickyKept` | `Spec => []StickyRepeated` |
| `MacCommandsProofs!ChannelLeft` | `Spec => AcceptedLeavesChannel`, an action property |
| `AnswersProofs!LengthKept` | `Spec => []FOptsConsistent` |
| `AnswersProofs!OrderKept` | `Spec => []AnsweredInOrder` |
| `WindowsProofs!SessionAgreed` | `Spec => []SessionAgrees` |
| `WindowsProofs!ChangesTold` | `Spec => []ChangeToldOn` |
| `HearingProofs!TypeCorrect` | `Spec => []TypeOK`, in all ten regions |
| `HearingProofs!AnswerHeard` | `Spec => []AnswerNotMissed`, in all ten regions |

The arguments:

- *Nonces.* That frames on the air differ in their counter is not inductive: the
  next frame could repeat one. `NonceInv` adds that `fcnt_up` is above the counter
  of every frame on the air made with the present OTAA keys; that the frame being
  built is the latest and, until its first transmission, has `fcnt_up` itself; that
  a retransmission repeats a frame already on the air; and that no key of a later
  activation has been used. The network's and the application's actions touch none
  of it, so the steps that matter are activations, `TxOk` and `Retransmit`.
- *Acknowledgements.* `AckInv` adds what is known of the running call before its
  first transmission: its frame belongs to this activation, carries the ACK bit
  exactly if an acknowledgement is owed, and was built after everything delivered
  so far. So when `TxOk` clears the flag, the frame that has just gone out pays all
  debts; every other step leaves the flag or raises it.
- *Delivery.* `OrderInv` bounds every delivered counter by `fcnt_down`, so a frame
  that passes the replay test is newer than all of them, or `fcnt_down` is 0 and
  all of them are 0, the exception the abstract service states; and it bounds the
  counters the network has used, so that its next one is new. `StepKinds` first
  reduces the actions to eight kinds, seen from what the three arguments need.
- *Frames once.* `FreshInv`: between the clearing of the length and the processing,
  what the buffer holds is newer than everything processed; a count left over in
  the semaphore therefore finds length 0.
- *The pause.* `PauseHolds` says who holds the mutex by program counter, that a
  reception is on exactly between start and cancel, and that a running sender has
  either paused the thread or found Class C off; with Class C off the thread is on
  its way out. Together with the wait in `YieldEnds` this keeps the radio free; the
  conjunct about the semaphore says that each setting of a flag or of the length
  came with a give. The liberties break it, as the run `pause` shows for one of them.
- *Frames intact.* `FrameIntact` needs less: `BufferInv` says that there is no
  reception between the test of the length and the processing, however long the
  thread waits for the mutex. Joins and starts of an application that takes liberties
  do not start a reception; a second thread over the first would, so "class" is out.
- *Counters in step.* `InSyncAccepts` needs no invariant but types: for a frame
  less than half the field ahead, `LowParts` gives the distance of the low parts
  and `Rebuilt` that the reconstruction adds exactly it, for any width.
- *Calls.* `CallInv`: the network acknowledges only uplinks that went on the air, and
  while a call holds an acknowledgement, one of the downlinks accepted during it is that
  (`Backed`); what is on record of a session only grows, so it stays so until the
  session ends. A call that returns success has one. That it answers this uplink and
  not an earlier one is not so in the code and not claimed.
- *Once.* `OnceInv` adds to `AckOnce` that, when a debt is open, a confirmed
  downlink has come since every acknowledging frame on the air was built; a frame
  that pays it next is then apart from all the others. It uses `NonceInv` and `AckInv`.
- *Back-off.* `SilenceInv`: `adr_ack_cnt` never exceeds the number of unanswered uplinks
  with the ADR bit, sent or failed, and what it has above the limit never those that
  asked for an answer or failed; `Pending` is the uplink that the device has counted
  and the radio not yet sent. A call adds one to both sides and a payload resets both;
  an activation resets neither, and the device may count too few, never too many. The
  back-off lowers the data rate in `Send` only, at the two thresholds.
- *MAC commands.* The type invariant carries the length of the buffer. A request
  leaves the pending flag only for the buffer and the buffer only for the air. For
  sticky answers the invariant is that what is owed is exactly what is flagged. For
  the channels, the lemma `SecondPassKeeps` shows that the pass after the test
  enables the channels the test found.
- *The answers' length.* `LengthOf` is a recursive function over the buffer. That such
  a function exists for every buffer (`SumExists`) and that two of them agree on what
  their buffers share (`SumsAgree`) is induction over data; it is proved by least
  counterexample: a set of numbers with a member has a least one (`WFMin` of the
  library takes no operator), and the least length at which the claim fails would have
  a predecessor at which it holds. With it every `Queue` adds to `len` what it adds to
  the buffer.
- *The answers' order.* `OrderInv`: what has gone out, followed by what is in the buffer,
  is increasing but for the repetitions (number 0), and not above the last request. A
  failed uplink leaves the buffer as it is, so what joins it is newer; `WithSticky`
  adds zeros only.
- *One session.* `JoinInv`: the device leaves the joined state before the request
  that may replace the network's keys, and a Join-Accept in the air holds the keys
  that this request and no later one made.
- *Changes told.* `ToldInv`: what the device applied was asked; a change in the air
  was not asked before; when an answer of the network is on its way, either it has
  heard of every change, or the uplink had no room for all that is repeated, or
  something was left untold before. So a downlink that ends the repetition leaves
  nothing unheard but for the exceptions.
- *The tables.* `RegionsSound` goes through the ten regions once: the data rates
  of a join and of RX2 are in the table, and a CFList's first entry and least
  count keep within `LORAWAN_MAX_CHANNELS`; `Rx1DrInTable` shows that the rule of the
  RX1 data rate never leaves the table. `TypeInv` is stated part by part (`PlanOK`,
  `SessionOK`, `MacOK`, `CallOK`, `AirOK`, `CountOK`, `HoldsOK`): `TypeOK` alone is not
  inductive, as the settings a Join-Accept or a request will set have to be in the
  table while they are still in the air.
- *Hearing.* Three invariants, each on top of the last. `AgreeInv`: while nothing has set
  the two sides apart, for each kind of request, what the network uses and what it wants
  are the device's setting, except that a change that was asked may not be there yet, and
  one that was applied may not be known yet; then its answer waits or is repeated. So
  whoever answers an uplink that carries all that is repeated uses the settings of the
  device (`ViewAgrees`). `ProcessAgrees` is the step of a downlink, in a window or in
  Class C: it either keeps the two sides together or records why not.
  `WindowInv`: the windows of a call that nothing has been heard in are those of the
  settings in force, RX2 a second after RX1. `HeardInv`: an answer on its way is in
  the window that is open or in one still to come, or one of the exceptions holds. Here
  the times matter: a window opens 10 ms early, RX1 is over 950 ms later and so before
  RX2 opens, and a frame that is not `TooLong` for its window ends before the window
  does. `FirstEnds` and `SecondEnds` are the ends of RX1 and RX2.

Each invariant was model-checked before it was proved; `TypeInv`, `AgreeInv`,
`WindowInv` and `HeardInv` on the instance of the run `windows`. With these theorems
every invariant and every action property of the passing runs is proved for all
values of the constants. Only model-checked are the liveness properties `SendReturns`,
`ListensAgain` and `AckWorkEnds`, which need fairness and `ENABLED`, out of TLAPS's
reach. The runs that show a disagreement are counterexamples and have nothing to prove.

## 5. What is not modelled

- Bytes of frames, AES, CMAC, key derivation and the payload cipher: symbolic. They
  are sequential code without state; what they compute for every input is beyond a
  model checker. Forged MICs are excluded.
- The length of a frame in `tx_buf`, and whether FOpts and payload fit together.
- Transmission power (`get_tx_power_dbm()`), duty cycles and beacon frequencies: the
  first feeds the driver only, the others are stored and not read.
- An error of `lora_recv()` counts as a window without a frame.
- User callbacks that call back into the stack.
- `lorawan_set_region()` under a running call or receive thread, which it takes no mutex
  against: between its `memset()` and the end of `region_init()` (1302) they may see half
  a region. Its error path (1303-1306) is out of reach: the region is chosen when the
  stack is built, and every `region_init()` sets `num_channels`.
- A Join-Accept of an earlier join that is repeated into the window of a later one. Its
  MIC (775) covers the accept alone and not the DevNonce of the request, so the code
  would take it and derive keys that the network does not hold; in `Windows` and
  `Session` a Join-Accept answers the request it came for, and `SessionAgrees` says
  nothing of repeated ones.
- Wrap-around of the uplink counter: the models stay below it (`MaxCalls < FcntMod`).
- One model of everything at once: `Session`, `MacCommands`, `Windows` and `ClassC`
  share the calls of `lorawan_send()` but not their state; a product would be beyond
  TLC at bounds at which anything happens.
- Stubs (`-ENOTSUP`) and build files, which hold no behaviour.
