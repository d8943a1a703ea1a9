--------------------------- MODULE DownlinkDelivery ---------------------------
(***************************************************************************)
(* What the stack promises about downlinks, without keys, windows or       *)
(* modular counters: it hands over frames that the network sent in the     *)
(* current session, each later than those before it.  One exception: while *)
(* everything handed over has counter 0, counter 0 is accepted again.      *)
(***************************************************************************)
EXTENDS Naturals, Sequences

CONSTANTS
  Session,  \* session keys
  Counter   \* frame counters, natural numbers

VARIABLES
  session,  \* the session in force
  sent,     \* pairs <<session, counter>> that the network used
  log       \* counters handed over since the activation, in order

vars == <<session, sent, log>>

Init == session \in Session /\ sent = {} /\ log = <<>>

NetworkSends(n) ==
  /\ <<session, n>> \notin sent
  /\ sent' = sent \cup {<<session, n>>}
  /\ UNCHANGED <<session, log>>

Activate(s) == session' = s /\ log' = <<>> /\ UNCHANGED sent

Deliver(n) ==
  /\ <<session, n>> \in sent
  /\ \A i \in DOMAIN log : log[i] < n \/ log[i] = 0
  /\ log' = Append(log, n)
  /\ UNCHANGED <<session, sent>>

Next ==
  \/ \E n \in Counter : NetworkSends(n) \/ Deliver(n)
  \/ \E s \in Session : Activate(s)

Spec == Init /\ [][Next]_vars
=============================================================================
