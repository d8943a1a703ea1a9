------------------------------ MODULE MCSession ------------------------------
(* Small instances of Session for TLC. *)
EXTENDS Session

Down(confirmed, payload, mac) ==
  [confirmed |-> confirmed, payload |-> payload, mac |-> mac]

\* For the runs about acknowledgements, counters and activations.
PlainDowns == {Down(TRUE, FALSE, NoMac), Down(FALSE, FALSE, NoMac)}
ConfirmedDown == {Down(TRUE, FALSE, NoMac)}

\* For the ADR run: a payload with a LinkADRReq that is refused and still
\* changes the repetitions, and a LinkADRReq alone that is accepted.
AdrDowns == {Down(FALSE, TRUE, Request(1, 3, FALSE)),
             Down(FALSE, FALSE, Request(1, 2, TRUE))}

\* The limit rises with the data rate, as in every region's table.
MCMaxPayload == [dr \in DataRate |-> dr + 1]
=============================================================================
