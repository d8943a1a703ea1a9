----------------------------- MODULE MCWindows -----------------------------
(* Small instances of Windows: one dynamic and one fixed channel plan.      *)
EXTENDS Windows, TLC

NoList == [type |-> "none"]

\* 867.1 to 867.5 MHz as every network sends it, of which no entry is in the
\* band when its bytes are read in reverse; and one that reads the same.
Standard   == [type |-> "A", freqs |-> <<8671000, 8673000, 8675000, 0, 0>>]
Palindrome == [type |-> "A", freqs |-> <<8671364, 0, 0, 0, 0>>]
Channels8  == [type |-> "B", mask |-> {8, 20}]

Accept(offset, rx2_dr, delay, list) ==
  [offset |-> offset, rx2_dr |-> rx2_dr, delay |-> delay, cflist |-> list]

EuropeOnly == {EU868}
MCBuilds  == {EU868, US915}
MCAccepts == {Accept(1, 3, 5, Channels8)}
AllChannels == {0 .. 71}

\* EU868 refuses the new RX2 and the downlink channel.
MCRequests == {[kind |-> "none"],
               [kind |-> "rx", offset |-> 3, freq |-> 9239000, dr |-> 10],
               [kind |-> "delay", delay |-> 2],
               [kind |-> "dl", ch |-> 9, freq |-> 9245000]}

Nonces == Permutations(DevNonces)

InBandAccepts == {Accept(0, 0, 1, Standard), Accept(0, 0, 1, Palindrome)}
InBandRequests == {[kind |-> "none"], [kind |-> "adr", dr |-> 3, mask |-> 0 .. 7]}
=============================================================================
