------------------------------- MODULE Regions -------------------------------
(***************************************************************************)
(* The regional tables and functions: one record for each region_xxxxx.c,  *)
(* of which a build contains one, and the helpers of region.h over them.   *)
(* Frequencies are in units of 100 Hz, as on the air.                      *)
(* What a build changes while it runs is its channel context, a record     *)
(*   num, max   num_channels and max_channels                              *)
(*   written    the channels a CFList or a NewChannelReq gave a frequency  *)
(*   on         the enabled channels                                       *)
(***************************************************************************)
EXTENDS Integers, Sequences, FiniteSets

LORAWAN_MAX_CHANNELS == 96

\* dr_table: spreading factor and bandwidth of each data rate.
Rates125 == [dr \in 0 .. 5 |-> <<12 - dr, 125>>]
Rates250 == [dr \in 0 .. 6 |-> IF dr <= 5 THEN <<12 - dr, 125>> ELSE <<7, 250>>]
RatesFixed == [dr \in 0 .. 13 |->
  IF dr <= 3 THEN <<10 - dr, 125>> ELSE IF dr <= 7 THEN <<8, 500>> ELSE <<20 - dr, 500>>]

PayloadFixed == <<19, 61, 133, 250, 250, 0, 0, 0, 61, 137, 250, 250, 250, 250>>

Evenly(n, first, step) == [ch \in 0 .. n - 1 |-> first + ch * step]
Uplinks72(first, wide) ==
  [ch \in 0 .. 71 |-> IF ch < 64 THEN first + ch * 2000 ELSE wide + (ch - 64) * 16000]

\* rx1: the frequencies region_get_rx1_freq() returns, by the uplink channel.
Always(freq) == [ch \in 0 .. LORAWAN_MAX_CHANNELS - 1 |-> freq]
Downlinks8 == [ch \in 0 .. 71 |-> 9233000 + 6000 * (IF ch < 64 THEN ch % 8 ELSE ch - 64)]

\* cflist: the arguments that region_apply_cflist() passes on.
TypeA(start, least) == [type |-> "A", start |-> start, least |-> least]
TypeB == [type |-> "B", start |-> 0, least |-> 0]

EU868 == [name |-> "EU868", uplinks |-> Evenly(3, 8681000, 2000), max |-> 3,
  rates |-> Rates250, payload |-> <<59, 59, 59, 123, 250, 250, 230>>,
  rx1 |-> Always(8681000), raises |-> FALSE, rx2_freq |-> 8695250, rx2_dr |-> 0,
  power |-> 16, low |-> 8630000, high |-> 8700000, join_dr |-> 0, cflist |-> TypeA(3, 8)]

EU433 == [name |-> "EU433", uplinks |-> Evenly(3, 4331750, 2000), max |-> 16,
  rates |-> Rates250, payload |-> <<59, 59, 59, 123, 230, 230, 230>>,
  rx1 |-> Always(4331750), raises |-> FALSE, rx2_freq |-> 4346650, rx2_dr |-> 0,
  power |-> 12, low |-> 4330500, high |-> 4347900, join_dr |-> 0, cflist |-> TypeA(3, 8)]

CN779 == [name |-> "CN779", uplinks |-> Evenly(3, 7795000, 2000), max |-> 3,
  rates |-> Rates125, payload |-> <<59, 59, 59, 123, 230, 230>>,
  rx1 |-> Always(7795000), raises |-> FALSE, rx2_freq |-> 7860000, rx2_dr |-> 0,
  power |-> 12, low |-> 7790000, high |-> 7870000, join_dr |-> 0, cflist |-> TypeA(3, 8)]

IN865 == [name |-> "IN865", max |-> 3,
  uplinks |-> [ch \in 0 .. 2 |-> <<8650625, 8654025, 8659850>>[ch + 1]],
  rates |-> Rates125, payload |-> <<59, 59, 59, 123, 230, 230>>,
  rx1 |-> Always(0), raises |-> TRUE, rx2_freq |-> 8665500, rx2_dr |-> 2,
  power |-> 30, low |-> 8650000, high |-> 8670000, join_dr |-> 0, cflist |-> TypeA(3, 8)]

KR920 == [name |-> "KR920", uplinks |-> Evenly(13, 9209000, 2000), max |-> 13,
  rates |-> Rates125, payload |-> <<59, 59, 59, 123, 230, 230>>,
  rx1 |-> Always(0), raises |-> FALSE, rx2_freq |-> 9219000, rx2_dr |-> 0,
  power |-> 14, low |-> 9200000, high |-> 9230000, join_dr |-> 0, cflist |-> TypeA(3, 0)]

RU864 == [name |-> "RU864", uplinks |-> Evenly(8, 8689000, 2000), max |-> 8,
  rates |-> Rates125, payload |-> <<59, 59, 59, 123, 230, 230>>,
  rx1 |-> Always(0), raises |-> FALSE, rx2_freq |-> 8691000, rx2_dr |-> 0,
  power |-> 16, low |-> 8640000, high |-> 8700000, join_dr |-> 0, cflist |-> TypeA(2, 0)]

AS923 == [name |-> "AS923", uplinks |-> Evenly(8, 9232000, 2000), max |-> 8,
  rates |-> Rates250, payload |-> <<59, 59, 59, 123, 230, 230, 230>>,
  rx1 |-> Always(9232000), raises |-> TRUE, rx2_freq |-> 9232000, rx2_dr |-> 2,
  power |-> 16, low |-> 9150000, high |-> 9280000, join_dr |-> 2, cflist |-> TypeA(2, 0)]

CN470 == [name |-> "CN470", uplinks |-> Evenly(96, 4703000, 2000), max |-> 96,
  rates |-> Rates125, payload |-> <<51, 51, 51, 115, 222, 222>>,
  rx1 |-> [ch \in 0 .. 95 |-> 5003000 + 2000 * (ch % 48)], raises |-> FALSE,
  rx2_freq |-> 5053000, rx2_dr |-> 0,
  power |-> 14, low |-> 4700000, high |-> 5100000, join_dr |-> 3, cflist |-> TypeB]

US915 == [name |-> "US915", uplinks |-> Uplinks72(9023000, 9030000), max |-> 72,
  rates |-> RatesFixed, payload |-> PayloadFixed,
  rx1 |-> Downlinks8, raises |-> FALSE, rx2_freq |-> 9233000, rx2_dr |-> 8,
  power |-> 20, low |-> 9020000, high |-> 9280000, join_dr |-> 0, cflist |-> TypeB]

AU915 == [name |-> "AU915", uplinks |-> Uplinks72(9152000, 9159000), max |-> 72,
  rates |-> RatesFixed, payload |-> PayloadFixed,
  rx1 |-> Downlinks8, raises |-> FALSE, rx2_freq |-> 9233000, rx2_dr |-> 8,
  power |-> 30, low |-> 9150000, high |-> 9280000, join_dr |-> 2, cflist |-> TypeB]

AllRegions == {EU868, EU433, CN779, IN865, KR920, RU864, AS923, CN470, US915, AU915}
-----------------------------------------------------------------------------
Least(a, b)    == IF a <= b THEN a ELSE b
Greatest(a, b) == IF a >= b THEN a ELSE b

NumDr(r)        == Len(r.payload)
InBand(r, freq) == r.low <= freq /\ freq <= r.high

\* region_init(): the default channels, all enabled.
RegionInit(r) ==
  [num |-> Cardinality(DOMAIN r.uplinks), max |-> r.max,
   written |-> [ch \in {} |-> 0], on |-> DOMAIN r.uplinks]

\* freq_hz; a channel nobody defined has frequency 0.
FrequencyOf(r, chan, ch) ==
  IF ch \in DOMAIN chan.written THEN chan.written[ch]
  ELSE IF ch \in DOMAIN r.uplinks THEN r.uplinks[ch] ELSE 0

\* get_data_channel(), region_get_join_channel(): the enabled channel that the
\* random number r picks, whatever data rates it is meant for, or else channel 0.
Enabled(chan) == {ch \in chan.on : ch < chan.num}
ChannelChoice(chan, r) ==
  LET on == Enabled(chan)
  IN IF on = {} THEN 0
     ELSE CHOOSE ch \in on : Cardinality({c \in on : c < ch}) = r % Cardinality(on)

\* region_dr_to_lora()
Modulation(r, dr) == r.rates[dr]

\* region_get_rx1_dr()
Rx1Dr(r, dr, offset) ==
  LET d == Least(dr, NumDr(r) - 1)
      o == Least(offset, NumDr(r) - 1)
  IN IF r.rates = RatesFixed THEN Greatest(8, Least(13, IF d < 8 THEN 10 + d - o ELSE d - o))
     ELSE IF r.raises /\ offset > 5 THEN Least(d + IF offset = 6 THEN 1 ELSE 2, NumDr(r) - 1)
     ELSE Greatest(0, d - o)

\* region_get_max_payload()
MaxPayloadAt(r, dr) == r.payload[dr + 1]

\* A frequency of a CFList is read with its three bytes in reverse.
Reversed(freq) ==
  (freq % 256) * 65536 + ((freq \div 256) % 256) * 256 + freq \div 65536

\* region_cflist_type_a(): the entries that lie in the band are channels; the
\* count of channels rises all the same.
ApplyTypeA(r, chan, freqs) ==
  LET start == r.cflist.start
      read  == [ch \in start .. start + 4 |-> Reversed(freqs[ch - start + 1])]
      taken == {ch \in DOMAIN read : InBand(r, read[ch])}
  IN [num |-> Greatest(chan.num, r.cflist.least),
      max |-> Greatest(chan.max, r.cflist.least),
      written |-> [ch \in taken \cup DOMAIN chan.written |->
                     IF ch \in taken THEN read[ch] ELSE chan.written[ch]],
      on |-> chan.on \cup taken]

\* region_cflist_type_b()
ApplyTypeB(chan, mask) == [chan EXCEPT !.on = {ch \in mask : ch < chan.num}]

\* region_apply_cflist(): a list of the other type is ignored.
ApplyCFList(r, chan, list) ==
  IF list.type # r.cflist.type THEN chan
  ELSE IF list.type = "A" THEN ApplyTypeA(r, chan, list.freqs)
  ELSE ApplyTypeB(chan, list.mask)
=============================================================================
