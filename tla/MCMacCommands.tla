---------------------------- MODULE MCMacCommands ----------------------------
(* Small instances of MacCommands for TLC. *)
EXTENDS MacCommands

\* A region of each kind that LinkADRReq treats in its own way.
EU868 == [name |-> "EU868", num_channels |-> 3, max_channels |-> 3, num_dr |-> 7]
US915 == [name |-> "US915", num_channels |-> 72, max_channels |-> 72, num_dr |-> 14]
CN470 == [name |-> "CN470", num_channels |-> 96, max_channels |-> 96, num_dr |-> 6]
EU433 == [name |-> "EU433", num_channels |-> 3, max_channels |-> 16, num_dr |-> 7]
MCRegions == {EU868, US915, CN470, EU433}

LinkAdr(dr, mask, cntl) == [cid |-> "LinkADRReq", dr |-> dr, power |-> KeepField,
                            mask |-> mask, cntl |-> cntl, nb_rep |-> 0]
Setting(cid, valid) == [cid |-> cid, valid |-> valid, value |-> "new"]
Plain(cid) == [cid |-> cid, value |-> "new"]

Down(fopts, port0) == [fopts |-> fopts, port0 |-> port0]
LinkAdrDowns ==
  {Down(<<LinkAdr(dr, mask, cntl)>>, <<>>) :
     dr \in {1, 14}, mask \in {{}, {8}}, cntl \in {0, 5, 6}}
  \cup {Down(<<LinkAdr(KeepField, {0}, 7)>>, <<>>)}
\* Requests in both parts of a frame, refused ones and an unknown one among them.
MixedDowns ==
  {Down(<<Setting("RXParamSetupReq", TRUE), Plain("DevStatusReq")>>, <<Plain("RXTimingSetupReq")>>),
   Down(<<Setting("DlChannelReq", TRUE), Plain("LinkCheckAns"), Plain("DutyCycleReq")>>,
        <<Plain("DeviceTimeAns"), Plain("TxParamSetupReq")>>),
   Down(<<Plain("unknown"), Plain("DutyCycleReq")>>,
        <<[cid |-> "NewChannelReq", valid |-> TRUE, channel |-> 3]>>),
   Down(<<Setting("RXParamSetupReq", FALSE)>>, <<Setting("DlChannelReq", FALSE)>>),
   Down(<<>>, <<>>)}

MCDownlinks == MixedDowns \cup LinkAdrDowns
CommandsOf(downs) ==
  UNION {{d.fopts[i] : i \in DOMAIN d.fopts} \cup {d.port0[i] : i \in DOMAIN d.port0} : d \in downs}
MCCommands == CommandsOf(MCDownlinks)
RefusedDowns == {Down(<<Setting("RXParamSetupReq", FALSE)>>, <<>>)}
RefusedCommands == CommandsOf(RefusedDowns)
MCMasks == {{0}}
=============================================================================
