\* Counter 0 is accepted again (a violation is expected).
CONSTANTS
  LsbMod = 8
  FcntMod = 16
  NumDr = 1
  DefaultJoinDr = 0
  AdrLimit = 1
  AdrDelay = 1
  Lengths = {0}
  Tries = {}
  AdrSettings = {}
  Classes = {}
  Modes = {"OTAA"}
  MsgTypes = {TRUE, FALSE}
  Downs <- PlainDowns
  MaxCalls = 2
  MaxEpochs = 1
  MaxDown = 2
  MaxDelivered = 2
  MaxPayload <- MCMaxPayload
SPECIFICATION Spec
INVARIANTS
  NoReplayDelivered
CHECK_DEADLOCK FALSE
