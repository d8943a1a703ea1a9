\* Back-off over two activations: ADR on and off, LinkADRReq, retries with their data rates.
CONSTANTS
  LsbMod = 8
  FcntMod = 16
  NumDr = 2
  DefaultJoinDr = 1
  AdrLimit = 1
  AdrDelay = 1
  Lengths = {0}
  Tries = {3}
  AdrSettings = {TRUE, FALSE}
  Classes = {"C"}
  Modes = {"OTAA"}
  MsgTypes = {TRUE}
  Downs <- AdrDowns
  MaxCalls = 2
  MaxEpochs = 2
  MaxDown = 1
  MaxDelivered = 1
  MaxPayload <- MCMaxPayload
SPECIFICATION Spec
PROPERTIES
  BackoffAfterSilence
CHECK_DEADLOCK FALSE
