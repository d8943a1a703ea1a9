\* The size limit is tested before the data rate drops (a violation is expected).
CONSTANTS
  LsbMod = 8
  FcntMod = 16
  NumDr = 2
  DefaultJoinDr = 1
  AdrLimit = 1
  AdrDelay = 1
  Lengths = {0, 2}
  Tries = {}
  AdrSettings = {TRUE}
  Classes = {}
  Modes = {"OTAA"}
  MsgTypes = {TRUE, FALSE}
  Downs <- PlainDowns
  MaxCalls = 2
  MaxEpochs = 1
  MaxDown = 2
  MaxDelivered = 2
  MaxPayload <- MCMaxPayload
SPECIFICATION Spec
INVARIANTS
  PayloadFitsDr
CHECK_DEADLOCK FALSE
