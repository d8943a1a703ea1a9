\* Two activations by OTAA or ABP, resets at any moment.
CONSTANTS
  LsbMod = 4
  FcntMod = 8
  NumDr = 1
  DefaultJoinDr = 0
  AdrLimit = 1
  AdrDelay = 1
  Lengths = {0}
  Tries = {2}
  AdrSettings = {}
  Classes = {}
  Modes = {"OTAA", "ABP"}
  MsgTypes = {TRUE}
  Downs <- ConfirmedDown
  MaxCalls = 2
  MaxEpochs = 2
  MaxDown = 4
  MaxDelivered = 2
  MaxPayload <- MCMaxPayload
SPECIFICATION Spec
INVARIANTS
  TypeOK
  UplinkNonceUnique
  InSyncAccepts
PROPERTIES
  DeliveryService
CHECK_DEADLOCK FALSE
