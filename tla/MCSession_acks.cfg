\* One activation, Class A and C: acknowledgements owed and paid, lost, late and repeated frames.
CONSTANTS
  LsbMod = 8
  FcntMod = 16
  NumDr = 1
  DefaultJoinDr = 0
  AdrLimit = 1
  AdrDelay = 1
  Lengths = {0}
  Tries = {2}
  AdrSettings = {}
  Classes = {"A", "C"}
  Modes = {"OTAA"}
  MsgTypes = {TRUE, FALSE}
  Downs <- PlainDowns
  MaxCalls = 3
  MaxEpochs = 1
  MaxDown = 2
  MaxDelivered = 2
  MaxPayload <- MCMaxPayload
SPECIFICATION FairSpec
INVARIANTS
  AckOwed
  AckOnce
  OutcomeBacked
PROPERTIES
  SendReturns
CHECK_DEADLOCK FALSE
