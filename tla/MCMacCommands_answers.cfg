\* Requests, answers and their repetition, lost and failed uplinks, a small buffer.
CONSTANTS
  Regions <- MCRegions
  Commands <- MCCommands
  Downlinks <- MCDownlinks
  ChannelMasks <- MCMasks
  RspSize = 7
  MaxSends = 2
  MaxDownlinks = 2
SPECIFICATION Spec
INVARIANTS
  TypeOK
  FOptsConsistent
  RequestNotLost
  AnsweredInOrder
  StickyRepeated
PROPERTIES
  AcceptedLeavesChannel
CHECK_DEADLOCK FALSE
