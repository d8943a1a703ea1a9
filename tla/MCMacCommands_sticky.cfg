\* A refused request is repeated as an accepted one (a violation is expected).
CONSTANTS
  Regions <- MCRegions
  Commands <- RefusedCommands
  Downlinks <- RefusedDowns
  ChannelMasks = {}
  RspSize = 15
  MaxSends = 2
  MaxDownlinks = 1
SPECIFICATION Spec
INVARIANTS
  RepeatsTheAnswer
CHECK_DEADLOCK FALSE
