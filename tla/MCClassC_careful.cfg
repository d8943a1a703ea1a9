\* Class C with an application that changes nothing under a running uplink.
CONSTANTS
  Liberties = {}
  MaxArrivals = 3
  MaxSends = 2
  MaxChanges = 3
  MaxFaults = 1
SPECIFICATION FairSpec
INVARIANTS
  TypeOK
  RadioExclusive
  NoLostWakeup
  HandedOnce
PROPERTIES
  FrameIntact
  ListensAgain
  AckWorkEnds
CHECK_DEADLOCK FALSE
