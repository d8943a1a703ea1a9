\* The class changes while the acknowledgement is sent (a violation is expected).
CONSTANTS
  Liberties = {"class"}
  MaxArrivals = 1
  MaxSends = 1
  MaxChanges = 3
  MaxFaults = 0
SPECIFICATION Spec
INVARIANTS
  PausedWhileSending
CHECK_DEADLOCK FALSE
