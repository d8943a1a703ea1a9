\* The Class C window does not follow RX2 (a violation is expected).
SPECIFICATION Spec
CONSTANTS
  Builds   <- EuropeOnly
  Accepts  <- MCAccepts
  Requests <- MCRequests
  Masks = {{2}}
  Rates = {3}
  DevNonces = {n1, n2}
  Draws = {9}
  Fills = {0}
  AirTimes = {940}
  MaxFrames = 3
  MaxFaults = 0
INVARIANTS ClassCListensOnRx2
