\* Joins, uplinks and requests that move the windows, in EU868 and US915, with one fault.
SPECIFICATION Spec
CONSTANTS
  Builds   <- MCBuilds
  Accepts  <- MCAccepts
  Requests <- MCRequests
  Masks <- AllChannels
  Rates = {3}
  DevNonces = {n1, n2}
  Draws = {9}
  Fills = {0, 1, 14}
  AirTimes = {940, 1990}
  MaxFrames = 4
  MaxFaults = 1
INVARIANTS TypeOK AnswerNotMissed SessionAgrees ChangeToldOn
SYMMETRY Nonces
