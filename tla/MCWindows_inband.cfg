\* A channel list of the usual byte order, then a LinkADRReq (a violation is expected).
SPECIFICATION Spec
CONSTANTS
  Builds   <- EuropeOnly
  Accepts  <- InBandAccepts
  Requests <- InBandRequests
  Masks = {{0}}
  Rates = {3}
  DevNonces = {n1, n2}
  Draws = {0, 5}
  Fills = {0}
  AirTimes = {940}
  MaxFrames = 3
  MaxFaults = 0
INVARIANTS OnAirInBand
