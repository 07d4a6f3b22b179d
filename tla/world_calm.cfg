CONSTANTS
  Full = 3
  Wrap = 6
  UpNum = 12
  UpDen = 10
  CalibMin = 2
  CalibMax = 4
  Channel = {c1}
  Fns = {"UP", "DOWN", "STOP"}
  TravelTimes <- MCRealTravel
  Uploads <- MCNoUpload
  Shade = 1
  Faults = {"restart"}
  MaxCmd = 2
  MaxLag = 1
  MaxInputs = 4
  Calm = TRUE
SPECIFICATION WorldSpec
INVARIANT
  EstimateWithinLatency
CHECK_DEADLOCK FALSE
