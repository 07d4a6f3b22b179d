CONSTANTS
  Full = 3
  Wrap = 32
  UpNum = 3
  UpDen = 2
  CalibMin = 2
  CalibMax = 4
  Channel = {c1}
  Fns = {}
  TravelTimes <- MCOneTravel
  Uploads <- MCNoUpload
  Shade = 1
  Faults = {}
  MaxCmd = 2
  MaxLag = 1
  MaxInputs = 3
SPECIFICATION ClaimSpec
INVARIANT
  StopsWhereAsked
CHECK_DEADLOCK FALSE
