CONSTANTS
  Full = 3
  Wrap = 8
  UpNum = 3
  UpDen = 2
  CalibMin = 2
  CalibMax = 4
  Channel = {c1}
  Fns = {"UP", "DOWN"}
  TravelTimes <- MCOneTravel
  Uploads <- MCNoUpload
  Shade = 1
  Faults = {}
  MaxCmd = 2
  MaxLag = 1
  MaxInputs = 2
SPECIFICATION RemoteSpec
PROPERTY
  EstimateFollowsRemote
CHECK_DEADLOCK FALSE
