CONSTANTS
  Full = 3
  Wrap = 6
  UpNum = 3
  UpDen = 2
  CalibMin = 2
  CalibMax = 3
  Channel = {c1}
  Fns = {"UP", "DOWN", "STOP"}
  TravelTimes <- MCOneTravel
  Uploads <- MCNoUpload
  Shade = 1
  Faults = {}
  MaxCmd = 2
  MaxLag = 1
  MaxInputs = 3
SPECIFICATION FairSpec
INVARIANTS
  StopWithinOneTravel
PROPERTIES
  EstimateFollowsDirection
  MovementEnds
  TargetTakenUp
CHECK_DEADLOCK FALSE
