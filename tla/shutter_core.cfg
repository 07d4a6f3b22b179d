CONSTANTS
  Full = 3
  Wrap = 8
  UpNum = 3
  UpDen = 2
  CalibMin = 2
  CalibMax = 4
  Channel = {c1}
  Fns = {"UP", "DOWN", "STOP", "SHADE"}
  TravelTimes <- MCTravel
  Uploads <- MCUploads
  Shade = 1
  Faults = {"restart", "session"}
  MaxCmd = 2
  MaxLag = 2
  MaxInputs = 3
SPECIFICATION Spec
INVARIANTS
  TrackerFollowsMotor
  Consistent
  PendingHasTelegram
PROPERTIES
  RestIsPublished
CHECK_DEADLOCK FALSE
