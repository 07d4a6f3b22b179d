CONSTANTS
  Reconnect = 1
  ReconnectMax = 5
  Stall = 2
  Patience = 2
  WifiReconnect = 2
  WifiReconnectMax = 3
  Answers = 1
  MaxEvents = 2
  MaxCount = 1
  MaxLag = 2
  Entities = 2
  Optional = {1}
  Bases = {"base", "long/base"}
  TooLong <- MCTooLong
SPECIFICATION OutsideSpec
INVARIANTS
  AvailabilityIsTrue
  LinkIsTrue
PROPERTIES
  PromptAttemptIsLeft
  EventuallyOnline
  EventuallyReachable
  TabIsFilled
  CounterReachesTab
  SweepIsComplete
  EntitiesFollowConfig
CHECK_DEADLOCK FALSE
