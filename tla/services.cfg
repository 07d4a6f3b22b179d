CONSTANTS
  Timer = {0}
  Setups <- MCSetups
  Hours = 2
  Minutes = 3
  Week = 2
  Sun <- MCSun
  LastTime = 40
  MaxDisturbed = 2
  Lines = 3
  LoopTask = "loop"
  OtherTasks = {"tcp"}
  FewestFit = 1
  MaxMessages = 6
  Releases = {"r1", "r2"}
  Channels = 2
  Groups = 1
SPECIFICATION ServicesSpec
INVARIANTS
  NewestFirstHasNoGap
  WatchdogFollowsUpdates
  ReleaseHasOneOwner
PROPERTIES
  DailyWithinLimits
  CalmDumpIsTheLog
  CommandsAreRouted
CHECK_DEADLOCK FALSE
