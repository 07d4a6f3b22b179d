CONSTANTS
  Least = 2
  Full = 4
  Most = 5
  Size = 7
  MaxBursts = 3
  MaxMissing = 1
  Remote = {r1, r2}
  Button = {"UP", "STOP"}
  Mask = {"whole", "bare"}
  Hold = 4
  RunGap = 2
  RepeatGap = 1
  MaxPresses = 3
  W = 6
  Window = 3
  Bursts <- MCBursts
  SetTo <- MCByHand
  MaxCommands = 4
  MaxCrashes = 3
  MaxFaults = 2
SYMMETRY RemoteSymmetry
SPECIFICATION RadioSpec
INVARIANTS
  FrameIsOneBurst
  NothingVanishes
  OneReportPerPress
  EveryPressReported
  ShadeIsLongStop
  CrashCostsOneBurst
  RefusedWritesAddUp
PROPERTIES
  TakenInOrderOnce
  NoHalfComesLate
CHECK_DEADLOCK FALSE
