CONSTANTS
  Keys <- MCKeys
  QueueLen = 3
  WebReserve = 1
  Budget = 2
  MaxCost = 2
  MaxInputs = 5
SPECIFICATION FairSpec
INVARIANTS
  WebUIKeepsItsSlots
  DropsAreReported
PROPERTIES
  ImplementsChannel
  DropsGetReported
