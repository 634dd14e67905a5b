CONSTANTS
  retryLimit = 2
  MaxSockets = 5
  MaxCloses = 2
  StartHeights <- FromLatestAndOne
  RootHeight = 1
  MaxHeight = 5
  EventBlocks = {1, 3, 4}
SPECIFICATION FairSeSpec
INVARIANTS OneConnection RetryBudget NoEventMissed DeliveredInOrder
PROPERTIES CloseEndsStream
CHECK_DEADLOCK FALSE
