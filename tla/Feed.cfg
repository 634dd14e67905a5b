CONSTANTS
  Sub = {s1, s2}
  Stream = {s1, s2}
  EventBlocks = {1, 3}
  MaxHeight = 3
  MaxFailures = 1
  MaxItems = 2
SPECIFICATION FairSpec
INVARIANTS OneTickLoop ToldInOrder LeftForGood
PROPERTY PolledEventsHeard
CHECK_DEADLOCK FALSE
