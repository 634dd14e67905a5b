CONSTANTS
  x1 = x1  x2 = x2  x3 = x3  n1 = n1  n2 = n2
  Call = {x1, x2, x3}
  Node = {n1, n2}
  NoNode = NoNode
  None = None
  OptsNode <- FromBoth
  Legacy = FALSE
  MaxChanges = 1
  MaxFailures = 2
  MaxClears = 1
SPECIFICATION FairSpec
INVARIANTS OneRequestPerNode CacheHoldsRequests ChainIdOfPinned
PROPERTY CallsReturn
CHECK_DEADLOCK FALSE
