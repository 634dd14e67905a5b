CONSTANTS
  Call = {c1, c2}
  Sub = {s1}
  Kinds <- TwoKinds
  InitStored <- Visited
  Nothing = Nothing
  Outdated = Outdated
  NoOne = NoOne
  MaxLogouts = 1
  MaxReloads = 1
  MaxTime = 1
SPECIFICATION Spec
INVARIANTS ToldIsKept LoginResolvesItself LogoutHolds ExpiredStaysOut CallsAnswered
CHECK_DEADLOCK FALSE
