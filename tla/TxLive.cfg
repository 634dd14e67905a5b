CONSTANTS
  t1 = t1  t2 = t2  c1 = c1  c2 = c2  c3 = c3
  NoTx = NoTx
  Sub = {c1, c2}
  Tx = {t1}
  Once = {c1}
  Suppress = {}
  Goal <- GoalSealed
  Flaky = {c2}
  Failing = {t1}
  Faulty = {t1}
  Levels = {1, 3, 4}
  MaxUnsub = 0
  MaxAddr = 2
SPECIFICATION FairSpec
PROPERTIES FeedRefined OnceResolvesOwn OnceSettles SealReachesSubscribers
CHECK_DEADLOCK FALSE
