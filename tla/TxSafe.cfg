CONSTANTS
  t1 = t1  t2 = t2  c1 = c1  c2 = c2  c3 = c3
  NoTx = NoTx
  Sub = {c1, c2}
  Tx = {t1}
  Once = {c2}
  Suppress = {c2}
  Goal <- GoalSealed
  Flaky = {c1}
  Failing = {t1}
  Faulty = {t1}
  Levels = {1, 4}
  MaxUnsub = 2
  MaxAddr = 2
SPECIFICATION Spec
INVARIANTS OnePollLoop SubsAccounted UniqueAddresses SubscribersUpToDate
CHECK_DEADLOCK FALSE
