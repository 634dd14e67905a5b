CONSTANTS
  t1 = t1  t2 = t2  c1 = c1  c2 = c2  c3 = c3
  NoTx = NoTx
  Sub = {c1, c2}
  Tx = {t1, t2}
  Once = {c2}
  Suppress = {}
  Goal <- GoalSealed
  Flaky = {}
  Failing = {}
  Faulty = {}
  Levels = {1, 4}
  MaxUnsub = 1
  MaxAddr = 2
SPECIFICATION Spec
PROPERTY OnceResolvesOwn
CHECK_DEADLOCK FALSE
