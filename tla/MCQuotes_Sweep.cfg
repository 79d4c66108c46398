\* One process sweeps, and may die, while requests are answered one at a time.
SPECIFICATION FairSpec
CONSTANTS
  Stores = {s1, s2}
  First = o1
  Orders = {o1, o2}
  Prices = {1}
  Procs = {p1}
  Replicas = {r1}
  MaxVersion = 1
  MaxAge = 2
  Null = Null
PROPERTIES SlowStoreIsGivenUp
CHECK_DEADLOCK FALSE
