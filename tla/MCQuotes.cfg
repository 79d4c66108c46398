\* Offers and their acceptance, and two replicas that sweep the sections.
SPECIFICATION Spec
CONSTANTS
  Stores = {s1, s2}
  First = o1
  Orders = {o1, o2}
  Prices = {1}
  Procs = {p1, p2}
  Replicas = {r1, r2}
  MaxVersion = 2
  MaxAge = 2
  Null = Null
SYMMETRY Symmetry
CONSTRAINT AgedOrBusy
INVARIANTS AcceptedIsPriced AcceptedHasDocument ToldOnce
CHECK_DEADLOCK FALSE
