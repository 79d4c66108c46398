CONSTANTS
  s1 = s1
  Stores = {s1}
  Deliveries = {d1, d2}
  StoreOf <- OneStore
  Jobs = {j1}
  Procs = {p1, p2}
  MaxOwed = 1
  Chosen = {"paid", "packing", "Done", "cancelled"}
  WantsPickup = TRUE
  None = None
SPECIFICATION Spec
INVARIANT
  CancelledHasNoLiveDelivery
CHECK_DEADLOCK FALSE
