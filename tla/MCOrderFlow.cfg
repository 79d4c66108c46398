CONSTANTS
  s1 = s1
  Stores = {s1}
  Deliveries = {d1, d2}
  StoreOf <- OneStore
  Jobs = {j1}
  Procs = {p1}
  MaxOwed = 2
  Chosen = {"paid", "packing", "Done", "cancelled"}
  WantsPickup = TRUE
  None = None
SPECIFICATION Spec
INVARIANTS
  InstallAfterDelivery
  OnTheWayIsShown
  StatusFollowsStages
PROPERTIES
  FinishedStays
  JobsFollowCancellation
  DoneWhenAllDelivered
CHECK_DEADLOCK FALSE
