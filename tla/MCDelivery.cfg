CONSTANTS
  Deliveries = {d1}
  Couriers = {c1, c2}
  Procs = {p1, p2}
  Fees = {10, 20}
  MaxTries = 2
  MaxCodes = 3
  NoCourier = NoCourier
  NoFee = NoFee
SPECIFICATION Spec
SYMMETRY Symmetry
INVARIANTS
  FeeConsent
  BoardIsSettled
  TripHasCodeAndLink
PROPERTIES
  TableOrOrderCancelled
  ImplementsCustody
CHECK_DEADLOCK FALSE
