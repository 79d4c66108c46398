CONSTANTS
  Deliveries = {d1}
  Couriers = {c1}
  Procs = {p1}
  Fees = {10, 20}
  MaxTries = 1
  MaxCodes = 2
  NoCourier = NoCourier
  NoFee = NoFee
SPECIFICATION Spec
PROPERTY
  AnswerMeetsItsProposal
CHECK_DEADLOCK FALSE
