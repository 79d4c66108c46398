\* Leader and executor of one job: one completes while the other asks for a new price.
SPECIFICATION Spec
CONSTANTS
  Jobs = {j1}
  Leader = ldr
  Others = {m1}
  Procs = {p1, p2}
  Quoted = 2
  Offers = {3}
  VisitFee = 1
  NewPrices = {1, 3}
  MaxAttempts = 2
  Null = Null
PROPERTY CompletedAtAgreedPrice
CHECK_DEADLOCK FALSE
