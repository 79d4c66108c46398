SPECIFICATION Spec
CONSTANTS
  Jobs = {j1}
  Leader = ldr
  Others = {m1}
  Procs = {p1, p2}
  Quoted = 2
  Offers = {3}
  VisitFee = 1
  NewPrices = {1, 3}
  MaxAttempts = 1
  Null = Null
INVARIANTS  FreshVisit VisitAtAgreedTime ExecutorsOfACrew CountedOnce
 
\* a completed or cancelled job may have no further step
CHECK_DEADLOCK FALSE
