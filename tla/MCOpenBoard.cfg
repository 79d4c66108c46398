\* The distances are chosen inside and outside the base radius.
SPECIFICATION FairSpec
CONSTANTS
  Deliveries = {d1}
  near = near
  far = far
  Couriers = {near, far}
  Runs = {r1, r2}
  Distance <- MCDistance
  Base = 1
  MaxRadius = 4
  ExpandAfter = 1
  WarnAfter = 3
  RemindAfter = 1
  ExpireAfter = 2
  MaxAge = 3
  Null = Null
INVARIANTS BoardIsWhole RemindedOnce
PROPERTIES ReachNotTakenBack EndsAtFullReach SilentIsWarned ProposalEnds
