\* Two messages, one with a client_msg_id; both numbers may be of one of them.
SPECIFICATION Spec
CONSTANTS
  Customers = {c1}
  Staff = {s1}
  Sends = {k1, k2}
  Keyed = {k1}
  Files = {f1, f2}
  Procs = {p1, p2}
  MaxNumber = 2
  Batch = 1
  Null = Null
SYMMETRY Symmetry
CONSTRAINTS ReadsOrFiles CustomersFiles CustomersRepeat
INVARIANTS MessageOnce SentFileIsWhole
PROPERTIES CursorsStand ImplementsChatLog
CHECK_DEADLOCK FALSE
