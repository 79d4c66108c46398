SPECIFICATION Spec
CONSTANTS
  Apps = {a1, a2}
  Docs = {d1, d2}
  Invites = {i1}
  Phones = {ph1}
  Procs = {p1, p2}
  Null = Null
SYMMETRY Symmetry
INVARIANTS HiredIsWhole InviteServesOne PapersKept
PROPERTIES JoinsByStandingInvite
