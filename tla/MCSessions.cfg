SPECIFICATION Spec
CONSTANTS
  Devices = {d1, d2}
  Procs = {p1, p2}
  MaxTokens = 3
  MaxCodes = 1
  DailyLimit = 2
  MaxAttempts = 2
  MaxVersion = 2
  Null = Null
CONSTRAINT OfTwoTokens
SYMMETRY Symmetry
INVARIANTS CodeOpensOneSession OneTokenPerSession ReuseEndsSessions PasswordEndsSessions
PROPERTIES SessionsGoOn
CHECK_DEADLOCK FALSE
