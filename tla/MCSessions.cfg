SPECIFICATION SessionsSpec
CONSTANTS
  Browsers = {b1, b2}
  Requests = {r1}
  Tokens = {t1, t2, t3}
  MaxSessions = 2
  MaxFails = 0
  Nil = Nil
CHECK_DEADLOCK FALSE
INVARIANTS OnlyReuseIsReplay
