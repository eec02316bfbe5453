SPECIFICATION UserSpec
CONSTANTS
  \* Accounts, Sessions
  Browsers = {br1}
  Requests = {r1, r2}
  Tokens = {k1, k2}
  Forms = {f1, f2}
  Passwords = {p1, p2}
  Codes = {c1, c2}
  MaxSessions = 1
  MaxFails = 1
  Nil = Nil
  \* Support
  Devices = {d1, d2}
  Managers = {m1, m2}
  MaxChats = 2
  MaxEvents = 5
  MsgLimit = 1
  ViolationLimit = 2
  None = None
  \* Agents
  Users = {u1}
  Turns = {t1, t2}
  Books = {"b1", "b2", "b3"}
  Works = {"w1", "w2"}
  WorkOf <- MCWorkOf
  Windows <- MCWindows
  MaxRounds = 1
  RecursionLimit = 5
  MaxHistory = 2
  MaxShown = 3
  SearchLimit = 1
  MaxStimuli = 3
  Nobody = Nobody
SYMMETRY Swaps
CONSTRAINT Bounded
CHECK_DEADLOCK FALSE
INVARIANTS
  TypeOK
  ActivatedAsConfirmed
  SpentIsDead
  SessionsWithinLimit
  HeldIsListed
  SupportTypeOK
  OneManagerPerChat
  NewestDeviceStays
  CacheTrailsItsWriter
  LimitsAreLifted
  NoQuestionLost
  AgentsTypeOK
  WindowsEnd
  TurnsOverlapOnlyBySlack
  NoExchangeForgotten
  NoWorkTwice
