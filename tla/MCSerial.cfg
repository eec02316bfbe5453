SPECIFICATION SerialSpec
CONSTANTS
  o1 = o1
  b2 = b2
  \* Orders
  Books = {b1, b2}
  Users = {u1}
  Orders = {o1, o2, o3}
  CartOrders = {o3}
  UserOf <- UserOfAll
  Request <- Overlapping
  InitStock <- StockTwo
  InitCart <- CartOnlyB2
  OnSale = {b1, b2}
  Web = {w1}
  Sweeper = Sweeper
  MaxItems = 10
  MaxInFlight = 1
  MaxCrashes = 1
  None = None
  Absent = Absent
  \* RecoProfile
  Events = {e1, e2}
  Views = {e1}
  Consumers = {c1}
  Workers = {builder}
  Readers = {r1}
  MaxRuns = 3
  Prompt = TRUE
  MaxFailures = 2
  MaxOutages = 0
  MaxLapses = 0
CHECK_DEADLOCK FALSE
PROPERTIES
  LedgerImplemented
  SavedIsReflected
