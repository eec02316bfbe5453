SPECIFICATION FairSpec
CONSTANTS
  Books = {b1}
  Users = {u1}
  Orders = {o1, o2}
  CartOrders = {o2}
  UserOf <- UserOfAll
  Request <- EachOne
  InitStock <- StockOne
  InitCart <- CartOne
  OnSale = {b1}
  Web = {w1}
  Sweeper = Sweeper
  MaxItems = 10
  MaxInFlight = 2
  MaxCrashes = 1
  None = None
  Absent = Absent
CHECK_DEADLOCK FALSE
INVARIANTS
  IInv
  PaidOnlyIfCompleted
  NeverCanceledWhilePayable
  StatusAgreesWithPayment
PROPERTIES
  ReservationIsExact
  PendingIsSettled
  CompletedIsRecorded
