SPECIFICATION Spec
CONSTANTS
  Books = {b1}
  Users = {u1}
  Orders = {o1, o2}
  CartOrders = {o2}
  UserOf <- UserOfAll
  Request <- EachOne
  InitStock <- StockOne
  InitCart <- CartOne
  OnSale = {b1}
  Web = {w1, w2}
  Sweeper = Sweeper
  MaxItems = 10
  MaxInFlight = 3
  MaxCrashes = 1
  None = None
  Absent = Absent
SYMMETRY WebSymmetry
CHECK_DEADLOCK FALSE
PROPERTIES
  CartReservationIsExact
