SPECIFICATION RaceSpec
CONSTANTS
  User = {u1, u2}
  p1 = p1
  p2 = p2
  single = single
  pair = pair
  gift = gift
  Product = {p1, p2}
  Cart = {single, pair}
  FreeCart = {}
  Quantity <- MCQuantity
  Supply <- MCSupply
  Request = {r1, r2}
  MaxOrders = 2
  MaxFaults = 1
SYMMETRY SlotsAndUsers
INVARIANTS StockConserved CapturedHasOrder
PROPERTIES Promise
CHECK_DEADLOCK FALSE
