SPECIFICATION Spec
CONSTANTS
  User = {u1}
  p1 = p1
  p2 = p2
  single = single
  pair = pair
  gift = gift
  Product = {p1}
  Cart = {single}
  FreeCart = {}
  Quantity <- MCQuantity
  Supply <- MCSupply
  Request = {r1, r2}
  MaxOrders = 1
  MaxFaults = 0
PROPERTY PaidStaysPaid
CHECK_DEADLOCK FALSE
