\* Two pages behind one address share its burst of two and the last units of the product.
SPECIFICATION StoreFairSpec
CONSTANTS
  ip = ip
  o1 = o1
  o2 = o2
  None = None
  Clients = {ip}
  Limit = 2
  Interval = 2
  Orders = {o1, o2}
  ClientOf <- MCClientOf
  Clicks = {1, 2}
  Stock = 2
INVARIANTS
  StoreInv
  WindowBounded
  BurstRestored
  ShownIsReserved
  ReportedOnce
PROPERTIES
  RoomReturns
  FormComesBack
