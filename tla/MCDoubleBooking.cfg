SPECIFICATION Spec
CONSTANTS
  b1 = b1
  b2 = b2
  c1 = c1
  p1 = p1
  p2 = p2
  w1 = w1
  w2 = w2
  Bookings = {b1, b2}
  Chargers = {c1}
  Workers = {w1, w2}
  Payments = {p1, p2}
  NoTx = NoTx
  NoWorker = NoWorker
  NoBooking = NoBooking
  ChargerOf <- MCChargerOf
  StartOf <- MCStartOf
  EndOf <- MCEndOf
  PaidFor <- MCPaidFor
  Hold = 1
  Grace = 1
  MaxNow = 2
SYMMETRY MCSymmetry
VIEW MCView
CHECK_DEADLOCK FALSE
INVARIANTS
  NoDoubleBooking
