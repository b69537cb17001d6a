SPECIFICATION FairSpec
CONSTANTS
  b1 = b1
  c1 = c1
  p1 = p1
  w1 = w1
  w2 = w2
  Bookings = {b1}
  Chargers = {c1}
  Workers = {w1, w2}
  Payments = {p1}
  NoTx = NoTx
  NoWorker = NoWorker
  NoBooking = NoBooking
  ChargerOf <- MCChargerOf
  StartOf <- MCStartOf
  EndOf <- MCEndOf
  PaidFor <- MCPaidFor
  Hold = 1
  Grace = 1
  MaxNow = 2
CHECK_DEADLOCK FALSE
PROPERTIES
  UnpaidSlotIsReleased
  NoShowSlotIsReleased
