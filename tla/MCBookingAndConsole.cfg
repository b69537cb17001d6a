SPECIFICATION BookingAndConsole
CONSTANTS
  b1 = b1
  b2 = b2
  c1 = c1
  p1 = p1
  p2 = p2
  w1 = w1
  w2 = w2
  Bookings = {b1, b2}
  Chargers = {c1}
  Workers = {w1, w2}
  Payments = {p1, p2}
  NoTx = NoTx
  NoWorker = NoWorker
  NoBooking = NoBooking
  ChargerOf <- MCChargerOf
  StartOf <- MCStartOf
  EndOf <- MCEndOf
  PaidFor <- MCPaidFor
  Hold = 1
  Grace = 1
  MaxNow = 2
  m1 = m1
  m2 = m2
  v1 = v1
  c2 = c2
  i1 = i1
  o1 = o1
  Tabs = {w1, w2}
  Asks = {b1, b2}
  MaxLogins = 3
  MaxResends = 1
  Pages = {w1, w2}
  MaxChanges = 2
  Stations = {m1, m2}
  Seeded = {m1}
  Spots = {"north", "south"}
  MapPages = {w1, w2}
  Visits = {v1}
  MaxEvents = 2
  Crew = {c1, c2}
  Posts = {m1, m2}
  PostsOf <- MCPostsOf
  Tickets = {i1}
  Orders = {o1}
  LastHour = 2
CONSTRAINT MCBound
SYMMETRY MCSymmetry
VIEW MCPartView
CHECK_DEADLOCK FALSE
INVARIANTS
  ConsolePagesTypeOK
  DoubleBookingOnlyIfRaced
  OutboxTellsTheRow
  EndsAtMostOnce
  ParkedIsAnswered
  ListedRoleIsGranted
  
  
