SPECIFICATION SessionSpec
CONSTANTS
  s1 = s1
  s2 = s2
  Sessions = {s1, s2}
  b1 = b1
  Bookings = {b1}
  w1 = w1
  w2 = w2
  Workers = {w1, w2}
  NoSession = NoSession
  NoBooking = NoBooking
  StartAt <- MCStartAt
  EndAt <- MCEndAt
  EarlyEntry = 0
  LateBuffer = 0
  Lookahead = 1
  Grace = 1
  MaxTime = 3
  MaxCharges = 2
  MaxTries = 1
  MaxWire = 1
SYMMETRY MCSymmetry
VIEW MCView
CONSTRAINT MCBound
INVARIANTS
  TwoActiveOnlyIfRaced
  ActiveIsOccupiedUnlessOverwritten
  BusyWhileActing
  BillIsOfOneSession
PROPERTIES
  TerminalIsFinalUnlessStale
CHECK_DEADLOCK FALSE
