SPECIFICATION ObserversSpec
CONSTANTS
  l1 = l1
  l2 = l2
  l3 = l3
  u1 = u1
  u2 = u2
  h1 = h1
  h2 = h2
  p1 = p1
  g1 = g1
  g2 = g2
  f1 = f1
  f2 = f2
  f3 = f3
  r1 = r1
  r2 = r2
  r3 = r3
  s1 = s1
  s2 = s2
  Letters = {l1, l2, l3}
  NoLetter = NoLetter
  KindOf <- MCKind
  CustomerOf <- MCCustomer
  Customers = {u1, u2}
  NoOne = NoOne
  Hands = {h1, h2}
  Phones = {p1}
  Signers = {g1, g2}
  NoPhone = NoPhone
  DayLength = 3
  QuietHours <- MCQuiet
  MaxPosts = 2
  Facts = {f1, f2, f3}
  NoFact = NoFact
  SortOf <- MCSort
  Keepers = {h1, h2}
  MaxFacts = 2
  Runs = {s1, s2}
  NoRun = NoRun
  Readings = {r1, r2, r3}
  NoReading = NoReading
  RunOf <- MCRunOf
  Named = {r1, r3}
  Takers = {h1}
  BatchSize = 2
  ArchiveSize = 2
  d1 = d1
  d2 = d2
  d3 = d3
  Places = {s1, s2}
  NoPlace = NoPlace
  Dates = {1, 2, 3, 4}
  DayHours = {0, 1}
  DayTables <- MCDayTables
  HourTables <- MCHourTables
  NoRow = NoRow
  Rides = {d1, d2, d3}
  Window = 2
  TopRows = 1
  PeakRanks = 1
  LastHour = 3
CONSTRAINT MCBound
SYMMETRY MCSymmetry
INVARIANTS
  ObserversTypeOK
  
  
  ReadingsAreKept
CHECK_DEADLOCK FALSE
