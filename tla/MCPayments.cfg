SPECIFICATION Spec
CONSTANTS
  g1 = g1
  k1 = k1
  k2 = k2
  s1 = s1
  u1 = u1
  x1 = x1
  w1 = w1
  w2 = w2
  booking = booking
  session = session
  nobody = nobody
  Txns = {g1, k1, k2, s1, u1, x1}
  Workers = {w1, w2}
  NoTxn = NoTxn
  NoWorker = NoWorker
  Kind <- MCKind
  Related <- MCRelated
  Amount <- MCAmount
  OpeningBalance = 2
SYMMETRY MCSymmetry
CHECK_DEADLOCK FALSE
INVARIANTS
  AnnouncedOnce
  MoneyMatchesStatus
  OverdrawnOnlyIfUnlocked
