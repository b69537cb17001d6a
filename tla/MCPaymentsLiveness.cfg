SPECIFICATION FairSpec
CONSTANTS
  g1 = g1
  u1 = u1
  r1 = r1
  v1 = v1
  w1 = w1
  w2 = w2
  booking = booking
  nobody = nobody
  Txns = {g1, u1, r1, v1}
  Workers = {w1, w2}
  NoTxn = NoTxn
  NoWorker = NoWorker
  Kind <- MCKind
  Related <- MCRelated
  Amount <- MCAmount
  OpeningBalance = 0
CHECK_DEADLOCK FALSE
PROPERTIES
  PendingIsSettled
