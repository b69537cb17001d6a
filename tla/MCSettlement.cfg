SPECIFICATION SettlementSpec
CONSTANTS
  bk = bk
  wi = wi
  gu = gu
  Stays = {bk, wi, gu}
  Booked = {bk}
  Guests = {gu}
  NoStay = NoStay
  b1 = b1
  b2 = b2
  Billers = {b1, b2}
  c1 = c1
  c2 = c2
  Closers = {c1, c2}
  r1 = r1
  Readers = {r1}
  MaxForced = 1
  MaxIdle = 1
  MaxMeter = 2
  d1 = d1
  d2 = d2
  Debts = {d1, d2}
  t1 = t1
  Topups = {t1}
  NoMessage = NoMessage
  iam = iam
  ses = ses
  Services = {iam, ses}
  Iam = iam
  Consumers = {c1, c2}
  AmountOf <- MCAmount
  e1 = e1
  e2 = e2
  e3 = e3
  e4 = e4
  Entries = {e1, e2, e3, e4}
  ca = ca
  cb = cb
  Posts = {ca, cb}
  PostOf <- MCPost
  ScoreOf <- MCScore
  RankOf <- MCRank
  NoEntry = NoEntry
  Notifiers = {c1, c2}
  MaxStarts = 2
  Grid = 3
  Prices = {1, 2, 3}
  Budgets = {2, 3, 4}
  Spans <- MCSpans
  Metrics = {1, 2, 3}
CONSTRAINT MCBound
SYMMETRY MCSymmetry
INVARIANTS
  
  
  DebtIsRemembered
  
  
CHECK_DEADLOCK FALSE
