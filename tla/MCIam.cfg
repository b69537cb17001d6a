SPECIFICATION IamSpec
CONSTANTS
  s1 = s1
  s2 = s2
  s3 = s3
  Sessions = {s1, s2, s3}
  c1 = c1
  Codes = {c1}
  w1 = w1
  w2 = w2
  Workers = {w1, w2}
  NoSession = NoSession
  MaxPassword = 2
  p1 = p1
  p2 = p2
  p3 = p3
  Plates = {p1, p2, p3}
  m1 = m1
  Macs = {m1}
  NoMac = NoMac
  NoPlate = NoPlate
  VWorkers = {w1, w2}
  MaxVehicles = 2
  q1 = q1
  q2 = q2
  Profiles = {q1, q2}
  a1 = a1
  a2 = a2
  Attendances = {a1, a2}
  NoId = NoId
  SWorkers = {w1, w2}
CONSTRAINT MCBound
SYMMETRY MCSymmetry
VIEW MCView
INVARIANTS
  
  TokensAreSound
  GarageInOrderUnlessRaced
PROPERTIES
  OnlyStaleLooksHarm
CHECK_DEADLOCK FALSE
