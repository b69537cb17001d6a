SPECIFICATION InfraSpec
CONSTANTS
  HoursInDay = 4
  Ranges <- MCRanges
  MaxRules = 4
  MaxClock = 1
  MaxAsked = 3
  a1 = a1
  a2 = a2
  Admins = {a1, a2}
  StaffStatuses = {"available", "offline"}
  PlatformStatuses = {"available", "in_use"}
  OcppWords = {"available", "finishing"}
  MaxReports = 3
  MaxCrashes = 1
  k1 = k1
  k2 = k2
  k3 = k3
  Sockets = {k1, k2, k3}
  NoSocket = NoSocket
  c1 = c1
  c2 = c2
  Commands = {c1, c2}
  MaxRestarts = 1
CONSTRAINT MCBound
SYMMETRY MCSymmetry
VIEW MCView
INVARIANTS
  InfraTypeOK
  HourHasOneRule
  StatusIsTold
  ChargerIsReached
PROPERTIES
  EndsAsBegun
CHECK_DEADLOCK FALSE
