SPECIFICATION Spec
CONSTANTS
  sync = sync
  ctrl = ctrl
  notify = notify
  e1 = e1
  Events = {e1}
  r1 = r1
  r2 = r2
  Runs = {r1, r2}
  Queues = {sync, notify}
  h1 = h1
  h2 = h2
  Handlers = {h1, h2}
  NoEvent = NoEvent
  NoQueue = NoQueue
  MarksFirst <- MCMarksFirst
  DatabaseOf <- MCDatabaseOf
  MaxRetries = 2
  MaxCopies = 2
SYMMETRY MCSymmetry
INVARIANTS
  RepeatedOnlyIf

  
CHECK_DEADLOCK FALSE
