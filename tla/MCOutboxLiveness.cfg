SPECIFICATION FairSpec
CONSTANTS
  sync = sync
  ctrl = ctrl
  notify = notify
  e1 = e1
  Events = {e1}
  r1 = r1
  r2 = r2
  Runs = {r1, r2}
  Queues = {sync}
  h1 = h1
  h2 = h2
  Handlers = {h1}
  NoEvent = NoEvent
  NoQueue = NoQueue
  MarksFirst <- MCMarksFirst
  DatabaseOf <- MCDatabaseOf
  MaxRetries = 2
  MaxCopies = 2
PROPERTIES
  EventGetsThrough
CHECK_DEADLOCK FALSE
