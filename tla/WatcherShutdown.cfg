CONSTANTS
  Files = {f1}
  f1 = f1
  Uploads = {g1}
  g1 = g1
  NoUpload = NoUpload
  NoEvent = NoEvent
  EventsSize = 1
  TaskSize = 1
  Expiration = 1
  MaxPending = 1
  Times = {1}
  MaxCrash = 0
SPECIFICATION LiveSpec
CHECK_DEADLOCK FALSE
PROPERTIES WatchReturns
