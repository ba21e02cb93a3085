CONSTANTS
  Files = {f1}
  f1 = f1
  Uploads = {g1, g2}
  g1 = g1
  g2 = g2
  NoUpload = NoUpload
  NoEvent = NoEvent
  EventsSize = 1
  TaskSize = 1
  Expiration = 1
  MaxPending = 1
  Times = {1}
  MaxCrash = 1
SPECIFICATION Spec
SYMMETRY Interchangeable
CHECK_DEADLOCK FALSE
INVARIANTS TypeOK HistoryChannelsOpen OpenChannelsKnown HistoryWasSent
PROPERTIES ImplementsFileSync
