CONSTANTS
  Users = {u1, u2, m}
  u1 = u1
  u2 = u2
  m = m
  Mon = m
  MaxControls = 2
  MaxLeaks = 1
  Refused = Refused
SPECIFICATION MonLiveSpec
CHECK_DEADLOCK FALSE
INVARIANTS TypeOK DoneClosedOnceAtEnd OpenIsReal WalkStaysInList ListsFreedButErrno
PROPERTIES IdleCloserSparesUsers IdleCameraIsClosed JoinReturnsUnlessReopened MonitorReturns
